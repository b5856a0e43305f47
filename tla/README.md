# Verification of the AD4M wind tunnel

The repository drives AD4M executors through load, convergence, WebRTC and
failure scenarios. It holds a scenario runner, an instrumented RPC client,
WebRTC peers, clusters of executors, two small servers (git data, ActivityPub
group) on which link languages converge, and 63 scenarios that put these
together. This directory models the parts whose correctness depends on the
order of events, checks them with TLC, and proves the safety properties of all
of them with TLAPS.

## Inventory

| Part | State it keeps | Operations | Interacts with | What makes it hard / correct |
|---|---|---|---|---|
| Git data server, `infra/git-data-shim.mjs` | `locks` (promise per repository), repositories on disk: objects and branches | GET/POST/PATCH refs; GET/POST commits, trees, blobs | HTTP requests of two executors' git-link-language | every handler awaits; an update must not interleave with another on its repository; a failing or stalled request must not block others |
| RPC client, `src/client.ts` | `ws`, `requestId`, `pendingRequests`, a timer per call | connect, disconnect, wsCall, message and close handlers | executor over a WebSocket; all scenarios | late, lost and reordered answers, timeouts, closes: each call settles once with its own answer |
| Scenario runner, `src/main.ts`, and executor life cycle, `src/executor.ts` | results, `proc`/`proc2`, OS processes, ports, escalation timers | start, waitForHealth, run, stop; per-branch loop; verdict | executor processes on fixed ports | nested failures; a process that outlives its scenario |
| Events client and renegotiation, `src/events.ts`, `src/renegotiation.ts`, signalling of `src/peer.ts` | listeners; promise chain of offers, counters; signalling state | on/off, applyOffer, detach; createOffer, acceptAnswer, createAnswer, close | SFU events, peer, RPC client | offers overtake the peer's own answer, arrive during an offer or a detach; a call that fails half way |
| Cascade cluster, `src/cascade.ts` | node processes, ports, data directories, clients | startCluster, shutdown | executors gossiping among themselves | leftovers of earlier clusters, partial start-up, signals and exit codes |
| Users and SFU joins, `src/users.ts`, `src/mesh.ts`, `src/net.ts` | peers, sessions, rooms, network rules | provision, register, join, leave, connectAll, setNetem, dropTcpPorts, clearPartition | everything above | half-built groups, order of the teardown |
| Scenarios, `src/scenarios/` | what `run` has got hold of, what it has seen, its verdict | `run` | everything above | every call may fail: cleanup, early returns, tasks beside the scenario, verdicts that claim more than was seen |
| Convergence, `scenarios/c1-convergence.ts`, `src/convergence/*.ts` | two perspectives, expected link set | write, poll, remove, verdict | two executors and a backend (git or AP server) | push refused, pull, merge, retry; verdict from queries that may fail |
| Remote peer server, `src/peer-server.ts` | one global peer, ICE candidates to be fetched | HTTP signalling | w1m on another machine | candidates early, late or of an older peer |
| AP group shim, `infra/ap-group-shim.mjs` | per group: activities by id, order, index by diff | inbox, outbox, diffs | two executors' ap-link-language | re-delivery, order |
| Agent pod, MCP client: `agent-pod.ts`, `mcp-client.ts` | container, session id, request ids | start, wait, rpc over SSE | Docker, executor MCP | deadline of a silent stream |
| Agent drivers, mock LLM, shell and Python scripts | - | set-up and assertions | Docker, plug-ins outside the repository | sequential I/O |
| Reports, configuration | - | formatting, aggregation | - | - |

`PROJECT.json` lists each with its status, and the hazards with the line at
which each bites.

## Modules

| Module | Models | Read with |
|---|---|---|
| `RepoLock` | `withLock` | `infra/git-data-shim.mjs` 62-86 |
| `GitShim` (extends `RepoLock`) | the server: body, lock, `ensureRepo`, handlers, errors | 99-113, 226-478 |
| `RefStore` | what the server promises of branches, each request in one step | abstract |
| `RpcClient` | `InstrumentedClient` and the wire to the executor | `src/client.ts` 21-111 |
| `ExecutorRunner` | `runScenariosForBranch`, `startExecutor`, `waitForHealth`, `stopExecutor`, processes and ports | `src/main.ts` 105-270, `src/executor.ts` 153-263 |
| `Renegotiation` | `wireRenegotiation`, event delivery, the peers' signalling, an SFU, as t8 and f5 use them | `src/renegotiation.ts`, `src/events.ts`, `src/peer.ts`, t8, f5, f8 |
| `Cluster` | `startCluster` and `shutdown`, several times over, with executors that bind late and linger | `src/cascade.ts` |
| `ScenarioSteps` | the vocabulary of the scenarios: calls, resources, tasks, try/finally | - |
| `ScenarioSlices` | what the steps of a scenario say about all its runs: views of one or two things, claims or tasks, and the rules they have to obey | - |
| `ScenarioRun` | the execution of such steps, every call failing or not | `src/main.ts` 204-246 |
| `ScenariosLoad`, `ScenariosSfu`, `ScenariosCascade`, `ScenariosMesh`, `ScenariosSync` | the `run` function of each of the 63 scenarios, with the helpers of `users.ts`, `mesh.ts`, `cascade.ts` and `net.ts` they share | `src/scenarios/` |
| `*Proofs` | theorems of the module they are named after (`GitHistoryProofs`: more of `GitShim`) | |
| `MC*` | constants for TLC | |

`GitShim` composes the handlers with the lock by extending it, and implements
`RefStore` and `RepoLock` by refinement mappings. `Renegotiation` composes four
parts in one module: two peers' wiring, their connections, the events
sockets and the SFU. `ScenarioRun` composes a scenario with the tasks it starts
and, from the outside, with a world that may refuse any call.

### RepoLock

A promise is named by the request that created it; it is settled exactly when
that request has released, so `Settled(p)` stands for the promise and `tail` for
the map `locks` (`NoRequest`: no entry). `Enqueue` is the synchronous prefix of
`withLock`, which reads the map and stores its own promise in one turn of the
event loop; `Admit` is the continuation of `await prev`; `Release` is the
`finally` block. `ticket` and `issued` are history variables for the order of
arrival.

### GitShim

One action per turn of the event loop in `requestHandler` and its handlers.
`Arrive` covers a request up to its first await: a GET reaches `withLock` at
once, a POST or PATCH waits for its body (`BodyRead`, `BodyFails`). `Enter` is
`Admit`. `PatchRef` resolves the branch and decides; `WalkReads` is one object
read by `isDescendent`, `WalkRefuses` its end without success or its exception
at an object that is missing or no commit, `WriteRef` the write, `Reply` the
answer with the release. `WalkFails` is a read that fails although the object
is there (disk, number of open files): the catch of lines 366-368 does not tell
the two apart, so `RefuseOnFailure` answers 422. `Throws` is any other
exception. A failing read while a branch is resolved (332-337, 345-350) counts as a
missing branch in the code; it is not modelled, `resolveRef` finds what is
there. A crash of the server loses the requests and keeps the disk,
so a restart is an initial state with another member of `Disks`. Objects are
named by their hash; a commit's parents are part of its name (`Parents`), so
`Ancestor` is a constant: a transitive relation that contains the parents and
relates a commit to nothing outside the histories that contain it.
isomorphic-git is outside the repository; the walk is modelled as exploring in
any order and `resolveRef`/`writeRef` as atomic reads and writes of one branch.

### RpcClient

A call is named by the model; its id is given by `requestId` as in the code.
The map is a set of entries, and each promise has a state. `Deliver`, `Timeout`
and `Closed` are the three ways out. `connect` may be called at any time and
leaves the earlier socket to finish by itself: its messages and its close event
still act on the client's one map. The executor answers a request at most once,
in any order, or never; the network may lose what is in flight by closing.

### ExecutorRunner

The position of the runner is `pc`, `results` is the array it returns. A process
`<<i, j>>` is the j-th executor of scenario i, on port j. Boot, exit and the
escalation timer run at their own pace. `StopExecutors` is `stopExecutor`:
`killed` follows Node's `ChildProcess.killed` (a signal was delivered), which is
what the escalation tests. `waitForHealth` and the client ask the port, so they
are answered by whoever holds it. The pause of two seconds and the health
deadline are steps that may come at any time with respect to the processes.
`NextScenario` includes the removal of the data directory; as nothing waits for
the executor to end, `rmSync` may meet one that still writes there and throw, in a
`finally` block that nothing surrounds: `CleanupThrows` ends the loop, without
the results of the scenarios that are left.

### Renegotiation

`frames` are the offers on their way to a peer, `chain` the promises chained on
`pending` in `renegotiation.ts`, `step` where `applyOffer` is with the first of
them. An offer is abstracted to the participants whose tracks it carries.
`Prepare` registers the handler before the peer's own offer is made, as the
scenarios do, so that `Hear` can chain an offer while the peer waits for its own
answer; `SetRemote` and `Glare` are the two ways that ends, the second being the
rejection that `applyOffer` turns into a failure. `SetLocal` sets the answer and
posts it; the post may be taken or lost. `Detach` and `Detached` are the two
halves of `detach()`, before and after its `await pending`; `awaited` counts the
links of the chain up to the promise that `pending` was at that moment (86), so
that later ones could not hold it. The SFU is
outside the repository; it is what the comments of t8, f5 and f8 rely on: one
pending offer per participant, dropped after a timeout and made again, and an
answer to a joiner that covers those who are already there. `burst` chooses
between t8, which joins everybody under one `Promise.all`, and f5, which joins
and leaves one at a time.

### Cluster

The driver is in one place of `startCluster` or `shutdown` (`pc`), for the node
`k` of a loop; an executor `<<r, i>>` is node `i` of the r-th call. Executors
bind their two ports after any time, give up when their WebSocket port is
taken, end by themselves or by a signal, and `exited` is Node's `exitCode`, which
stays null after a signal. `StartThrows` is every exception of `startCluster`,
which stops nobody; `Interrupted` is a driver that ends without `shutdown`. The data
directories are named by the node alone, the ports by the scenario
(`Layouts`), so a leaked node may have other ports than those that are swept.
A process killed with SIGKILL is gone before the half second the code sleeps
is over.

### Scenarios

A scenario is a sequence of steps: the awaited calls of its `run` function that
may throw, what it constructs, opens, keeps for its cleanup and closes, the
tasks it starts and awaits, its tests, early returns, `try`, `catch` and
`finally`, and its verdict. `Iterate` unfolds a loop over peers, nodes or clients
`Width` times. What is measured is a datum that turns out well or not
(`Observe`, `Measure`); sleeps, logging and arithmetic on samples are left out.
`Dial` opens a client by `connect()`, which may wait for ever; `Branch` is an
`if` with an `else`. A
resource is a pair of a kind and a number, a call names those it goes through
and fails if one of them has been let go of. `ScenarioRun` executes the steps:
`held` is what exists, `kept` what the cleanup's variables refer to, so that
something made but not yet kept is out of the cleanup's reach.

`ScenarioSlices` looks at the steps without running them. A slice keeps a few
things, claims and tasks and forgets the rest, so that a scenario has few views
in it: `Outcomes` says which views follow one at a step, `Spread` goes over the
steps once, since control only goes forward, and collects all of them. A rule
asks of these views what a property asks of states, with one thing in view
(`CleansUp`, `LeavesNothing`), a wire with its peer and session (`WiresHeld`, kept or
not), two things (`CallsReach`), a task
(`TasksOver`), a thing and a task (`UsesHeld`) or a claim (`Earns`); `Heard` needs the
steps alone. `WellWritten` are the scenarios that obey the rules which go with
the properties asked of them, and `NoneNeedless` those that are excused only from
rules they break and from claims their verdict does not depend on. `TypeOK` says that the
scenario that runs is in both: all 63 are.

## Runs

| Run | Bounds | Shows |
|---|---|---|
| `repo_lock` | 4 requests, 2 repositories | exclusion, arrival order, tight map, no starvation. Four requests give a holder, two waiters and a late arrival, or two queues |
| `git_push` | 4 requests, 1 branch, base <- left, right <- merge, complete or with `left` missing | no acknowledged push is lost, nothing comes between read and update, reads move forward, a walk whose reads succeed refuses with reason |
| `git_refusal` | 2 requests, as `git_push` | **violated**: see Findings |
| `git_all` | 3 requests out of 13 inputs, a fresh and a filled disk | types, creation once, refinement of `RefStore`, with forced updates and failures |
| `git_live` | 3 requests, 2 repositories | requests that reach the lock are answered; the mutex's fairness is implemented |
| `rpc_client` | 3 calls, 2 sockets | answers match, the map is exact, calls settle. Three calls give one that timed out, one pending and one sent later; two sockets a replacement |
| `runner` | three scenarios: one executor, two (m1), own environment | one result each, no executor forgotten, only lingerers confuse, the run ends |
| `runner_fresh` | as `runner` | **violated**: see Findings |
| `reneg` | 2 peers, burst or not, at most 2 failing calls or expired offers, 2 offers on their way | the join answer fits, `count()` is honest, nothing after detach, detach ends, peers are in step and learn of each other. Two peers give an offer that overtakes an answer on either side, two offers a chain with one waiting; the second failure hits the repetition of the first |
| `scenarios` | each of the 63 scenarios, loops unfolded 3 times | cleanup, leaks, unheard rejections, order of the teardown, earned verdicts, termination. Three rounds give a first, a middle and a last one, and something half built on both sides of a failure |
| `scenario_t13` | t13, loops unfolded twice | **violated**: see Findings |
| `cluster` | 2 calls of `startCluster` on 2 nodes, the ports of t3, t4 and t7 | who is served by whom, under whom a directory is wiped, `shutdown` returns. Two calls give a leftover and its successor; three layouts the same ports, the same gossip ports only, and none shared |

Requests, calls, processes and scenarios are each used once, which bounds the runs; the
named bounds are `MaxLost`, `MaxInFlight` and `MaxStarts`.
`CHECK_DEADLOCK FALSE` is used because a server whose clients have sent all they
will, a room that is torn down, or a runner that has finished, does stop.
`git_push` and `git_all` use the symmetry of requests (safety properties only);
no run with a liveness property does.

Fairness: continuations that are ready run (`Admit`, `Enter`, `Hear`,
`Detached`), handlers end because every file operation ends or throws
(`Handler`), calls have time limits, so they return or throw (`Timeout`,
`Renegotiates`, `StepOn`; those of `fetch` are its default ones), the SFU repeats what it has not got an answer for
(`SfuOffers`, `SfuExpires`), the loops of `shutdown` are bounded and a
process that was killed ends. A task that somebody waits for ends once it is told to, because each works
through calls with time limits (`AwaitedEnd`); nothing is assumed of the others.
`client.connect()` has no limit (client.ts 49-53): its step is fair neither in the
runner nor in a scenario (`Connecting`), and `EveryRunEnds` and `Returns` allow a run
that waits in it for ever, and no other. Clients need not send or
finish a body, executors need not answer, boot or stop by themselves, users need
not leave.

### What the scenarios do not keep

`scenarios` asks each property of every scenario but those `MCScenarios.KnownExceptions`
names. They are the places where the code does not do it:

| Property | Scenario | What it does |
|---|---|---|
| `CleanupReleases` | t13 | Finding `scenario_t13` |
| | failover | the cleanup passes over every peer that is still listed on node A (m3-cascade-failover 205), also when something threw before its turn in the loop that moves them came (150-182); a fresh peer whose stream or offer throws (157-158) is in no list. Those that moved are stored with node B (178) and closed |
| | t6 | the teardown is inside the `try`: a failure before it skips it |
| | tomesh | m2-sfu-to-mesh 115-117 splices the three peers that leave out of the lists; their sessions are never disconnected, for 191 knows the two that stay |
| `WiresHaveTheirPeer` | t13 | its cleanup disconnects the session of a peer whose wire it skipped |
| | f9 | a wire whose join throws (116-149) is in neither list; its session is disconnected (265) |
| | tomesh | a throw leaves the wires listening and disconnects the sessions (187-191) |
| `PassLeavesNothing` | s9 | the socket of its subscriber is not closed when it opens late |
| | s10 | a subscriber that does not open in ten seconds (92) leaves its socket, which may open later; the tier is left out and the scenario passes |
| | t15 | its peers, wires and sessions are constants of the body; the cleanup knows the cluster alone |
| | m2 | an executor is put on the list of the cleanup after its health check (m2-multi-executor-scale 114-116, 157, 193); one that never gets healthy is leaked and the scenario may pass |
| | tomesh | the three sessions above, on every run that gets there |
| `NoRejectionUnheard` | t11 | `evts.connect().then(...)` (175) is not awaited and has no `catch` |
| `InUseIsHeld` | s13, t11 | s13 gives its writers and readers a grace period and closes their clients after it, whether or not they have ended; t11 closes event sockets that may still be connecting |
| `NothingRunsOn` | s13, t11, w1m | the same tasks; in w1m a request for statistics that is under way when the timer is cleared (a throw leaves the poller and the timer themselves running) |

### What the headers claim and the verdicts do not check

`PassIsEarned` asks that a scenario passes only with every assertion of its
header seen (`HeaderClaims`: what it says it asserts, verifies, validates or
confirms), but for these (`HeaderUnchecked`), which it records, weakens or never looks at:

| Scenario | Header says | Verdict |
|---|---|---|
| s9 | no leak under load (4) | always passed (501) |
| t1 | time to media of each peer, upload independent of N (10-12) | 157: received, participants, routing |
| t8 | participant count of all, each peer gets the offers of all others (12-14) | 238: joins, the total of renegotiations, routing |
| t9 | attributions that follow the joins (16-17) | 186: those at the join |
| t10 | layers of distinct resolution (10-11), a ratio of 1.5 (15) | 247: neither |
| t11 | the event targets a participant of node 0 (17) | 216-228: its node, room and neighbourhood |
| t15 | two active layers or more (15) | 241: one, or more than 10 kB sent |
| f3 | Alice's pair is relayed (14-16) | 122: bytes only |
| f4 | existing peers stay, new ones are not sent to B (10-11) | 255: always passed |
| f5 | counts correct throughout (13), joins in bounded time (14-15) | 125: first and last count |
| f6 | the membership check rejects (16-18), `listRooms` still works (19) | 133: any rejection |
| f7 | an auth error (4-5) | 82: any error |
| f8 | the tracks of C reach A (16), the stale offer is cleared (4, 17) | 200: A renegotiated again |
| f9 | the pipe was up and dropped (11, 15), A's peers stay connected (16) | 275-277: the count of pipes reads zero (216-219), whether or not there was one, and A answers |
| w5 | every byte is relayed (25-26) | 132: bytes only |
| max | the last peer gets a redirect and fails (11-14) | 150: counts within the limit |
| c1 | the removal converges as well (22) | 340: the links only |

## Findings

* `runner_fresh`: `main.ts` line 152 announces a fresh executor for each scenario.
  `stopExecutor` escalates to SIGKILL only `if (!proc.killed)`, and `killed` is
  true as soon as SIGTERM was delivered, so it never does. An executor that
  needs more than the two seconds' pause keeps its port, passes the health check
  of the next scenario and serves it, while the fresh one cannot bind.
  `OnlyLingerersConfuse` shows (and a theorem proves) that this is the only way to
  meet a foreign executor of the same run.
* `git_refusal`: the server's header says of a PATCH "200 ff; 422 non-ff"
  (`git-data-shim.mjs` 32). The catch around `isDescendent` (366-368) makes any exception a
  refusal, so a fast forward is refused when the walk meets a parent that is not
  uploaded yet or a read that fails. `WalkRefusalIsJustified` shows (and a theorem
  proves) that no other fast forward is.
* `scenario_t13`: the cleanup skips the departing peer because `close()` has
  "already stopped" it (t13 254, 279), also when a failure before the departure has
  made that untrue; the peer and its wire stay.

Seen while modelling, and not the subject of a run:

* `c1-convergence.ts` 68-71 reads a failed query as an empty link set, so the
  removal counts as converged (297-299) when two queries fail; it is reported
  only and not part of the verdict.
* After the `off()` of `detach()` (`renegotiation.ts` 82) an offer finds nobody who listens;
  the SFU waits for its answer until it expires or the peer leaves.
* `startCluster` that throws leaks the nodes it spawned; one that boots slowly may
  bind in the next cluster, and scenarios with different ports share
  `/tmp/ad4m-cascade-node-i`. `OnlyLateBindersServe` and `WipedUnderNobody` name
  these as the only cases.
* w1m exchanges candidates while the descriptions are under way. A candidate
  that is fetched before `acceptAnswer`, or posted ahead of `/peer/offer`, is
  rejected by `addIceCandidate`, and the rejection is swallowed.
  `/peer/start` does not clear the candidates of an earlier peer.
* s12 leaks an executor that does not get healthy; several scenarios set up rooms and
  sessions before their `try`, and lose them when the set-up throws halfway.
* t5 compares what `resolve` returns with itself; the registry of
  `run-webrtc` lacks s4-churn, f8 and f9; in `main.ts` a branch whose build fails is skipped
  and does not fail the run.

## Proofs

All theorems hold for any number of requests, repositories, calls, sockets,
scenarios, peers, nodes and start-ups, and for any commit graph, requests and
steps of scenarios, under the named assumptions (`LockAssumption`, `GitAssumption`,
`ClientAssumption`, `RunnerAssumption`, `RoomAssumption`, `ClusterAssumption`).
These only say what kind of value each constant is, and, for `GitAssumption`, that
`Ancestor` is what following `Parents` reaches.

* `RepoLockProofs`: `LockInv` is inductive. Mutual exclusion alone is not: one has
  to know that the requests inside `withLock` form one chain by `prev` with
  consecutive tickets (`Chain`), and that the map names its end (`TailIsLast`).
  Exclusion, arrival order and the tight map follow from it.
* `GitShimProofs`: `GitInv` is inductive together with `LockInv`. A step of a
  handler leaves the branch a second handler has read alone because both hold
  the lock of one repository (`ReadUpdateIsAtomic`), the walk only meets ancestors of the
  pushed commit (`WalkIsSound`), so an unforced write moves the branch to a
  descendant and what was pushed stays in its history (`PushesHold`). Every step is a
  step or a stutter of `RefStore`, and of `RepoLock`.
* `GitHistoryProofs`: `HistoryInv` is inductive on top of these two. Whoever was
  served arrived before all who are inside (`ServedFirst`, from arrival order
  and exclusion), and what was read stays in the branch's history (`ReadsHold`, from
  the refinement of `RefStore`), hence `ReadsMoveForward`. The walk has read or has still to
  read all it has met, and has not met the branch (`WalkIsComplete`): an empty
  frontier means that what it met is closed under `Parents`, so the branch is
  not an ancestor, hence `WalkRefusalIsJustified`.
* `RpcClientProofs`: `ClientInv` is inductive; the key is that ids name calls, in
  the map and on the wire (`IdsNameCalls`).
* `ExecutorRunnerProofs`: `RunnerInv` is inductive: whoever is alive was told to stop or is in
  a variable that the `finally` block will stop (`AliveAccounted`), ports are held by serving
  processes (`PortsHeld`), processes are started in turn (`StartedInTurn`).
* `RenegotiationProofs`: `RenegotiationInv` is inductive. The signalling state is a
  function of where the join and the head of the chain are; only the head is
  under way; and a peer outside the room, or through its detach, has an empty chain
  and does not listen. From it follow that the join answer fits, that `count()` is
  honest, the quiet after `detach`, and that a peer at rest is in step with the SFU.
* `ClusterProofs`: `ClusterInv` is inductive. While the ports are swept, an executor the
  sweep can see and has not killed holds a port that is still to be swept
  (`SweepSees`); once it is over, nothing lives but what it could not see and the
  executors of this call. Data directories belong to executors that were spawned
  (`DataIsOf`), and the life of a process is ordered (`LifeIsOrdered`). Who serves a
  client, and under whom a directory is wiped, follow.

* `ScenarioProofs`: the states of a scenario with all its things and tasks at once are
  many, the views of one thing are few, and the theorems say that the latter are
  enough. `Spread` is a recursive function; that it satisfies its equation
  (`SpreadEquation`) and only grows is proved from a least counterexample
  (`Least`, from the well-founded order of the numbers), which takes the place of
  the induction theorem the provers cannot instantiate. A view that is met at a step is
  followed by all the step leads to (`ViewsClosed`, as no step leads back). Every
  action of `ScenarioRun` is an outcome in the view of every slice (`StepSeen`),
  and the end of a task shows in none, because `running` only says who may be at
  work. So `ScenarioInv` is inductive: control is inside the steps
  (`ControlInside`), what is held was made by a step, tasks were started by a step that
  control has passed, once each (`TasksKnown`), and each slice's view of the state
  has been met (`Sliced`). Each property then follows from its rule with the
  right slice, and holds of any number of things and tasks together. Three need
  a step of their own: `CallsGetThrough`, `UsesStayHeld` and `RejectionsAreHeard`.

  The theorems about scenarios assume that the steps are steps (`WellFormed`) and that
  the scenarios the property is asked of obey its rule. The assumption is
  about constants; TLC evaluates it for the 63 scenarios through `TypeOK`, in
  every state of `scenarios`. Together they give the properties for whatever `Width`
  the rules are evaluated with, in less than a minute where exploring the states
  takes many or is out of reach: the rules also hold for `Width` 1, 2, 4, 5 and 8
  (`NoneNeedless` from 3 on: of one or two peers nobody leaves in m2-sfu-to-mesh). What is
  not proved is that they hold for every `Width`, a fact about 63 given sequences.

Checked by TLC only: all liveness
(`NoStarvation`, `EveryRequestAnswered`, `EveryCallSettles`, `EveryRunEnds`,
`DetachEnds`, `EveryoneLearns`, `ShutdownEnds`, `Returns`, the fairness part of
`RefinesRepoLock`), which is out of the prover's reach.

## Not modelled

* The executors, the link languages and the plug-ins live in other repositories;
  they appear only as environments that may do whatever their interface allows.
  So the retry loop of the git language (push refused, pull, merge, push again)
  and the deliveries of the AP language are not here, only the server's side of
  the first.
* The ActivityPub shim serves each request in one synchronous handler over an
  append-only outbox.
* The remote peer server has one client in the repository, which sends one
  request after another but for the candidates; `ScenariosMesh` treats it as one thing
  w1m holds. Whether two peers connect with the candidates that are left is
  libwebrtc's affair.
* The MCP client's deadline is a matter of real time and of buffering inside
  `fetch`; the scenarios see a call that failed.
* `net.ts` runs synchronous commands, each of them repeatable; a rule is one thing the
  scenarios hold.
* Building the executors, the branch loop, comparison and exit code of
  `main.ts` go one after the other and keep no state between events.
* Formatting, latency metrics, media synthesis, statistics parsing, Docker and shell set-up: no
  property of the order of events depends on them.
