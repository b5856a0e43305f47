---------------------------- MODULE ScenarioRun ----------------------------
(***************************************************************************)
(* One scenario under the runner (main.ts 204-246): its steps in order,    *)
(* every call that may fail failing or not, every observation going either *)
(* way, and the tasks it starts running beside it.                         *)
(***************************************************************************)
EXTENDS ScenarioSlices, FiniteSets

CONSTANTS
    Scenario,   \* the steps of each scenario, by its id
    Claims,     \* what its header says that it asserts, verifies or confirms
    Unchecked,  \* what of this its verdict does not depend on
    Exempt      \* by the name of a property, the scenarios it is not asked of

VARIABLES
    id,         \* the scenario that runs
    pc,         \* its next step; 0 when it has ended
    flow,       \* "on", or on its way out with a "throw" or a "return"
    verdict,    \* `passed`
    held,       \* what it has got hold of and not let go
    kept,       \* what the variables the cleanup reads have referred to
    seen,       \* observations that turned out well
    busy,       \* tasks that run
    stopped,    \* tasks told to stop
    awaited,    \* tasks somebody waits for
    rejected,   \* tasks that rejected
    guarded,    \* a block with a cleanup has been entered
    missed,     \* a call of the cleanup went through something let go before
    crashed     \* a task rejected with nobody waiting for it: Node exits

vars == <<id, pc, flow, verdict, held, kept, seen, busy, stopped, awaited,
          rejected, missed, crashed, guarded>>

Names == {t.name : t \in busy}
Now == Scenario[id][pc]
Running == pc # 0 /\ ~crashed

Init ==
    /\ id \in DOMAIN Scenario
    /\ pc = 1 /\ flow = "on" /\ verdict = FALSE
    /\ held = {} /\ kept = {} /\ seen = {}
    /\ busy = {} /\ stopped = {} /\ awaited = {} /\ rejected = {}
    /\ guarded = FALSE /\ missed = FALSE /\ crashed = FALSE

Going(n) == pc' = IF pc + n > Len(Scenario[id]) THEN 0 ELSE pc + n

\* The step is done, and control goes on to the next one.
Done == Going(1) /\ flow' = flow

Throws ==
    /\ flow' = "throw"
    /\ IF Now.throw = 0 THEN pc' = 0 ELSE Going(Now.throw)

Leaves ==
    /\ flow' = "return"
    /\ IF Now.leave = 0 THEN pc' = 0 ELSE Going(Now.leave)

Is(op) == Running /\ Now.op = op
Works == Now.on \subseteq held
Beside == <<busy, stopped, awaited, rejected, crashed>>
Known == <<verdict, seen>>
Things == <<held, kept>>

(***************************************************************************)
(* Calls and resources.  A call through something that was let go fails.   *)
(***************************************************************************)
DoCall ==
    /\ Is("call")
    /\ (Works /\ Done) \/ Throws
    /\ UNCHANGED <<id, Things, Known, Beside, missed, guarded>>

DoAttempt ==
    /\ Is("attempt")
    /\ Done
    /\ missed' = (missed \/ (Now.arg \subseteq held \cap kept /\ ~Works))
    /\ UNCHANGED <<id, Things, Known, Beside, guarded>>

DoMeasure ==
    /\ Is("measure")
    /\ Done
    /\ \/ Works /\ seen' = seen \cup {Now.arg}
       \/ seen' = seen \ {Now.arg}
    /\ UNCHANGED <<id, Things, verdict, Beside, missed, guarded>>

DoOpen ==
    /\ Is("open") \/ Is("dial")
    /\ \/ Works /\ Done /\ held' = held \cup {Now.arg}
       \/ Throws /\ held' = held
    /\ UNCHANGED <<id, kept, Known, Beside, missed, guarded>>

DoMake ==
    /\ Is("make")
    /\ Done
    /\ held' = held \cup {Now.arg}
    /\ UNCHANGED <<id, kept, Known, Beside, missed, guarded>>

DoKeep ==
    /\ Is("keep")
    /\ Done
    /\ kept' = kept \cup (Now.arg \cap held)
    /\ UNCHANGED <<id, held, Known, Beside, missed, guarded>>

DoClose ==
    /\ Is("close")
    /\ Done
    /\ held' = held \ (Now.arg \cap kept)
    /\ UNCHANGED <<id, kept, Known, Beside, missed, guarded>>

(***************************************************************************)
(* Verdicts and control flow.                                              *)
(***************************************************************************)
DoNote ==
    /\ \/ Is("note") /\ seen' = seen \cup {Now.arg}
       \/ Is("forget") /\ seen' = seen \ {Now.arg}
    /\ Done
    /\ UNCHANGED <<id, Things, verdict, Beside, missed, guarded>>

DoDemand ==
    /\ Is("demand")
    /\ IF Now.arg \in seen THEN Done ELSE Throws
    /\ UNCHANGED <<id, Things, Known, Beside, missed, guarded>>

DoJudge ==
    /\ Is("judge")
    /\ Done
    /\ verdict' = (Now.arg \subseteq seen)
    /\ UNCHANGED <<id, Things, seen, Beside, missed, guarded>>

DoReturn ==
    /\ Is("return")
    /\ Leaves
    /\ verdict' = Now.arg
    /\ UNCHANGED <<id, Things, seen, Beside, missed, guarded>>

DoBranch ==
    /\ \/ Is("when") /\ Going(IF Now.arg[1] \in seen THEN 1 ELSE Now.arg[2])
       \/ Is("unless") /\ Going(IF Now.arg[1] \in seen THEN Now.arg[2] ELSE 1)
       \/ Is("skip") /\ Going(Now.arg)
    /\ UNCHANGED <<id, flow, Things, Known, Beside, missed, guarded>>

DoCatch ==
    /\ Is("catch")
    /\ Going(1) /\ flow' = "on"
    /\ UNCHANGED <<id, Things, Known, Beside, missed, guarded>>

DoEnter ==
    /\ Is("enter")
    /\ Done
    /\ guarded' = TRUE
    /\ UNCHANGED <<id, Things, Known, Beside, missed>>

\* The end of a finally block.
DoResume ==
    /\ Is("resume")
    /\ CASE flow = "throw" -> Throws
         [] flow = "return" -> Leaves
         [] OTHER -> Done
    /\ UNCHANGED <<id, Things, Known, Beside, missed, guarded>>

(***************************************************************************)
(* Tasks.                                                                  *)
(***************************************************************************)
DoStart ==
    /\ \/ Is("start") /\ awaited' = awaited
       \/ Is("together") /\ awaited' = awaited \cup {t.name : t \in Now.arg}
    /\ Done
    /\ busy' = busy \cup Now.arg
    /\ UNCHANGED <<id, Things, Known, stopped, rejected, crashed, missed, guarded>>

DoStop ==
    /\ Is("stop")
    /\ Done
    /\ stopped' = stopped \cup Now.arg
    /\ UNCHANGED <<id, Things, Known, busy, awaited, rejected, crashed, missed, guarded>>

\* Somebody waits from now on, and goes on when all have ended or one rejected.
Await ==
    /\ Is("join") \/ Is("settle") \/ Is("grace")
    /\ ~ Now.arg \subseteq awaited
    /\ awaited' = awaited \cup Now.arg
    /\ UNCHANGED <<id, pc, flow, Things, Known, busy, stopped, rejected, crashed, missed, guarded>>

DoJoin ==
    /\ Is("join") /\ Now.arg \subseteq awaited
    /\ \/ Now.arg \cap (Names \cup rejected) = {} /\ Done
       \/ Now.arg \cap rejected # {} /\ Throws
    /\ UNCHANGED <<id, Things, Known, Beside, missed, guarded>>

DoSettle ==
    /\ Is("settle") \/ Is("grace")
    /\ Is("settle") => Now.arg \cap Names = {}
    /\ Now.arg \subseteq awaited
    /\ Done
    /\ UNCHANGED <<id, Things, Known, Beside, missed, guarded>>

TaskEnds(t) ==
    /\ t \in busy /\ ~crashed
    /\ t.loops => t.name \in stopped
    /\ t.rejects => t.on \subseteq held
    /\ busy' = busy \ {t}
    /\ UNCHANGED <<id, pc, flow, Things, Known, stopped, awaited, rejected, crashed, missed, guarded>>

TaskRejects(t) ==
    /\ t \in busy /\ ~crashed
    /\ t.rejects
    /\ busy' = busy \ {t}
    /\ rejected' = rejected \cup {t.name}
    /\ crashed' = (t.name \notin awaited)
    /\ UNCHANGED <<id, pc, flow, Things, Known, stopped, awaited, missed, guarded>>

StepOn == \/ DoCall \/ DoAttempt \/ DoMeasure \/ DoOpen \/ DoMake \/ DoKeep
          \/ DoClose \/ DoNote \/ DoDemand \/ DoJudge \/ DoReturn \/ DoBranch \/ DoCatch
          \/ DoEnter \/ DoResume \/ DoStart \/ DoStop \/ Await \/ DoJoin \/ DoSettle

TasksEnd == \E t \in busy : TaskEnds(t) \/ TaskRejects(t)

Next == StepOn \/ TasksEnd

Spec == Init /\ [][Next]_vars

\* A connect() waits until the socket opens or fails (client.ts 49-53).
Connecting == Is("dial")

AwaitedEnd == \E t \in busy : t.name \in awaited /\ (TaskEnds(t) \/ TaskRejects(t))

\* Every other call has a time limit, and the work of an awaited task is bounded.
FairSpec == Spec /\ WF_vars(~Connecting /\ StepOn) /\ WF_vars(AwaitedEnd)

-----------------------------------------------------------------------------
(***************************************************************************)
(* Properties.                                                             *)
(***************************************************************************)
Ended == pc = 0 /\ ~crashed
Passed == Ended /\ flow # "throw" /\ verdict
Asked(property) == id \notin Exempt[property]

\* The scenarios that obey the rules of ScenarioSlices which go with the
\* properties below, in so far as these are asked of them.
WellWritten ==
    {i \in DOMAIN Scenario :
        LET s == Scenario[i]
            Owes(property) == i \notin Exempt[property]
        IN  /\ WellFormed(s)
            /\ Owes("CleanupReleases") => CleansUp(s)
            /\ Owes("PassLeavesNothing") => LeavesNothing(s)
            /\ Owes("NoRejectionUnheard") => Heard(s)
            /\ CallsReach(s)
            /\ Owes("WiresHaveTheirPeer") => WiresHeld(s)
            /\ Owes("NothingRunsOn") => TasksOver(s)
            /\ Owes("InUseIsHeld") => UsesHeld(s)
            /\ Earns(s, Claims[i] \ Unchecked[i])}

\* The scenarios that nothing is excused which they do not need.
NoneNeedless ==
    {i \in DOMAIN Scenario :
        LET s == Scenario[i]
            Excused(property) == i \in Exempt[property]
        IN  /\ Excused("CleanupReleases") => ~CleansUp(s)
            /\ Excused("PassLeavesNothing") => ~LeavesNothing(s)
            /\ Excused("NoRejectionUnheard") => ~Heard(s)
            /\ Excused("WiresHaveTheirPeer") => ~WiresHeld(s)
            /\ Excused("NothingRunsOn") => ~TasksOver(s)
            /\ Excused("InUseIsHeld") => ~UsesHeld(s)
            /\ \A c \in Unchecked[i] : c \in Claims[i] /\ ~Earns(s, {c})}

\* The scenario that runs is well written and excused no more than it needs,
\* control stays inside its steps and everything is what it is declared to be;
\* only a task that rejected brings the runner down.
TypeOK ==
    /\ id \in WellWritten \cap NoneNeedless
    /\ pc \in 0..Len(Scenario[id])
    /\ flow \in {"on", "throw", "return"}
    /\ {verdict, guarded, missed, crashed} \subseteq BOOLEAN
    /\ crashed => rejected # {}
    /\ Names \cap rejected = {}

\* Once the block with the cleanup is entered, whatever the cleanup knows of is
\* let go of when the scenario ends, however it ends: no call that throws, no
\* early return and no failure inside the cleanup keeps a peer, a wire, a
\* room, a session, a cluster node or a network rule (e.g. t1 159-190).
CleanupReleases ==
    Asked("CleanupReleases") /\ Ended /\ guarded => held \cap kept = {}

\* A scenario that passes leaves nothing behind at all, known to a cleanup or
\* not, so the next scenario of the run starts from a clean process.
PassLeavesNothing == Asked("PassLeavesNothing") /\ Passed => held = {}

\* No promise rejects before somebody waits for it: with the handlers missing,
\* Node ends the whole run, not only the scenario (t7 77-85, t8 102-130).
NoRejectionUnheard == Asked("NoRejectionUnheard") => ~crashed

\* What the cleanup calls through a session reaches the server: sessions and
\* nodes are let go of after the last call that needs them (t1 167-190).
CleanupCallsReach == ~missed

\* A wire that listens has its peer and its session: a peer is closed and a
\* session disconnected only when its wire has been detached, also when a
\* scenario is torn down half built and whether or not the cleanup knows of
\* the wire (renegotiation.ts 81-89).
WiresHaveTheirPeer ==
    Asked("WiresHaveTheirPeer") => \A w \in held : w[1] = "wire" => Needs(w) \subseteq held

\* Nothing a scenario started goes on beside the scenarios after it, unless
\* it threw (s4 52-110, s6 80-140, m4 170-214).
NothingRunsOn ==
    Asked("NothingRunsOn") /\ Ended /\ flow # "throw" => busy = {}

\* Nothing that a task works with is let go of while it works, unless another
\* task has failed already (s6 60-150, m4 136-234).
InUseIsHeld ==
    [][Asked("InUseIsHeld") => \A t \in busy' : rejected = {} /\ t.on \subseteq held => t.on \subseteq held']_vars

\* A scenario passes only with what its header says it asserts, verifies or
\* confirms, but for the claims its verdict does not depend on, and unless it
\* was passed over before it began (e.g. t14 14-17 and 209-212).
PassIsEarned ==
    Passed /\ flow = "on" => Claims[id] \ Unchecked[id] \subseteq seen

\* Every scenario comes to its end, whatever fails on the way, unless a
\* connect() keeps it waiting for ever: no other wait is for something that
\* was never told to stop (main.ts 204-246 awaits run()).
Returns == <>~Running \/ <>[]Connecting
=============================================================================
