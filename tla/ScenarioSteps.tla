--------------------------- MODULE ScenarioSteps ---------------------------
(***************************************************************************)
(* The vocabulary in which the run functions of src/scenarios are written  *)
(* down: a scenario is a sequence of steps, a step what one statement does *)
(* to the things a scenario holds, to what it has seen and to the control  *)
(* flow.  ScenarioRun executes the sequences.                              *)
(*                                                                         *)
(* A resource is a pair of a kind and a number: <<"peer", 1>>.  Each call  *)
(* names the resources it goes through; {} is the client of the runner.    *)
(***************************************************************************)
EXTENDS Naturals, Sequences
Lists == INSTANCE SequencesExt

CONSTANT Width      \* how often a loop over peers, clients or nodes is run

ASSUME WidthAssumption == Width \in Nat \ {0}

All(kind) == {<<kind, i>> : i \in 1..Width}

Step(op, on, arg) == [op |-> op, on |-> on, arg |-> arg, throw |-> 0, leave |-> 0]

(***************************************************************************)
(* Single statements.                                                      *)
(***************************************************************************)
\* An awaited call that throws when it fails.
Call(rs) == <<Step("call", rs, "")>>
\* The same in a try block or under .catch: the failure is ignored.
Attempt(rs) == <<Step("attempt", rs, {})>>
\* The same, for each r that the cleanup finds in its list.
AttemptFor(r, rs) == <<Step("attempt", rs, {r})>>
\* A timed() call: the failure is a datum, c says whether it went well.
Measure(c, rs) == <<Step("measure", rs, c)>>
\* Something measured or computed from the system: c turns out yes or no.
Observe(c) == <<Step("measure", {}, c)>>
\* Get hold of r, as a constructor does that starts what it makes.
Make(r) == <<Step("make", {}, r)>>
\* Get hold of r through rs, or throw.
Open(r, rs) == <<Step("open", rs, r)>>
\* The same by a connect(), which has no time limit: it may wait for ever.
Dial(r, rs) == <<Step("dial", rs, r)>>
\* A flag of the code is set, or cleared.
Note(c) == <<Step("note", {}, c)>>
Forget(c) == <<Step("forget", {}, c)>>
\* The variables that the cleanup reads now refer to these.
Keep(rs) == <<Step("keep", {}, rs)>>
\* Let go of those among rs that are kept, ignoring failures.
Close(rs) == <<Step("close", {}, rs)>>
\* Throw unless c has been seen.
Demand(c) == <<Step("demand", {}, c)>>
Expect(c) == Observe(c) \o Demand(c)
\* The verdict so far: all of cs have been seen.
Judge(cs) == <<Step("judge", {}, cs)>>
\* return { passed: v }.
Return(v) == <<Step("return", {}, v)>>

(***************************************************************************)
(* Work that goes on beside the scenario.  A task rejects when one of its  *)
(* calls fails, unless it catches; a loop ends when it is told to stop.    *)
(***************************************************************************)
Task(t, rs) == [name |-> t, on |-> rs, rejects |-> TRUE, loops |-> FALSE]
CatchingTask(t, rs) == [Task(t, rs) EXCEPT !.rejects = FALSE]
Loop(t, rs) == [CatchingTask(t, rs) EXCEPT !.loops = TRUE]

Start(ts) == <<Step("start", {}, ts)>>
Stop(names) == <<Step("stop", {}, names)>>
\* Started by somebody who waits for them at once.
Together(ts) == <<Step("together", {}, ts)>>
\* Promise.all, or a plain await of one: throws with the first rejection.
Join(names) == <<Step("join", {}, names)>>
\* Promise.allSettled, or an await under .catch.
Settle(names) == <<Step("settle", {}, names)>>
\* Promise.race against a timer.
Grace(names) == <<Step("grace", {}, names)>>

(***************************************************************************)
(* Control flow.  A step knows how far ahead the handler of what it throws *)
(* is, and the finally block it runs on its way out; 0 is outside.         *)
(***************************************************************************)
Aim(s, t, l) == [s EXCEPT !.throw = IF @ = 0 THEN t ELSE @,
                          !.leave = IF @ = 0 THEN l ELSE @]

TryFinally(body, cleanup) ==
    LET n == Len(body) + 1
    IN  <<Step("enter", {}, "")>>
            \o [i \in 1..Len(body) |-> Aim(body[i], n - i, n - i)]
            \o cleanup \o <<Step("resume", {}, "")>>

TryCatch(body, handler) ==
    LET n == Len(body) + 2
    IN  [i \in 1..Len(body) |-> Aim(body[i], n - i, 0)]
            \o <<Step("skip", {}, Len(handler) + 2), Step("catch", {}, "")>> \o handler

When(c, body) == <<Step("when", {}, <<c, Len(body) + 1>>)>> \o body
Unless(c, body) == <<Step("unless", {}, <<c, Len(body) + 1>>)>> \o body

Branch(c, yes, no) == When(c, yes \o <<Step("skip", {}, Len(no) + 1)>>) \o no

\* Without c the scenario ends here, failed or passed over.
OrFail(c) == Unless(c, Return(FALSE))
OrSkip(c) == Unless(c, Return(TRUE))

\* Promise.all over tasks started for it.
AllOf(ts) == Together(ts) \o Join({t.name : t \in ts})

Iterate(body(_)) == Lists!FlattenSeq([i \in 1..Width |-> body(i)])
=============================================================================
