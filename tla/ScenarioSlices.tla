--------------------------- MODULE ScenarioSlices ---------------------------
(***************************************************************************)
(* What the steps of a scenario say about its runs, without running it.    *)
(*                                                                         *)
(* A slice keeps a few things, claims and tasks of a scenario and forgets  *)
(* the others; what it keeps of a state is a view.  Control only goes      *)
(* forward, so one pass over the steps finds every view that can be met    *)
(* at each of them.  The rules below ask of these views what ScenarioRun   *)
(* asks of its states, with one thing, two, or one and a task in view, and *)
(* ScenarioProofs shows that a scenario which obeys a rule keeps it in     *)
(* every run, together with all its other things and tasks.                *)
(***************************************************************************)
EXTENDS ScenarioSteps

Slice(things, claims, tasks) == [things |-> things, claims |-> claims, tasks |-> tasks]

\* failed: a task has certainly rejected; running: who may be at work.
FirstView ==
    [flow |-> "on", verdict |-> FALSE, guarded |-> FALSE, held |-> {}, kept |-> {},
     seen |-> {}, running |-> {}, failed |-> FALSE]

\* Where control is when the scenario s has ended.
Exit(s) == Len(s) + 1
\* k steps after n; 0 stands for outside, as in throw and leave.
Ahead(s, n, k) == IF k = 0 \/ n + k > Len(s) THEN Exit(s) ELSE n + k

Made(s) == {s[n].arg : n \in {m \in DOMAIN s : s[m].op \in {"open", "dial", "make"}}}
TasksAt(s, n) == IF s[n].op \in {"start", "together"} THEN s[n].arg ELSE {}
Tasks(s) == UNION {TasksAt(s, n) : n \in DOMAIN s}
Rejecting(s) == {t.name : t \in {u \in Tasks(s) : u.rejects}}

(***************************************************************************)
(* The views a step leads to, each with the place where control is then.   *)
(***************************************************************************)
If(condition, outcomes) == IF condition THEN outcomes ELSE {}

Outcomes(s, l, n, v) ==
    LET step == s[n]
        arg == step.arg
        To(k, w) == {<<Ahead(s, n, k), w>>}
        Done(w) == To(1, w)
        Throws(w) == To(step.throw, [w EXCEPT !.flow = "throw"])
        Leaves(w) == To(step.leave, [w EXCEPT !.flow = "return"])
        works == step.on \cap l.things \subseteq v.held
        With(c) == [v EXCEPT !.seen = @ \cup ({c} \cap l.claims)]
        Without(c) == [v EXCEPT !.seen = @ \ {c}]
        MayBe(c) == c \in l.claims => c \in v.seen
        MayNotBe(c) == c \notin v.seen
        Holding(r) == [v EXCEPT !.held = @ \cup ({r} \cap l.things)]
        Over(names) == [v EXCEPT !.running = {t \in @ : t.name \notin names}]
    IN  CASE step.op = "call" -> If(works, Done(v)) \cup Throws(v)
          [] step.op = "measure" -> If(works, Done(With(arg))) \cup Done(Without(arg))
          [] step.op \in {"open", "dial"} -> If(works, Done(Holding(arg))) \cup Throws(v)
          [] step.op = "make" -> Done(Holding(arg))
          [] step.op = "keep" -> Done([v EXCEPT !.kept = @ \cup (arg \cap v.held)])
          [] step.op = "close" -> Done([v EXCEPT !.held = @ \ (arg \cap v.kept)])
          [] step.op = "note" -> Done(With(arg))
          [] step.op = "forget" -> Done(Without(arg))
          [] step.op = "demand" -> If(MayBe(arg), Done(v)) \cup If(MayNotBe(arg), Throws(v))
          [] step.op = "judge" ->
               If(arg \cap l.claims \subseteq v.seen, Done([v EXCEPT !.verdict = TRUE]))
                 \cup Done([v EXCEPT !.verdict = FALSE])
          [] step.op = "return" -> Leaves([v EXCEPT !.verdict = arg])
          [] step.op = "when" -> If(MayBe(arg[1]), To(1, v)) \cup If(MayNotBe(arg[1]), To(arg[2], v))
          [] step.op = "unless" -> If(MayBe(arg[1]), To(arg[2], v)) \cup If(MayNotBe(arg[1]), To(1, v))
          [] step.op = "skip" -> To(arg, v)
          [] step.op = "catch" -> Done([v EXCEPT !.flow = "on"])
          [] step.op = "enter" -> Done([v EXCEPT !.guarded = TRUE])
          [] step.op = "resume" ->
               If(v.flow = "throw", Throws(v)) \cup If(v.flow = "return", Leaves(v))
                 \cup If(v.flow = "on", Done(v))
          [] step.op \in {"start", "together"} ->
               Done([v EXCEPT !.running = @ \cup (arg \cap l.tasks)])
          [] step.op = "join" ->
               Done(Over(arg)) \cup If(arg \cap Rejecting(s) # {}, Throws([v EXCEPT !.failed = TRUE]))
          [] step.op = "settle" -> Done(Over(arg))
          [] OTHER -> Done(v)

(***************************************************************************)
(* The pass over the steps.                                                *)
(***************************************************************************)
Grow(s, l, k, reached) ==
    reached \cup UNION {Outcomes(s, l, k, x[2]) : x \in {y \in reached : y[1] = k}}

Spread(s, l) ==
    LET F[k \in 0..Len(s)] == IF k = 0 THEN {<<1, FirstView>>} ELSE Grow(s, l, k, F[k - 1])
    IN  F

\* Every place with the views that can be met there.
Views(s, l) == Spread(s, l)[Len(s)]

OfThings(s, things) == Views(s, Slice(things, {}, {}))
\* What decides about the way a scenario takes or about its verdict.
Tested(s) ==
    {s[n].arg[1] : n \in {m \in DOMAIN s : s[m].op \in {"when", "unless"}}}
      \cup UNION {s[n].arg : n \in {m \in DOMAIN s : s[m].op = "judge"}}

(***************************************************************************)
(* The rules.                                                              *)
(***************************************************************************)
\* Steps are steps, control goes forward, and a name that a rejection goes by
\* is the name of one task.
WellFormed(s) ==
    /\ Len(s) \in Nat \ {0} /\ DOMAIN s = 1..Len(s)
    /\ \A n \in DOMAIN s :
         /\ s[n].throw \in Nat /\ s[n].leave \in Nat
         /\ s[n].op \in {"when", "unless"} => s[n].arg[2] \in Nat \ {0}
         /\ s[n].op = "skip" => s[n].arg \in Nat \ {0}
         /\ s[n].op = "return" => s[n].arg \in BOOLEAN
    /\ \A m, n \in DOMAIN s : \A t \in TasksAt(s, m), u \in TasksAt(s, n) :
         t.rejects /\ t.name = u.name => m = n /\ t = u

\* A thing that the cleanup knows of does not get past a cleanup.
CleansUp(s) ==
    \A r \in Made(s) : \A x \in OfThings(s, {r}) :
        x[1] = Exit(s) /\ x[2].guarded => r \notin x[2].held \cap x[2].kept

\* No thing gets past the end of a pass; a claim that was tested may have
\* to be kept in view to see it.
LeavesNothing(s) ==
    \A r \in Made(s) : \E claims \in {{}} \cup {{c} : c \in Tested(s)} :
        \A x \in Views(s, Slice({r}, claims, {})) :
            x[1] = Exit(s) /\ x[2].flow # "throw" /\ x[2].verdict => r \notin x[2].held

\* What the cleanup calls through is held when the thing it is called for is.
CallsReach(s) ==
    \A n \in {m \in DOMAIN s : s[m].op = "attempt"} : \A r \in s[n].on :
        \A x \in OfThings(s, s[n].arg \cup {r}) :
            x[1] = n /\ s[n].arg \subseteq x[2].held \cap x[2].kept => r \in x[2].held

Needs(w) == {<<"peer", w[2]>>, <<"session", w[2]>>}

\* A wire is never held without the peer or without the session it needs.
WiresHeld(s) ==
    \A w \in {r \in Made(s) : r[1] = "wire"} : \A p \in Needs(w) : \A x \in OfThings(s, {w, p}) :
        w \in x[2].held => p \in x[2].held

\* A task whose rejection counts is started by somebody who waits for it.
Heard(s) ==
    \A n \in DOMAIN s : s[n].op = "start" => \A t \in s[n].arg : ~t.rejects

\* Every task is waited for before a scenario ends without a throw.
TasksOver(s) ==
    \A t \in Tasks(s) : \A x \in Views(s, Slice({}, {}, {t})) :
        x[1] = Exit(s) /\ x[2].flow # "throw" => t \notin x[2].running

\* No step closes what a task that may be at work goes through.
UsesHeld(s) ==
    \A t \in Tasks(s) : \A r \in t.on : \A x \in Views(s, Slice({r}, {}, {t})) :
        x[1] \in DOMAIN s /\ s[x[1]].op = "close" /\ t \in x[2].running /\ ~x[2].failed
            => r \notin s[x[1]].arg \cap x[2].kept

\* Each claim has been seen on every way to a verdict that passes.
Earns(s, claims) ==
    \A c \in claims : \A x \in Views(s, Slice({}, {c}, {})) :
        x[1] = Exit(s) /\ x[2].flow = "on" /\ x[2].verdict => c \in x[2].seen
=============================================================================
