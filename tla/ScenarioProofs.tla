--------------------------- MODULE ScenarioProofs ---------------------------
(***************************************************************************)
(* Theorems about ScenarioRun, for any scenarios that obey the rules of    *)
(* ScenarioSlices: the pass over the steps of a scenario meets the view of *)
(* every state of every run, in every slice (SlicesAreSound), and what the *)
(* rules ask of these views are the properties, one thing at a time.       *)
(***************************************************************************)
EXTENDS ScenarioRun, TLAPS, WellFoundedInduction

(***************************************************************************)
(* The pass over the steps.                                                *)
(***************************************************************************)
\* A non-empty set of numbers has a least element: induction, in the form in
\* which the lemmas below use it.
LEMMA Least ==
    ASSUME NEW T \in SUBSET Nat, T # {}
    PROVE  \E m \in T : \A k \in T : m <= k
<1> DEFINE R == OpToRel(<, Nat)
<1>1. IsWellFoundedOn(R, Nat)
  BY NatLessThanWellFounded
<1> HIDE DEF R
<1>2. PICK m \in T : \A k \in T : ~ (<<k, m>> \in R)
  BY <1>1, WFMin
<1>3. \A k \in T : k < m => <<k, m>> \in R
  BY DEF R, OpToRel
<1>4. \A k \in T : k \in Nat /\ m \in Nat /\ ~ k < m
  BY <1>2, <1>3
<1>5. QED
  BY <1>4

\* The equation of Spread, up to N.
SpreadsTo(s, l, g, N) ==
    g = [k \in 0..N |-> IF k = 0 THEN {<<1, FirstView>>} ELSE Grow(s, l, k, g[k - 1])]

\* The equation has a solution.
LEMMA SpreadExists ==
    ASSUME NEW s, NEW l, NEW N \in Nat
    PROVE  \E g : SpreadsTo(s, l, g, N)
<1> DEFINE Root == {<<1, FirstView>>}
           Rhs(g, j) == IF j = 0 THEN Root ELSE Grow(s, l, j, g[j - 1])
           Fits(g, k) == g = [j \in 0..k |-> Rhs(g, j)]
           T == {k \in Nat : ~ \E g : Fits(g, k)}
<1>1. SUFFICES ASSUME T # {} PROVE FALSE
  BY DEF SpreadsTo
<1>2. PICK m \in T : \A k \in T : m <= k
  BY <1>1, Least
<1> HIDE DEF Root
<1>3. m # 0
  <2>1. Fits([j \in 0..0 |-> Root], 0)
    OBVIOUS
  <2>2. QED
    BY <2>1
<1>4. m - 1 \in Nat /\ m - 1 \notin T
  <2>1. m \in Nat /\ m - 1 \in Nat /\ ~ m <= m - 1
    BY <1>3
  <2>2. QED
    <3> HIDE DEF T
    <3>1. QED
      BY <2>1, <1>2
<1>5. PICK g : Fits(g, m - 1)
  BY <1>4
<1> DEFINE h == [j \in 0..m |-> IF j = m THEN Grow(s, l, m, g[m - 1]) ELSE g[j]]
<1>6. ASSUME NEW j \in 0..m PROVE h[j] = Rhs(h, j)
  <2>1. CASE j = m
    BY <2>1, <1>3, <1>4
  <2>2. CASE j # m /\ j = 0
    BY <2>2, <1>5, <1>4
  <2>3. CASE j # m /\ j # 0
    <3>1. j \in 0..(m - 1)
      BY <2>3, <1>4
    <3>2. g[j] = Rhs(g, j)
      BY <3>1, <1>5
    <3>3. h[j - 1] = g[j - 1] /\ h[j] = g[j]
      BY <2>3
    <3>4. QED
      BY <3>2, <3>3, <2>3
  <2>4. QED
    BY <2>1, <2>2, <2>3
<1>7. Fits(h, m)
  BY <1>6
<1>8. QED
  BY <1>7, <1>2

\* Spread satisfies its equation.
LEMMA SpreadEquation ==
    ASSUME NEW s, NEW l, Len(s) \in Nat
    PROVE  /\ Spread(s, l)[0] = {<<1, FirstView>>}
           /\ \A k \in 1..Len(s) : Spread(s, l)[k] = Grow(s, l, k, Spread(s, l)[k - 1])
<1>1. \E g : SpreadsTo(s, l, g, Len(s))
  BY SpreadExists
<1>2. Spread(s, l) = CHOOSE g : SpreadsTo(s, l, g, Len(s))
  BY DEF Spread, SpreadsTo
<1>3. SpreadsTo(s, l, Spread(s, l), Len(s))
  BY <1>1, <1>2
<1> DEFINE f == Spread(s, l)
<1>4. f = [k \in 0..Len(s) |-> IF k = 0 THEN {<<1, FirstView>>} ELSE Grow(s, l, k, f[k - 1])]
  BY <1>3 DEF SpreadsTo
<1> HIDE DEF f
<1>5. \A k \in 0..Len(s) : f[k] = IF k = 0 THEN {<<1, FirstView>>} ELSE Grow(s, l, k, f[k - 1])
  BY <1>4
<1>6. QED
  BY <1>5 DEF f

\* What has been reached stays reached.
LEMMA SpreadGrows ==
    ASSUME NEW s, NEW l, Len(s) \in Nat, NEW j \in 0..Len(s), NEW k \in j..Len(s)
    PROVE  Spread(s, l)[j] \subseteq Spread(s, l)[k]
<1> DEFINE f == Spread(s, l)
           T == {i \in j..Len(s) : ~ f[j] \subseteq f[i]}
<1>1. SUFFICES ASSUME T # {} PROVE FALSE
  OBVIOUS
<1>2. T \in SUBSET Nat
  OBVIOUS
<1>3. PICK m \in T : \A i \in T : m <= i
  BY <1>1, <1>2, Least
<1>4. m # j /\ m \in 1..Len(s) /\ m - 1 \in j..Len(s)
  BY <1>3
<1>5. m - 1 \notin T
  BY <1>3, <1>4
<1>6. f[m] = Grow(s, l, m, f[m - 1])
  BY <1>4, SpreadEquation
<1>7. f[m - 1] \subseteq f[m]
  BY <1>6 DEF Grow
<1>8. QED
  BY <1>3, <1>4, <1>5, <1>7

\* A step leads ahead.
LEMMA OutcomesAhead ==
    ASSUME NEW s, WellFormed(s), NEW l, NEW n \in 1..Len(s), NEW v, NEW x \in Outcomes(s, l, n, v)
    PROVE  x[1] \in Nat /\ x[1] > n
<1> DEFINE Goes(y) == \E k \in Nat : \E w : y = <<Ahead(s, n, k), w>>
<1>1. \A k \in Nat : Ahead(s, n, k) \in Nat /\ Ahead(s, n, k) > n
  BY DEF WellFormed, Ahead, Exit
<1>2. /\ s[n].throw \in Nat /\ s[n].leave \in Nat /\ 1 \in Nat
      /\ s[n].op \in {"when", "unless"} => s[n].arg[2] \in Nat
      /\ s[n].op = "skip" => s[n].arg \in Nat
  BY DEF WellFormed
<1>3. Goes(x)
  BY <1>2 DEF Outcomes, If
<1>4. QED
  BY <1>1, <1>3

\* A view that can be met at a step is followed by all the step leads to.
LEMMA ViewsClosed ==
    ASSUME NEW s, WellFormed(s), NEW l, NEW n \in 1..Len(s), NEW v, <<n, v>> \in Views(s, l)
    PROVE  Outcomes(s, l, n, v) \subseteq Views(s, l)
<1> DEFINE f == Spread(s, l)
           T == {k \in 0..Len(s) : <<n, v>> \in f[k]}
<1>1. Len(s) \in Nat /\ Len(s) \in T /\ T \in SUBSET Nat
  BY DEF WellFormed, Views
<1>2. PICK m \in T : \A k \in T : m <= k
  BY <1>1, Least
<1>3. m <= n - 1
  <2>1. CASE m = 0
    BY <2>1
  <2>2. CASE m # 0
    <3>1. m \in 1..Len(s) /\ m - 1 \in 0..Len(s) /\ m - 1 \notin T
      BY <2>2, <1>1, <1>2
    <3>2. <<n, v>> \in Grow(s, l, m, f[m - 1]) /\ <<n, v>> \notin f[m - 1]
      BY <3>1, <1>1, SpreadEquation
    <3>3. PICK y \in f[m - 1] : <<n, v>> \in Outcomes(s, l, m, y[2])
      BY <3>2 DEF Grow
    <3>4. n > m
      BY <3>1, <3>3, OutcomesAhead
    <3>5. QED
      BY <3>4, <3>1
  <2>3. QED
    BY <2>1, <2>2
<1>4. n - 1 \in m..Len(s) /\ m \in 0..Len(s) /\ n \in 0..Len(s)
  BY <1>1, <1>3
<1>5. <<n, v>> \in f[n - 1]
  BY <1>1, <1>2, <1>4, SpreadGrows
<1>6. Outcomes(s, l, n, v) \subseteq f[n]
  <2>1. f[n] = Grow(s, l, n, f[n - 1])
    BY <1>1, SpreadEquation
  <2>2. QED
    BY <2>1, <1>5 DEF Grow
<1>7. f[n] \subseteq f[Len(s)]
  BY <1>1, <1>4, SpreadGrows
<1>8. QED
  BY <1>6, <1>7 DEF Views

(***************************************************************************)
(* Runs and views.                                                         *)
(***************************************************************************)
Steps == Scenario[id]
Place == IF pc = 0 THEN Exit(Steps) ELSE pc

\* Control is somewhere in the steps.
ControlInside ==
    /\ id \in DOMAIN Scenario
    /\ pc \in 0..Len(Steps)
    /\ flow \in {"on", "throw", "return"}
    /\ verdict \in BOOLEAN /\ guarded \in BOOLEAN /\ missed \in BOOLEAN /\ crashed \in BOOLEAN
    /\ crashed => rejected # {}

\* v is what the slice l keeps of the state.
Fits(l, v) ==
    /\ DOMAIN v = DOMAIN FirstView
    /\ v.flow = flow /\ v.verdict = verdict /\ v.guarded = guarded
    /\ v.held = held \cap l.things /\ v.kept = kept \cap l.things
    /\ v.seen = seen \cap l.claims
    /\ busy \cap l.tasks \subseteq v.running
    /\ v.failed => rejected # {}

\* The pass over the steps has met it.
Sees(l, v) == Fits(l, v) /\ <<Place, v>> \in Views(Steps, l)

Sliced == \A things, claims, tasks : \E v : Sees(Slice(things, claims, tasks), v)

AllWellFormed == \A i \in DOMAIN Scenario : WellFormed(Scenario[i])

\* The three ways on from a step lead where the pass over the steps looks.
LEMMA WaysOn ==
    ASSUME AllWellFormed, ControlInside, Running, id' = id
    PROVE  /\ pc \in 1..Len(Steps) /\ Place = pc /\ Steps' = Steps
           /\ \A k \in Nat \ {0} : Going(k) => pc' \in 0..Len(Steps) /\ Place' = Ahead(Steps, pc, k)
           /\ Done => flow' = flow /\ pc' \in 0..Len(Steps) /\ Place' = Ahead(Steps, pc, 1)
           /\ Throws => flow' = "throw" /\ pc' \in 0..Len(Steps) /\ Place' = Ahead(Steps, pc, Now.throw)
           /\ Leaves => flow' = "return" /\ pc' \in 0..Len(Steps) /\ Place' = Ahead(Steps, pc, Now.leave)
<1>1. WellFormed(Steps) /\ Steps' = Steps /\ Now = Steps[pc]
  BY DEF AllWellFormed, ControlInside, Steps, Now
<1>2. Len(Steps) \in Nat /\ pc \in 1..Len(Steps) /\ Place = pc
  BY <1>1 DEF WellFormed, ControlInside, Running, Place
<1>3. Now.throw \in Nat /\ Now.leave \in Nat
  BY <1>1, <1>2 DEF WellFormed
<1>4. \A k \in Nat \ {0} : Going(k) => pc' \in 0..Len(Steps) /\ Place' = Ahead(Steps, pc, k)
  BY <1>1, <1>2 DEF Going, Place, Ahead, Exit, Steps
<1>5. pc' = 0 => pc' \in 0..Len(Steps) /\ Place' = Ahead(Steps, pc, 0)
  BY <1>1, <1>2 DEF Place, Ahead, Exit
<1>6. QED
  BY <1>1, <1>2, <1>3, <1>4, <1>5 DEF Done, Throws, Leaves

\* An outcome of the view before a step that fits the state after it.
LEMMA SightKept ==
    ASSUME AllWellFormed, ControlInside, Running, id' = id,
           NEW l, NEW v, Sees(l, v), NEW w, Fits(l, w)',
           <<Place', w>> \in Outcomes(Steps, l, pc, v)
    PROVE  \E x : Sees(l, x)'
<1>1. WellFormed(Steps) /\ pc \in 1..Len(Steps) /\ Place = pc /\ Steps' = Steps
  BY WaysOn DEF AllWellFormed, ControlInside, Steps
<1>2. Outcomes(Steps, l, pc, v) \subseteq Views(Steps, l)
  BY <1>1, ViewsClosed DEF Sees
<1>3. Sees(l, w)'
  BY <1>1, <1>2 DEF Sees
<1>4. QED
  BY <1>3

\* A step shows in the view of any slice.
LEMMA StepSeen ==
    ASSUME AllWellFormed, ControlInside, StepOn,
           \A name \in rejected : name \in Rejecting(Steps),
           NEW l, NEW v, Sees(l, v)
    PROVE  \E x : Sees(l, x)'
<1>1. Running /\ id' = id
  BY DEF StepOn, DoCall, DoAttempt, DoMeasure, DoOpen, DoMake, DoKeep, DoClose, DoNote, DoDemand,
         DoJudge, DoReturn, DoBranch, DoCatch, DoEnter, DoResume, DoStart, DoStop, Await, DoJoin,
         DoSettle, Is
<1>2. /\ pc \in 1..Len(Steps) /\ Place = pc /\ Steps' = Steps /\ Now = Steps[pc]
      /\ \A k \in Nat \ {0} : Going(k) => Place' = Ahead(Steps, pc, k)
      /\ Done => flow' = flow /\ Place' = Ahead(Steps, pc, 1)
      /\ Throws => flow' = "throw" /\ Place' = Ahead(Steps, pc, Now.throw)
      /\ Leaves => flow' = "return" /\ Place' = Ahead(Steps, pc, Now.leave)
  <2>1. Now = Steps[pc]
    BY DEF Now, Steps
  <2>2. QED
    BY <1>1, <2>1, WaysOn
<1>3. Fits(l, v) /\ DOMAIN v = DOMAIN FirstView
  BY DEF Sees, Fits
<1>4. Works => Now.on \cap l.things \subseteq v.held
  BY <1>3 DEF Works, Fits
<1> DEFINE Leads(w) == <<Place', w>> \in Outcomes(Steps, l, pc, v)
<1>5. ASSUME NEW w, Fits(l, w)', Leads(w)
      PROVE  \E x : Sees(l, x)'
  BY <1>1, <1>5, SightKept
<1>call. CASE DoCall
  <2>1. CASE Works /\ Done
    <3>1. Fits(l, v)'
      BY <1>call, <2>1, <1>2, <1>3 DEF Fits, FirstView, DoCall, Things, Known, Beside
    <3>2. Leads(v)
      BY <1>call, <2>1, <1>2, <1>3, <1>4 DEF Fits, DoCall, Is, Outcomes, If
    <3>3. QED
      BY <3>1, <3>2, <1>5
  <2>2. CASE Throws
    <3>0. PICK w : w = [v EXCEPT !.flow = "throw"]
      OBVIOUS
    <3>1. Fits(l, w)'
      BY <1>call, <2>2, <1>2, <1>3, <3>0 DEF Fits, FirstView, DoCall, Things, Known, Beside
    <3>2. Leads(w)
      BY <1>call, <2>2, <1>2, <1>3, <1>4, <3>0 DEF Fits, DoCall, Is, Outcomes, If
    <3>3. QED
      BY <3>1, <3>2, <1>5
  <2>3. QED
    BY <1>call, <2>1, <2>2 DEF DoCall
<1>attempt. CASE DoAttempt
  <2>1. Fits(l, v)'
    BY <1>attempt, <1>2, <1>3 DEF Fits, FirstView, DoAttempt, Things, Known, Beside
  <2>2. Leads(v)
    BY <1>attempt, <1>2, <1>3, <1>4 DEF Fits, DoAttempt, Is, Outcomes, If
  <2>3. QED
    BY <2>1, <2>2, <1>5
<1>measure. CASE DoMeasure
  <2>1. CASE Works /\ seen' = seen \cup {Now.arg}
    <3>0. PICK w : w = [v EXCEPT !.seen = @ \cup ({Now.arg} \cap l.claims)]
      OBVIOUS
    <3>1. Fits(l, w)'
      BY <1>measure, <2>1, <1>2, <1>3, <3>0 DEF Fits, FirstView, DoMeasure, Things, Beside
    <3>2. Leads(w)
      BY <1>measure, <2>1, <1>2, <1>3, <1>4, <3>0 DEF Fits, DoMeasure, Is, Outcomes, If
    <3>3. QED
      BY <3>1, <3>2, <1>5
  <2>2. CASE seen' = seen \ {Now.arg}
    <3>0. PICK w : w = [v EXCEPT !.seen = @ \ {Now.arg}]
      OBVIOUS
    <3>1. Fits(l, w)'
      BY <1>measure, <2>2, <1>2, <1>3, <3>0 DEF Fits, FirstView, DoMeasure, Things, Beside
    <3>2. Leads(w)
      BY <1>measure, <2>2, <1>2, <1>3, <1>4, <3>0 DEF Fits, DoMeasure, Is, Outcomes, If
    <3>3. QED
      BY <3>1, <3>2, <1>5
  <2>3. QED
    BY <1>measure, <2>1, <2>2 DEF DoMeasure
<1>open. CASE DoOpen
  <2>1. CASE Works /\ Done /\ held' = held \cup {Now.arg}
    <3>0. PICK w : w = [v EXCEPT !.held = @ \cup ({Now.arg} \cap l.things)]
      OBVIOUS
    <3>1. Fits(l, w)'
      BY <1>open, <2>1, <1>2, <1>3, <3>0 DEF Fits, FirstView, DoOpen, Known, Beside
    <3>2. Leads(w)
      BY <1>open, <2>1, <1>2, <1>3, <1>4, <3>0 DEF Fits, DoOpen, Is, Outcomes, If
    <3>3. QED
      BY <3>1, <3>2, <1>5
  <2>2. CASE Throws /\ held' = held
    <3>0. PICK w : w = [v EXCEPT !.flow = "throw"]
      OBVIOUS
    <3>1. Fits(l, w)'
      BY <1>open, <2>2, <1>2, <1>3, <3>0 DEF Fits, FirstView, DoOpen, Known, Beside
    <3>2. Leads(w)
      BY <1>open, <2>2, <1>2, <1>3, <1>4, <3>0 DEF Fits, DoOpen, Is, Outcomes, If
    <3>3. QED
      BY <3>1, <3>2, <1>5
  <2>3. QED
    BY <1>open, <2>1, <2>2 DEF DoOpen
<1>make. CASE DoMake
  <2>0. PICK w : w = [v EXCEPT !.held = @ \cup ({Now.arg} \cap l.things)]
    OBVIOUS
  <2>1. Fits(l, w)'
    BY <1>make, <1>2, <1>3, <2>0 DEF Fits, FirstView, DoMake, Known, Beside
  <2>2. Leads(w)
    BY <1>make, <1>2, <1>3, <1>4, <2>0 DEF Fits, DoMake, Is, Outcomes, If
  <2>3. QED
    BY <2>1, <2>2, <1>5
<1>keep. CASE DoKeep
  <2>0. PICK w : w = [v EXCEPT !.kept = @ \cup (Now.arg \cap v.held)]
    OBVIOUS
  <2>1. Fits(l, w)'
    BY <1>keep, <1>2, <1>3, <2>0 DEF Fits, FirstView, DoKeep, Known, Beside
  <2>2. Leads(w)
    BY <1>keep, <1>2, <1>3, <1>4, <2>0 DEF Fits, DoKeep, Is, Outcomes, If
  <2>3. QED
    BY <2>1, <2>2, <1>5
<1>close. CASE DoClose
  <2>0. PICK w : w = [v EXCEPT !.held = @ \ (Now.arg \cap v.kept)]
    OBVIOUS
  <2>1. Fits(l, w)'
    BY <1>close, <1>2, <1>3, <2>0 DEF Fits, FirstView, DoClose, Known, Beside
  <2>2. Leads(w)
    BY <1>close, <1>2, <1>3, <1>4, <2>0 DEF Fits, DoClose, Is, Outcomes, If
  <2>3. QED
    BY <2>1, <2>2, <1>5
<1>note. CASE DoNote
  <2>1. CASE Is("note") /\ seen' = seen \cup {Now.arg}
    <3>0. PICK w : w = [v EXCEPT !.seen = @ \cup ({Now.arg} \cap l.claims)]
      OBVIOUS
    <3>1. Fits(l, w)'
      BY <1>note, <2>1, <1>2, <1>3, <3>0 DEF Fits, FirstView, DoNote, Things, Beside
    <3>2. Leads(w)
      BY <1>note, <2>1, <1>2, <1>3, <1>4, <3>0 DEF Fits, DoNote, Is, Outcomes, If
    <3>3. QED
      BY <3>1, <3>2, <1>5
  <2>2. CASE Is("forget") /\ seen' = seen \ {Now.arg}
    <3>0. PICK w : w = [v EXCEPT !.seen = @ \ {Now.arg}]
      OBVIOUS
    <3>1. Fits(l, w)'
      BY <1>note, <2>2, <1>2, <1>3, <3>0 DEF Fits, FirstView, DoNote, Things, Beside
    <3>2. Leads(w)
      BY <1>note, <2>2, <1>2, <1>3, <1>4, <3>0 DEF Fits, DoNote, Is, Outcomes, If
    <3>3. QED
      BY <3>1, <3>2, <1>5
  <2>3. QED
    BY <1>note, <2>1, <2>2 DEF DoNote
<1>demand. CASE DoDemand
  <2>1. CASE Now.arg \in seen /\ Done
    <3>1. Fits(l, v)'
      BY <1>demand, <2>1, <1>2, <1>3 DEF Fits, FirstView, DoDemand, Things, Known, Beside
    <3>2. Leads(v)
      BY <1>demand, <2>1, <1>2, <1>3, <1>4 DEF Fits, DoDemand, Is, Outcomes, If
    <3>3. QED
      BY <3>1, <3>2, <1>5
  <2>2. CASE Now.arg \notin seen /\ Throws
    <3>0. PICK w : w = [v EXCEPT !.flow = "throw"]
      OBVIOUS
    <3>1. Fits(l, w)'
      BY <1>demand, <2>2, <1>2, <1>3, <3>0 DEF Fits, FirstView, DoDemand, Things, Known, Beside
    <3>2. Leads(w)
      BY <1>demand, <2>2, <1>2, <1>3, <1>4, <3>0 DEF Fits, DoDemand, Is, Outcomes, If
    <3>3. QED
      BY <3>1, <3>2, <1>5
  <2>3. QED
    BY <1>demand, <2>1, <2>2 DEF DoDemand
<1>judge. CASE DoJudge
  <2>1. CASE verdict' = TRUE
    <3>0. PICK w : w = [v EXCEPT !.verdict = TRUE]
      OBVIOUS
    <3>1. Fits(l, w)'
      BY <1>judge, <2>1, <1>2, <1>3, <3>0 DEF Fits, FirstView, DoJudge, Things, Beside
    <3>2. Leads(w)
      BY <1>judge, <2>1, <1>2, <1>3, <1>4, <3>0 DEF Fits, DoJudge, Is, Outcomes, If
    <3>3. QED
      BY <3>1, <3>2, <1>5
  <2>2. CASE verdict' = FALSE
    <3>0. PICK w : w = [v EXCEPT !.verdict = FALSE]
      OBVIOUS
    <3>1. Fits(l, w)'
      BY <1>judge, <2>2, <1>2, <1>3, <3>0 DEF Fits, FirstView, DoJudge, Things, Beside
    <3>2. Leads(w)
      BY <1>judge, <2>2, <1>2, <1>3, <1>4, <3>0 DEF Fits, DoJudge, Is, Outcomes, If
    <3>3. QED
      BY <3>1, <3>2, <1>5
  <2>3. QED
    BY <1>judge, <2>1, <2>2 DEF DoJudge
<1>return. CASE DoReturn
  <2>0. PICK w : w = [[v EXCEPT !.verdict = Now.arg] EXCEPT !.flow = "return"]
    OBVIOUS
  <2>1. Fits(l, w)'
    BY <1>return, <1>2, <1>3, <2>0 DEF Fits, FirstView, DoReturn, Things, Beside
  <2>2. Leads(w)
    BY <1>return, <1>2, <1>3, <1>4, <2>0 DEF Fits, DoReturn, Is, Outcomes, If
  <2>3. QED
    BY <2>1, <2>2, <1>5
<1>branch. CASE DoBranch
  <2>1. /\ Now.op \in {"when", "unless"} => Now.arg[2] \in Nat \ {0}
        /\ Now.op = "skip" => Now.arg \in Nat \ {0}
    BY <1>2 DEF AllWellFormed, WellFormed, ControlInside, Steps
  <2>2. CASE Is("when") /\ Now.arg[1] \in seen /\ Going(1)
    <3>1. Fits(l, v)'
      BY <1>branch, <2>2, <1>2, <1>3 DEF Fits, FirstView, DoBranch, Things, Known, Beside
    <3>2. Leads(v)
      BY <1>branch, <2>2, <1>2, <1>3, <1>4 DEF Fits, DoBranch, Is, Outcomes, If
    <3>3. QED
      BY <3>1, <3>2, <1>5
  <2>3. CASE Is("when") /\ Now.arg[1] \notin seen /\ Going(Now.arg[2])
    <3>1. Fits(l, v)'
      BY <1>branch, <2>3, <1>2, <1>3 DEF Fits, FirstView, DoBranch, Things, Known, Beside
    <3>2. Leads(v)
      BY <1>branch, <2>3, <1>2, <1>3, <1>4, <2>1 DEF Fits, DoBranch, Is, Outcomes, If
    <3>3. QED
      BY <3>1, <3>2, <1>5
  <2>4. CASE Is("unless") /\ Now.arg[1] \in seen /\ Going(Now.arg[2])
    <3>1. Fits(l, v)'
      BY <1>branch, <2>4, <1>2, <1>3 DEF Fits, FirstView, DoBranch, Things, Known, Beside
    <3>2. Leads(v)
      BY <1>branch, <2>4, <1>2, <1>3, <1>4, <2>1 DEF Fits, DoBranch, Is, Outcomes, If
    <3>3. QED
      BY <3>1, <3>2, <1>5
  <2>5. CASE Is("unless") /\ Now.arg[1] \notin seen /\ Going(1)
    <3>1. Fits(l, v)'
      BY <1>branch, <2>5, <1>2, <1>3 DEF Fits, FirstView, DoBranch, Things, Known, Beside
    <3>2. Leads(v)
      BY <1>branch, <2>5, <1>2, <1>3, <1>4 DEF Fits, DoBranch, Is, Outcomes, If
    <3>3. QED
      BY <3>1, <3>2, <1>5
  <2>6. CASE Is("skip") /\ Going(Now.arg)
    <3>1. Fits(l, v)'
      BY <1>branch, <2>6, <1>2, <1>3 DEF Fits, FirstView, DoBranch, Things, Known, Beside
    <3>2. Leads(v)
      BY <1>branch, <2>6, <1>2, <1>3, <1>4, <2>1 DEF Fits, DoBranch, Is, Outcomes, If
    <3>3. QED
      BY <3>1, <3>2, <1>5
  <2>7. QED
    BY <1>branch, <2>2, <2>3, <2>4, <2>5, <2>6 DEF DoBranch
<1>catch. CASE DoCatch
  <2>0. PICK w : w = [v EXCEPT !.flow = "on"]
    OBVIOUS
  <2>1. Fits(l, w)'
    BY <1>catch, <1>2, <1>3, <2>0 DEF Fits, FirstView, DoCatch, Things, Known, Beside
  <2>2. Leads(w)
    BY <1>catch, <1>2, <1>3, <1>4, <2>0 DEF Fits, DoCatch, Is, Outcomes, If
  <2>3. QED
    BY <2>1, <2>2, <1>5
<1>enter. CASE DoEnter
  <2>0. PICK w : w = [v EXCEPT !.guarded = TRUE]
    OBVIOUS
  <2>1. Fits(l, w)'
    BY <1>enter, <1>2, <1>3, <2>0 DEF Fits, FirstView, DoEnter, Things, Known, Beside
  <2>2. Leads(w)
    BY <1>enter, <1>2, <1>3, <1>4, <2>0 DEF Fits, DoEnter, Is, Outcomes, If
  <2>3. QED
    BY <2>1, <2>2, <1>5
<1>resume. CASE DoResume
  <2>1. CASE flow = "throw" /\ Throws
    <3>0. PICK w : w = [v EXCEPT !.flow = "throw"]
      OBVIOUS
    <3>1. Fits(l, w)'
      BY <1>resume, <2>1, <1>2, <1>3, <3>0 DEF Fits, FirstView, DoResume, Things, Known, Beside
    <3>2. Leads(w)
      BY <1>resume, <2>1, <1>2, <1>3, <1>4, <3>0 DEF Fits, DoResume, Is, Outcomes, If
    <3>3. QED
      BY <3>1, <3>2, <1>5
  <2>2. CASE flow = "return" /\ Leaves
    <3>0. PICK w : w = [v EXCEPT !.flow = "return"]
      OBVIOUS
    <3>1. Fits(l, w)'
      BY <1>resume, <2>2, <1>2, <1>3, <3>0 DEF Fits, FirstView, DoResume, Things, Known, Beside
    <3>2. Leads(w)
      BY <1>resume, <2>2, <1>2, <1>3, <1>4, <3>0 DEF Fits, DoResume, Is, Outcomes, If
    <3>3. QED
      BY <3>1, <3>2, <1>5
  <2>3. CASE flow = "on" /\ Done
    <3>1. Fits(l, v)'
      BY <1>resume, <2>3, <1>2, <1>3 DEF Fits, FirstView, DoResume, Things, Known, Beside
    <3>2. Leads(v)
      BY <1>resume, <2>3, <1>2, <1>3, <1>4 DEF Fits, DoResume, Is, Outcomes, If
    <3>3. QED
      BY <3>1, <3>2, <1>5
  <2>4. QED
    BY <1>resume, <2>1, <2>2, <2>3 DEF DoResume, ControlInside
<1>start. CASE DoStart
  <2>0. PICK w : w = [v EXCEPT !.running = @ \cup (Now.arg \cap l.tasks)]
    OBVIOUS
  <2>1. Fits(l, w)'
    BY <1>start, <1>2, <1>3, <2>0 DEF Fits, FirstView, DoStart, Things, Known
  <2>2. Leads(w)
    BY <1>start, <1>2, <1>3, <1>4, <2>0 DEF Fits, DoStart, Is, Outcomes, If
  <2>3. QED
    BY <2>1, <2>2, <1>5
<1>stop. CASE DoStop
  <2>1. Fits(l, v)'
    BY <1>stop, <1>2, <1>3 DEF Fits, FirstView, DoStop, Things, Known
  <2>2. Leads(v)
    BY <1>stop, <1>2, <1>3, <1>4 DEF Fits, DoStop, Is, Outcomes, If
  <2>3. QED
    BY <2>1, <2>2, <1>5
<1>await. CASE Await
  <2>1. Fits(l, v)' /\ Place' = Place
    BY <1>await, <1>2, <1>3 DEF Fits, Await, Things, Known, Place
  <2>2. QED
    BY <1>2, <2>1 DEF Sees
<1>join. CASE DoJoin
  <2>1. CASE Now.arg \cap (Names \cup rejected) = {} /\ Done
    <3>0. PICK w : w = [v EXCEPT !.running = {t \in @ : t.name \notin Now.arg}]
      OBVIOUS
    <3>1. Fits(l, w)'
      BY <1>join, <2>1, <1>2, <1>3, <3>0 DEF Fits, FirstView, DoJoin, Things, Known, Beside, Names
    <3>2. Leads(w)
      BY <1>join, <2>1, <1>2, <1>3, <1>4, <3>0 DEF Fits, DoJoin, Is, Outcomes, If
    <3>3. QED
      BY <3>1, <3>2, <1>5
  <2>2. CASE Now.arg \cap rejected # {} /\ Throws
    <3>0. PICK w : w = [[v EXCEPT !.failed = TRUE] EXCEPT !.flow = "throw"]
      OBVIOUS
    <3>1. Fits(l, w)'
      BY <1>join, <2>2, <1>2, <1>3, <3>0 DEF Fits, FirstView, DoJoin, Things, Known, Beside, Names
    <3>2. Leads(w)
      BY <1>join, <2>2, <1>2, <1>3, <1>4, <3>0 DEF Fits, DoJoin, Is, Outcomes, If
    <3>3. QED
      BY <3>1, <3>2, <1>5
  <2>3. QED
    BY <1>join, <2>1, <2>2 DEF DoJoin
<1>settle. CASE DoSettle
  <2>1. CASE Is("settle")
    <3>0. PICK w : w = [v EXCEPT !.running = {t \in @ : t.name \notin Now.arg}]
      OBVIOUS
    <3>1. Fits(l, w)'
      BY <1>settle, <2>1, <1>2, <1>3, <3>0 DEF Fits, FirstView, DoSettle, Things, Known, Beside, Names
    <3>2. Leads(w)
      BY <1>settle, <2>1, <1>2, <1>3, <1>4, <3>0 DEF Fits, DoSettle, Is, Outcomes, If
    <3>3. QED
      BY <3>1, <3>2, <1>5
  <2>2. CASE Is("grace")
    <3>1. Fits(l, v)'
      BY <1>settle, <2>2, <1>2, <1>3 DEF Fits, FirstView, DoSettle, Things, Known, Beside, Names
    <3>2. Leads(v)
      BY <1>settle, <2>2, <1>2, <1>3, <1>4 DEF Fits, DoSettle, Is, Outcomes, If
    <3>3. QED
      BY <3>1, <3>2, <1>5
  <2>3. QED
    BY <1>settle, <2>1, <2>2 DEF DoSettle
<1>6. QED
  BY <1>call, <1>attempt, <1>measure, <1>open, <1>make, <1>keep, <1>close, <1>note, <1>demand,
     <1>judge, <1>return, <1>branch, <1>catch, <1>enter, <1>resume, <1>start, <1>stop, <1>await,
     <1>join, <1>settle DEF StepOn

(***************************************************************************)
(* The inductive invariant.                                                *)
(***************************************************************************)
\* What is held was opened or made by a step.
HeldWasMade == held \subseteq Made(Steps)

\* Tasks were started by a step that control has passed, and one that rejected
\* does not run any more.
TasksKnown ==
    /\ \A t \in busy : \E n \in DOMAIN Steps : n < Place /\ t \in TasksAt(Steps, n)
    /\ \A name \in rejected : \E n \in DOMAIN Steps : \E t \in TasksAt(Steps, n) :
         n < Place /\ t.rejects /\ t.name = name /\ t \notin busy

ScenarioInv == ControlInside /\ HeldWasMade /\ TasksKnown /\ Sliced

\* A scenario starts where the pass over its steps starts.
LEMMA InitInv == ASSUME AllWellFormed, Init PROVE ScenarioInv
<1>1. WellFormed(Steps) /\ Len(Steps) \in Nat \ {0} /\ id \in DOMAIN Scenario /\ Place = 1
  BY DEF Init, AllWellFormed, Steps, WellFormed, Place
<1>2. ControlInside
  <2>1. pc \in 0..Len(Steps)
    BY <1>1 DEF Init
  <2>2. QED
    BY <1>1, <2>1 DEF ControlInside, Init
<1>3. HeldWasMade /\ TasksKnown
  BY DEF HeldWasMade, TasksKnown, Init
<1>4. ASSUME NEW l PROVE Sees(l, FirstView)
  <2>1. Fits(l, FirstView)
    BY DEF Fits, Init, FirstView
  <2>2. <<1, FirstView>> \in Spread(Steps, l)[0] /\ 0 \in 0..Len(Steps) /\ Len(Steps) \in 0..Len(Steps)
    BY <1>1, SpreadEquation
  <2>3. <<1, FirstView>> \in Views(Steps, l)
    BY <1>1, <2>2, SpreadGrows DEF Views
  <2>4. QED
    BY <1>1, <2>1, <2>3 DEF Sees
<1>5. Sliced
  BY <1>4 DEF Sliced
<1>6. QED
  BY <1>2, <1>3, <1>5 DEF ScenarioInv

\* A step keeps control inside and never takes it back.
LEMMA StepControl ==
    ASSUME AllWellFormed, ControlInside, StepOn
    PROVE  /\ ControlInside' /\ Steps' = Steps /\ id' = id
           /\ pc \in DOMAIN Steps /\ Place = pc /\ Now = Steps[pc] /\ Place' >= Place
           /\ DoStart => Place' > Place
<1>1. Running /\ id' = id /\ crashed' = crashed /\ rejected' = rejected
  BY DEF StepOn, DoCall, DoAttempt, DoMeasure, DoOpen, DoMake, DoKeep, DoClose, DoNote, DoDemand,
         DoJudge, DoReturn, DoBranch, DoCatch, DoEnter, DoResume, DoStart, DoStop, Await, DoJoin,
         DoSettle, Is, Beside
<1>2. WellFormed(Steps) /\ Now = Steps[pc]
  BY DEF AllWellFormed, ControlInside, Steps, Now
<1>3. /\ pc \in 1..Len(Steps) /\ Place = pc /\ Steps' = Steps
      /\ \A k \in Nat \ {0} : Going(k) => pc' \in 0..Len(Steps) /\ Place' = Ahead(Steps, pc, k)
      /\ Done => flow' = flow /\ pc' \in 0..Len(Steps) /\ Place' = Ahead(Steps, pc, 1)
      /\ Throws => flow' = "throw" /\ pc' \in 0..Len(Steps) /\ Place' = Ahead(Steps, pc, Now.throw)
      /\ Leaves => flow' = "return" /\ pc' \in 0..Len(Steps) /\ Place' = Ahead(Steps, pc, Now.leave)
  BY <1>1, WaysOn
<1>4. \A k \in Nat : Ahead(Steps, pc, k) > pc
  BY <1>2, <1>3 DEF WellFormed, Ahead, Exit
<1>5. /\ Now.throw \in Nat /\ Now.leave \in Nat
      /\ Now.op \in {"when", "unless"} => Now.arg[2] \in Nat \ {0}
      /\ Now.op = "skip" => Now.arg \in Nat \ {0}
      /\ Now.op = "return" => Now.arg \in BOOLEAN
  BY <1>2, <1>3 DEF WellFormed
<1> DEFINE Forward == pc' \in 0..Len(Steps) /\ Place' > pc
<1>6. /\ \A k \in Nat \ {0} : Going(k) => Forward
      /\ Done => Forward /\ flow' = flow
      /\ Throws => Forward /\ flow' = "throw"
      /\ Leaves => Forward /\ flow' = "return"
  BY <1>3, <1>4, <1>5
<1> HIDE DEF Forward
<1>7. ASSUME ~ Await
      PROVE  Forward /\ flow' \in {"on", "throw", "return"}
  <2>1. flow \in {"on", "throw", "return"}
    BY DEF ControlInside
  <2>2. CASE DoCatch
    BY <1>6, <2>2 DEF DoCatch
  <2>3. CASE DoBranch
    BY <1>5, <1>6, <2>1, <2>3 DEF DoBranch, Is
  <2>4. CASE ~ DoCatch /\ ~ DoBranch
    <3>1. Done \/ Throws \/ Leaves
      BY <1>7, <2>1, <2>4 DEF StepOn, DoCall, DoAttempt, DoMeasure, DoOpen, DoMake, DoKeep, DoClose,
         DoNote, DoDemand, DoJudge, DoReturn, DoEnter, DoResume, DoStart, DoStop, DoJoin, DoSettle
    <3>2. QED
      BY <1>6, <2>1, <3>1
  <2>5. QED
    BY <2>2, <2>3, <2>4
<1>8. verdict' \in BOOLEAN /\ guarded' \in BOOLEAN /\ missed' \in BOOLEAN
  <2>1. verdict \in BOOLEAN /\ guarded \in BOOLEAN /\ missed \in BOOLEAN
    BY DEF ControlInside
  <2>2. CASE DoJudge
    BY <2>1, <2>2 DEF DoJudge
  <2>3. CASE DoReturn
    BY <1>5, <2>1, <2>3 DEF DoReturn, Is
  <2>4. CASE DoEnter
    BY <2>1, <2>4 DEF DoEnter, Known
  <2>7. CASE DoAttempt
    BY <2>1, <2>7 DEF DoAttempt, Known
  <2>5. CASE ~ DoJudge /\ ~ DoReturn /\ ~ DoEnter /\ ~ DoAttempt
    BY <2>1, <2>5 DEF StepOn, DoCall, DoMeasure, DoOpen, DoMake, DoKeep, DoClose, DoNote,
       DoDemand, DoBranch, DoCatch, DoResume, DoStart, DoStop, Await, DoJoin, DoSettle, Known
  <2>6. QED
    BY <2>2, <2>3, <2>4, <2>5, <2>7
<1>9. CASE Await
  <2>1. pc' = pc /\ flow' = flow
    BY <1>9 DEF Await
  <2>2. Place' = Place
    BY <1>3, <2>1 DEF Place
  <2>3. DoStart => FALSE
    BY <1>9 DEF Await, DoStart, Is
  <2>4. QED
    BY <1>1, <1>2, <1>3, <1>8, <2>1, <2>2, <2>3 DEF ControlInside, WellFormed
<1>10. CASE ~ Await
  <2>1. pc' \in 0..Len(Steps) /\ Place' > Place /\ flow' \in {"on", "throw", "return"}
    BY <1>3, <1>7, <1>10 DEF Forward
  <2>2. ControlInside'
    BY <1>1, <1>3, <1>8, <2>1 DEF ControlInside
  <2>3. Place \in Int /\ Place' \in Int
    BY <1>2, <1>3, <2>1 DEF WellFormed, Place, Exit
  <2>4. QED
    BY <1>1, <1>2, <1>3, <2>1, <2>2, <2>3 DEF WellFormed
<1>11. QED
  BY <1>9, <1>10

\* Only steps that open or make something add to what is held.
LEMMA StepHeld ==
    ASSUME AllWellFormed, ControlInside, HeldWasMade, StepOn
    PROVE  HeldWasMade'
<1>1. Steps' = Steps /\ pc \in DOMAIN Steps /\ Now = Steps[pc]
  BY StepControl
<1>2. CASE DoOpen \/ DoMake
  <2>1. Now.arg \in Made(Steps)
    BY <1>1, <1>2 DEF DoOpen, DoMake, Is, Made
  <2>2. held' \subseteq held \cup {Now.arg}
    BY <1>2 DEF DoOpen, DoMake
  <2>3. QED
    BY <1>1, <2>1, <2>2 DEF HeldWasMade
<1>3. CASE ~ DoOpen /\ ~ DoMake
  <2>1. held' \subseteq held
    BY <1>3 DEF StepOn, DoCall, DoAttempt, DoMeasure, DoKeep, DoClose, DoNote, DoDemand, DoJudge,
       DoReturn, DoBranch, DoCatch, DoEnter, DoResume, DoStart, DoStop, Await, DoJoin, DoSettle, Things
  <2>2. QED
    BY <1>1, <2>1 DEF HeldWasMade
<1>4. QED
  BY <1>2, <1>3

\* Tasks come from the step that starts them, and each starts once.
LEMMA StepTasks ==
    ASSUME AllWellFormed, ControlInside, TasksKnown, StepOn
    PROVE  TasksKnown'
<1>1. /\ Steps' = Steps /\ pc \in DOMAIN Steps /\ Place = pc /\ Now = Steps[pc] /\ Place' >= Place
      /\ DoStart => Place' > Place
  BY StepControl
<1>2. rejected' = rejected
  BY DEF StepOn, DoCall, DoAttempt, DoMeasure, DoOpen, DoMake, DoKeep, DoClose, DoNote, DoDemand,
         DoJudge, DoReturn, DoBranch, DoCatch, DoEnter, DoResume, DoStart, DoStop, Await, DoJoin,
         DoSettle, Beside
<1>3. WellFormed(Steps)
  BY DEF AllWellFormed, ControlInside, Steps
<1>4. Place \in Nat /\ Place' \in Nat /\ DOMAIN Steps \subseteq Nat
  <2>1. Len(Steps) \in Nat /\ pc' \in Nat
    BY <1>1, <1>3, StepControl DEF WellFormed, ControlInside
  <2>2. QED
    BY <1>1, <1>3, <2>1 DEF WellFormed, Place, Exit
<1>5. CASE DoStart
  <2>1. busy' = busy \cup Now.arg /\ Now.arg = TasksAt(Steps, pc)
    BY <1>1, <1>5 DEF DoStart, Is, TasksAt
  <2>2. ASSUME NEW t \in busy'
        PROVE  \E n \in DOMAIN Steps : n < Place' /\ t \in TasksAt(Steps, n)
    <3>1. CASE t \in busy
      BY <1>1, <1>4, <3>1 DEF TasksKnown
    <3>2. CASE t \in Now.arg
      BY <1>1, <1>4, <1>5, <2>1, <3>2
    <3>3. QED
      BY <2>1, <3>1, <3>2
  <2>3. ASSUME NEW name \in rejected
        PROVE  \E n \in DOMAIN Steps : \E t \in TasksAt(Steps, n) :
                 n < Place' /\ t.rejects /\ t.name = name /\ t \notin busy'
    <3>0. PICK n \in DOMAIN Steps : \E t \in TasksAt(Steps, n) :
             n < Place /\ t.rejects /\ t.name = name /\ t \notin busy
      BY DEF TasksKnown
    <3>1. PICK t \in TasksAt(Steps, n) : n < Place /\ t.rejects /\ t.name = name /\ t \notin busy
      BY <3>0
    <3>2. t \notin TasksAt(Steps, pc)
      BY <1>1, <1>3, <1>4, <3>1 DEF WellFormed
    <3>3. QED
      BY <1>1, <1>4, <2>1, <3>1, <3>2
  <2>4. QED
    BY <1>1, <1>2, <2>2, <2>3 DEF TasksKnown
<1>6. CASE ~ DoStart
  <2>1. busy' = busy
    BY <1>6 DEF StepOn, DoCall, DoAttempt, DoMeasure, DoOpen, DoMake, DoKeep, DoClose, DoNote, DoDemand,
       DoJudge, DoReturn, DoBranch, DoCatch, DoEnter, DoResume, DoStop, Await, DoJoin, DoSettle, Beside
  <2>2. \A n \in DOMAIN Steps : n < Place => n < Place'
    BY <1>1, <1>4
  <2>3. QED
    BY <1>1, <1>2, <2>1, <2>2 DEF TasksKnown
<1>7. QED
  BY <1>5, <1>6

\* The end of a task shows in no view.
LEMMA TaskInv ==
    ASSUME AllWellFormed, ScenarioInv, TasksEnd
    PROVE  ScenarioInv'
<1>1. PICK t \in busy : TaskEnds(t) \/ TaskRejects(t)
  BY DEF TasksEnd
<1>2. /\ UNCHANGED <<id, pc, flow, held, kept, verdict, seen, guarded, missed>> /\ busy' = busy \ {t}
      /\ \/ rejected' = rejected /\ crashed' = crashed
         \/ rejected' = rejected \cup {t.name} /\ t.rejects /\ crashed' \in BOOLEAN
  BY <1>1 DEF TaskEnds, TaskRejects, Things, Known
<1>3. Steps' = Steps /\ Place' = Place
  BY <1>2 DEF Steps, Place
<1>4. ControlInside'
  BY <1>2, <1>3 DEF ControlInside, ScenarioInv
<1>5. HeldWasMade'
  BY <1>2, <1>3 DEF HeldWasMade, ScenarioInv
<1>6. TasksKnown'
  <2>1. ASSUME NEW name \in rejected'
        PROVE  \E n \in DOMAIN Steps : \E u \in TasksAt(Steps, n) :
                 n < Place /\ u.rejects /\ u.name = name /\ u \notin busy'
    BY <1>2 DEF TasksKnown, ScenarioInv
  <2>2. QED
    BY <1>2, <1>3, <2>1 DEF TasksKnown, ScenarioInv
<1>7. Sliced'
  <2>1. ASSUME NEW l, NEW v, Sees(l, v) PROVE Sees(l, v)'
    BY <1>2, <1>3, <2>1 DEF Sees, Fits
  <2>2. QED
    BY <2>1 DEF Sliced, ScenarioInv
<1>8. QED
  BY <1>4, <1>5, <1>6, <1>7 DEF ScenarioInv

\* Every step keeps the invariant.
LEMMA NextInv ==
    ASSUME AllWellFormed, ScenarioInv, [Next]_vars
    PROVE  ScenarioInv'
<1>1. CASE StepOn
  <2>1. ControlInside' /\ HeldWasMade' /\ TasksKnown'
    BY <1>1, StepControl, StepHeld, StepTasks DEF ScenarioInv
  <2>2. \A name \in rejected : name \in Rejecting(Steps)
    BY DEF ScenarioInv, TasksKnown, Rejecting, Tasks
  <2>3. ASSUME NEW things, NEW claims, NEW tasks
        PROVE  \E v : Sees(Slice(things, claims, tasks), v)'
    <3>1. PICK v : Sees(Slice(things, claims, tasks), v)
      BY DEF ScenarioInv, Sliced
    <3>2. QED
      BY <1>1, <2>2, <3>1, StepSeen DEF ScenarioInv
  <2>4. Sliced'
    BY <2>3 DEF Sliced
  <2>5. QED
    BY <2>1, <2>4 DEF ScenarioInv
<1>2. CASE TasksEnd
  BY <1>2, TaskInv
<1>3. CASE UNCHANGED vars
  <2>1. UNCHANGED <<id, pc, flow, held, kept, verdict, seen, guarded, missed, busy, rejected, crashed>>
    BY <1>3 DEF vars
  <2>2. Steps' = Steps /\ Place' = Place
    BY <2>1 DEF Steps, Place
  <2>3. ControlInside' /\ HeldWasMade' /\ TasksKnown'
    BY <2>1, <2>2 DEF ScenarioInv, ControlInside, HeldWasMade, TasksKnown
  <2>4. ASSUME NEW l, NEW v, Sees(l, v) PROVE Sees(l, v)'
    BY <2>1, <2>2, <2>4 DEF Sees, Fits
  <2>5. Sliced'
    BY <2>4 DEF Sliced, ScenarioInv
  <2>6. QED
    BY <2>3, <2>5 DEF ScenarioInv
<1>4. QED
  BY <1>1, <1>2, <1>3 DEF Next

\* Every state of every run is met, as any slice sees it, by the pass over the
\* steps.
THEOREM SlicesAreSound ==
    ASSUME AllWellFormed
    PROVE  Spec => []ScenarioInv
<1>1. Init => ScenarioInv
  BY InitInv
<1>2. ScenarioInv /\ [Next]_vars => ScenarioInv'
  BY NextInv
<1>3. QED
  BY <1>1, <1>2, PTL DEF Spec

(***************************************************************************)
(* The properties, of every scenario that obeys the rule which goes with   *)
(* them.  What MCScenarios gives for Scenario obeys them all: TypeOK of    *)
(* ScenarioRun says so, and its runs evaluate it.                          *)
(***************************************************************************)
\* The view v of the state in a slice of one's choice.
Shows(things, claims, tasks, v) ==
    /\ <<Place, v>> \in Views(Steps, Slice(things, claims, tasks))
    /\ v.flow = flow /\ v.verdict = verdict /\ v.guarded = guarded
    /\ v.held = held \cap things /\ v.kept = kept \cap things
    /\ v.seen = seen \cap claims
    /\ busy \cap tasks \subseteq v.running
    /\ v.failed => rejected # {}

\* A reachable state has one in each.
LEMMA InView ==
    ASSUME ScenarioInv
    PROVE  \A things, claims, tasks : \E v : Shows(things, claims, tasks, v)
<1>1. ASSUME NEW things, NEW claims, NEW tasks, NEW l, l = Slice(things, claims, tasks)
      PROVE  \E v : Shows(things, claims, tasks, v)
  <2>1. l.things = things /\ l.claims = claims /\ l.tasks = tasks
    BY <1>1 DEF Slice
  <2>2. PICK v : Sees(l, v)
    BY <1>1 DEF ScenarioInv, Sliced
  <2>3. Shows(things, claims, tasks, v)
    BY <1>1, <2>1, <2>2 DEF Shows, Sees, Fits
  <2>4. QED
    BY <2>3
<1>2. QED
  BY <1>1

\* Who may be asked a property is one of the scenarios, and where it has ended
\* is the exit of its steps.
LEMMA AtTheEnd ==
    ASSUME ScenarioInv
    PROVE  id \in DOMAIN Scenario /\ (Ended => Place = Exit(Steps))
BY DEF ScenarioInv, ControlInside, Ended, Place

\* Everything is what it is declared to be, in every run of scenarios that are
\* well written and excused no more than they need: control stays inside the steps, and the name of a task that
\* rejected is not the name of one at work.
THEOREM TypesAreKept ==
    ASSUME DOMAIN Scenario \subseteq WellWritten \cap NoneNeedless
    PROVE  Spec => []TypeOK
<1>1. AllWellFormed
  BY DEF WellWritten, AllWellFormed
<1>2. ASSUME ScenarioInv PROVE TypeOK
  <2>1. /\ id \in WellWritten \cap NoneNeedless /\ pc \in 0..Len(Scenario[id])
        /\ flow \in {"on", "throw", "return"}
        /\ {verdict, guarded, missed, crashed} \subseteq BOOLEAN
        /\ crashed => rejected # {}
    BY <1>2 DEF ScenarioInv, ControlInside, Steps
  <2>2. ASSUME NEW name \in Names \cap rejected PROVE FALSE
    <3>1. PICK u \in busy : u.name = name
      BY DEF Names
    <3>2. PICK m \in DOMAIN Steps : u \in TasksAt(Steps, m)
      BY <1>2, <3>1 DEF ScenarioInv, TasksKnown
    <3>3. PICK n \in DOMAIN Steps : \E t \in TasksAt(Steps, n) : t.rejects /\ t.name = name /\ t \notin busy
      BY <1>2 DEF ScenarioInv, TasksKnown
    <3>4. PICK t \in TasksAt(Steps, n) : t.rejects /\ t.name = name /\ t \notin busy
      BY <3>3
    <3>5. WellFormed(Steps)
      BY <1>1, <1>2 DEF AllWellFormed, ScenarioInv, ControlInside, Steps
    <3>6. t = u
      BY <3>1, <3>2, <3>4, <3>5 DEF WellFormed
    <3>7. QED
      BY <3>1, <3>4, <3>6
  <2>3. QED
    BY <2>1, <2>2 DEF TypeOK
<1>3. Spec => []ScenarioInv
  BY <1>1, SlicesAreSound
<1>4. QED
  BY <1>2, <1>3, PTL

\* Whatever a cleanup knows of is let go of at the end, however many things the
\* scenario holds beside it: each is lost from view at the exit on its own.
THEOREM CleanupsRelease ==
    ASSUME AllWellFormed,
           \A i \in DOMAIN Scenario : i \notin Exempt["CleanupReleases"] => CleansUp(Scenario[i])
    PROVE  Spec => []CleanupReleases
<1>1. ASSUME ScenarioInv PROVE CleanupReleases
  <2>1. SUFFICES ASSUME Asked("CleanupReleases"), Ended, guarded, NEW r \in held \cap kept
                 PROVE  FALSE
    BY DEF CleanupReleases
  <2>2. CleansUp(Steps) /\ Place = Exit(Steps) /\ r \in Made(Steps)
    BY <1>1, <2>1, AtTheEnd DEF Asked, Steps, ScenarioInv, HeldWasMade
  <2>3. PICK v : Shows({r}, {}, {}, v)
    BY <1>1, InView
  <2>4. QED
    BY <2>1, <2>2, <2>3 DEF CleansUp, OfThings, Shows
<1>2. QED
  BY <1>1, SlicesAreSound, PTL

\* A scenario that passes holds nothing at its end.
THEOREM PassesLeaveNothing ==
    ASSUME AllWellFormed,
           \A i \in DOMAIN Scenario : i \notin Exempt["PassLeavesNothing"] => LeavesNothing(Scenario[i])
    PROVE  Spec => []PassLeavesNothing
<1>1. ASSUME ScenarioInv PROVE PassLeavesNothing
  <2>1. SUFFICES ASSUME Asked("PassLeavesNothing"), Passed, NEW r \in held
                 PROVE  FALSE
    BY DEF PassLeavesNothing
  <2>2. LeavesNothing(Steps) /\ Place = Exit(Steps) /\ r \in Made(Steps)
    BY <1>1, <2>1, AtTheEnd DEF Asked, Passed, Steps, ScenarioInv, HeldWasMade
  <2>3. PICK claims : \A x \in Views(Steps, Slice({r}, claims, {})) :
             x[1] = Exit(Steps) /\ x[2].flow # "throw" /\ x[2].verdict => r \notin x[2].held
    BY <2>2 DEF LeavesNothing
  <2>4. PICK v : Shows({r}, claims, {}, v)
    BY <1>1, InView
  <2>5. QED
    BY <2>1, <2>2, <2>3, <2>4 DEF Passed, Shows
<1>2. QED
  BY <1>1, SlicesAreSound, PTL

\* A wire has its peer and its session as long as it listens, known to a cleanup
\* or not, at every step and on every way out.
THEOREM WiresKeepTheirPeer ==
    ASSUME AllWellFormed,
           \A i \in DOMAIN Scenario : i \notin Exempt["WiresHaveTheirPeer"] => WiresHeld(Scenario[i])
    PROVE  Spec => []WiresHaveTheirPeer
<1>1. ASSUME ScenarioInv PROVE WiresHaveTheirPeer
  <2>1. SUFFICES ASSUME Asked("WiresHaveTheirPeer"), NEW w \in held, w[1] = "wire",
                        NEW p \in Needs(w)
                 PROVE  p \in held
    BY DEF WiresHaveTheirPeer, Needs
  <2>2. WiresHeld(Steps) /\ w \in Made(Steps)
    BY <1>1, <2>1, AtTheEnd DEF Asked, Steps, ScenarioInv, HeldWasMade
  <2>3. PICK v : Shows({w, p}, {}, {}, v)
    BY <1>1, InView
  <2>4. p \in v.held
    BY <2>1, <2>2, <2>3 DEF WiresHeld, OfThings, Shows
  <2>5. QED
    BY <2>3, <2>4 DEF Shows
<1>2. QED
  BY <1>1, SlicesAreSound, PTL

\* No task is at work when a scenario ends without a throw.
THEOREM NothingGoesOn ==
    ASSUME AllWellFormed,
           \A i \in DOMAIN Scenario : i \notin Exempt["NothingRunsOn"] => TasksOver(Scenario[i])
    PROVE  Spec => []NothingRunsOn
<1>1. ASSUME ScenarioInv PROVE NothingRunsOn
  <2>1. SUFFICES ASSUME Asked("NothingRunsOn"), Ended, flow # "throw", NEW t \in busy
                 PROVE  FALSE
    BY DEF NothingRunsOn
  <2>2. TasksOver(Steps) /\ Place = Exit(Steps) /\ t \in Tasks(Steps)
    BY <1>1, <2>1, AtTheEnd DEF Asked, Steps, ScenarioInv, TasksKnown, Tasks
  <2>3. PICK v : Shows({}, {}, {t}, v)
    BY <1>1, InView
  <2>4. QED
    BY <2>1, <2>2, <2>3 DEF TasksOver, Shows
<1>2. QED
  BY <1>1, SlicesAreSound, PTL

\* A scenario passes only with what its header says, but for the claims that are
\* listed as unchecked.
THEOREM PassesAreEarned ==
    ASSUME AllWellFormed,
           \A i \in DOMAIN Scenario : Earns(Scenario[i], Claims[i] \ Unchecked[i])
    PROVE  Spec => []PassIsEarned
<1>1. ASSUME ScenarioInv PROVE PassIsEarned
  <2>1. SUFFICES ASSUME Passed, flow = "on", NEW c \in Claims[id] \ Unchecked[id]
                 PROVE  c \in seen
    BY DEF PassIsEarned
  <2>2. Earns(Steps, Claims[id] \ Unchecked[id]) /\ Place = Exit(Steps)
    BY <1>1, <2>1, AtTheEnd DEF Passed, Steps
  <2>3. PICK v : Shows({}, {c}, {}, v)
    BY <1>1, InView
  <2>4. c \in v.seen
    BY <2>1, <2>2, <2>3 DEF Earns, Passed, Shows
  <2>5. QED
    BY <2>3, <2>4 DEF Shows
<1>2. QED
  BY <1>1, SlicesAreSound, PTL

(***************************************************************************)
(* Three properties need more than the views.                              *)
(***************************************************************************)
\* Only a call of the cleanup sets missed, and it finds what it goes through.
THEOREM CallsGetThrough ==
    ASSUME AllWellFormed, \A i \in DOMAIN Scenario : CallsReach(Scenario[i])
    PROVE  Spec => []CleanupCallsReach
<1>1. Init => CleanupCallsReach
  BY DEF Init, CleanupCallsReach
<1>2. ASSUME ScenarioInv, CleanupCallsReach, [Next]_vars PROVE CleanupCallsReach'
  <2>1. CASE DoAttempt
    <3>1. SUFFICES ASSUME Now.arg \subseteq held \cap kept, NEW r \in Now.on, r \notin held
                   PROVE  FALSE
      BY <1>2, <2>1 DEF DoAttempt, CleanupCallsReach, Works
    <3>2. /\ pc \in DOMAIN Steps /\ Place = pc /\ Now = Steps[pc] /\ Now.op = "attempt"
          /\ CallsReach(Steps)
      BY <1>2, <2>1, StepControl, AtTheEnd DEF ScenarioInv, StepOn, DoAttempt, Is, Steps
    <3>3. PICK v : Shows(Now.arg \cup {r}, {}, {}, v)
      BY <1>2, InView
    <3>4. r \in v.held
      BY <3>1, <3>2, <3>3 DEF CallsReach, OfThings, Shows
    <3>5. QED
      BY <3>1, <3>3, <3>4 DEF Shows
  <2>2. CASE ~ DoAttempt
    <3>1. missed' = missed
      BY <1>2, <2>2 DEF Next, StepOn, TasksEnd, TaskEnds, TaskRejects, vars, DoCall, DoMeasure, DoOpen,
         DoMake, DoKeep, DoClose, DoNote, DoDemand, DoJudge, DoReturn, DoBranch, DoCatch, DoEnter,
         DoResume, DoStart, DoStop, Await, DoJoin, DoSettle
    <3>2. QED
      BY <1>2, <3>1 DEF CleanupCallsReach
  <2>3. QED
    BY <2>1, <2>2
<1>3. Spec => []ScenarioInv
  BY SlicesAreSound
<1>4. QED
  BY <1>1, <1>2, <1>3, PTL DEF Spec

\* Whoever may reject is waited for already.
AllHeard == Asked("NoRejectionUnheard") => ~crashed /\ \A t \in busy : t.rejects => t.name \in awaited

\* No rejection goes unheard where every task that may reject is started by
\* somebody who waits for it at once.
THEOREM RejectionsAreHeard ==
    ASSUME AllWellFormed,
           \A i \in DOMAIN Scenario : i \notin Exempt["NoRejectionUnheard"] => Heard(Scenario[i])
    PROVE  Spec => []NoRejectionUnheard
<1>1. Init => AllHeard
  BY DEF Init, AllHeard
<1>2. ASSUME ScenarioInv, AllHeard, [Next]_vars PROVE AllHeard'
  <2>1. id' = id
    BY <1>2 DEF Next, StepOn, TasksEnd, TaskEnds, TaskRejects, vars, DoCall, DoAttempt, DoMeasure, DoOpen,
       DoMake, DoKeep, DoClose, DoNote, DoDemand, DoJudge, DoReturn, DoBranch, DoCatch, DoEnter,
       DoResume, DoStart, DoStop, Await, DoJoin, DoSettle
  <2>2. SUFFICES ASSUME Asked("NoRejectionUnheard")
                 PROVE  ~crashed' /\ \A t \in busy' : t.rejects => t.name \in awaited'
    BY <2>1 DEF AllHeard, Asked
  <2>3. ~crashed /\ \A t \in busy : t.rejects => t.name \in awaited
    BY <1>2, <2>2 DEF AllHeard
  <2>4. CASE DoStart
    <3>1. /\ pc \in DOMAIN Steps /\ Now = Steps[pc] /\ Heard(Steps)
      BY <1>2, <2>2, <2>4, StepControl, AtTheEnd DEF ScenarioInv, StepOn, Steps, Asked
    <3>2. Now.op = "start" => \A t \in Now.arg : ~t.rejects
      BY <3>1 DEF Heard
    <3>3. QED
      BY <2>3, <2>4, <3>2 DEF DoStart, Is
  <2>5. CASE TasksEnd
    <3>1. PICK t \in busy : TaskEnds(t) \/ TaskRejects(t)
      BY <2>5 DEF TasksEnd
    <3>2. /\ awaited' = awaited /\ busy' \subseteq busy
          /\ crashed' => crashed \/ (t.rejects /\ t.name \notin awaited)
      <4>1. CASE TaskEnds(t)
        BY <4>1 DEF TaskEnds
      <4>2. CASE TaskRejects(t)
        <5>1. crashed' => t.name \notin awaited
          BY <4>2, Zenon DEF TaskRejects
        <5>2. QED
          BY <4>2, <5>1 DEF TaskRejects
      <4>3. QED
        BY <3>1, <4>1, <4>2
    <3>3. QED
      BY <2>3, <3>1, <3>2
  <2>6. CASE ~ DoStart /\ ~ TasksEnd
    <3>1. busy' = busy /\ crashed' = crashed /\ awaited \subseteq awaited'
      BY <1>2, <2>6 DEF Next, StepOn, vars, DoCall, DoAttempt, DoMeasure, DoOpen,
         DoMake, DoKeep, DoClose, DoNote, DoDemand, DoJudge, DoReturn, DoBranch, DoCatch, DoEnter,
         DoResume, DoStop, Await, DoJoin, DoSettle, Beside
    <3>2. QED
      BY <2>3, <3>1
  <2>7. QED
    BY <2>4, <2>5, <2>6
<1>3. AllHeard => NoRejectionUnheard
  BY DEF AllHeard, NoRejectionUnheard
<1>4. Spec => []ScenarioInv
  BY SlicesAreSound
<1>5. QED
  BY <1>1, <1>2, <1>3, <1>4, PTL DEF Spec

\* Only a step that closes lets go of something, and then of nothing that a
\* task at work goes through.
THEOREM UsesStayHeld ==
    ASSUME AllWellFormed,
           \A i \in DOMAIN Scenario : i \notin Exempt["InUseIsHeld"] => UsesHeld(Scenario[i])
    PROVE  Spec => InUseIsHeld
<1> DEFINE Kept == Asked("InUseIsHeld") =>
               \A t \in busy' : rejected = {} /\ t.on \subseteq held => t.on \subseteq held'
<1>1. ASSUME ScenarioInv, [Next]_vars PROVE Kept
  <2>1. CASE DoClose
    <3>1. SUFFICES ASSUME Asked("InUseIsHeld"), NEW t \in busy, rejected = {}, t.on \subseteq held,
                          NEW r \in t.on, r \notin held'
                   PROVE  FALSE
      BY <2>1 DEF DoClose, Beside
    <3>2. r \in Now.arg \cap kept
      BY <2>1, <3>1 DEF DoClose
    <3>3. /\ pc \in DOMAIN Steps /\ Place = pc /\ Now = Steps[pc] /\ Now.op = "close"
          /\ UsesHeld(Steps) /\ t \in Tasks(Steps)
      BY <1>1, <2>1, <3>1, StepControl, AtTheEnd
      DEF ScenarioInv, StepOn, DoClose, Is, Steps, Asked, TasksKnown, Tasks
    <3>4. PICK v : Shows({r}, {}, {t}, v)
      BY <1>1, InView
    <3>5. QED
      BY <3>1, <3>2, <3>3, <3>4 DEF UsesHeld, Shows
  <2>2. CASE ~ DoClose
    <3>1. held \subseteq held'
      BY <1>1, <2>2 DEF Next, StepOn, TasksEnd, TaskEnds, TaskRejects, vars, DoCall, DoAttempt, DoMeasure,
         DoOpen, DoMake, DoKeep, DoNote, DoDemand, DoJudge, DoReturn, DoBranch, DoCatch, DoEnter,
         DoResume, DoStart, DoStop, Await, DoJoin, DoSettle, Things
    <3>2. QED
      BY <3>1
  <2>3. QED
    BY <2>1, <2>2
<1>2. Spec => []ScenarioInv
  BY SlicesAreSound
<1>3. QED
  BY <1>1, <1>2, PTL DEF Spec, InUseIsHeld
=============================================================================
