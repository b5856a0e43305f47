--------------------------- MODULE GitHistoryProofs --------------------------
(***************************************************************************)
(* What clients see of a branch's history: reads never go back, and a push *)
(* is refused only for a reason.  HistoryInv is inductive on top of the    *)
(* invariants of the lock and of the handlers.                             *)
(***************************************************************************)
EXTENDS GitShimProofs

(* A request that has arrived asks for the same thing for ever.            *)
LEMMA RequestStays ==
    ASSUME GitInv, [Next]_vars, NEW s \in Requests, step[s] # "new"
    PROVE  req'[s] = req[s]
<1>1. ASSUME NEW r \in Requests, NEW i \in Inputs, Arrive(r, i)
      PROVE  req'[s] = req[s]
  BY <1>1 DEF Arrive, GitInv, TypeOK
<1>2. ASSUME NEW r \in Requests, BodyRead(r) \/ BodyFails(r) \/ Enter(r) \/ Handler(r)
      PROVE  req'[s] = req[s]
  BY <1>2 DEF BodyRead, BodyFails, Enter, Handler, EnsureRepo, GetRef, GetObject, PostObject,
              PostRef, PatchRef, WalkRefuses, WalkFails, RefuseOnFailure, WalkReads, WriteRef, Reply, Throws, Finish
<1> QED BY <1>1, <1>2 DEF Next, vars

(* A request is done because it was, because its upload broke off, or      *)
(* because its handler answers in this step.                               *)
LEMMA DoneBy ==
    ASSUME GitInv, [Next]_vars, NEW s \in Requests, step'[s] = "done"
    PROVE  \/ step[s] = "done" /\ reply'[s] = reply[s]
           \/ step[s] = "body" /\ reply'[s].code = 500 /\ UNCHANGED lockVars
           \/ Handler(s) /\ step[s] \in InLock /\ Release(s)
<1>1. ASSUME NEW r \in Requests, s # r,
             \/ \E i \in Inputs : Arrive(r, i)
             \/ BodyRead(r) \/ BodyFails(r) \/ Enter(r) \/ Handler(r)
      PROVE  step'[s] = step[s] /\ reply'[s] = reply[s]
  BY <1>1 DEF Arrive, BodyRead, BodyFails, Enter, Handler, EnsureRepo, GetRef, GetObject,
              PostObject, PostRef, PatchRef, WalkRefuses, WalkFails, RefuseOnFailure, WalkReads, WriteRef, Reply, Throws,
              Finish, Goto, GitInv, TypeOK
<1>2. ~ \E i \in Inputs : Arrive(s, i)
  BY DEF Arrive, Goto, GitInv, TypeOK
<1>3. ~BodyRead(s) /\ ~Enter(s)
  BY DEF BodyRead, Enter, Goto, GitInv, TypeOK
<1>4. ASSUME BodyFails(s)
      PROVE  step[s] = "body" /\ reply'[s].code = 500 /\ UNCHANGED lockVars
  BY <1>4 DEF BodyFails, GitInv, TypeOK
<1>5. ASSUME Handler(s)
      PROVE  step[s] \in InLock /\ Release(s)
  BY <1>5 DEF Handler, EnsureRepo, GetRef, GetObject, PostObject, PostRef, PatchRef,
              WalkRefuses, WalkFails, RefuseOnFailure, WalkReads, WriteRef, Reply, Throws,
              Finish, Goto, InLock,
              GitInv, TypeOK
<1>6. CASE UNCHANGED vars
  BY <1>6 DEF vars
<1> QED BY <1>1, <1>2, <1>3, <1>4, <1>5, <1>6 DEF Next

(* A step of the server on the lock, as one of the mutex's own, by whom.   *)
LEMMA LockMoves ==
    ASSUME GitInv, [Next]_vars
    PROVE  \/ \E r \in Requests, k \in Repos : Enqueue(r, k) /\ req'[r].repo = k
           \/ \E r \in Requests : Admit(r)
           \/ \E r \in Requests : Release(r)
           \/ UNCHANGED lockVars
<1>1. ASSUME NEW r \in Requests, NEW i \in Inputs, Arrive(r, i)
      PROVE  \/ \E k \in Repos : Enqueue(r, k) /\ req'[r].repo = k
             \/ UNCHANGED lockVars
  <2>1. i.repo \in Repos
    BY GitAssumption DEF Request
  <2>2. req'[r] = i
    BY <1>1 DEF Arrive, GitInv, TypeOK
  <2> QED BY <1>1, <2>1, <2>2 DEF Arrive
<1>2. ASSUME NEW r \in Requests, BodyRead(r)
      PROVE  \E k \in Repos : Enqueue(r, k) /\ req'[r].repo = k
  <2>1. req[r] \in Inputs
    BY <1>2 DEF GitInv, StepsFollowLock, BodyRead
  <2>2. req[r].repo \in Repos
    BY <2>1, GitAssumption DEF Request
  <2> QED BY <1>2, <2>2 DEF BodyRead
<1>3. ASSUME NEW r \in Requests, BodyFails(r)
      PROVE  UNCHANGED lockVars
  BY <1>3 DEF BodyFails
<1>4. ASSUME NEW r \in Requests, Enter(r)
      PROVE  Admit(r)
  BY <1>4 DEF Enter
<1>5. ASSUME NEW r \in Requests, Handler(r)
      PROVE  Release(r) \/ UNCHANGED lockVars
  BY <1>5 DEF Handler, EnsureRepo, GetRef, GetObject, PostObject, PostRef, PatchRef,
              WalkRefuses, WalkFails, RefuseOnFailure, WalkReads, WriteRef, Reply, Throws, Finish
<1>6. CASE UNCHANGED vars
  BY <1>6 DEF vars
<1> QED BY <1>1, <1>2, <1>3, <1>4, <1>5, <1>6 DEF Next

(* Of all the requests inside, the one that releases arrived first.        *)
LEMMA ReleaserIsFirst ==
    ASSUME LockInv, NEW r \in Requests, Release(r),
           NEW s \in Requests, s # r, Active(s), repo[s] = repo[r]
    PROVE  ticket[r] < ticket[s]
<1>1. phase[r] = "holding"
  BY DEF Release
<1>2. phase[s] # "holding"
  BY <1>1, LockInvImpliesMutex DEF MutualExclusion
<1> QED BY <1>1, <1>2, LockInvImpliesOrder DEF ArrivalOrder, Active

(* Only the first of those inside is served; who comes later draws a later *)
(* ticket.                                                                 *)
LEMMA ServedFirstStep ==
    ASSUME LockInv, GitInv, ServedFirst, [Next]_vars
    PROVE  ServedFirst'
<1> DEFINE Behind(r) == /\ repo[r] = req[r].repo /\ repo[r] \in Repos
                        /\ ticket[r] < issued[repo[r]]
                        /\ \A s \in Requests :
                              Active(s) /\ repo[s] = repo[r] => ticket[r] < ticket[s]
<1>1. \A r \in Requests : phase[r] = "released" => Behind(r)
  BY DEF ServedFirst
<1>2. \A r \in Requests : phase[r] = "released" => step[r] # "new"
  BY DEF GitInv, StepsFollowLock
<1>3. \A r \in Requests : phase[r] = "released" => req'[r] = req[r]
  BY <1>2, RequestStays
<1>4. LockTypeOK
  BY DEF LockInv
<1>5. ASSUME NEW r \in Requests, NEW k \in Repos, Enqueue(r, k),
             NEW q \in Requests, phase'[q] = "released"
      PROVE  phase[q] = "released" /\ Behind(q)'
  <2>1. /\ phase'[r] = "queued" /\ phase[r] = "outside" /\ repo'[r] = k
        /\ ticket'[r] = issued[k] /\ issued'[k] = issued[k] + 1
        /\ \A s \in Requests : s # r => /\ phase'[s] = phase[s] /\ repo'[s] = repo[s]
                                        /\ ticket'[s] = ticket[s]
        /\ \A l \in Repos : l # k => issued'[l] = issued[l]
    BY <1>4, <1>5 DEF Enqueue, LockTypeOK
  <2>2. q # r /\ phase[q] = "released" /\ Behind(q) /\ req'[q] = req[q]
    BY <1>1, <1>3, <1>5, <2>1
  <2>3. repo'[q] = repo[q] /\ ticket'[q] = ticket[q] /\ repo[q] \in Repos
    BY <2>1, <2>2
  <2>4. issued[k] \in Nat /\ issued[repo[q]] \in Nat /\ ticket[q] \in Nat
    BY <1>4, <2>3 DEF LockTypeOK
  <2>5. ticket[q] < issued'[repo[q]]
    <3>1. ticket[q] < issued[repo[q]]
      BY <2>2
    <3>2. issued'[repo[q]] = issued[repo[q]] \/ issued'[repo[q]] = issued[repo[q]] + 1
      BY <2>1, <2>3
    <3> QED BY <2>4, <3>1, <3>2
  <2>6. ASSUME NEW s \in Requests, Active(s)', repo'[s] = repo[q]
        PROVE  ticket[q] < ticket'[s]
    <3>1. CASE s = r
      <4>1. repo[q] = k /\ ticket'[s] = issued[k]
        BY <2>1, <2>6, <3>1
      <4> QED BY <2>2, <4>1
    <3>2. CASE s # r
      BY <2>1, <2>2, <2>6, <3>2 DEF Active
    <3> QED BY <3>1, <3>2
  <2> QED BY <2>2, <2>3, <2>5, <2>6
<1>6. ASSUME NEW r \in Requests, Admit(r), NEW q \in Requests, phase'[q] = "released"
      PROVE  phase[q] = "released" /\ Behind(q)'
  <2>1. /\ phase[r] = "queued" /\ phase'[r] = "holding"
        /\ \A s \in Requests : s # r => phase'[s] = phase[s]
        /\ UNCHANGED <<repo, ticket, issued>>
    BY <1>4, <1>6 DEF Admit, LockTypeOK
  <2>2. q # r /\ phase[q] = "released" /\ Behind(q) /\ req'[q] = req[q]
    BY <1>1, <1>3, <1>6, <2>1
  <2>3. \A s \in Requests : Active(s)' <=> Active(s)
    BY <2>1 DEF Active
  <2> QED BY <2>1, <2>2, <2>3
<1>7. ASSUME NEW r \in Requests, Release(r), NEW q \in Requests, phase'[q] = "released"
      PROVE  Behind(q)' /\ (q # r => phase[q] = "released")
  <2>1. /\ phase[r] = "holding" /\ phase'[r] = "released"
        /\ \A s \in Requests : s # r => phase'[s] = phase[s]
        /\ UNCHANGED <<repo, ticket, issued>>
    BY <1>4, <1>7 DEF Release, LockTypeOK
  <2>2. \A s \in Requests : Active(s)' => Active(s) /\ s # r
    BY <2>1 DEF Active
  <2>3. CASE q # r
    <3>1. phase[q] = "released" /\ Behind(q) /\ req'[q] = req[q]
      BY <1>1, <1>3, <1>7, <2>1, <2>3
    <3> QED BY <2>1, <2>2, <3>1
  <2>4. CASE q = r
    <3>1. Active(r) /\ repo[r] = req[r].repo /\ step[r] # "new"
      BY <2>1 DEF Active, GitInv, StepsFollowLock
    <3>2. req'[r] = req[r]
      BY <3>1, RequestStays
    <3>3. repo[r] \in Repos /\ ticket[r] < issued[repo[r]]
      BY <3>1 DEF LockInv, Chain
    <3>4. \A s \in Requests : Active(s)' /\ repo[s] = repo[r] => ticket[r] < ticket[s]
      BY <1>7, <2>2, ReleaserIsFirst
    <3> QED BY <2>1, <2>4, <3>1, <3>2, <3>3, <3>4
  <2> QED BY <2>3, <2>4
<1>8. \A q \in Requests : phase'[q] = "released" => Behind(q)'
  <2>1. CASE UNCHANGED lockVars
    <3>1. \A s \in Requests : Active(s)' <=> Active(s)
      BY <2>1 DEF lockVars, Active
    <3> QED BY <1>1, <1>3, <2>1, <3>1 DEF lockVars
  <2> QED BY <1>5, <1>6, <1>7, <2>1, LockMoves
<1>9. ASSUME NEW q \in Requests, step'[q] = "done", reply'[q].code # 500
       PROVE  phase'[q] = "released"
  <2>1. CASE step[q] = "done" /\ reply'[q] = reply[q]
    <3>1. phase[q] = "released"
      BY <1>9, <2>1 DEF ServedFirst
    <3>2. \A r \in Requests, k \in Repos : Enqueue(r, k) => r # q
      BY <3>1 DEF Enqueue
    <3>3. \A r \in Requests : Admit(r) \/ Release(r) => r # q
      BY <3>1 DEF Admit, Release
    <3> QED
      BY <1>4, <3>1, <3>2, <3>3, LockMoves DEF Enqueue, Admit, Release, LockTypeOK, lockVars
  <2>2. CASE Release(q)
    BY <1>4, <2>2 DEF Release, LockTypeOK
  <2> QED BY <1>9, <2>1, <2>2, DoneBy
<1> QED BY <1>8, <1>9 DEF ServedFirst

(* A walk starts in PatchRef, at the pushed commit, and goes on in         *)
(* WalkReads: what it has met it has read or has still to read.            *)
LEMMA WalkIsCompleteStep ==
    ASSUME LockInv, GitInv, WalkIsComplete, [Next]_vars
    PROVE  WalkIsComplete'
<1> SUFFICES ASSUME NEW q \in Requests, step'[q] = "walk"
             PROVE  /\ current'[q] # req'[q].sha /\ current'[q] \notin seen'[q]
                    /\ \A c \in seen'[q] \cup {req'[q].sha} :
                          \/ c \in frontier'[q]
                          \/ c \in Commits /\ Parents[c] \subseteq seen'[q]
  BY DEF WalkIsComplete
<1>1. \/ PatchRef(q) \/ \E c \in Objects : WalkReads(q, c)
      \/ step[q] = "walk" /\ current'[q] = current[q] /\ frontier'[q] = frontier[q]
         /\ seen'[q] = seen[q]
  <2>1. ASSUME NEW r \in Requests, NEW i \in Inputs, Arrive(r, i)
        PROVE  step[q] = "walk" /\ UNCHANGED handlerVars
    BY <2>1 DEF Arrive, Goto, GitInv, TypeOK
  <2>2. ASSUME NEW r \in Requests, BodyRead(r) \/ BodyFails(r) \/ Enter(r)
        PROVE  step[q] = "walk" /\ UNCHANGED handlerVars
    BY <2>2 DEF BodyRead, BodyFails, Enter, Goto, GitInv, TypeOK
  <2>3. ASSUME NEW r \in Requests,
               \/ EnsureRepo(r) \/ GetRef(r) \/ GetObject(r) \/ PostObject(r) \/ PostRef(r)
               \/ WalkRefuses(r) \/ WalkFails(r) \/ RefuseOnFailure(r) \/ WriteRef(r) \/ Reply(r)
               \/ Throws(r)
        PROVE  step[q] = "walk" /\ UNCHANGED handlerVars
    BY <2>3 DEF EnsureRepo, GetRef, GetObject, PostObject, PostRef, WalkRefuses, WalkFails,
                RefuseOnFailure, WriteRef, Reply, Throws, Finish, Goto, GitInv, TypeOK
  <2>4. ASSUME NEW r \in Requests, r # q, PatchRef(r) \/ \E c \in Objects : WalkReads(r, c)
        PROVE  step[q] = "walk" /\ current'[q] = current[q] /\ frontier'[q] = frontier[q]
               /\ seen'[q] = seen[q]
    BY <2>4 DEF PatchRef, WalkReads, Finish, Goto, GitInv, TypeOK, handlerVars
  <2> QED BY <2>1, <2>2, <2>3, <2>4 DEF Next, Handler, vars, handlerVars
<1>2. req'[q] = req[q]
  <2>1. step[q] # "new"
    BY <1>1 DEF PatchRef, WalkReads
  <2> QED BY <2>1, RequestStays
<1>3. CASE PatchRef(q)
  <2>1. /\ current'[q] = Head(q) /\ req[q].sha # Head(q)
        /\ frontier'[q] = {req[q].sha} /\ seen'[q] = {}
    BY <1>3 DEF PatchRef, Finish, Goto, GitInv, TypeOK
  <2> QED BY <1>2, <2>1
<1>4. ASSUME NEW c \in Objects, WalkReads(q, c)
      PROVE  /\ current'[q] # req'[q].sha /\ current'[q] \notin seen'[q]
             /\ \A d \in seen'[q] \cup {req'[q].sha} :
                   \/ d \in frontier'[q]
                   \/ d \in Commits /\ Parents[d] \subseteq seen'[q]
  <2>1. /\ c \in Commits /\ current[q] \notin Parents[c] /\ step[q] = "walk"
        /\ frontier'[q] = (frontier[q] \ {c}) \cup (Parents[c] \ seen[q])
        /\ seen'[q] = seen[q] \cup Parents[c] /\ current'[q] = current[q]
    BY <1>4 DEF WalkReads, Readable, Goto, GitInv, TypeOK
  <2>2. /\ current[q] # req[q].sha /\ current[q] \notin seen[q]
        /\ \A d \in seen[q] \cup {req[q].sha} :
              d \in frontier[q] \/ (d \in Commits /\ Parents[d] \subseteq seen[q])
    BY <2>1 DEF WalkIsComplete
  <2> QED BY <1>2, <2>1, <2>2
<1>5. CASE /\ step[q] = "walk" /\ current'[q] = current[q] /\ frontier'[q] = frontier[q]
           /\ seen'[q] = seen[q]
  BY <1>2, <1>5 DEF WalkIsComplete
<1> QED BY <1>1, <1>3, <1>4, <1>5

(* Being an ancestor or the same is transitive.                            *)
LEMMA AncestorTransitive ==
    ASSUME NEW a, NEW b, NEW c, AncestorOrSame(a, b), AncestorOrSame(b, c)
    PROVE  AncestorOrSame(a, c)
<1>1. CASE a # b /\ b # c
  <2>1. <<a, b>> \in Ancestor /\ <<b, c>> \in Ancestor
    BY <1>1 DEF AncestorOrSame
  <2>2. a \in Commits /\ b \in Commits /\ c \in Commits
    BY <2>1, GitAssumption
  <2> QED BY <2>1, <2>2, GitAssumption DEF AncestorOrSame
<1> QED BY <1>1 DEF AncestorOrSame

(* Without force a branch that exists stays, and moves to descendants: one *)
(* step of the store the server refines.                                   *)
LEMMA HeadMovesForward ==
    ASSUME LockInv, GitInv, [Next]_vars, NoForce,
           NEW s \in Requests, step[s] # "new", Head(s) # NoSha
    PROVE  Head(s)' # NoSha /\ AncestorOrSame(Head(s), Head(s)')
<1>1. req'[s] = req[s]
  BY RequestStays
<1>2. req[s].repo \in Repos /\ req[s].branch \in Branches
  <2>1. req[s] \in Inputs
    BY DEF GitInv, StepsFollowLock
  <2> QED BY <2>1, GitAssumption DEF Request
<1>3. CASE heads' = heads
  BY <1>1, <1>3 DEF Head, AncestorOrSame
<1>4. ASSUME NEW k \in Repos, NEW b \in Branches, NEW c \in Objects,
             Store!CreateRef(k, b, c) \/ Store!UpdateRef(k, b, c)
      PROVE  Head(s)' # NoSha /\ AncestorOrSame(Head(s), Head(s)')
  <2>1. heads' = [heads EXCEPT ![k][b] = c] /\ c # NoSha
    BY <1>4, GitAssumption DEF Store!CreateRef, Store!UpdateRef
  <2>2. heads \in [Repos -> [Branches -> Objects \cup {NoSha}]]
    BY DEF GitInv, TypeOK
  <2>3. CASE req[s].repo = k /\ req[s].branch = b
    <3>1. heads[k][b] # NoSha /\ heads'[k][b] = c
      BY <1>2, <2>1, <2>2, <2>3 DEF Head
    <3>2. Store!UpdateRef(k, b, c) /\ ~Forced(k, b, c)
      BY <1>4, <3>1 DEF Store!CreateRef, Forced, NoForce
    <3>3. <<heads[k][b], c>> \in Ancestor
      BY <3>2 DEF Store!UpdateRef
    <3> QED BY <1>1, <2>1, <2>3, <3>1, <3>3 DEF Head, AncestorOrSame
  <2>4. CASE ~(req[s].repo = k /\ req[s].branch = b)
    <3>1. heads'[req[s].repo][req[s].branch] = heads[req[s].repo][req[s].branch]
      BY <1>2, <2>1, <2>2, <2>4
    <3> QED BY <1>1, <3>1 DEF Head, AncestorOrSame
  <2> QED BY <2>3, <2>4
<1> QED BY <1>3, <1>4, StepIsStoreStep DEF Store!RefNext

(* A read is answered by GetRef, with the branch, before all who are       *)
(* inside the lock with it.                                                *)
LEMMA ReadDoneBy ==
    ASSUME LockInv, GitInv, [Next]_vars, NEW s \in Requests, ReadDone(s)'
    PROVE  /\ req'[s] = req[s]
           /\ \/ ReadDone(s) /\ reply'[s] = reply[s]
              \/ /\ Release(s) /\ step[s] \in InLock /\ UNCHANGED heads
                 /\ Head(s) # NoSha /\ reply'[s].sha = Head(s)
<1>1. step'[s] = "done" /\ req'[s].op = "getRef" /\ reply'[s].code \in {200, 304}
  BY DEF ReadDone
<1>2. step[s] # "new"
  BY <1>1, DoneBy DEF InLock
<1>3. req'[s] = req[s]
  BY <1>2, RequestStays
<1>4. CASE Handler(s) /\ step[s] \in InLock /\ Release(s)
  <2>1. GetRef(s)
    <3>1. ~EnsureRepo(s) /\ ~PostRef(s) /\ ~PatchRef(s) /\ ~GetObject(s) /\ ~PostObject(s)
      BY <1>1, <1>3 DEF EnsureRepo, PostRef, PatchRef, GetObject, PostObject, Goto, GitInv, TypeOK
    <3>2. ~WalkRefuses(s) /\ ~RefuseOnFailure(s) /\ ~Throws(s)
      BY <1>1 DEF WalkRefuses, RefuseOnFailure, Throws, Finish, GitInv, TypeOK
    <3>3. ~WriteRef(s) /\ ~WalkFails(s) /\ \A c \in Objects : ~WalkReads(s, c)
      BY <1>1 DEF WriteRef, WalkFails, WalkReads, Goto, GitInv, TypeOK
    <3>4. ~Reply(s)
      BY <1>1, <1>3 DEF Reply, GitInv, WalkIsSound
    <3> QED BY <1>4, <3>1, <3>2, <3>3, <3>4 DEF Handler
  <2>2. Head(s) # NoSha /\ reply'[s].sha = Head(s) /\ UNCHANGED heads
    BY <1>1, <2>1 DEF GetRef, Finish, GitInv, TypeOK, storeVars
  <2> QED BY <1>3, <1>4, <2>2
<1>5. CASE step[s] = "done" /\ reply'[s] = reply[s]
  BY <1>1, <1>3, <1>5 DEF ReadDone
<1> QED BY <1>1, <1>4, <1>5, DoneBy

(* A read names the branch, or something the branch has moved on from.     *)
LEMMA ReadsHoldStep ==
    ASSUME LockInv, GitInv, ReadsHold, [Next]_vars
    PROVE  ReadsHold'
<1> SUFFICES ASSUME NoForce, NEW s \in Requests, ReadDone(s)'
             PROVE  Head(s)' # NoSha /\ AncestorOrSame(reply'[s].sha, Head(s)')
  BY DEF ReadsHold, NoForce, AncestorOrSame
<1>1. CASE ReadDone(s) /\ reply'[s] = reply[s]
  <2>1. step[s] # "new" /\ Head(s) # NoSha /\ AncestorOrSame(reply[s].sha, Head(s))
    BY <1>1 DEF ReadsHold, ReadDone
  <2>2. Head(s)' # NoSha /\ AncestorOrSame(Head(s), Head(s)')
    BY <2>1, HeadMovesForward
  <2> QED BY <1>1, <2>1, <2>2, AncestorTransitive
<1>2. CASE Head(s) # NoSha /\ reply'[s].sha = Head(s) /\ UNCHANGED heads
  BY <1>2, ReadDoneBy DEF Head, AncestorOrSame
<1> QED BY <1>1, <1>2, ReadDoneBy

(* The later of two reads names the branch as it is, which holds the earlier.*)
LEMMA ReadsMoveForwardStep ==
    ASSUME LockInv, GitInv, ServedFirst, ReadsHold, ReadsMoveForward, [Next]_vars
    PROVE  ReadsMoveForward'
<1> SUFFICES ASSUME NoForce, NEW r \in Requests, NEW s \in Requests,
                    ReadDone(r)', ReadDone(s)', SameBranch(r, s)', ticket'[r] < ticket'[s]
             PROVE  AncestorOrSame(reply'[r].sha, reply'[s].sha)
  BY DEF ReadsMoveForward, ReadDone, NoForce, AncestorOrSame
<1>1. SameBranch(r, s) /\ Head(r) = Head(s)
  BY ReadDoneBy DEF SameBranch, Head
<1>2. CASE ReadDone(r) /\ reply'[r] = reply[r] /\ ReadDone(s) /\ reply'[s] = reply[s]
  <2>1. phase[r] = "released" /\ phase[s] = "released"
    BY <1>2 DEF ServedFirst, ReadDone
  <2>2. ticket'[r] = ticket[r] /\ ticket'[s] = ticket[s]
    BY <2>1, LockMoves DEF Enqueue, Admit, Release, LockInv, LockTypeOK, lockVars
  <2> QED BY <1>1, <1>2, <2>2 DEF ReadsMoveForward, ReadDone
<1>3. CASE ReadDone(r) /\ reply'[r] = reply[r] /\ reply'[s].sha = Head(s)
  BY <1>1, <1>3 DEF ReadsHold
<1>4. CASE ReadDone(s) /\ Release(r) /\ step[r] \in InLock
  <2>1. phase[s] = "released" /\ repo[s] = req[s].repo
    BY <1>4 DEF ServedFirst, ReadDone
  <2>2. Active(r) /\ repo[r] = req[r].repo
    BY <1>4 DEF Release, Active, GitInv, StepsFollowLock
  <2>3. ticket[s] < ticket[r]
    BY <1>1, <2>1, <2>2 DEF ServedFirst, SameBranch
  <2>4. ticket' = ticket /\ ticket[r] \in Nat /\ ticket[s] \in Nat
    BY <1>4 DEF Release, LockInv, LockTypeOK
  <2> QED BY <2>3, <2>4
<1>5. CASE Release(r) /\ Release(s)
  <2>1. r = s
    <3>1. /\ phase[r] = "holding" /\ phase[s] = "holding"
          /\ repo[r] = req[r].repo /\ repo[s] = req[s].repo
      BY <1>5 DEF Release, Active, GitInv, StepsFollowLock
    <3> QED BY <1>1, <3>1, LockInvImpliesMutex DEF MutualExclusion, SameBranch
  <2> QED BY <2>1 DEF AncestorOrSame
<1> QED BY <1>2, <1>3, <1>4, <1>5, ReadDoneBy

(* Nobody has asked for anything.                                          *)
LEMMA InitHistory == Init => HistoryInv
BY DEF Init, LockInit, HistoryInv, WalkIsComplete, ServedFirst, ReadsHold, ReadDone,
       ReadsMoveForward

(* Every step of the server keeps the histories.                           *)
LEMMA NextHistory ==
    LockInv /\ GitInv /\ HistoryInv /\ [Next]_vars => HistoryInv'
BY WalkIsCompleteStep, ServedFirstStep, ReadsHoldStep, ReadsMoveForwardStep DEF HistoryInv

(* The inductive invariant of the branches' histories.                     *)
THEOREM HistoryInductive == Spec => [](LockInv /\ GitInv /\ HistoryInv)
BY InitGitInv, NextInv, InitHistory, NextHistory, PTL DEF Spec

(* Without forced updates the reads of a branch, in the order the server   *)
(* received them, never go back to an older commit.                        *)
THEOREM GitReadsMoveForward == Spec => []ReadsMoveForward
<1>1. HistoryInv => ReadsMoveForward
  BY DEF HistoryInv
<1> QED BY <1>1, HistoryInductive, PTL

(* A walk gives up only when the pushed commit does not descend from the   *)
(* branch, or when a commit of its history is not on the server: an empty  *)
(* frontier means that everything met is closed under Parents.             *)
LEMMA RefusalStep ==
    ASSUME LockInv, GitInv, HistoryInv, [Next]_vars,
           NEW r \in Requests, step[r] = "walk", step'[r] = "done",
           <<Head(r), req[r].sha>> \in Ancestor, Uploaded(r)
    PROVE  FALSE
<1>1. WalkRefuses(r)
  <2>1. Handler(r)
    BY DoneBy DEF InLock
  <2> QED
    BY <2>1
    DEF Handler, EnsureRepo, GetRef, GetObject, PostObject, PostRef, PatchRef, WalkReads,
        WalkFails, RefuseOnFailure, WriteRef, Reply, Throws, Goto, GitInv, TypeOK
<1>2. /\ req[r].op = "patchRef" /\ Head(r) = current[r]
      /\ \A c \in frontier[r] : AncestorOrSame(c, req[r].sha)
  BY DEF GitInv, WalkIsSound, ReadUpdateIsAtomic
<1>3. /\ current[r] # req[r].sha /\ current[r] \notin seen[r]
      /\ \A c \in seen[r] \cup {req[r].sha} :
            c \in frontier[r] \/ (c \in Commits /\ Parents[c] \subseteq seen[r])
  BY DEF HistoryInv, WalkIsComplete
<1>4. current[r] \in Commits /\ req[r].sha \in Commits
  BY <1>2, GitAssumption
<1>5. CASE frontier[r] = {}
  <2> DEFINE h == seen[r] \cup {req[r].sha}
  <2>1. h \in SUBSET Commits /\ \A c \in h : Parents[c] \subseteq h
    BY <1>3, <1>5
  <2>2. \A a \in Commits : \A c \in h : <<a, c>> \in Ancestor => a \in h
    BY <2>1, GitAssumption
  <2>3. current[r] \in h
    BY <1>2, <1>4, <2>2
  <2> QED BY <1>3, <2>3
<1>6. ASSUME NEW c \in frontier[r], ~Readable(r, c)
      PROVE  FALSE
  <2>1. c \in Commits
    BY <1>2, <1>4, GitAssumption DEF AncestorOrSame
  <2> QED BY <1>2, <1>6, <2>1 DEF Uploaded, Readable
<1> QED BY <1>1, <1>5, <1>6 DEF WalkRefuses

(* A walk whose reads succeed refuses a push only when it is no fast       *)
(* forward, or when part of the history the client claims was never        *)
(* uploaded; what is refused after a read that failed it says nothing of.  *)
THEOREM GitWalkRefusalIsJustified == Spec => WalkRefusalIsJustified
<1>1. LockInv /\ GitInv /\ HistoryInv /\ [Next]_vars =>
        [\A r \in Requests :
           step[r] = "walk" /\ step'[r] = "done" =>
              ~(<<Head(r), req[r].sha>> \in Ancestor /\ Uploaded(r))]_vars
  BY RefusalStep
<1> QED BY <1>1, HistoryInductive, PTL DEF Spec, WalkRefusalIsJustified
=============================================================================
