---------------------------- MODULE GitShimProofs ---------------------------
(***************************************************************************)
(* Safety of the git data server for any requests, repositories, branches, *)
(* commit graph and initial disk.  The lock's theorems are used through    *)
(* the fact that a handler moves the lock only by RepoLock's own actions.  *)
(***************************************************************************)
EXTENDS GitShim, RepoLockProofs

(* Inside the lock a handler works on a request of the inputs, on one of   *)
(* the repositories, and alone.                                            *)
LEMMA HandlerFacts ==
    ASSUME LockInv, GitInv, NEW r \in Requests, step[r] \in InLock
    PROVE  /\ req[r] \in Request
           /\ req[r].repo \in Repos /\ req[r].branch \in Branches
           /\ phase[r] = "holding" /\ repo[r] = req[r].repo
           /\ \A s \in Requests :
                 s # r /\ step[s] \in InLock => req[s].repo # req[r].repo
<1>1. phase[r] = "holding" /\ repo[r] = req[r].repo
  BY DEF GitInv, StepsFollowLock, Active
<1>2. req[r] \in Inputs
  BY DEF GitInv, StepsFollowLock, InLock
<1>3. ASSUME NEW s \in Requests, s # r, step[s] \in InLock
      PROVE  req[s].repo # req[r].repo
  <2>1. phase[s] = "holding" /\ repo[s] = req[s].repo
    BY <1>3 DEF GitInv, StepsFollowLock, Active
  <2> QED BY <1>1, <1>3, <2>1, LockInvImpliesMutex DEF MutualExclusion
<1> QED BY <1>1, <1>2, <1>3, GitAssumption DEF Request

(* Every step of the server is a step of the mutex or leaves it alone.     *)
LEMMA StepIsLockStep ==
    ASSUME GitInv, [Next]_vars
    PROVE  [LockNext]_lockVars
<1>1. CASE UNCHANGED vars
  BY <1>1 DEF vars
<1>2. ASSUME NEW r \in Requests, NEW i \in Inputs, Arrive(r, i)
      PROVE  [LockNext]_lockVars
  <2>1. i.repo \in Repos
    BY GitAssumption DEF Request
  <2> QED BY <1>2, <2>1 DEF Arrive, LockNext
<1>3. ASSUME NEW r \in Requests, BodyRead(r)
      PROVE  [LockNext]_lockVars
  <2>1. req[r] \in Inputs
    BY <1>3 DEF GitInv, StepsFollowLock, BodyRead
  <2>2. req[r].repo \in Repos
    BY <2>1, GitAssumption DEF Request
  <2> QED BY <1>3, <2>2 DEF BodyRead, LockNext
<1>4. ASSUME NEW r \in Requests, BodyFails(r)
      PROVE  [LockNext]_lockVars
  BY <1>4 DEF BodyFails
<1>5. ASSUME NEW r \in Requests, Enter(r)
      PROVE  [LockNext]_lockVars
  BY <1>5 DEF Enter, LockNext
<1>6. ASSUME NEW r \in Requests, Handler(r)
      PROVE  [LockNext]_lockVars
  <2>1. ASSUME NEW code, NEW sha, Finish(r, code, sha)
        PROVE  LockNext
    BY <2>1 DEF Finish, LockNext
  <2> QED
    BY <1>6, <2>1
    DEF Handler, EnsureRepo, GetRef, GetObject, PostObject, PostRef, PatchRef,
        WalkRefuses, WalkFails, RefuseOnFailure, WalkReads, WriteRef, Reply, Throws
<1> QED BY <1>1, <1>2, <1>3, <1>4, <1>5, <1>6 DEF Next

LEMMA InitGitInv == Init => LockInv /\ GitInv
<1> SUFFICES ASSUME Init PROVE LockInv /\ GitInv
  OBVIOUS
<1>1. LockInv
  BY LockInitInductive DEF Init
<1>2. PICK d \in Disks : repos = d.repos /\ objects = d.objects /\ heads = d.heads
  BY DEF Init
<1>3. d \in Disk
  BY GitAssumption
<1>4. TypeOK
  BY <1>1, <1>2, <1>3 DEF Init, TypeOK, LockInv, Disk, Steps, Codes, NoReply
<1>5. StepsFollowLock /\ ReadUpdateIsAtomic /\ WalkIsSound /\ PushesHold
  BY DEF Init, LockInit, StepsFollowLock, ReadUpdateIsAtomic, WalkIsSound, PushesHold,
         Pushed, Created, Acknowledged, Active, InLock
<1> QED BY <1>1, <1>4, <1>5 DEF GitInv

(* A handler that answers: nothing but the store may have changed, and a   *)
(* push is acknowledged only when the branch holds it.                     *)
LEMMA FinishInv ==
    ASSUME LockInv, GitInv, LockTypeOK', NEW r \in Requests, step[r] \in InLock,
           NEW code \in Codes, NEW sha \in Objects \cup {NoSha},
           Finish(r, code, sha),
           UNCHANGED <<handlerVars, repos, heads>>,
           objects' \in [Repos -> SUBSET Objects],
           req[r].op \in {"postRef", "patchRef"} /\ code \in {200, 201} =>
              /\ Head(r) # NoSha /\ req[r].sha # NoSha
              /\ NoForce => AncestorOrSame(req[r].sha, Head(r))
              /\ req[r].op = "postRef" => step[r] = "reply"
    PROVE  GitInv'
<1>1. /\ phase[r] = "holding"
      /\ \A s \in Requests : phase'[s] = IF s = r THEN "released" ELSE phase[s]
      /\ \A s \in Requests : step'[s] = IF s = r THEN "done" ELSE step[s]
      /\ \A s \in Requests : s # r => reply'[s] = reply[s]
      /\ reply'[r] = [code |-> code, sha |-> sha]
      /\ req' = req /\ repo' = repo /\ heads' = heads
      /\ current' = current /\ frontier' = frontier /\ seen' = seen
  BY DEF Finish, Release, Goto, GitInv, TypeOK, LockTypeOK, handlerVars
<1>2. TypeOK'
  BY <1>1 DEF GitInv, TypeOK, Finish, Goto, Steps, handlerVars
<1>3. StepsFollowLock'
  BY <1>1 DEF GitInv, StepsFollowLock, InLock, Active
<1>4. ReadUpdateIsAtomic'
  BY <1>1 DEF GitInv, ReadUpdateIsAtomic, Head
<1>5. WalkIsSound'
  BY <1>1 DEF GitInv, WalkIsSound, AncestorOrSame
<1>6. PushesHold'
  <2>1. ASSUME NEW s \in Requests, Pushed(s)'
        PROVE  /\ Head(s)' = Head(s)
               /\ s # r => Pushed(s)
               /\ s = r => /\ Head(r) # NoSha /\ req[r].sha # NoSha
                           /\ NoForce => AncestorOrSame(req[r].sha, Head(r))
                           /\ req[r].op = "postRef" => Pushed(r)
    BY <1>1, <2>1 DEF Pushed, Acknowledged, Head
  <2>2. ASSUME NEW s \in Requests, Created(s)'
        PROVE  Created(s)
    BY <1>1, <2>1, <2>2 DEF Created, Pushed
  <2>3. ASSUME NEW s \in Requests, Pushed(s)'
        PROVE  /\ Head(s)' # NoSha /\ req'[s].sha # NoSha
               /\ NoForce => AncestorOrSame(req'[s].sha, Head(s)')
    BY <1>1, <2>1, <2>3 DEF GitInv, PushesHold
  <2>4. ASSUME NEW s \in Requests, NEW u \in Requests, Created(s)', Created(u)', SameBranch(s, u)'
        PROVE  s = u
    BY <1>1, <2>2, <2>4 DEF GitInv, PushesHold, SameBranch
  <2> QED BY <2>3, <2>4 DEF PushesHold, AncestorOrSame, NoForce
<1> QED BY <1>2, <1>3, <1>4, <1>5, <1>6 DEF GitInv

LEMMA ArriveInv ==
    ASSUME LockInv, GitInv, LockTypeOK', NEW r \in Requests, NEW i \in Inputs, Arrive(r, i)
    PROVE  GitInv'
<1>1. /\ step[r] = "new" /\ phase[r] = "outside"
      /\ \A s \in Requests : s # r => step'[s] = step[s] /\ phase'[s] = phase[s]
                                      /\ repo'[s] = repo[s] /\ req'[s] = req[s]
      /\ req'[r] = i
      /\ \/ step'[r] = "body" /\ phase'[r] = "outside"
         \/ step'[r] = "wait" /\ phase'[r] = "queued" /\ repo'[r] = i.repo
      /\ UNCHANGED <<handlerVars, reply, storeVars>>
  BY DEF Arrive, Enqueue, Goto, lockVars, GitInv, StepsFollowLock, TypeOK, LockTypeOK
<1>2. TypeOK'
  BY <1>1 DEF GitInv, TypeOK, Arrive, Goto, Steps, handlerVars, storeVars
<1>3. StepsFollowLock'
  BY <1>1 DEF GitInv, StepsFollowLock, InLock, Active
<1>4. ReadUpdateIsAtomic'
  BY <1>1 DEF GitInv, ReadUpdateIsAtomic, Head, handlerVars, storeVars
<1>5. WalkIsSound'
  BY <1>1 DEF GitInv, WalkIsSound, AncestorOrSame, handlerVars
<1>6. \A s \in Requests : /\ Pushed(s)' => Pushed(s) /\ Head(s)' = Head(s) /\ s # r
                          /\ Created(s)' => Created(s) /\ s # r
  BY <1>1 DEF Pushed, Created, Acknowledged, Head, storeVars
<1>7. PushesHold'
  BY <1>1, <1>6 DEF GitInv, PushesHold, SameBranch, AncestorOrSame, NoForce
<1> QED BY <1>2, <1>3, <1>4, <1>5, <1>7 DEF GitInv

(* BodyRead, BodyFails, Enter and EnsureRepo: no branch, no walk and no    *)
(* answer to a push changes.                                               *)
LEMMA QuietInv ==
    ASSUME LockInv, GitInv, NEW r \in Requests,
           \A s \in Requests : s # r => /\ step'[s] = step[s] /\ phase'[s] = phase[s]
                                        /\ repo'[s] = repo[s] /\ reply'[s] = reply[s],
           step'[r] \in {"wait", "ensure", "start", "done"},
           step'[r] = "done" => reply'[r].code = 500,
           req' = req, heads' = heads, UNCHANGED handlerVars,
           TypeOK', StepsFollowLock'
    PROVE  GitInv'
<1>1. ReadUpdateIsAtomic'
  BY DEF GitInv, ReadUpdateIsAtomic, Head, handlerVars
<1>2. WalkIsSound'
  BY DEF GitInv, WalkIsSound, AncestorOrSame, handlerVars
<1>3. \A s \in Requests : Pushed(s)' => Pushed(s) /\ s # r
  BY DEF Pushed, Acknowledged
<1>4. PushesHold'
  BY <1>3 DEF GitInv, PushesHold, Created, SameBranch, AncestorOrSame, NoForce, Head
<1> QED BY <1>1, <1>2, <1>4 DEF GitInv

LEMMA OutsideInv ==
    ASSUME LockInv, GitInv, LockTypeOK', NEW r \in Requests,
           BodyRead(r) \/ BodyFails(r) \/ Enter(r) \/ EnsureRepo(r)
    PROVE  GitInv'
<1>1. CASE BodyRead(r)
  <2>1. TypeOK'
    BY <1>1 DEF BodyRead, GitInv, TypeOK, Goto, Steps, handlerVars, storeVars
  <2>2. StepsFollowLock'
    BY <1>1 DEF BodyRead, Enqueue, GitInv, TypeOK, LockTypeOK, Goto, StepsFollowLock, InLock, Active
  <2> QED
    BY <1>1, <2>1, <2>2, QuietInv
    DEF BodyRead, Enqueue, GitInv, TypeOK, LockTypeOK, Goto, storeVars
<1>2. CASE BodyFails(r)
  <2>1. TypeOK'
    BY <1>2 DEF BodyFails, GitInv, TypeOK, Goto, Steps, Codes, handlerVars, storeVars
  <2>2. StepsFollowLock'
    BY <1>2 DEF BodyFails, lockVars, GitInv, TypeOK, Goto, StepsFollowLock, InLock, Active
  <2> QED
    BY <1>2, <2>1, <2>2, QuietInv
    DEF BodyFails, lockVars, GitInv, TypeOK, Goto, storeVars
<1>3. CASE Enter(r)
  <2>1. TypeOK'
    BY <1>3 DEF Enter, GitInv, TypeOK, Goto, Steps, handlerVars, storeVars
  <2>2. StepsFollowLock'
    BY <1>3 DEF Enter, Admit, GitInv, TypeOK, LockTypeOK, Goto, StepsFollowLock, InLock, Active
  <2> QED
    BY <1>3, <2>1, <2>2, QuietInv
    DEF Enter, Admit, GitInv, TypeOK, LockTypeOK, Goto, storeVars
<1>4. CASE EnsureRepo(r)
  <2>1. req[r].repo \in Repos
    BY <1>4, HandlerFacts DEF EnsureRepo, InLock
  <2>2. TypeOK'
    BY <1>4, <2>1 DEF EnsureRepo, GitInv, TypeOK, Goto, Steps, handlerVars
  <2>3. StepsFollowLock'
    BY <1>4 DEF EnsureRepo, lockVars, GitInv, TypeOK, Goto, StepsFollowLock, InLock, Active
  <2> QED
    BY <1>4, <2>2, <2>3, QuietInv DEF EnsureRepo, lockVars, GitInv, TypeOK, Goto
<1> QED BY <1>1, <1>2, <1>3, <1>4

(* A handler that moves on inside the lock without answering or writing:   *)
(* POST to its write, PATCH to its walk or its write, and the walk.        *)
LEMMA WorkInv ==
    ASSUME LockInv, GitInv, NEW r \in Requests, step[r] \in {"start", "walk"},
           UNCHANGED <<lockVars, req, reply, storeVars>>, TypeOK',
           \A s \in Requests : s # r => /\ step'[s] = step[s] /\ current'[s] = current[s]
                                        /\ frontier'[s] = frontier[s] /\ seen'[s] = seen[s],
           step'[r] \in {"walk", "failed", "write"},
           Head(r) = IF req[r].op = "patchRef" THEN current'[r] ELSE NoSha,
           step'[r] = "walk" =>
              /\ req[r].op = "patchRef" /\ ~req[r].force /\ current'[r] # NoSha
              /\ \A c \in frontier'[r] \cup seen'[r] : AncestorOrSame(c, req[r].sha),
           step'[r] = "write" =>
              \/ req[r].op = "postRef" /\ req[r].sha # NoSha
              \/ /\ req[r].op = "patchRef" /\ current'[r] # NoSha
                 /\ req[r].force \/ <<current'[r], req[r].sha>> \in Ancestor
    PROVE  GitInv'
<1>1. StepsFollowLock'
  BY DEF GitInv, StepsFollowLock, InLock, Active, lockVars
<1>2. ReadUpdateIsAtomic'
  BY DEF GitInv, ReadUpdateIsAtomic, Head, storeVars
<1>3. WalkIsSound'
  BY DEF GitInv, WalkIsSound, AncestorOrSame
<1>4. \A s \in Requests : Pushed(s)' => Pushed(s) /\ s # r
  BY DEF Pushed, Acknowledged
<1>5. PushesHold'
  BY <1>4 DEF GitInv, PushesHold, Created, SameBranch, AncestorOrSame, NoForce, Head, storeVars
<1> QED BY <1>1, <1>2, <1>3, <1>5 DEF GitInv

LEMMA PostRefInv ==
    ASSUME LockInv, GitInv, LockTypeOK', NEW r \in Requests, PostRef(r)
    PROVE  GitInv'
<1>1. step[r] \in InLock /\ step[r] = "start"
  BY DEF PostRef, InLock
<1>2. CASE Finish(r, 422, NoSha)
  BY <1>1, <1>2, FinishInv DEF PostRef, Codes, GitInv, TypeOK, storeVars
<1>3. CASE ~Finish(r, 422, NoSha)
  <2>1. /\ req[r].op = "postRef" /\ req[r].sha # NoSha /\ Head(r) = NoSha
        /\ Goto(r, "write") /\ UNCHANGED <<lockVars, req, reply>>
        /\ UNCHANGED <<handlerVars, storeVars>>
    BY <1>3 DEF PostRef
  <2>2. TypeOK'
    BY <2>1 DEF GitInv, TypeOK, Goto, Steps, handlerVars, storeVars
  <2> QED
    BY <1>1, <2>1, <2>2, WorkInv DEF Goto, GitInv, TypeOK, handlerVars
<1> QED BY <1>2, <1>3

LEMMA PatchRefInv ==
    ASSUME LockInv, GitInv, LockTypeOK', NEW r \in Requests, PatchRef(r)
    PROVE  GitInv'
<1>1. step[r] \in InLock /\ step[r] = "start" /\ req[r].op = "patchRef" /\ UNCHANGED storeVars
  BY DEF PatchRef, InLock
<1>2. /\ req[r] \in Request /\ req[r].repo \in Repos /\ req[r].branch \in Branches
      /\ Head(r) \in Objects \cup {NoSha} /\ req[r].sha \in Objects \cup {NoSha}
  BY <1>1, HandlerFacts DEF Head, GitInv, TypeOK, Request
<1>3. CASE Head(r) = NoSha /\ Finish(r, 404, NoSha) /\ UNCHANGED handlerVars
  BY <1>1, <1>3, FinishInv DEF Codes, GitInv, TypeOK, storeVars
<1>4. CASE /\ Head(r) # NoSha /\ req[r].sha = Head(r)
           /\ Finish(r, 200, Head(r)) /\ UNCHANGED handlerVars
  <2>1. AncestorOrSame(req[r].sha, Head(r))
    BY <1>4 DEF AncestorOrSame
  <2>2. UNCHANGED <<handlerVars, repos, heads>> /\ objects' \in [Repos -> SUBSET Objects]
    BY <1>1, <1>4 DEF GitInv, TypeOK, storeVars
  <2>3. 200 \in Codes
    BY DEF Codes
  <2>4. Finish(r, 200, Head(r)) /\ Head(r) # NoSha /\ req[r].sha # NoSha
    BY <1>4
  <2> QED BY <1>1, <1>2, <2>1, <2>2, <2>3, <2>4, FinishInv
<1>5. CASE /\ Head(r) # NoSha /\ req[r].sha # Head(r)
           /\ current' = [current EXCEPT ![r] = Head(r)]
           /\ frontier' = [frontier EXCEPT ![r] = {req[r].sha}]
           /\ seen' = [seen EXCEPT ![r] = {}]
           /\ Goto(r, IF req[r].force THEN "write" ELSE "walk")
           /\ UNCHANGED <<lockVars, req, reply>>
  <2>1. TypeOK'
    BY <1>1, <1>2, <1>5 DEF GitInv, TypeOK, Goto, Steps, storeVars
  <2>2. frontier'[r] = {req[r].sha} /\ seen'[r] = {} /\ current'[r] = Head(r)
    BY <1>5 DEF GitInv, TypeOK
  <2>3. \A c \in frontier'[r] \cup seen'[r] : AncestorOrSame(c, req[r].sha)
    BY <2>2 DEF AncestorOrSame
  <2>4. step'[r] = (IF req[r].force THEN "write" ELSE "walk") /\ req[r].force \in BOOLEAN
    BY <1>2, <1>5 DEF Goto, GitInv, TypeOK, Request
  <2>5. \A s \in Requests : s # r => /\ step'[s] = step[s] /\ current'[s] = current[s]
                                     /\ frontier'[s] = frontier[s] /\ seen'[s] = seen[s]
    BY <1>5 DEF Goto, GitInv, TypeOK
  <2>6. /\ step'[r] = "walk" => ~req[r].force
        /\ step'[r] = "write" => req[r].force
        /\ step'[r] \in {"walk", "write"}
    BY <2>4
  <2>7. UNCHANGED <<lockVars, req, reply, storeVars>>
    BY <1>1, <1>5
  <2>8. /\ Head(r) = IF req[r].op = "patchRef" THEN current'[r] ELSE NoSha
        /\ current'[r] # NoSha
    BY <1>1, <1>5, <2>2
  <2> QED
    BY <1>1, <2>1, <2>3, <2>5, <2>6, <2>7, <2>8, WorkInv DEF AncestorOrSame
<1> QED BY <1>3, <1>4, <1>5 DEF PatchRef

LEMMA WalkReadsInv ==
    ASSUME LockInv, GitInv, LockTypeOK', NEW r \in Requests, NEW c \in Objects, WalkReads(r, c)
    PROVE  GitInv'
<1>1. step[r] \in InLock /\ step[r] = "walk" /\ c \in frontier[r] /\ c \in Commits
  BY DEF WalkReads, InLock, Readable
<1>2. /\ req[r].op = "patchRef" /\ ~req[r].force /\ current[r] # NoSha /\ Head(r) = current[r]
      /\ \A d \in frontier[r] \cup seen[r] : AncestorOrSame(d, req[r].sha)
  BY <1>1 DEF GitInv, WalkIsSound, ReadUpdateIsAtomic
<1>3. \A p \in Parents[c] : p \in Commits /\ <<p, req[r].sha>> \in Ancestor
  <2> SUFFICES ASSUME NEW p \in Parents[c]
               PROVE  p \in Commits /\ <<p, req[r].sha>> \in Ancestor
    OBVIOUS
  <2>1. p \in Commits /\ <<p, c>> \in Ancestor
    BY <1>1, GitAssumption
  <2>2. CASE c = req[r].sha
    BY <2>1, <2>2
  <2>3. CASE <<c, req[r].sha>> \in Ancestor
    <3>1. req[r].sha \in Commits
      BY <2>3, GitAssumption
    <3> QED BY <1>1, <2>1, <2>3, <3>1, GitAssumption
  <2> QED BY <1>1, <1>2, <2>2, <2>3 DEF AncestorOrSame
<1>4. UNCHANGED <<lockVars, req, current, reply, storeVars>>
  BY DEF WalkReads
<1>5. CASE current[r] \in Parents[c]
  <2>1. Goto(r, "write") /\ UNCHANGED <<frontier, seen>>
    BY <1>5 DEF WalkReads
  <2>2. TypeOK'
    BY <1>4, <2>1 DEF GitInv, TypeOK, Goto, Steps, storeVars
  <2>3. <<current[r], req[r].sha>> \in Ancestor
    BY <1>3, <1>5
  <2> QED
    BY <1>1, <1>2, <1>4, <2>1, <2>2, <2>3, WorkInv DEF Goto, GitInv, TypeOK
<1>6. CASE current[r] \notin Parents[c]
  <2>1. /\ frontier' = [frontier EXCEPT ![r] = (@ \ {c}) \cup (Parents[c] \ seen[r])]
        /\ seen' = [seen EXCEPT ![r] = @ \cup Parents[c]]
        /\ UNCHANGED step
    BY <1>6 DEF WalkReads
  <2>2. Parents[c] \subseteq Commits /\ Parents[c] \subseteq Objects
    BY <1>1, GitAssumption
  <2>3. TypeOK'
    BY <1>4, <2>1, <2>2 DEF GitInv, TypeOK, storeVars
  <2>4. \A d \in frontier'[r] \cup seen'[r] : AncestorOrSame(d, req[r].sha)
    BY <1>2, <1>3, <2>1 DEF AncestorOrSame, GitInv, TypeOK
  <2>5. \A s \in Requests : s # r => frontier'[s] = frontier[s] /\ seen'[s] = seen[s]
    BY <2>1 DEF GitInv, TypeOK
  <2>6. /\ step'[r] = "walk" /\ current'[r] = current[r]
        /\ \A s \in Requests : step'[s] = step[s] /\ current'[s] = current[s]
    BY <1>1, <1>4, <2>1
  <2>7. Head(r) = IF req[r].op = "patchRef" THEN current'[r] ELSE NoSha
    BY <1>2, <2>6
  <2> QED
    BY <1>1, <1>2, <1>4, <2>3, <2>4, <2>5, <2>6, <2>7, WorkInv DEF AncestorOrSame
<1> QED BY <1>5, <1>6

(* A read of the walk failed: nothing but the handler has moved.           *)
LEMMA WalkFailsInv ==
    ASSUME LockInv, GitInv, LockTypeOK', NEW r \in Requests, WalkFails(r)
    PROVE  GitInv'
<1>1. /\ step[r] \in InLock /\ Goto(r, "failed")
      /\ UNCHANGED <<lockVars, req, handlerVars, reply, storeVars>>
  BY DEF WalkFails, InLock
<1>2. TypeOK'
  BY <1>1 DEF GitInv, TypeOK, Goto, Steps, handlerVars, storeVars
<1>3. Head(r) = IF req[r].op = "patchRef" THEN current[r] ELSE NoSha
  BY DEF WalkFails, GitInv, ReadUpdateIsAtomic
<1>4. step[r] = "walk" /\ step'[r] = "failed"
  BY <1>1 DEF WalkFails, Goto, GitInv, TypeOK
<1> QED BY <1>1, <1>2, <1>3, <1>4, WorkInv DEF Goto, GitInv, TypeOK, handlerVars

(* writeRef: the branch still has the value the handler decided on, so the *)
(* new value descends from it, and with it from every acknowledged push.   *)
LEMMA WriteRefInv ==
    ASSUME LockInv, GitInv, LockTypeOK', NEW r \in Requests, WriteRef(r)
    PROVE  GitInv'
<1>1. /\ step[r] = "write" /\ step[r] \in InLock /\ req[r].sha # NoSha
      /\ \A s \in Requests : step'[s] = IF s = r THEN "reply" ELSE step[s]
      /\ UNCHANGED <<lockVars, req, handlerVars, reply, repos, objects>>
  BY DEF WriteRef, InLock, Goto, GitInv, TypeOK
<1>2. /\ req[r] \in Request /\ req[r].repo \in Repos /\ req[r].branch \in Branches
      /\ req[r].sha \in Objects
      /\ \A s \in Requests : s # r /\ step[s] \in InLock => req[s].repo # req[r].repo
  BY <1>1, HandlerFacts DEF Request
<1>3. /\ heads' \in [Repos -> [Branches -> Objects \cup {NoSha}]]
      /\ \A k \in Repos, b \in Branches :
            heads'[k][b] = IF k = req[r].repo /\ b = req[r].branch THEN req[r].sha ELSE heads[k][b]
  BY <1>2 DEF WriteRef, GitInv, TypeOK
<1>4. TypeOK'
  BY <1>1, <1>3 DEF GitInv, TypeOK, Steps, Goto, WriteRef, handlerVars
<1>5. StepsFollowLock'
  BY <1>1 DEF GitInv, StepsFollowLock, InLock, Active, lockVars
<1>6. ASSUME NEW s \in Requests, step[s] # "new"
      PROVE  /\ req[s] \in Inputs /\ req[s].repo \in Repos /\ req[s].branch \in Branches
             /\ Head(s)' = IF SameBranch(s, r) THEN req[r].sha ELSE Head(s)
  <2>1. req[s] \in Inputs
    BY <1>6 DEF GitInv, StepsFollowLock
  <2>2. req[s].repo \in Repos /\ req[s].branch \in Branches
    BY <2>1, GitAssumption DEF Request
  <2> QED BY <1>1, <1>3, <2>1, <2>2 DEF Head, SameBranch
<1>7. ReadUpdateIsAtomic'
  <2> SUFFICES ASSUME NEW s \in Requests, step'[s] \in {"walk", "write"}
               PROVE  Head(s)' = IF req'[s].op = "patchRef" THEN current'[s] ELSE NoSha
    BY DEF ReadUpdateIsAtomic
  <2>1. s # r /\ step[s] \in {"walk", "write"} /\ ~SameBranch(s, r)
    BY <1>1, <1>2 DEF SameBranch, InLock
  <2>2. Head(s)' = Head(s)
    BY <1>6, <2>1
  <2> QED BY <1>1, <2>1, <2>2 DEF GitInv, ReadUpdateIsAtomic, handlerVars
<1>8. WalkIsSound'
  BY <1>1 DEF GitInv, WalkIsSound, AncestorOrSame, handlerVars
<1>9. /\ req[r].op = "postRef" => Head(r) = NoSha
      /\ req[r].op # "postRef" => /\ req[r].op = "patchRef"
                                  /\ NoForce => <<Head(r), req[r].sha>> \in Ancestor
  <2>1. req[r] \in Inputs
    BY <1>1 DEF GitInv, StepsFollowLock
  <2> QED BY <1>1, <2>1 DEF GitInv, ReadUpdateIsAtomic, WalkIsSound, NoForce
<1>10. PushesHold'
  <2>1. ASSUME NEW s \in Requests, s # r, Pushed(s)'
        PROVE  Pushed(s) /\ step[s] # "new"
    BY <1>1, <2>1 DEF Pushed, Acknowledged
  <2>2. ASSUME NEW s \in Requests, Pushed(s)'
        PROVE  /\ Head(s)' # NoSha /\ req'[s].sha # NoSha
               /\ NoForce => AncestorOrSame(req'[s].sha, Head(s)')
    <3>1. CASE s = r
      BY <1>1, <1>6, <3>1 DEF SameBranch, AncestorOrSame
    <3>2. CASE s # r /\ ~SameBranch(s, r)
      <4>1. Pushed(s) /\ Head(s)' = Head(s)
        BY <1>6, <2>1, <2>2, <3>2
      <4> QED BY <1>1, <4>1 DEF GitInv, PushesHold
    <3>3. CASE s # r /\ SameBranch(s, r)
      <4>1. /\ Pushed(s) /\ Head(s)' = req[r].sha /\ Head(s) = Head(r)
            /\ Head(s) # NoSha /\ req[s].sha # NoSha
            /\ NoForce => AncestorOrSame(req[s].sha, Head(s))
        BY <1>6, <2>1, <2>2, <3>3 DEF GitInv, PushesHold, SameBranch, Head
      <4>2. NoForce => <<Head(s), req[r].sha>> \in Ancestor
        BY <1>9, <4>1
      <4>3. NoForce => AncestorOrSame(req[s].sha, req[r].sha)
        BY <4>1, <4>2, GitAssumption DEF AncestorOrSame
      <4> QED BY <1>1, <4>1, <4>3
    <3> QED BY <3>1, <3>2, <3>3
  <2>3. ASSUME NEW s \in Requests, s # r, Created(s)', Created(r)', SameBranch(s, r)
        PROVE  FALSE
    <3>1. Head(r) = NoSha /\ Pushed(s) /\ Head(s) = Head(r)
      BY <1>1, <1>9, <2>1, <2>3 DEF Created, SameBranch, Head
    <3> QED BY <3>1 DEF GitInv, PushesHold
  <2>4. ASSUME NEW s \in Requests, NEW u \in Requests, Created(s)', Created(u)', SameBranch(s, u)'
        PROVE  s = u
    <3>1. SameBranch(s, u) /\ SameBranch(u, s)
      BY <1>1, <2>4 DEF SameBranch
    <3>2. CASE s # r /\ u # r
      BY <1>1, <2>1, <2>4, <3>1, <3>2 DEF GitInv, PushesHold, Created
    <3>3. CASE s = r \/ u = r
      BY <2>3, <2>4, <3>1, <3>3
    <3> QED BY <3>2, <3>3
  <2> QED BY <2>2, <2>4 DEF PushesHold, AncestorOrSame, NoForce
<1> QED BY <1>4, <1>5, <1>7, <1>8, <1>10 DEF GitInv

(* The steps that answer from inside the lock, and all handlers together.  *)
LEMMA HandlerInv ==
    ASSUME LockInv, GitInv, LockTypeOK', NEW r \in Requests, Handler(r)
    PROVE  GitInv'
<1>1. step[r] \in InLock => Head(r) \in Objects \cup {NoSha} /\ req[r].sha \in Objects \cup {NoSha}
  BY HandlerFacts DEF Head, GitInv, TypeOK, Request
<1>2. CASE GetRef(r)
  <2>1. step[r] \in InLock /\ req[r].op \notin {"postRef", "patchRef"}
    BY <1>2 DEF GetRef, InLock
  <2>2. UNCHANGED <<handlerVars, repos, heads>> /\ objects' \in [Repos -> SUBSET Objects]
    BY <1>2 DEF GetRef, GitInv, TypeOK, storeVars
  <2>3. \/ Finish(r, 404, NoSha) \/ Finish(r, 304, Head(r)) \/ Finish(r, 200, Head(r))
    BY <1>2 DEF GetRef
  <2>4. {200, 304, 404} \subseteq Codes
    BY DEF Codes
  <2> QED BY <1>1, <2>1, <2>2, <2>3, <2>4, FinishInv
<1>3. CASE GetObject(r)
  <2>1. step[r] \in InLock /\ req[r].op \notin {"postRef", "patchRef"}
    BY <1>3 DEF GetObject, InLock
  <2>2. UNCHANGED <<handlerVars, repos, heads>> /\ objects' \in [Repos -> SUBSET Objects]
    BY <1>3 DEF GetObject, GitInv, TypeOK, storeVars
  <2>3. Finish(r, 200, req[r].sha) \/ Finish(r, 404, NoSha)
    BY <1>3 DEF GetObject
  <2>4. {200, 404} \subseteq Codes
    BY DEF Codes
  <2> QED BY <1>1, <2>1, <2>2, <2>3, <2>4, FinishInv
<1>4. CASE PostObject(r)
  <2>1. step[r] \in InLock /\ req[r].op \notin {"postRef", "patchRef"}
    BY <1>4 DEF PostObject, InLock
  <2>2. UNCHANGED <<handlerVars, repos, heads>>
    BY <1>4 DEF PostObject
  <2>3. objects' \in [Repos -> SUBSET Objects]
    BY <1>1, <1>4, <2>1 DEF PostObject, GitInv, TypeOK
  <2>4. Finish(r, 422, NoSha) \/ Finish(r, 201, req[r].sha)
    BY <1>4 DEF PostObject
  <2>5. {201, 422} \subseteq Codes
    BY DEF Codes
  <2> QED BY <1>1, <2>1, <2>2, <2>3, <2>4, <2>5, FinishInv
<1>5. CASE WalkRefuses(r) \/ RefuseOnFailure(r)
  <2>1. step[r] \in InLock /\ Finish(r, 422, NoSha) /\ 422 \in Codes
    BY <1>5 DEF WalkRefuses, RefuseOnFailure, InLock, Codes
  <2>2. UNCHANGED <<handlerVars, repos, heads>> /\ objects' \in [Repos -> SUBSET Objects]
    BY <1>5 DEF WalkRefuses, RefuseOnFailure, GitInv, TypeOK, storeVars
  <2> QED BY <2>1, <2>2, FinishInv
<1>6. CASE Throws(r)
  <2>1. step[r] \in InLock /\ Finish(r, 500, NoSha) /\ 500 \in Codes
    BY <1>6 DEF Throws, InLock, Codes
  <2>2. UNCHANGED <<handlerVars, repos, heads>> /\ objects' \in [Repos -> SUBSET Objects]
    BY <1>6 DEF Throws, GitInv, TypeOK, storeVars
  <2> QED BY <2>1, <2>2, FinishInv
<1>7. CASE Reply(r)
  <2>1. /\ step[r] = "reply" /\ step[r] \in InLock /\ {200, 201} \subseteq Codes
        /\ Finish(r, 200, req[r].sha) \/ Finish(r, 201, req[r].sha)
    BY <1>7 DEF Reply, InLock, Codes
  <2>2. UNCHANGED <<handlerVars, repos, heads>> /\ objects' \in [Repos -> SUBSET Objects]
    BY <1>7 DEF Reply, GitInv, TypeOK, storeVars
  <2>3. /\ Head(r) # NoSha /\ req[r].sha # NoSha
        /\ NoForce => AncestorOrSame(req[r].sha, Head(r))
    BY <2>1 DEF GitInv, PushesHold, Pushed
  <2> QED BY <1>1, <2>1, <2>2, <2>3, FinishInv
<1> QED
  BY <1>2, <1>3, <1>4, <1>5, <1>6, <1>7,
     OutsideInv, PostRefInv, PatchRefInv, WalkReadsInv, WalkFailsInv, WriteRefInv DEF Handler

LEMMA NextInv == LockInv /\ GitInv /\ [Next]_vars => LockInv' /\ GitInv'
<1> SUFFICES ASSUME LockInv, GitInv, [Next]_vars
             PROVE  LockInv' /\ GitInv'
  OBVIOUS
<1>1. LockInv' /\ LockTypeOK'
  BY StepIsLockStep, LockStepInductive DEF LockInv
<1>2. CASE UNCHANGED vars
  BY <1>1, <1>2
  DEF vars, lockVars, handlerVars, storeVars, GitInv, TypeOK, StepsFollowLock, Active,
      ReadUpdateIsAtomic, WalkIsSound, PushesHold, Pushed, Created, Acknowledged, Head,
      SameBranch, AncestorOrSame, NoForce
<1>3. ASSUME NEW r \in Requests, NEW i \in Inputs, Arrive(r, i)
      PROVE  GitInv'
  BY <1>1, <1>3, ArriveInv
<1>4. ASSUME NEW r \in Requests, BodyRead(r) \/ BodyFails(r) \/ Enter(r)
      PROVE  GitInv'
  BY <1>1, <1>4, OutsideInv
<1>5. ASSUME NEW r \in Requests, Handler(r)
      PROVE  GitInv'
  BY <1>1, <1>5, HandlerInv
<1> QED BY <1>1, <1>2, <1>3, <1>4, <1>5 DEF Next

(* The joint inductive invariant of the lock and the handlers.             *)
THEOREM GitInductive == Spec => [](LockInv /\ GitInv)
BY InitGitInv, NextInv, PTL DEF Spec

(* The variables of the server keep their types. *)
THEOREM GitTypeCorrect == Spec => []TypeOK
<1>1. GitInv => TypeOK
  BY DEF GitInv
<1> QED BY <1>1, GitInductive, PTL

(* No other request changes a branch between a handler's reading it and    *)
(* its writing it.                                                         *)
THEOREM GitReadUpdateIsAtomic == Spec => []ReadUpdateIsAtomic
<1>1. GitInv => ReadUpdateIsAtomic
  BY DEF GitInv
<1> QED BY <1>1, GitInductive, PTL

(* Without forced updates an acknowledged push is in the branch's history  *)
(* for ever, whatever the commit graph and however many agents push.       *)
THEOREM GitAcknowledgedPushesSurvive == Spec => []AcknowledgedPushesSurvive
<1>1. GitInv => AcknowledgedPushesSurvive
  BY DEF GitInv, PushesHold, AcknowledgedPushesSurvive, Pushed
<1> QED BY <1>1, GitInductive, PTL

(* One creation of a branch is answered 201.                               *)
THEOREM GitCreatedOnce == Spec => []CreatedOnce
<1>1. GitInv => CreatedOnce
  BY DEF GitInv, PushesHold, Created, Pushed, CreatedOnce
<1> QED BY <1>1, GitInductive, PTL

(* Handlers move the lock only as RepoLock describes, so its theorems hold *)
(* of the server.                                                          *)
THEOREM GitUsesLock == Spec => LockSpec
<1>1. Init => LockInit
  BY DEF Init
<1>2. GitInv /\ [Next]_vars => [LockNext]_lockVars
  BY StepIsLockStep
<1> QED BY <1>1, <1>2, GitInductive, PTL DEF Spec, LockSpec

(* A step of the server is a step of the one-step branch store, or leaves  *)
(* the branches alone.                                                     *)
LEMMA StepIsStoreStep ==
    ASSUME LockInv, GitInv, [Next]_vars
    PROVE  [Store!RefNext]_heads
<1>1. ASSUME NEW r \in Requests, WriteRef(r)
      PROVE  Store!RefNext
  <2>1. step[r] = "write" /\ step[r] \in InLock /\ req[r].sha # NoSha
    BY <1>1 DEF WriteRef, InLock
  <2>2. /\ req[r].repo \in Repos /\ req[r].branch \in Branches /\ req[r].sha \in Objects
        /\ req[r].force \in BOOLEAN
    BY <2>1, HandlerFacts DEF Request
  <2>3. req[r].op = "patchRef" /\ req[r].force => Forced(req[r].repo, req[r].branch, req[r].sha)
    BY <2>1 DEF Forced, GitInv, StepsFollowLock
  <2>4. heads' = [heads EXCEPT ![req[r].repo][req[r].branch] = req[r].sha]
    BY <1>1 DEF WriteRef
  <2>5. CASE req[r].op = "postRef"
    <3>1. heads[req[r].repo][req[r].branch] = NoSha
      BY <2>1, <2>5 DEF GitInv, ReadUpdateIsAtomic, Head
    <3>2. Store!CreateRef(req[r].repo, req[r].branch, req[r].sha)
      BY <2>4, <3>1 DEF Store!CreateRef
    <3> QED BY <2>2, <3>2 DEF Store!RefNext
  <2>6. CASE req[r].op = "patchRef"
    <3>1. /\ heads[req[r].repo][req[r].branch] # NoSha
          /\ req[r].force \/ <<heads[req[r].repo][req[r].branch], req[r].sha>> \in Ancestor
      BY <2>1, <2>6 DEF GitInv, ReadUpdateIsAtomic, WalkIsSound, Head
    <3>2. Store!UpdateRef(req[r].repo, req[r].branch, req[r].sha)
      BY <2>3, <2>4, <2>6, <3>1 DEF Store!UpdateRef
    <3> QED BY <2>2, <3>2 DEF Store!RefNext
  <2> QED BY <2>1, <2>5, <2>6 DEF GitInv, WalkIsSound
<1>2. ASSUME NEW r \in Requests, Handler(r), ~WriteRef(r)
      PROVE  heads' = heads
  BY <1>2 DEF Handler, EnsureRepo, GetRef, GetObject, PostObject, PostRef, PatchRef,
              WalkRefuses, WalkFails, RefuseOnFailure, WalkReads, Reply, Throws, storeVars
<1>3. ASSUME NEW r \in Requests,
             (\E i \in Inputs : Arrive(r, i)) \/ BodyRead(r) \/ BodyFails(r) \/ Enter(r)
      PROVE  heads' = heads
  BY <1>3 DEF Arrive, BodyRead, BodyFails, Enter, storeVars
<1>4. CASE UNCHANGED vars
  BY <1>4 DEF vars, storeVars
<1> QED BY <1>1, <1>2, <1>3, <1>4 DEF Next

(* The server implements the one-step branch store: a branch is created    *)
(* once and moves only to descendants unless an update is forced.          *)
THEOREM GitRefinesStore == Spec => RefinesRefStore
<1>1. Init => Store!RefInit
  BY DEF Init, Store!RefInit
<1>2. LockInv /\ GitInv /\ [Next]_vars => [Store!RefNext]_heads
  BY StepIsStoreStep
<1> QED BY <1>1, <1>2, GitInductive, PTL DEF Spec, Store!RefSpec, RefinesRefStore
=============================================================================
