------------------------------ MODULE GitShim -------------------------------
(***************************************************************************)
(* The git data server of infra/git-data-shim.mjs: an HTTP request is read *)
(* (its body before the lock is asked for), waits in withLock, makes sure  *)
(* the repository exists and runs its handler.  Every await of a handler   *)
(* is a step of its own, so that another request could run in between; the *)
(* answer and the opening of the gate happen in one turn of the event loop.*)
(* isDescendent and writeRef belong to isomorphic-git: the walk explores   *)
(* parents in any order (the library uses breadth-first order).            *)
(***************************************************************************)
EXTENDS RepoLock

CONSTANTS
    Branches,   \* branch names
    Objects,    \* blobs, trees and commits, named by their hash
    Commits,    \* the objects that are commits
    Parents,    \* Parents[c]: the parents commit c names, fixed by its hash
    Ancestor,   \* the pairs <<a, c>>, a a proper ancestor of c
    NoSha,      \* no object: an absent branch, a body without sha
    Inputs,     \* the requests clients may send
    Disks,      \* what GIT_SHIM_ROOT may hold when the server starts
    NoInput     \* a request that has not arrived

Ops == {"getRef", "postRef", "patchRef", "getObject", "postObject"}

Request ==
    [op : Ops, repo : Repos, branch : Branches, sha : Objects \cup {NoSha},
     force : BOOLEAN, etag : Objects \cup {NoSha}]

Disk ==
    [repos : SUBSET Repos, objects : [Repos -> SUBSET Objects],
     heads : [Repos -> [Branches -> Objects \cup {NoSha}]]]

ASSUME GitAssumption ==
    /\ NoSha \notin Objects
    /\ Commits \subseteq Objects
    /\ Parents \in [Commits -> SUBSET Commits]
    /\ Ancestor \subseteq Commits \X Commits
    /\ \A c \in Commits : \A p \in Parents[c] : <<p, c>> \in Ancestor
    /\ \A a, b, c \in Commits :
          <<a, b>> \in Ancestor /\ <<b, c>> \in Ancestor => <<a, c>> \in Ancestor
    /\ \A h \in SUBSET Commits :    \* no other pairs: histories hold them all
          (\A c \in h : Parents[c] \subseteq h)
              => \A a \in Commits : \A c \in h : <<a, c>> \in Ancestor => a \in h
    /\ Inputs \subseteq Request
    /\ NoInput \notin Inputs
    /\ Disks \subseteq Disk

VARIABLES
    step,       \* step[r]: where requestHandler stands for request r
    req,        \* req[r]: what r asks for
    current,    \* current[r]: the branch value handlePatchRef resolved
    frontier,   \* frontier[r]: objects isDescendent has still to read
    seen,       \* seen[r]: parents isDescendent has already met
    reply,      \* reply[r]: status code and object of the answer
    repos,      \* repositories initialised on disk
    objects,    \* objects[k]: the object store of repository k
    heads       \* heads[k][b]: branch b of repository k

handlerVars == <<current, frontier, seen>>
storeVars == <<repos, objects, heads>>
vars == <<lockVars, step, req, handlerVars, reply, storeVars>>

Steps == {"new", "body", "wait", "ensure", "start", "walk", "failed", "write", "reply", "done"}
Codes == {0, 200, 201, 304, 404, 422, 500}
NoReply == [code |-> 0, sha |-> NoSha]

Init ==
    /\ LockInit
    /\ step = [r \in Requests |-> "new"]
    /\ req = [r \in Requests |-> NoInput]
    /\ current = [r \in Requests |-> NoSha]
    /\ frontier = [r \in Requests |-> {}]
    /\ seen = [r \in Requests |-> {}]
    /\ reply = [r \in Requests |-> NoReply]
    /\ \E d \in Disks : repos = d.repos /\ objects = d.objects /\ heads = d.heads

Head(r) == heads[req[r].repo][req[r].branch]
Stored(r) == objects[req[r].repo]
Goto(r, s) == step' = [step EXCEPT ![r] = s]

(* POST and PATCH carry a body: requestHandler awaits it before withLock.  *)
HasBody(i) == i.op \in {"postRef", "patchRef", "postObject"}

(* The answer is sent and the lock released.                               *)
Finish(r, code, sha) ==
    /\ Release(r)
    /\ reply' = [reply EXCEPT ![r] = [code |-> code, sha |-> sha]]
    /\ Goto(r, "done")
    /\ UNCHANGED req
-----------------------------------------------------------------------------
(* Mutant: the lock is asked for before the body is read.                  *)
ArriveLocksFirst(r, i) ==
    /\ step[r] = "new"
    /\ req' = [req EXCEPT ![r] = i]
    /\ Goto(r, IF HasBody(i) THEN "body" ELSE "wait")
    /\ Enqueue(r, i.repo)
    /\ UNCHANGED <<handlerVars, reply, storeVars>>

(* A request without a body reaches withLock in the turn it arrives.       *)
Arrive(r, i) ==
    /\ step[r] = "new"
    /\ req' = [req EXCEPT ![r] = i]
    /\ IF HasBody(i)
       THEN Goto(r, "body") /\ UNCHANGED lockVars
       ELSE Goto(r, "wait") /\ Enqueue(r, i.repo)
    /\ UNCHANGED <<handlerVars, reply, storeVars>>

BodyRead(r) ==
    /\ step[r] = "body"
    /\ Enqueue(r, req[r].repo)
    /\ Goto(r, "wait")
    /\ UNCHANGED <<req, handlerVars, reply, storeVars>>

(* The upload breaks off: 500, without ever asking for the lock.           *)
BodyFails(r) ==
    /\ step[r] = "body"
    /\ reply' = [reply EXCEPT ![r] = [code |-> 500, sha |-> NoSha]]
    /\ Goto(r, "done")
    /\ UNCHANGED <<lockVars, req, handlerVars, storeVars>>

(* Mutant: the body of withLock starts without awaiting the predecessor.   *)
EnterAtOnce(r) ==
    /\ step[r] = "wait"
    /\ phase' = [phase EXCEPT ![r] = "holding"]
    /\ Goto(r, "ensure")
    /\ UNCHANGED <<repo, prev, tail, ticket, issued, req, handlerVars, reply, storeVars>>

Enter(r) ==
    /\ step[r] = "wait"
    /\ Admit(r)
    /\ Goto(r, "ensure")
    /\ UNCHANGED <<req, handlerVars, reply, storeVars>>

EnsureRepo(r) ==
    /\ step[r] = "ensure"
    /\ repos' = repos \cup {req[r].repo}
    /\ Goto(r, "start")
    /\ UNCHANGED <<lockVars, req, handlerVars, reply, objects, heads>>

GetRef(r) ==
    /\ step[r] = "start"
    /\ req[r].op = "getRef"
    /\ \/ Head(r) = NoSha /\ Finish(r, 404, NoSha)
       \/ Head(r) # NoSha /\ req[r].etag = Head(r) /\ Finish(r, 304, Head(r))
       \/ Head(r) # NoSha /\ req[r].etag # Head(r) /\ Finish(r, 200, Head(r))
    /\ UNCHANGED <<handlerVars, storeVars>>

GetObject(r) ==
    /\ step[r] = "start"
    /\ req[r].op = "getObject"
    /\ \/ req[r].sha \in Stored(r) /\ Finish(r, 200, req[r].sha)
       \/ req[r].sha \notin Stored(r) /\ Finish(r, 404, NoSha)
    /\ UNCHANGED <<handlerVars, storeVars>>

(* Blobs, trees and commits: content addressed, no reference is checked.   *)
PostObject(r) ==
    /\ step[r] = "start"
    /\ req[r].op = "postObject"
    /\ \/ req[r].sha = NoSha /\ Finish(r, 422, NoSha) /\ UNCHANGED objects
       \/ /\ req[r].sha # NoSha
          /\ Finish(r, 201, req[r].sha)
          /\ objects' = [objects EXCEPT ![req[r].repo] = @ \cup {req[r].sha}]
    /\ UNCHANGED <<handlerVars, repos, heads>>

(* Mutant: no check that the branch is absent.                             *)
PostRefOverwrites(r) ==
    /\ step[r] = "start"
    /\ req[r].op = "postRef"
    /\ IF req[r].sha = NoSha
       THEN Finish(r, 422, NoSha)
       ELSE Goto(r, "write") /\ UNCHANGED <<lockVars, req, reply>>
    /\ UNCHANGED <<handlerVars, storeVars>>

(* Create only: the branch must not resolve.                               *)
PostRef(r) ==
    /\ step[r] = "start"
    /\ req[r].op = "postRef"
    /\ IF req[r].sha = NoSha \/ Head(r) # NoSha
       THEN Finish(r, 422, NoSha)
       ELSE Goto(r, "write") /\ UNCHANGED <<lockVars, req, reply>>
    /\ UNCHANGED <<handlerVars, storeVars>>

(* Mutant: every update is treated as a forced one.                        *)
PatchRefForces(r) ==
    /\ step[r] = "start"
    /\ req[r].op = "patchRef"
    /\ \/ Head(r) = NoSha /\ Finish(r, 404, NoSha) /\ UNCHANGED current
       \/ /\ Head(r) # NoSha
          /\ current' = [current EXCEPT ![r] = Head(r)]
          /\ Goto(r, "write")
          /\ UNCHANGED <<lockVars, req, reply>>
    /\ UNCHANGED <<frontier, seen, storeVars>>

(* Mutant: oid and ancestor are exchanged in the call of isDescendent.     *)
PatchRefSwapsWalk(r) ==
    /\ step[r] = "start"
    /\ req[r].op = "patchRef"
    /\ \/ Head(r) = NoSha /\ Finish(r, 404, NoSha) /\ UNCHANGED handlerVars
       \/ /\ Head(r) # NoSha /\ req[r].sha = Head(r)
          /\ Finish(r, 200, Head(r))
          /\ UNCHANGED handlerVars
       \/ /\ Head(r) # NoSha /\ req[r].sha # Head(r)
          /\ current' = [current EXCEPT ![r] = req[r].sha]
          /\ frontier' = [frontier EXCEPT ![r] = {Head(r)}]
          /\ seen' = [seen EXCEPT ![r] = {}]
          /\ Goto(r, IF req[r].force THEN "write" ELSE "walk")
          /\ UNCHANGED <<lockVars, req, reply>>
    /\ UNCHANGED storeVars

(* handlePatchRef up to the fast-forward decision.                         *)
PatchRef(r) ==
    /\ step[r] = "start"
    /\ req[r].op = "patchRef"
    /\ \/ Head(r) = NoSha /\ Finish(r, 404, NoSha) /\ UNCHANGED handlerVars
       \/ /\ Head(r) # NoSha /\ req[r].sha = Head(r)
          /\ Finish(r, 200, Head(r))
          /\ UNCHANGED handlerVars
       \/ /\ Head(r) # NoSha /\ req[r].sha # Head(r)
          /\ current' = [current EXCEPT ![r] = Head(r)]
          /\ frontier' = [frontier EXCEPT ![r] = {req[r].sha}]
          /\ seen' = [seen EXCEPT ![r] = {}]
          /\ Goto(r, IF req[r].force THEN "write" ELSE "walk")
          /\ UNCHANGED <<lockVars, req, reply>>
    /\ UNCHANGED storeVars

(* One object of isDescendent's walk.  The walk ends with "no" when it has *)
(* run out of objects, and throws at one that is missing or no commit; the *)
(* catch counts every exception as "not a fast forward".                   *)
Readable(r, c) == c \in Stored(r) \cap Commits

WalkRefuses(r) ==
    /\ step[r] = "walk"
    /\ \/ frontier[r] = {}
       \/ \E c \in frontier[r] : ~Readable(r, c)
    /\ Finish(r, 422, NoSha)
    /\ UNCHANGED <<handlerVars, storeVars>>

(* The read of an object fails although it is there (too many open files,  *)
(* a disk error): the catch does not tell this from a missing parent.      *)
WalkFails(r) ==
    /\ step[r] = "walk"
    /\ frontier[r] # {}
    /\ Goto(r, "failed")
    /\ UNCHANGED <<lockVars, req, handlerVars, reply, storeVars>>

RefuseOnFailure(r) ==
    /\ step[r] = "failed"
    /\ Finish(r, 422, NoSha)
    /\ UNCHANGED <<handlerVars, storeVars>>

WalkReads(r, c) ==
    /\ step[r] = "walk"
    /\ c \in frontier[r]
    /\ Readable(r, c)
    /\ IF current[r] \in Parents[c]
       THEN Goto(r, "write") /\ UNCHANGED <<frontier, seen>>
       ELSE /\ frontier' = [frontier EXCEPT ![r] = (@ \ {c}) \cup (Parents[c] \ seen[r])]
            /\ seen' = [seen EXCEPT ![r] = @ \cup Parents[c]]
            /\ UNCHANGED step
    /\ UNCHANGED <<lockVars, req, current, reply, storeVars>>

(* writeRef; it throws when the body had no sha.                           *)
WriteRef(r) ==
    /\ step[r] = "write"
    /\ req[r].sha # NoSha
    /\ heads' = [heads EXCEPT ![req[r].repo][req[r].branch] = req[r].sha]
    /\ Goto(r, "reply")
    /\ UNCHANGED <<lockVars, req, handlerVars, reply, repos, objects>>

(* Mutant: an update is answered 204, which the language does not expect.  *)
ReplyNoContent(r) ==
    /\ step[r] = "reply"
    /\ Finish(r, IF req[r].op = "postRef" THEN 201 ELSE 204, req[r].sha)
    /\ UNCHANGED <<handlerVars, storeVars>>

Reply(r) ==
    /\ step[r] = "reply"
    /\ Finish(r, IF req[r].op = "postRef" THEN 201 ELSE 200, req[r].sha)
    /\ UNCHANGED <<handlerVars, storeVars>>

(* Mutant: the gate is opened on the normal path only.                     *)
ThrowsKeepsLock(r) ==
    /\ step[r] \in {"ensure", "start", "write"}
    /\ reply' = [reply EXCEPT ![r] = [code |-> 500, sha |-> NoSha]]
    /\ Goto(r, "done")
    /\ UNCHANGED <<lockVars, req, handlerVars, storeVars>>

(* A handler throws (disk error, body that is not JSON): the finally block *)
(* still opens the gate and requestHandler answers 500.                    *)
Throws(r) ==
    /\ step[r] \in {"ensure", "start", "write"}
    /\ Finish(r, 500, NoSha)
    /\ UNCHANGED <<handlerVars, storeVars>>

Handler(r) ==
    \/ EnsureRepo(r) \/ GetRef(r) \/ GetObject(r) \/ PostObject(r)
    \/ PostRef(r) \/ PatchRef(r)
    \/ WalkRefuses(r) \/ WalkFails(r) \/ RefuseOnFailure(r)
    \/ \E c \in Objects : WalkReads(r, c)
    \/ WriteRef(r) \/ Reply(r) \/ Throws(r)

Next ==
    \E r \in Requests :
        \/ \E i \in Inputs : Arrive(r, i)
        \/ BodyRead(r) \/ BodyFails(r) \/ Enter(r) \/ Handler(r)

Spec == Init /\ [][Next]_vars

(* The event loop runs settled continuations and every file operation      *)
(* ends; a client may take forever over its body.                          *)
Fairness == \A r \in Requests : WF_vars(Enter(r)) /\ WF_vars(Handler(r))

FairSpec == Spec /\ Fairness
-----------------------------------------------------------------------------
TypeOK ==
    /\ LockTypeOK
    /\ step \in [Requests -> Steps]
    /\ req \in [Requests -> Inputs \cup {NoInput}]
    /\ current \in [Requests -> Objects \cup {NoSha}]
    /\ frontier \in [Requests -> SUBSET (Objects \cup {NoSha})]
    /\ seen \in [Requests -> SUBSET Commits]
    /\ reply \in [Requests -> [code : Codes, sha : Objects \cup {NoSha}]]
    /\ repos \in SUBSET Repos
    /\ objects \in [Repos -> SUBSET Objects]
    /\ heads \in [Repos -> [Branches -> Objects \cup {NoSha}]]

AncestorOrSame(a, c) == a = c \/ <<a, c>> \in Ancestor
SameBranch(r, s) == req[r].repo = req[s].repo /\ req[r].branch = req[s].branch
NoForce == \A i \in Inputs : ~i.force

(* A PATCH or POST the server answered with success on a branch.           *)
Acknowledged(r) ==
    /\ step[r] = "done"
    /\ req[r].op \in {"postRef", "patchRef"}
    /\ reply[r].code \in {200, 201}

(* "the two agents' concurrent pushes/pulls never interleave a ref         *)
(* read/update": between resolving a branch and writing it, a PATCH has    *)
(* it unchanged, and a POST finds it still absent.                         *)
ReadUpdateIsAtomic ==
    \A r \in Requests : step[r] \in {"walk", "write"} =>
        Head(r) = IF req[r].op = "patchRef" THEN current[r] ELSE NoSha

(* When no client forces, a push that was acknowledged stays in the        *)
(* branch's history for ever: no other agent's push can drop it.           *)
AcknowledgedPushesSurvive ==
    NoForce => \A r \in Requests :
        Acknowledged(r) => AncestorOrSame(req[r].sha, Head(r))

(* Of all the agents that race to create a branch one alone is told 201.   *)
CreatedOnce ==
    \A r, s \in Requests :
        (/\ Acknowledged(r) /\ req[r].op = "postRef"
         /\ Acknowledged(s) /\ req[s].op = "postRef"
         /\ SameBranch(r, s))
        => r = s

(* Reads of one branch, taken in the order the server received them, never *)
(* go back to an older commit (without force).                             *)
ReadsMoveForward ==
    NoForce => \A r, s \in Requests :
        (/\ step[r] = "done" /\ req[r].op = "getRef" /\ reply[r].code \in {200, 304}
         /\ step[s] = "done" /\ req[s].op = "getRef" /\ reply[s].code \in {200, 304}
         /\ SameBranch(r, s) /\ ticket[r] < ticket[s])
        => AncestorOrSame(reply[r].sha, reply[s].sha)

(* The strengthening that makes them inductive, together with LockInv.     *)
(* Handlers run while the lock is held, on the repository it was asked for.*)
InLock == {"ensure", "start", "walk", "failed", "write", "reply"}

StepsFollowLock ==
    \A r \in Requests :
        /\ step[r] \in {"new", "body"} => phase[r] = "outside"
        /\ step[r] = "wait" <=> phase[r] = "queued"
        /\ step[r] \in InLock <=> phase[r] = "holding"
        /\ step[r] # "new" => req[r] \in Inputs
        /\ Active(r) => repo[r] = req[r].repo

(* isDescendent meets ancestors of the pushed commit only, so that what    *)
(* reaches writeRef is a creation, a forced update or a fast forward.      *)
WalkIsSound ==
    \A r \in Requests :
        /\ step[r] = "walk" =>
              /\ req[r].op = "patchRef" /\ ~req[r].force /\ current[r] # NoSha
              /\ \A c \in frontier[r] \cup seen[r] : AncestorOrSame(c, req[r].sha)
        /\ step[r] = "write" =>
              \/ req[r].op = "postRef" /\ req[r].sha # NoSha
              \/ /\ req[r].op = "patchRef" /\ current[r] # NoSha
                 /\ req[r].force \/ <<current[r], req[r].sha>> \in Ancestor
        /\ step[r] = "reply" => req[r].op \in {"postRef", "patchRef"}

(* A push is in the branch from the moment it is written, before its       *)
(* answer leaves, and the branch it created cannot be created again.       *)
Pushed(r) == step[r] = "reply" \/ Acknowledged(r)
Created(r) == Pushed(r) /\ req[r].op = "postRef"

PushesHold ==
    /\ \A r \in Requests : Pushed(r) =>
          /\ Head(r) # NoSha /\ req[r].sha # NoSha
          /\ NoForce => AncestorOrSame(req[r].sha, Head(r))
    /\ \A r, s \in Requests : Created(r) /\ Created(s) /\ SameBranch(r, s) => r = s

GitInv == TypeOK /\ StepsFollowLock /\ ReadUpdateIsAtomic /\ WalkIsSound /\ PushesHold

(* A walk whose reads succeed refuses a push only when it is no fast       *)
(* forward, or when part of the history the client claims was never        *)
(* uploaded: it has missed no parent.  (After a read that failed,          *)
(* RefuseOnFailure answers 422 whatever the push was.)                     *)
Uploaded(r) ==
    \A a \in Commits : AncestorOrSame(a, req[r].sha) => a \in Stored(r)

WalkRefusalIsJustified ==
    [][\A r \in Requests :
          step[r] = "walk" /\ step'[r] = "done" =>
              ~(<<Head(r), req[r].sha>> \in Ancestor /\ Uploaded(r))]_vars

(* "PATCH -> 200 ff; 422 non-ff": what the server's header says of every   *)
(* update.  The catch around isDescendent breaks it: a fast forward whose  *)
(* walk meets a read error, or a parent not uploaded yet, gets 422 too.    *)
RefusedIsNoFastForward ==
    [][\A r \in Requests :
          step[r] \in {"walk", "failed"} /\ step'[r] = "done" =>
              <<Head(r), req[r].sha>> \notin Ancestor]_vars

(* What makes these two inductive on top of GitInv.  The walk has read, or *)
(* has still to read, all it has met, and has not met the branch.          *)
WalkIsComplete ==
    \A r \in Requests : step[r] = "walk" =>
        /\ current[r] # req[r].sha /\ current[r] \notin seen[r]
        /\ \A c \in seen[r] \cup {req[r].sha} :
              c \in frontier[r] \/ (c \in Commits /\ Parents[c] \subseteq seen[r])

(* Whoever has been served arrived before all who are inside.              *)
ServedFirst ==
    \A r \in Requests :
        /\ step[r] = "done" /\ reply[r].code # 500 => phase[r] = "released"
        /\ phase[r] = "released" =>
              /\ repo[r] = req[r].repo /\ repo[r] \in Repos /\ ticket[r] < issued[repo[r]]
              /\ \A s \in Requests : Active(s) /\ repo[s] = repo[r] => ticket[r] < ticket[s]

(* What was read from a branch stays in its history.                       *)
ReadDone(r) ==
    step[r] = "done" /\ req[r].op = "getRef" /\ reply[r].code \in {200, 304}

ReadsHold ==
    NoForce => \A r \in Requests :
        ReadDone(r) => Head(r) # NoSha /\ AncestorOrSame(reply[r].sha, Head(r))

HistoryInv == WalkIsComplete /\ ServedFirst /\ ReadsHold /\ ReadsMoveForward

(* Every request that reached the lock is answered, although other clients *)
(* may stop in the middle of their uploads and handlers may throw.         *)
EveryRequestAnswered ==
    \A r \in Requests : step[r] = "wait" ~> step[r] = "done"

(* The handlers use the mutex as RepoLock describes it, fairness included: *)
(* every locked body ends.                                                 *)
RefinesRepoLock == FairLockSpec

(* The branches behave as if each request were served in one step, and     *)
(* only the updates that clients force may leave the history.              *)
Forced(k, b, c) ==
    \E i \in Inputs : /\ i.op = "patchRef" /\ i.force
                      /\ i.repo = k /\ i.branch = b /\ i.sha = c

Store == INSTANCE RefStore WITH
            Initial <- {d.heads : d \in Disks},
            MayForce <- Forced,
            Descends <- LAMBDA a, c : <<a, c>> \in Ancestor

RefinesRefStore == Store!RefSpec
=============================================================================
