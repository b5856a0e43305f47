------------------------------ MODULE RepoLock ------------------------------
(***************************************************************************)
(* The per-repository promise-chain mutex of infra/git-data-shim.mjs       *)
(* (withLock).  Every call takes the promise stored for its repository,    *)
(* stores its own ("mine", settled when its predecessor's has settled and  *)
(* its own gate is open), waits for the predecessor, runs its body and     *)
(* opens the gate in a finally block.  The map of promises is `tail`; a    *)
(* promise is named by the request that created it, and is settled exactly *)
(* when that request has released.                                         *)
(***************************************************************************)
EXTENDS Naturals

CONSTANTS
    Requests,   \* HTTP requests, each served once
    Repos,      \* repository keys: lock key and directory name are one string
    NoRequest,  \* the already resolved promise, and an absent map entry
    NoRepo      \* the repository of a request that has not asked for a lock

ASSUME LockAssumption ==
    /\ NoRequest \notin Requests
    /\ NoRepo \notin Repos

VARIABLES
    phase,      \* phase[r]: where request r stands in withLock
    repo,       \* repo[r]: the key r passed to withLock
    prev,       \* prev[r]: the promise r captured as its predecessor
    tail,       \* tail[k]: the `locks` map, NoRequest when k has no entry
    ticket,     \* history: r's position in the arrival order of its repository
    issued      \* history: tickets issued per repository

lockVars == <<phase, repo, prev, tail, ticket, issued>>

Phases == {"outside", "queued", "holding", "released"}

(* Inside withLock, its own promise not yet settled. *)
Active(r) == phase[r] \in {"queued", "holding"}

(* The promise of p is settled; the initial resolved promise always is. *)
Settled(p) == p # NoRequest => phase[p] = "released"

LockInit ==
    /\ phase = [r \in Requests |-> "outside"]
    /\ repo = [r \in Requests |-> NoRepo]
    /\ prev = [r \in Requests |-> NoRequest]
    /\ tail = [k \in Repos |-> NoRequest]
    /\ ticket = [r \in Requests |-> 0]
    /\ issued = [k \in Repos |-> 0]

(* Mutant: the map is written before it is read.                           *)
EnqueueAfterStore(r, k) ==
    /\ phase[r] = "outside"
    /\ phase' = [phase EXCEPT ![r] = "queued"]
    /\ repo' = [repo EXCEPT ![r] = k]
    /\ tail' = [tail EXCEPT ![k] = r]
    /\ prev' = [prev EXCEPT ![r] = tail'[k]]
    /\ ticket' = [ticket EXCEPT ![r] = issued[k]]
    /\ issued' = [issued EXCEPT ![k] = @ + 1]

(* The synchronous prefix of withLock: read the map, chain, store. *)
Enqueue(r, k) ==
    /\ phase[r] = "outside"
    /\ phase' = [phase EXCEPT ![r] = "queued"]
    /\ repo' = [repo EXCEPT ![r] = k]
    /\ prev' = [prev EXCEPT ![r] = tail[k]]
    /\ tail' = [tail EXCEPT ![k] = r]
    /\ ticket' = [ticket EXCEPT ![r] = issued[k]]
    /\ issued' = [issued EXCEPT ![k] = @ + 1]

(* Mutant: a plain semaphore, which wakes any waiter when it is free.      *)
AdmitAnyWaiter(r) ==
    /\ phase[r] = "queued"
    /\ \A s \in Requests : phase[s] = "holding" => repo[s] # repo[r]
    /\ phase' = [phase EXCEPT ![r] = "holding"]
    /\ UNCHANGED <<repo, prev, tail, ticket, issued>>

(* `await prev` returns and the body of the call starts. *)
Admit(r) ==
    /\ phase[r] = "queued"
    /\ Settled(prev[r])
    /\ phase' = [phase EXCEPT ![r] = "holding"]
    /\ UNCHANGED <<repo, prev, tail, ticket, issued>>

(* Mutant: the entry is dropped without asking whose it is.                *)
ReleaseDropsEntry(r) ==
    /\ phase[r] = "holding"
    /\ phase' = [phase EXCEPT ![r] = "released"]
    /\ tail' = [tail EXCEPT ![repo[r]] = NoRequest]
    /\ UNCHANGED <<repo, prev, ticket, issued>>

(* Mutant: the entry is never dropped.                                     *)
ReleaseKeepsEntry(r) ==
    /\ phase[r] = "holding"
    /\ phase' = [phase EXCEPT ![r] = "released"]
    /\ UNCHANGED <<repo, prev, tail, ticket, issued>>

(* The finally block: open the gate; drop the map entry if still ours. *)
Release(r) ==
    /\ phase[r] = "holding"
    /\ phase' = [phase EXCEPT ![r] = "released"]
    /\ tail' = [tail EXCEPT ![repo[r]] = IF @ = r THEN NoRequest ELSE @]
    /\ UNCHANGED <<repo, prev, ticket, issued>>

LockNext ==
    \E r \in Requests :
        \/ \E k \in Repos : Enqueue(r, k)
        \/ Admit(r)
        \/ Release(r)

LockSpec == LockInit /\ [][LockNext]_lockVars

(* The event loop runs every settled continuation, and every body ends.    *)
(* Nothing obliges a client to send a request.                             *)
LockFairness ==
    \A r \in Requests : WF_lockVars(Admit(r)) /\ WF_lockVars(Release(r))

FairLockSpec == LockSpec /\ LockFairness
-----------------------------------------------------------------------------
LockTypeOK ==
    /\ phase \in [Requests -> Phases]
    /\ repo \in [Requests -> Repos \cup {NoRepo}]
    /\ prev \in [Requests -> Requests \cup {NoRequest}]
    /\ tail \in [Repos -> Requests \cup {NoRequest}]
    /\ ticket \in [Requests -> Nat]
    /\ issued \in [Repos -> Nat]

(* "A per-repo async mutex serialises all operations on a repo": two       *)
(* requests on the same repository are never both inside the locked body.  *)
MutualExclusion ==
    \A r, s \in Requests :
        phase[r] = "holding" /\ phase[s] = "holding" /\ repo[r] = repo[s] => r = s

(* Bodies run in the order in which the requests reached withLock: a       *)
(* request inside the body has no earlier arrival still waiting behind it. *)
ArrivalOrder ==
    \A r, s \in Requests :
        phase[r] = "holding" /\ phase[s] = "queued" /\ repo[r] = repo[s]
            => ticket[r] < ticket[s]

(* "drop the entry so the map stays bounded by concurrently-active repos": *)
(* the map has an entry for exactly the repositories with a request inside *)
(* withLock, and it is the last arrival's.                                 *)
MapIsTight ==
    \A k \in Repos :
        LET inside == {r \in Requests : Active(r) /\ repo[r] = k}
        IN  IF inside = {} THEN tail[k] = NoRequest
            ELSE /\ tail[k] \in inside
                 /\ \A r \in inside : ticket[r] <= ticket[tail[k]]

(* The strengthening that makes the three inductive: the requests inside   *)
(* withLock form one chain per repository, consecutive tickets linked by   *)
(* prev, the only one with a settled predecessor being the oldest.         *)
Chain ==
    /\ \A r \in Requests :
          Active(r) => repo[r] \in Repos /\ ticket[r] < issued[repo[r]]
    /\ \A r, s \in Requests :
          Active(r) /\ Active(s) /\ repo[r] = repo[s] =>
              /\ ticket[r] = ticket[s] => r = s
              /\ Settled(prev[r]) => ticket[r] <= ticket[s]
    /\ \A r \in Requests :
          Active(r) /\ ~Settled(prev[r]) =>
              /\ prev[r] \in Requests
              /\ Active(prev[r])
              /\ repo[prev[r]] = repo[r]
              /\ ticket[r] = ticket[prev[r]] + 1
    /\ \A r \in Requests : phase[r] = "holding" => Settled(prev[r])

(* An entry of the map is the last arrival inside; without one the         *)
(* repository has nobody inside.                                           *)
TailIsLast(k) ==
    /\ tail[k] = NoRequest => \A r \in Requests : Active(r) => repo[r] # k
    /\ tail[k] # NoRequest =>
          /\ tail[k] \in Requests
          /\ Active(tail[k])
          /\ repo[tail[k]] = k
          /\ issued[k] = ticket[tail[k]] + 1

(* The inductive invariant. *)
LockInv == LockTypeOK /\ Chain /\ \A k \in Repos : TailIsLast(k)

(* A request that reaches withLock eventually leaves it, whatever other    *)
(* requests keep arriving on its repository.                               *)
NoStarvation ==
    \A r \in Requests : phase[r] = "queued" ~> phase[r] = "released"
=============================================================================
