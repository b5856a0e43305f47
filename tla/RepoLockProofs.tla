--------------------------- MODULE RepoLockProofs ---------------------------
(***************************************************************************)
(* Safety of the promise-chain mutex for any set of requests and any set   *)
(* of repositories, by the inductive invariant LockInv of RepoLock.        *)
(***************************************************************************)
EXTENDS RepoLock, TLAPS

(* The inductive form implies the map property the runs check.             *)
LEMMA LockInvImpliesMap == LockInv => MapIsTight
<1> SUFFICES ASSUME LockInv, NEW k \in Repos
             PROVE  LET inside == {r \in Requests : Active(r) /\ repo[r] = k}
                    IN  IF inside = {} THEN tail[k] = NoRequest
                        ELSE /\ tail[k] \in inside
                             /\ \A r \in inside : ticket[r] <= ticket[tail[k]]
  BY DEF MapIsTight
<1> DEFINE inside == {r \in Requests : Active(r) /\ repo[r] = k}
<1>1. CASE tail[k] = NoRequest
  <2>1. inside = {}
    BY <1>1 DEF LockInv, TailIsLast
  <2> QED BY <1>1, <2>1
<1>2. CASE tail[k] # NoRequest
  <2>1. tail[k] \in inside
    BY <1>2 DEF LockInv, TailIsLast
  <2>2. \A r \in inside : ticket[r] <= ticket[tail[k]]
    <3> SUFFICES ASSUME NEW r \in inside PROVE ticket[r] <= ticket[tail[k]]
      OBVIOUS
    <3>1. ticket[r] < issued[k]
      BY DEF LockInv, Chain
    <3>2. issued[k] = ticket[tail[k]] + 1
      BY <1>2 DEF LockInv, TailIsLast
    <3>3. ticket[r] \in Nat /\ ticket[tail[k]] \in Nat
      BY <2>1 DEF LockInv, LockTypeOK
    <3> QED BY <3>1, <3>2, <3>3
  <2> QED BY <2>1, <2>2
<1> QED BY <1>1, <1>2

LEMMA LockInitInductive == LockInit => LockInv
BY LockAssumption
   DEF LockInit, LockInv, LockTypeOK, Chain, TailIsLast, Active, Phases

LEMMA EnqueueInductive ==
    ASSUME LockInv, NEW r \in Requests, NEW k \in Repos, Enqueue(r, k)
    PROVE  LockInv'
<1> USE LockAssumption
<1>1. LockTypeOK'
  BY DEF LockInv, LockTypeOK, Enqueue, Phases
<1>2. /\ ~Active(r) /\ Active(r)'
      /\ \A s \in Requests \ {r} : /\ Active(s)' <=> Active(s)
                                   /\ repo'[s] = repo[s]
                                   /\ prev'[s] = prev[s]
                                   /\ ticket'[s] = ticket[s]
                                   /\ phase'[s] = phase[s]
      /\ phase'[r] = "queued" /\ repo'[r] = k /\ prev'[r] = tail[k] /\ ticket'[r] = issued[k]
      /\ issued'[k] = issued[k] + 1 /\ tail'[k] = r
      /\ \A l \in Repos \ {k} : issued'[l] = issued[l] /\ tail'[l] = tail[l]
  BY DEF LockInv, LockTypeOK, Enqueue, Active
<1>3. \A s \in Requests \ {r} : Settled(prev[s])' <=> Settled(prev[s])
  <2> SUFFICES ASSUME NEW s \in Requests \ {r}
               PROVE  Settled(prev[s])' <=> Settled(prev[s])
    OBVIOUS
  <2>1. prev[s] # NoRequest => (phase'[prev[s]] = "released" <=> phase[prev[s]] = "released")
    BY <1>2 DEF LockInv, LockTypeOK, Enqueue
  <2> QED BY <1>2, <2>1 DEF Settled
<1>4. Settled(prev[r])' <=> tail[k] = NoRequest
  <2>1. CASE tail[k] = NoRequest
    BY <2>1, <1>2 DEF Settled
  <2>2. CASE tail[k] # NoRequest
    <3>1. tail[k] \in Requests /\ Active(tail[k]) /\ tail[k] # r
      BY <2>2, <1>2 DEF LockInv, TailIsLast
    <3>2. phase'[tail[k]] # "released"
      BY <3>1, <1>2 DEF Active
    <3> QED BY <2>2, <1>2, <3>2 DEF Settled
  <2> QED BY <2>1, <2>2
<1>5. issued[k] \in Nat /\ \A s \in Requests : ticket[s] \in Nat
  BY DEF LockInv, LockTypeOK
<1>6. Chain'
  <2>1. \A s \in Requests : (Active(s) => repo[s] \in Repos /\ ticket[s] < issued[repo[s]])'
    BY <1>2, <1>5 DEF LockInv, Chain, LockTypeOK
  <2>2. \A s, u \in Requests :
           (Active(s) /\ Active(u) /\ repo[s] = repo[u] =>
              /\ ticket[s] = ticket[u] => s = u
              /\ Settled(prev[s]) => ticket[s] <= ticket[u])'
    <3> SUFFICES ASSUME NEW s \in Requests, NEW u \in Requests,
                        Active(s)', Active(u)', repo'[s] = repo'[u]
                 PROVE  /\ ticket'[s] = ticket'[u] => s = u
                        /\ Settled(prev[s])' => ticket'[s] <= ticket'[u]
      BY DEF Settled
    <3>1. CASE s # r /\ u # r
      BY <3>1, <1>2, <1>3 DEF LockInv, Chain
    <3>2. CASE s = r /\ u = r
      BY <3>2, <1>2, <1>5
    <3>3. CASE s # r /\ u = r
      BY <3>3, <1>2, <1>5 DEF LockInv, Chain
    <3>4. CASE s = r /\ u # r
      <4>1. ticket[u] < issued[k] /\ Active(u) /\ repo[u] = k
        BY <3>4, <1>2 DEF LockInv, Chain
      <4>2. tail[k] # NoRequest
        BY <4>1 DEF LockInv, TailIsLast
      <4> QED BY <3>4, <4>1, <4>2, <1>2, <1>4, <1>5
    <3> QED BY <3>1, <3>2, <3>3, <3>4
  <2>3. \A s \in Requests :
           (Active(s) /\ ~Settled(prev[s]) =>
              /\ prev[s] \in Requests
              /\ Active(prev[s])
              /\ repo[prev[s]] = repo[s]
              /\ ticket[s] = ticket[prev[s]] + 1)'
    <3> SUFFICES ASSUME NEW s \in Requests, Active(s)', ~Settled(prev[s])'
                 PROVE  /\ prev'[s] \in Requests
                        /\ Active(prev[s])'
                        /\ repo'[prev'[s]] = repo'[s]
                        /\ ticket'[s] = ticket'[prev'[s]] + 1
      BY DEF Active
    <3>1. CASE s # r
      <4>1. /\ prev[s] \in Requests /\ Active(prev[s]) /\ prev[s] # r
            /\ repo[prev[s]] = repo[s] /\ ticket[s] = ticket[prev[s]] + 1
        BY <3>1, <1>2, <1>3 DEF LockInv, Chain
      <4> QED BY <3>1, <4>1, <1>2 DEF Active
    <3>2. CASE s = r
      <4>1. tail[k] # NoRequest
        BY <3>2, <1>4
      <4>2. /\ tail[k] \in Requests /\ Active(tail[k]) /\ repo[tail[k]] = k
            /\ issued[k] = ticket[tail[k]] + 1 /\ tail[k] # r
        BY <4>1, <1>2 DEF LockInv, TailIsLast
      <4> QED BY <3>2, <4>2, <1>2 DEF Active
    <3> QED BY <3>1, <3>2
  <2>4. \A s \in Requests : (phase[s] = "holding" => Settled(prev[s]))'
    <3> SUFFICES ASSUME NEW s \in Requests, phase'[s] = "holding" PROVE Settled(prev[s])'
      BY DEF Settled
    <3>1. s # r
      BY <1>2
    <3> QED BY <3>1, <1>2, <1>3 DEF LockInv, Chain
  <2> QED BY <2>1, <2>2, <2>3, <2>4 DEF Chain
<1>7. ASSUME NEW l \in Repos PROVE TailIsLast(l)'
  <2>1. CASE l = k
    BY <2>1, <1>2, <1>5 DEF TailIsLast
  <2>2. CASE l # k
    <3>1. TailIsLast(l)
      BY DEF LockInv
    <3>2. tail[l] # NoRequest => tail[l] # r
      BY <3>1, <1>2 DEF TailIsLast
    <3> QED BY <2>2, <3>1, <3>2, <1>2 DEF TailIsLast, Active
  <2> QED BY <2>1, <2>2
<1> QED BY <1>1, <1>6, <1>7 DEF LockInv

LEMMA AdmitInductive ==
    ASSUME LockInv, NEW r \in Requests, Admit(r)
    PROVE  LockInv'
<1> USE LockAssumption
<1>1. LockTypeOK'
  BY DEF LockInv, LockTypeOK, Admit, Phases
<1>2. /\ phase[r] = "queued" /\ Settled(prev[r])
      /\ \A s \in Requests : phase'[s] = IF s = r THEN "holding" ELSE phase[s]
      /\ repo' = repo /\ prev' = prev /\ tail' = tail /\ ticket' = ticket /\ issued' = issued
  BY DEF LockInv, LockTypeOK, Admit
<1>3. \A s \in Requests : Active(s)' <=> Active(s)
  BY <1>2 DEF Active
<1>4. \A s \in Requests : Settled(prev[s])' <=> Settled(prev[s])
  <2> SUFFICES ASSUME NEW s \in Requests
               PROVE  Settled(prev[s])' <=> Settled(prev[s])
    OBVIOUS
  <2>1. prev[s] # NoRequest => prev[s] \in Requests
    BY DEF LockInv, LockTypeOK
  <2> QED BY <1>2, <2>1 DEF Settled
<1>5. Chain'
  <2>1. \A s \in Requests : (Active(s) => repo[s] \in Repos /\ ticket[s] < issued[repo[s]])'
    BY <1>2, <1>3 DEF LockInv, Chain
  <2>2. \A s, u \in Requests :
           (Active(s) /\ Active(u) /\ repo[s] = repo[u] =>
              /\ ticket[s] = ticket[u] => s = u
              /\ Settled(prev[s]) => ticket[s] <= ticket[u])'
    BY <1>2, <1>3, <1>4 DEF LockInv, Chain
  <2>3. \A s \in Requests :
           (Active(s) /\ ~Settled(prev[s]) =>
              /\ prev[s] \in Requests
              /\ Active(prev[s])
              /\ repo[prev[s]] = repo[s]
              /\ ticket[s] = ticket[prev[s]] + 1)'
    BY <1>2, <1>3, <1>4 DEF LockInv, Chain
  <2>4. \A s \in Requests : (phase[s] = "holding" => Settled(prev[s]))'
    BY <1>2, <1>4 DEF LockInv, Chain
  <2> QED BY <2>1, <2>2, <2>3, <2>4 DEF Chain
<1>6. ASSUME NEW l \in Repos PROVE TailIsLast(l)'
  BY <1>2, <1>3 DEF LockInv, TailIsLast
<1> QED BY <1>1, <1>5, <1>6 DEF LockInv

LEMMA ReleaseInductive ==
    ASSUME LockInv, NEW r \in Requests, Release(r)
    PROVE  LockInv'
<1> USE LockAssumption
<1>1. Active(r) /\ Settled(prev[r]) /\ repo[r] \in Repos
  BY DEF LockInv, Chain, Release, Active
<1>2. LockTypeOK'
  BY <1>1 DEF LockInv, LockTypeOK, Release, Phases
<1>3. /\ phase[r] = "holding"
      /\ \A s \in Requests : phase'[s] = IF s = r THEN "released" ELSE phase[s]
      /\ repo' = repo /\ prev' = prev /\ ticket' = ticket /\ issued' = issued
      /\ \A l \in Repos : tail'[l] = IF l = repo[r] /\ tail[l] = r THEN NoRequest ELSE tail[l]
  BY <1>1 DEF LockInv, LockTypeOK, Release
<1>4. \A s \in Requests : Active(s)' <=> Active(s) /\ s # r
  BY <1>3 DEF Active
<1>5. \A s \in Requests : Settled(prev[s])' <=> Settled(prev[s]) \/ prev[s] = r
  <2> SUFFICES ASSUME NEW s \in Requests
               PROVE  Settled(prev[s])' <=> Settled(prev[s]) \/ prev[s] = r
    OBVIOUS
  <2>1. prev[s] # NoRequest => prev[s] \in Requests
    BY DEF LockInv, LockTypeOK
  <2> QED BY <1>3, <2>1 DEF Settled
<1>6. \A s \in Requests : ticket[s] \in Nat
  BY DEF LockInv, LockTypeOK
(* r is the oldest of its chain: whoever else is inside came strictly later. *)
<1>7. \A u \in Requests : Active(u) /\ u # r /\ repo[u] = repo[r] => ticket[r] + 1 <= ticket[u]
  BY <1>1, <1>6 DEF LockInv, Chain
<1>8. Chain'
  <2>1. \A s \in Requests : (Active(s) => repo[s] \in Repos /\ ticket[s] < issued[repo[s]])'
    BY <1>3, <1>4 DEF LockInv, Chain
  <2>2. \A s, u \in Requests :
           (Active(s) /\ Active(u) /\ repo[s] = repo[u] =>
              /\ ticket[s] = ticket[u] => s = u
              /\ Settled(prev[s]) => ticket[s] <= ticket[u])'
    <3> SUFFICES ASSUME NEW s \in Requests, NEW u \in Requests,
                        Active(s)', Active(u)', repo'[s] = repo'[u]
                 PROVE  /\ ticket'[s] = ticket'[u] => s = u
                        /\ Settled(prev[s])' => ticket'[s] <= ticket'[u]
      BY DEF Settled
    <3>1. Active(s) /\ Active(u) /\ s # r /\ u # r /\ repo[s] = repo[u]
      BY <1>3, <1>4
    <3>2. CASE prev[s] = r /\ ~Settled(prev[s])
      <4>1. ticket[s] = ticket[r] + 1 /\ repo[r] = repo[s]
        BY <3>1, <3>2 DEF LockInv, Chain
      <4> QED BY <1>3, <1>7, <3>1, <4>1 DEF LockInv, Chain
    <3>3. CASE ~(prev[s] = r /\ ~Settled(prev[s]))
      BY <1>3, <1>5, <3>1, <3>3 DEF LockInv, Chain
    <3> QED BY <3>2, <3>3
  <2>3. \A s \in Requests :
           (Active(s) /\ ~Settled(prev[s]) =>
              /\ prev[s] \in Requests
              /\ Active(prev[s])
              /\ repo[prev[s]] = repo[s]
              /\ ticket[s] = ticket[prev[s]] + 1)'
    BY <1>3, <1>4, <1>5 DEF LockInv, Chain
  <2>4. \A s \in Requests : (phase[s] = "holding" => Settled(prev[s]))'
    BY <1>3, <1>5 DEF LockInv, Chain
  <2> QED BY <2>1, <2>2, <2>3, <2>4 DEF Chain
<1>9. ASSUME NEW l \in Repos PROVE TailIsLast(l)'
  <2>1. TailIsLast(l)
    BY DEF LockInv
  <2>2. CASE tail[l] = r
    <3>1. repo[r] = l /\ issued[l] = ticket[r] + 1
      BY <2>1, <2>2 DEF TailIsLast
    <3>2. \A u \in Requests : Active(u) /\ repo[u] = l => u = r
      <4> SUFFICES ASSUME NEW u \in Requests, Active(u), repo[u] = l, u # r
                   PROVE  FALSE
        OBVIOUS
      <4>1. ticket[u] < issued[l] /\ issued[l] \in Nat
        BY DEF LockInv, Chain, LockTypeOK
      <4>2. ticket[r] + 1 <= ticket[u]
        BY <1>7, <3>1
      <4> QED BY <3>1, <4>1, <4>2, <1>6
    <3>3. tail'[l] = NoRequest
      BY <1>3, <2>2, <3>1
    <3> QED BY <1>3, <1>4, <3>2, <3>3 DEF TailIsLast
  <2>3. CASE tail[l] # r
    <3>1. tail'[l] = tail[l]
      BY <1>3, <2>3
    <3> QED BY <1>3, <1>4, <2>1, <2>3, <3>1 DEF TailIsLast
  <2> QED BY <2>2, <2>3
<1> QED BY <1>2, <1>8, <1>9 DEF LockInv

LEMMA StutterInductive ==
    ASSUME LockInv, UNCHANGED lockVars
    PROVE  LockInv'
BY DEF LockInv, lockVars, LockTypeOK, Chain, TailIsLast, Active, Settled

LEMMA LockStepInductive == LockInv /\ [LockNext]_lockVars => LockInv'
<1> SUFFICES ASSUME LockInv, [LockNext]_lockVars
             PROVE  LockInv'
  OBVIOUS
<1>1. ASSUME NEW r \in Requests, NEW k \in Repos, Enqueue(r, k)
      PROVE  LockInv'
  BY <1>1, EnqueueInductive
<1>2. ASSUME NEW r \in Requests, Admit(r)
      PROVE  LockInv'
  BY <1>2, AdmitInductive
<1>3. ASSUME NEW r \in Requests, Release(r)
      PROVE  LockInv'
  BY <1>3, ReleaseInductive
<1>4. CASE UNCHANGED lockVars
  BY <1>4, StutterInductive
<1> QED BY <1>1, <1>2, <1>3, <1>4 DEF LockNext

(* Whatever the interleaving of arrivals, admissions and releases, the     *)
(* requests inside withLock form one ticket-ordered chain per repository.  *)
THEOREM LockInductive == LockSpec => []LockInv
BY LockInitInductive, LockStepInductive, PTL DEF LockSpec

LEMMA LockInvImpliesMutex == LockInv => MutualExclusion
<1> SUFFICES ASSUME LockInv, NEW r \in Requests, NEW s \in Requests,
                    phase[r] = "holding", phase[s] = "holding", repo[r] = repo[s]
             PROVE  r = s
  BY DEF MutualExclusion
<1>1. Active(r) /\ Active(s) /\ Settled(prev[r]) /\ Settled(prev[s])
  BY DEF LockInv, Chain, Active
<1>2. ticket[r] <= ticket[s] /\ ticket[s] <= ticket[r]
  BY <1>1 DEF LockInv, Chain
<1>3. ticket[r] = ticket[s]
  BY <1>2 DEF LockInv, LockTypeOK
<1> QED BY <1>1, <1>3 DEF LockInv, Chain

LEMMA LockInvImpliesOrder == LockInv => ArrivalOrder
<1> SUFFICES ASSUME LockInv, NEW r \in Requests, NEW s \in Requests,
                    phase[r] = "holding", phase[s] = "queued", repo[r] = repo[s]
             PROVE  ticket[r] < ticket[s]
  BY DEF ArrivalOrder
<1>1. Active(r) /\ Active(s) /\ Settled(prev[r])
  BY DEF LockInv, Chain, Active
<1>2. ticket[r] <= ticket[s] /\ ticket[r] # ticket[s]
  BY <1>1 DEF LockInv, Chain
<1> QED BY <1>2 DEF LockInv, LockTypeOK

(* withLock's variables keep their types. *)
THEOREM LockTypeCorrect == LockSpec => []LockTypeOK
<1>1. LockInv => LockTypeOK
  BY DEF LockInv
<1> QED BY <1>1, LockInductive, PTL

(* Two requests on one repository are never both inside the locked body.   *)
THEOREM LockMutualExclusion == LockSpec => []MutualExclusion
BY LockInductive, LockInvImpliesMutex, PTL

(* The lock is granted in arrival order on each repository.                *)
THEOREM LockArrivalOrder == LockSpec => []ArrivalOrder
BY LockInductive, LockInvImpliesOrder, PTL

(* The map of promises has an entry exactly for the busy repositories.     *)
THEOREM LockMapIsTight == LockSpec => []MapIsTight
BY LockInductive, LockInvImpliesMap, PTL
=============================================================================
