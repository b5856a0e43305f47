------------------------ MODULE RenegotiationProofs ------------------------
(***************************************************************************)
(* Safety of the renegotiation wiring for any number of peers, of failing  *)
(* calls and of offers on their way, in a burst or one at a time.          *)
(***************************************************************************)
EXTENDS Renegotiation, SequenceTheorems, TLAPS

Offers == SUBSET Peers

(* The head of a chain stays what it is when an offer is chained behind it. *)
LEMMA HeadOfAppend ==
    ASSUME NEW s \in Seq(Offers), NEW o \in Offers
    PROVE  /\ Append(s, o) \in Seq(Offers)
           /\ Append(s, o) # <<>>
           /\ s # <<>> => Head(Append(s, o)) = Head(s)
BY AppendProperties

(* What is left of a chain is a chain of offers.                           *)
LEMMA TailOfOffers ==
    ASSUME NEW s \in Seq(Offers), s # <<>>
    PROVE  /\ Head(s) \in Offers /\ Tail(s) \in Seq(Offers)
           /\ Len(s) \in Nat \ {0} /\ Len(Tail(s)) = Len(s) - 1
BY HeadTailProperties, EmptySeq

(* A chain without links is empty, and every chain has a length.           *)
LEMMA LengthOfOffers ==
    ASSUME NEW s \in Seq(Offers)
    PROVE  Len(s) \in Nat /\ (Len(s) = 0 <=> s = <<>>)
BY EmptySeq

(* Nobody has been prepared: every pipeline is empty. *)
LEMMA InitInv == Init => RenegotiationInv
<1> SUFFICES ASSUME Init PROVE RenegotiationInv
  OBVIOUS
<1>1. <<>> \in Seq(SUBSET Peers)
  OBVIOUS
<1>2. TypeOK
  BY <1>1, RoomAssumption DEF Init, TypeOK, Phases
<1>3. \A p \in Peers : Pipeline(p) /\ InStep(p) /\ Counted(p)
  BY DEF Init, Pipeline, InStep, Counted, Busy
<1> QED BY <1>2, <1>3 DEF RenegotiationInv

(* One lemma per action from here on. A peer starts to listen. *)
LEMMA PrepareInv ==
    ASSUME RenegotiationInv, NEW p \in Peers, Prepare(p)
    PROVE  RenegotiationInv'
<1>1. TypeOK'
  BY DEF Prepare, sfuVars, RenegotiationInv, TypeOK, Phases
<1>2. ASSUME NEW q \in Peers
      PROVE  Pipeline(q)'
  BY DEF Prepare, sfuVars, RenegotiationInv, TypeOK, Pipeline, Busy
<1>3. ASSUME NEW q \in Peers
      PROVE  InStep(q)'
  BY DEF Prepare, sfuVars, RenegotiationInv, TypeOK, Pipeline, InStep, Busy
<1>4. ASSUME NEW q \in Peers
      PROVE  Counted(q)'
  BY DEF Prepare, sfuVars, RenegotiationInv, TypeOK, Pipeline, Counted
<1> QED BY <1>1, <1>2, <1>3, <1>4 DEF RenegotiationInv

(* The SFU admits a caller, whose own offer is still out.                  *)
LEMMA SfuAdmitsInv ==
    ASSUME RenegotiationInv, NEW p \in Peers, SfuAdmits(p)
    PROVE  RenegotiationInv'
<1>1. TypeOK'
  BY DEF SfuAdmits, peerVars, RenegotiationInv, TypeOK, Phases
<1>2. ASSUME NEW q \in Peers
      PROVE  Pipeline(q)'
  BY DEF SfuAdmits, peerVars, RenegotiationInv, TypeOK, Pipeline, Busy
<1>3. ASSUME NEW q \in Peers
      PROVE  InStep(q)'
  BY DEF SfuAdmits, peerVars, RenegotiationInv, TypeOK, Pipeline, InStep, Busy
<1>4. ASSUME NEW q \in Peers
      PROVE  Counted(q)'
  BY DEF SfuAdmits, peerVars, RenegotiationInv, TypeOK, Pipeline, Counted
<1> QED BY <1>1, <1>2, <1>3, <1>4 DEF RenegotiationInv

(* The SFU's answer to a join reaches the peer.                            *)
LEMMA JoinReturnsInv ==
    ASSUME RenegotiationInv, NEW p \in Peers, JoinReturns(p)
    PROVE  RenegotiationInv'
<1>1. TypeOK'
  BY DEF JoinReturns, peerVars, sfuVars, RenegotiationInv, TypeOK, Phases
<1>2. ASSUME NEW q \in Peers
      PROVE  Pipeline(q)'
  BY DEF JoinReturns, peerVars, sfuVars, RenegotiationInv, TypeOK, Pipeline, Busy
<1>3. ASSUME NEW q \in Peers
      PROVE  InStep(q)'
  BY DEF JoinReturns, peerVars, sfuVars, RenegotiationInv, TypeOK, Pipeline, InStep, Busy
<1>4. ASSUME NEW q \in Peers
      PROVE  Counted(q)'
  BY DEF JoinReturns, peerVars, sfuVars, RenegotiationInv, TypeOK, Pipeline, Counted
<1> QED BY <1>1, <1>2, <1>3, <1>4 DEF RenegotiationInv

(* A join that failed: the peer keeps its own offer and listens on.        *)
LEMMA JoinFailsInv ==
    ASSUME RenegotiationInv, NEW p \in Peers, JoinFails(p)
    PROVE  RenegotiationInv'
<1>1. TypeOK'
  BY DEF JoinFails, peerVars, sfuVars, RenegotiationInv, TypeOK, Phases
<1>2. ASSUME NEW q \in Peers
      PROVE  Pipeline(q)'
  BY DEF JoinFails, peerVars, sfuVars, RenegotiationInv, TypeOK, Pipeline, Busy
<1>3. ASSUME NEW q \in Peers
      PROVE  InStep(q)'
  BY DEF JoinFails, peerVars, sfuVars, RenegotiationInv, TypeOK, Pipeline, InStep, Busy
<1>4. ASSUME NEW q \in Peers
      PROVE  Counted(q)'
  BY DEF JoinFails, peerVars, sfuVars, RenegotiationInv, TypeOK, Pipeline, Counted
<1> QED BY <1>1, <1>2, <1>3, <1>4 DEF RenegotiationInv

(* The peer leaves Busy in the stable state, with what the SFU knows. *)
LEMMA AcceptAnswerInv ==
    ASSUME RenegotiationInv, NEW p \in Peers, AcceptAnswer(p)
    PROVE  RenegotiationInv'
<1>1. TypeOK'
  BY DEF AcceptAnswer, sfuVars, RenegotiationInv, TypeOK, Phases
<1>2. ASSUME NEW q \in Peers
      PROVE  Pipeline(q)'
  BY DEF AcceptAnswer, sfuVars, RenegotiationInv, TypeOK, Pipeline, Busy
<1>3. ASSUME NEW q \in Peers
      PROVE  InStep(q)'
  BY DEF AcceptAnswer, sfuVars, RenegotiationInv, TypeOK, Pipeline, InStep, Busy
<1>4. ASSUME NEW q \in Peers
      PROVE  Counted(q)'
  BY DEF AcceptAnswer, sfuVars, RenegotiationInv, TypeOK, Pipeline, Counted
<1> QED BY <1>1, <1>2, <1>3, <1>4 DEF RenegotiationInv

(* An offer joins the frames; the chain is not touched. *)
LEMMA SfuOffersInv ==
    ASSUME RenegotiationInv, NEW p \in Peers, SfuOffers(p)
    PROVE  RenegotiationInv'
<1>1. TypeOK'
  BY HeadOfAppend DEF SfuOffers, Others, RenegotiationInv, TypeOK, Offers, Phases
<1>2. ASSUME NEW q \in Peers
      PROVE  Pipeline(q)'
  BY HeadOfAppend DEF SfuOffers, Others, RenegotiationInv, TypeOK, Offers, Pipeline, Busy
<1>3. ASSUME NEW q \in Peers
      PROVE  InStep(q)'
  BY HeadOfAppend DEF SfuOffers, Others, RenegotiationInv, TypeOK, Offers, Pipeline, InStep, Busy
<1>4. ASSUME NEW q \in Peers
      PROVE  Counted(q)'
  BY HeadOfAppend DEF SfuOffers, Others, RenegotiationInv, TypeOK, Pipeline, Counted
<1> QED BY <1>1, <1>2, <1>3, <1>4 DEF RenegotiationInv

(* The SFU gives an offer up.                                              *)
LEMMA SfuExpiresInv ==
    ASSUME RenegotiationInv, NEW p \in Peers, SfuExpires(p)
    PROVE  RenegotiationInv'
<1>1. TypeOK'
  BY DEF SfuExpires, peerVars, RenegotiationInv, TypeOK, Phases
<1>2. ASSUME NEW q \in Peers
      PROVE  Pipeline(q)'
  BY DEF SfuExpires, peerVars, RenegotiationInv, TypeOK, Pipeline, Busy
<1>3. ASSUME NEW q \in Peers
      PROVE  InStep(q)'
  BY DEF SfuExpires, peerVars, RenegotiationInv, TypeOK, Pipeline, InStep, Busy
<1>4. ASSUME NEW q \in Peers
      PROVE  Counted(q)'
  BY DEF SfuExpires, peerVars, RenegotiationInv, TypeOK, Pipeline, Counted
<1> QED BY <1>1, <1>2, <1>3, <1>4 DEF RenegotiationInv

(* The events socket closes, with the offers on their way.                 *)
LEMMA SocketClosesInv ==
    ASSUME RenegotiationInv, NEW p \in Peers, SocketCloses(p)
    PROVE  RenegotiationInv'
<1>1. TypeOK'
  BY DEF SocketCloses, sfuVars, RenegotiationInv, TypeOK, Phases
<1>2. ASSUME NEW q \in Peers
      PROVE  Pipeline(q)'
  BY DEF SocketCloses, sfuVars, RenegotiationInv, TypeOK, Pipeline, Busy
<1>3. ASSUME NEW q \in Peers
      PROVE  InStep(q)'
  BY DEF SocketCloses, sfuVars, RenegotiationInv, TypeOK, Pipeline, InStep, Busy
<1>4. ASSUME NEW q \in Peers
      PROVE  Counted(q)'
  BY DEF SocketCloses, sfuVars, RenegotiationInv, TypeOK, Pipeline, Counted
<1> QED BY <1>1, <1>2, <1>3, <1>4 DEF RenegotiationInv

(* The chain grows at its end, so the head being applied stays. *)
LEMMA HearInv ==
    ASSUME RenegotiationInv, NEW p \in Peers, Hear(p)
    PROVE  RenegotiationInv'
<1>1. TypeOK'
  BY HeadOfAppend, TailOfOffers DEF Hear, sfuVars, RenegotiationInv, TypeOK, Offers, Phases
<1>2. ASSUME NEW q \in Peers
      PROVE  Pipeline(q)'
  BY HeadOfAppend, TailOfOffers DEF Hear, sfuVars, RenegotiationInv, TypeOK, Offers, Pipeline, Busy
<1>3. ASSUME NEW q \in Peers
      PROVE  InStep(q)'
  BY HeadOfAppend, TailOfOffers DEF Hear, sfuVars, RenegotiationInv, TypeOK, Offers, Pipeline, InStep, Busy
<1>4. ASSUME NEW q \in Peers
      PROVE  Counted(q)'
  BY HeadOfAppend, TailOfOffers DEF Hear, sfuVars, RenegotiationInv, TypeOK, Pipeline, Counted
<1> QED BY <1>1, <1>2, <1>3, <1>4 DEF RenegotiationInv

(* The head of the chain is set as remote description.                     *)
LEMMA SetRemoteInv ==
    ASSUME RenegotiationInv, NEW p \in Peers, SetRemote(p)
    PROVE  RenegotiationInv'
<1>1. TypeOK'
  BY DEF SetRemote, sfuVars, RenegotiationInv, TypeOK, Phases
<1>2. ASSUME NEW q \in Peers
      PROVE  Pipeline(q)'
  BY DEF SetRemote, sfuVars, RenegotiationInv, TypeOK, Pipeline, Busy
<1>3. ASSUME NEW q \in Peers
      PROVE  InStep(q)'
  BY DEF SetRemote, sfuVars, RenegotiationInv, TypeOK, Pipeline, InStep, Busy
<1>4. ASSUME NEW q \in Peers
      PROVE  Counted(q)'
  BY DEF SetRemote, sfuVars, RenegotiationInv, TypeOK, Pipeline, Counted
<1> QED BY <1>1, <1>2, <1>3, <1>4 DEF RenegotiationInv

(* The head of the chain meets the peer's own offer and fails.             *)
LEMMA GlareInv ==
    ASSUME RenegotiationInv, NEW p \in Peers, Glare(p)
    PROVE  RenegotiationInv'
<1>1. TypeOK'
  BY TailOfOffers DEF Glare, Unchain, sfuVars, RenegotiationInv, TypeOK, Offers, Phases
<1>2. ASSUME NEW q \in Peers
      PROVE  Pipeline(q)'
  BY TailOfOffers DEF Glare, Unchain, sfuVars, RenegotiationInv, TypeOK, Offers, Pipeline, Busy
<1>3. ASSUME NEW q \in Peers
      PROVE  InStep(q)'
  BY TailOfOffers DEF Glare, Unchain, sfuVars, RenegotiationInv, TypeOK, Offers, Pipeline, InStep, Busy
<1>4. ASSUME NEW q \in Peers
      PROVE  Counted(q)'
  BY TailOfOffers DEF Glare, Unchain, sfuVars, RenegotiationInv, TypeOK, Pipeline, Counted
<1> QED BY <1>1, <1>2, <1>3, <1>4 DEF RenegotiationInv

(* The answer is set and the post to the SFU begins.                       *)
LEMMA SetLocalInv ==
    ASSUME RenegotiationInv, NEW p \in Peers, SetLocal(p)
    PROVE  RenegotiationInv'
<1>1. TypeOK'
  BY TailOfOffers DEF SetLocal, sfuVars, RenegotiationInv, TypeOK, Offers, Phases, Pipeline
<1>2. ASSUME NEW q \in Peers
      PROVE  Pipeline(q)'
  BY TailOfOffers DEF SetLocal, sfuVars, RenegotiationInv, TypeOK, Offers, Pipeline, Busy
<1>3. ASSUME NEW q \in Peers
      PROVE  InStep(q)'
  BY TailOfOffers DEF SetLocal, sfuVars, RenegotiationInv, TypeOK, Offers, Pipeline, InStep, Busy
<1>4. ASSUME NEW q \in Peers
      PROVE  Counted(q)'
  BY TailOfOffers DEF SetLocal, sfuVars, RenegotiationInv, TypeOK, Pipeline, Counted
<1> QED BY <1>1, <1>2, <1>3, <1>4 DEF RenegotiationInv

(* The SFU moves ahead of count() by one, and knows the head's tracks. *)
LEMMA SfuTakesInv ==
    ASSUME RenegotiationInv, NEW p \in Peers, SfuTakes(p)
    PROVE  RenegotiationInv'
<1>1. TypeOK'
  BY TailOfOffers DEF SfuTakes, RenegotiationInv, TypeOK, Offers, Phases, Pipeline
<1>2. ASSUME NEW q \in Peers
      PROVE  Pipeline(q)'
  BY TailOfOffers DEF SfuTakes, RenegotiationInv, TypeOK, Offers, Pipeline, Busy
<1>3. ASSUME NEW q \in Peers
      PROVE  InStep(q)'
  BY TailOfOffers DEF SfuTakes, RenegotiationInv, TypeOK, Offers, Pipeline, InStep, Busy
<1>4. ASSUME NEW q \in Peers
      PROVE  Counted(q)'
  BY TailOfOffers DEF SfuTakes, RenegotiationInv, TypeOK, Pipeline, Counted
<1> QED BY <1>1, <1>2, <1>3, <1>4 DEF RenegotiationInv

(* count() catches up. *)
LEMMA AppliedInv ==
    ASSUME RenegotiationInv, NEW p \in Peers, Applied(p)
    PROVE  RenegotiationInv'
<1>1. TypeOK'
  BY TailOfOffers DEF Applied, Unchain, sfuVars, RenegotiationInv, TypeOK, Offers, Phases, Pipeline
<1>2. ASSUME NEW q \in Peers
      PROVE  Pipeline(q)'
  BY TailOfOffers DEF Applied, Unchain, sfuVars, RenegotiationInv, TypeOK, Offers, Pipeline, Busy
<1>3. ASSUME NEW q \in Peers
      PROVE  InStep(q)'
  BY TailOfOffers DEF Applied, Unchain, sfuVars, RenegotiationInv, TypeOK, Offers, Pipeline, InStep, Busy
<1>4. ASSUME NEW q \in Peers
      PROVE  Counted(q)'
  BY TailOfOffers DEF Applied, Unchain, sfuVars, RenegotiationInv, TypeOK, Pipeline, Counted
<1> QED BY <1>1, <1>2, <1>3, <1>4 DEF RenegotiationInv

(* The peer joins `failed`, which is what InStep exempts. *)
LEMMA PostFailsInv ==
    ASSUME RenegotiationInv, NEW p \in Peers, PostFails(p)
    PROVE  RenegotiationInv'
<1>1. TypeOK'
  BY TailOfOffers DEF PostFails, Unchain, sfuVars, RenegotiationInv, TypeOK, Offers, Phases, Pipeline
<1>2. ASSUME NEW q \in Peers
      PROVE  Pipeline(q)'
  BY TailOfOffers DEF PostFails, Unchain, sfuVars, RenegotiationInv, TypeOK, Offers, Pipeline, Busy
<1>3. ASSUME NEW q \in Peers
      PROVE  InStep(q)'
  BY TailOfOffers DEF PostFails, Unchain, sfuVars, RenegotiationInv, TypeOK, Offers, Pipeline, InStep, Busy
<1>4. ASSUME NEW q \in Peers
      PROVE  Counted(q)'
  BY TailOfOffers DEF PostFails, Unchain, sfuVars, RenegotiationInv, TypeOK, Pipeline, Counted
<1> QED BY <1>1, <1>2, <1>3, <1>4 DEF RenegotiationInv

(* In a burst the peer was detached before. *)
LEMMA CallLeaveInv ==
    ASSUME RenegotiationInv, NEW p \in Peers, CallLeave(p)
    PROVE  RenegotiationInv'
<1>1. TypeOK'
  <2>1. phase' \in [Peers -> Phases]
    BY DEF CallLeave, RenegotiationInv, TypeOK, Phases
  <2>2. room' \subseteq Peers /\ lost' \in Nat
    BY DEF CallLeave, RenegotiationInv, TypeOK
  <2>3. pend' \in [Peers -> SUBSET SUBSET Peers]
    <3>1. [pend EXCEPT ![p] = {}] \in [Peers -> SUBSET SUBSET Peers]
      BY DEF RenegotiationInv, TypeOK
    <3> QED BY <3>1 DEF CallLeave, RenegotiationInv, TypeOK
  <2> QED BY <2>1, <2>2, <2>3 DEF CallLeave, peerVars, RenegotiationInv, TypeOK
<1>2. ASSUME NEW q \in Peers
      PROVE  Pipeline(q)'
  BY DEF CallLeave, MayLeave, peerVars, RenegotiationInv, TypeOK, Pipeline, Busy
<1>3. ASSUME NEW q \in Peers
      PROVE  InStep(q)'
  BY DEF CallLeave, MayLeave, peerVars, RenegotiationInv, TypeOK, Pipeline, InStep, Busy
<1>4. ASSUME NEW q \in Peers
      PROVE  Counted(q)'
  BY DEF CallLeave, MayLeave, peerVars, RenegotiationInv, TypeOK, Pipeline, Counted
<1> QED BY <1>1, <1>2, <1>3, <1>4 DEF RenegotiationInv

(* detach stops listening; the chain may still be running.                 *)
LEMMA DetachInv ==
    ASSUME RenegotiationInv, NEW p \in Peers, Detach(p)
    PROVE  RenegotiationInv'
<1>1. TypeOK'
  BY LengthOfOffers DEF Offers, Detach, sfuVars, RenegotiationInv, TypeOK, Phases
<1>2. ASSUME NEW q \in Peers
      PROVE  Pipeline(q)'
  BY LengthOfOffers DEF Offers, Detach, sfuVars, RenegotiationInv, TypeOK, Pipeline, Busy
<1>3. ASSUME NEW q \in Peers
      PROVE  InStep(q)'
  BY LengthOfOffers DEF Offers, Detach, sfuVars, RenegotiationInv, TypeOK, Pipeline, InStep, Busy
<1>4. ASSUME NEW q \in Peers
      PROVE  Counted(q)'
  BY LengthOfOffers DEF Offers, Detach, sfuVars, RenegotiationInv, TypeOK, Pipeline, Counted
<1> QED BY <1>1, <1>2, <1>3, <1>4 DEF RenegotiationInv

(* The chain has run dry and nothing can be added to it.                   *)
LEMMA DetachedInv ==
    ASSUME RenegotiationInv, NEW p \in Peers, Detached(p)
    PROVE  RenegotiationInv'
<1>1. TypeOK'
  BY LengthOfOffers DEF Offers, Detached, sfuVars, RenegotiationInv, TypeOK, Phases
<1>2. ASSUME NEW q \in Peers
      PROVE  Pipeline(q)'
  BY LengthOfOffers DEF Offers, Detached, sfuVars, RenegotiationInv, TypeOK, Pipeline, Busy
<1>3. ASSUME NEW q \in Peers
      PROVE  InStep(q)'
  BY LengthOfOffers DEF Offers, Detached, sfuVars, RenegotiationInv, TypeOK, Pipeline, InStep, Busy
<1>4. ASSUME NEW q \in Peers
      PROVE  Counted(q)'
  BY LengthOfOffers DEF Offers, Detached, sfuVars, RenegotiationInv, TypeOK, Pipeline, Counted
<1> QED BY <1>1, <1>2, <1>3, <1>4 DEF RenegotiationInv

(* A connection is closed after its detach only.                           *)
LEMMA CloseInv ==
    ASSUME RenegotiationInv, NEW p \in Peers, Close(p)
    PROVE  RenegotiationInv'
<1>1. TypeOK'
  BY DEF Close, sfuVars, RenegotiationInv, TypeOK, Phases
<1>2. ASSUME NEW q \in Peers
      PROVE  Pipeline(q)'
  BY DEF Close, sfuVars, RenegotiationInv, TypeOK, Pipeline, Busy
<1>3. ASSUME NEW q \in Peers
      PROVE  InStep(q)'
  BY DEF Close, sfuVars, RenegotiationInv, TypeOK, Pipeline, InStep, Busy
<1>4. ASSUME NEW q \in Peers
      PROVE  Counted(q)'
  BY DEF Close, sfuVars, RenegotiationInv, TypeOK, Pipeline, Counted
<1> QED BY <1>1, <1>2, <1>3, <1>4 DEF RenegotiationInv

(* Every prepared peer moves at once. *)
LEMMA CallJoinInv ==
    ASSUME RenegotiationInv, CallJoin
    PROVE  RenegotiationInv'
<1>1. TypeOK'
  BY DEF CallJoin, peerVars, sfuVars, RenegotiationInv, TypeOK, Phases
<1>2. ASSUME NEW q \in Peers
      PROVE  Pipeline(q)'
  BY DEF CallJoin, peerVars, sfuVars, RenegotiationInv, TypeOK, Pipeline, Busy
<1>3. ASSUME NEW q \in Peers
      PROVE  InStep(q)'
  BY DEF CallJoin, peerVars, sfuVars, RenegotiationInv, TypeOK, Pipeline, InStep, Busy
<1>4. ASSUME NEW q \in Peers
      PROVE  Counted(q)'
  BY DEF CallJoin, peerVars, sfuVars, RenegotiationInv, TypeOK, Pipeline, Counted
<1> QED BY <1>1, <1>2, <1>3, <1>4 DEF RenegotiationInv

(* The SFU forgets the room.                                               *)
LEMMA StopRoomInv ==
    ASSUME RenegotiationInv, StopRoom
    PROVE  RenegotiationInv'
<1>1. TypeOK'
  BY DEF StopRoom, peerVars, RenegotiationInv, TypeOK, Phases
<1>2. ASSUME NEW q \in Peers
      PROVE  Pipeline(q)'
  BY DEF StopRoom, peerVars, RenegotiationInv, TypeOK, Pipeline, Busy
<1>3. ASSUME NEW q \in Peers
      PROVE  InStep(q)'
  BY DEF StopRoom, peerVars, RenegotiationInv, TypeOK, Pipeline, InStep, Busy
<1>4. ASSUME NEW q \in Peers
      PROVE  Counted(q)'
  BY DEF StopRoom, peerVars, RenegotiationInv, TypeOK, Pipeline, Counted
<1> QED BY <1>1, <1>2, <1>3, <1>4 DEF RenegotiationInv

(* Steps that change nothing.                                              *)
LEMMA StutterInv ==
    ASSUME RenegotiationInv, UNCHANGED vars
    PROVE  RenegotiationInv'
BY DEF vars, peerVars, sfuVars, RenegotiationInv, TypeOK, Pipeline, InStep, Counted, Busy

(* Every step keeps the invariant. *)
LEMMA NextInv ==
    ASSUME RenegotiationInv, [Next]_vars
    PROVE  RenegotiationInv'
<1>1. CASE CallJoin
  BY <1>1, CallJoinInv
<1>2. CASE StopRoom
  BY <1>2, StopRoomInv
<1>3. ASSUME NEW p \in Peers, Joins(p)
      PROVE  RenegotiationInv'
  BY <1>3, PrepareInv, JoinReturnsInv, JoinFailsInv, AcceptAnswerInv DEF Joins
<1>4. ASSUME NEW p \in Peers, Sfu(p)
      PROVE  RenegotiationInv'
  BY <1>4, SfuAdmitsInv, SfuOffersInv, SfuExpiresInv, SfuTakesInv DEF Sfu
<1>5. ASSUME NEW p \in Peers, Hear(p) \/ SocketCloses(p)
      PROVE  RenegotiationInv'
  BY <1>5, HearInv, SocketClosesInv
<1>6. ASSUME NEW p \in Peers, Renegotiates(p)
      PROVE  RenegotiationInv'
  BY <1>6, SetRemoteInv, GlareInv, SetLocalInv, AppliedInv, PostFailsInv DEF Renegotiates
<1>7. ASSUME NEW p \in Peers, Leaves(p)
      PROVE  RenegotiationInv'
  BY <1>7, CallLeaveInv, DetachInv, DetachedInv, CloseInv DEF Leaves
<1>8. CASE UNCHANGED vars
  BY <1>8, StutterInv
<1> QED BY <1>1, <1>2, <1>3, <1>4, <1>5, <1>6, <1>7, <1>8 DEF Next

(* Every behaviour of the wiring keeps the inductive invariant: at each peer  *)
(* the offers are applied one at a time, none while its own offer is out, and *)
(* the chain it is torn down with has run dry.                                *)
THEOREM Inductive == Spec => []RenegotiationInv
BY InitInv, NextInv, PTL DEF Spec

(* The types, for any number of peers. *)
THEOREM TypeCorrect == Spec => []TypeOK
<1>1. RenegotiationInv => TypeOK
  BY DEF RenegotiationInv
<1> QED BY <1>1, Inductive, PTL

(* acceptAnswer finds the peer's own offer in place however many offers of  *)
(* the SFU reach the peer before its answer does.                           *)
THEOREM JoinAnswerAlwaysFits == Spec => []JoinAnswerFits
<1>1. RenegotiationInv => JoinAnswerFits
  BY DEF RenegotiationInv, Pipeline, JoinAnswerFits, In
<1> QED BY <1>1, Inductive, PTL

(* count(), which t8 adds up for its verdict, never exceeds what the SFU took. *)
THEOREM CountIsTaken == Spec => []AppliedIsTaken
<1>1. ASSUME RenegotiationInv, NEW p \in Peers
      PROVE  applied[p] <= taken[p]
  <2>1. applied[p] \in Nat /\ taken[p] \in Nat /\ Counted(p)
    BY <1>1 DEF RenegotiationInv, TypeOK
  <2> QED BY <2>1 DEF Counted
<1>2. RenegotiationInv => AppliedIsTaken
  BY <1>1 DEF AppliedIsTaken
<1> QED BY <1>2, Inductive, PTL

(* Once detach has returned no renegotiation touches the peer, so close never *)
(* runs under one, whatever was chained before.                               *)
THEOREM DetachIsQuiet == Spec => []QuietAfterDetach
<1>1. RenegotiationInv => QuietAfterDetach
  BY DEF RenegotiationInv, TypeOK, Pipeline, QuietAfterDetach
<1> QED BY <1>1, Inductive, PTL

(* A peer in the room none of whose renegotiations failed has, at rest, the *)
(* tracks the SFU believes it has.                                          *)
THEOREM PeerInStep == Spec => []InStepWithSfu
<1>1. RenegotiationInv => InStepWithSfu
  BY DEF RenegotiationInv, InStep, InStepWithSfu, In
<1> QED BY <1>1, Inductive, PTL
=============================================================================
