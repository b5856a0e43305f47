--------------------------- MODULE Renegotiation ---------------------------
(***************************************************************************)
(* Peers of one SFU room that answer the offers the SFU pushes at them     *)
(* (src/renegotiation.ts, src/events.ts, the signalling of src/peer.ts),   *)
(* joined and torn down the way t8 does it (a burst) or the way f5 does    *)
(* (one at a time, with churn).                                            *)
(*                                                                         *)
(* An offer is the set of participants whose tracks it carries.  The SFU   *)
(* is outside the repository: it is modelled from what the comments of     *)
(* t8, f5 and f8 rely on (one pending offer per participant, dropped after *)
(* a timeout and made again; a joiner learns the others from its answer).  *)
(***************************************************************************)
EXTENDS Naturals, Sequences, FiniteSets

CONSTANTS Peers,        \* the sessions, joined in any order
          Bursts,       \* TRUE in it: t8's Promise.all; FALSE: f5's joinOne/leaveOne
          MaxLost,      \* how many calls may fail or time out
          MaxInFlight   \* offers on their way to one peer

ASSUME RoomAssumption ==
    /\ IsFiniteSet(Peers)
    /\ Bursts \subseteq BOOLEAN
    /\ MaxLost \in Nat /\ MaxInFlight \in Nat

VARIABLES
    burst,      \* whether the peers join and leave all together
    phase,      \* where the scenario is with a peer
    sig,        \* signalling state of its RTCPeerConnection
    deaf,       \* peers whose events socket has closed; nothing reconnects it
    listening,  \* peers whose handler is registered with the events client
    frames,     \* offers on their way over the events socket of a peer
    chain,      \* offers chained on `pending`; the head is being applied
    awaited,    \* links of the chain that detach waits for
    step,       \* where applyOffer is with the head
    tracks,     \* remote participants of the last offer or answer applied
    applied,    \* count(): renegotiations applied
    failed,     \* peers with failures() > 0
    room,       \* SFU: participants
    known,      \* SFU: participants whose tracks are negotiated with a peer
    pend,       \* SFU: the pending offer of a participant, if any
    taken,      \* SFU: answers taken from a peer (history)
    lost        \* calls that failed so far

peerVars == <<sig, deaf, listening, frames, chain, awaited, step, tracks, applied, failed>>
sfuVars == <<room, known, pend, taken>>
vars == <<burst, phase, peerVars, sfuVars, lost>>

Phases == {"new", "prepared", "joining", "admitted", "answered", "in",
           "leaving", "draining", "detached", "closed", "dropped"}

Init ==
    /\ burst \in Bursts
    /\ phase = [p \in Peers |-> "new"]
    /\ sig = [p \in Peers |-> "stable"]
    /\ listening = {}
    /\ deaf = {}
    /\ frames = [p \in Peers |-> <<>>]
    /\ chain = [p \in Peers |-> <<>>]
    /\ awaited = [p \in Peers |-> 0]
    /\ step = [p \in Peers |-> "idle"]
    /\ tracks = [p \in Peers |-> {}]
    /\ applied = [p \in Peers |-> 0]
    /\ failed = {}
    /\ room = {}
    /\ known = [p \in Peers |-> {}]
    /\ pend = [p \in Peers |-> {}]
    /\ taken = [p \in Peers |-> 0]
    /\ lost = 0

In(ph) == {p \in Peers : phase[p] \in ph}
Busy == {"prepared", "joining", "admitted", "answered"}
Teardown == {"leaving", "draining", "detached", "closed"}
Ending == In(Teardown \cup {"dropped"}) # {}
Others(p) == room \ {p}

(***************************************************************************)
(* Joining.  wireRenegotiation has registered the handler before the       *)
(* local offer is made, so the peer listens while it waits for its answer. *)
(***************************************************************************)
Prepare(p) ==
    /\ phase[p] = "new"
    /\ IF burst THEN In({"joining", "admitted", "answered", "in"}) = {} /\ ~Ending
       ELSE In(Busy \cup {"dropped", "leaving", "draining", "detached"}) = {}
    /\ phase' = [phase EXCEPT ![p] = "prepared"]
    /\ sig' = [sig EXCEPT ![p] = "have-local-offer"]
    /\ listening' = listening \cup {p}
    /\ UNCHANGED <<burst, awaited, deaf, frames, chain, step, tracks, applied, failed,
                   sfuVars, lost>>

\* All sessions call at once in a burst, when every peer is prepared.
CallJoin ==
    /\ In({"prepared"}) # {}
    /\ burst => In({"new"}) = {}
    /\ phase' = [p \in Peers |-> IF phase[p] = "prepared" THEN "joining"
                                 ELSE phase[p]]
    /\ UNCHANGED <<burst, peerVars, sfuVars, lost>>

\* The SFU admits the caller; its answer names those already in the room.
SfuAdmits(p) ==
    /\ phase[p] = "joining"
    /\ phase' = [phase EXCEPT ![p] = "admitted"]
    /\ room' = room \cup {p}
    /\ known' = [known EXCEPT ![p] = room]
    /\ UNCHANGED <<burst, peerVars, pend, taken, lost>>

JoinReturns(p) ==
    /\ phase[p] = "admitted"
    /\ phase' = [phase EXCEPT ![p] = "answered"]
    /\ UNCHANGED <<burst, peerVars, sfuVars, lost>>

\* The call fails before or after the SFU acted on it: the peer is in no list
\* of those to accept (t8) or to leave (f5), and still listens.
JoinFails(p) ==
    /\ phase[p] \in {"joining", "admitted"}
    /\ lost < MaxLost
    /\ lost' = lost + 1
    /\ phase' = [phase EXCEPT ![p] = "dropped"]
    /\ UNCHANGED <<burst, peerVars, sfuVars>>

\* acceptAnswer; after a burst only when every call has returned.
AcceptAnswer(p) ==
    /\ phase[p] = "answered"
    /\ burst => In({"joining", "admitted"}) = {}
    /\ phase' = [phase EXCEPT ![p] = "in"]
    /\ sig' = [sig EXCEPT ![p] = "stable"]
    /\ tracks' = [tracks EXCEPT ![p] = known[p]]
    /\ UNCHANGED <<burst, awaited, listening, deaf, frames, chain, step, applied, failed, sfuVars, lost>>

(***************************************************************************)
(* The SFU's offers.                                                       *)
(***************************************************************************)
SfuOffers(p) ==
    /\ p \in room
    /\ pend[p] = {}
    /\ known[p] # Others(p)
    /\ Len(frames[p]) + Len(chain[p]) < MaxInFlight
    /\ pend' = [pend EXCEPT ![p] = {Others(p)}]
    /\ frames' = IF p \in listening \ deaf
                 THEN [frames EXCEPT ![p] = Append(@, Others(p))] ELSE frames
    /\ UNCHANGED <<burst, awaited, deaf, phase, sig, listening, chain, step, tracks, applied, failed,
                   room, known, taken, lost>>

\* The pending offer is given up when nobody has answered it in time.
SfuExpires(p) ==
    /\ pend[p] # {}
    /\ pend' = [pend EXCEPT ![p] = {}]
    /\ UNCHANGED <<burst, phase, peerVars, room, known, taken, lost>>

(***************************************************************************)
(* renegotiation.ts.                                                       *)
(***************************************************************************)
\* The events socket closes: what is on its way is lost, and what comes later.
SocketCloses(p) ==
    /\ p \in listening \ deaf
    /\ lost < MaxLost
    /\ lost' = lost + 1
    /\ deaf' = deaf \cup {p}
    /\ frames' = [frames EXCEPT ![p] = <<>>]
    /\ UNCHANGED <<burst, awaited, phase, sig, listening, chain, step, tracks, applied, failed, sfuVars>>

\* The handler chains the offer on `pending`.
Hear(p) ==
    /\ p \in listening
    /\ frames[p] # <<>>
    /\ chain' = [chain EXCEPT ![p] = Append(@, Head(frames[p]))]
    /\ frames' = [frames EXCEPT ![p] = Tail(@)]
    /\ UNCHANGED <<burst, awaited, deaf, phase, sig, listening, step, tracks, applied, failed, sfuVars, lost>>

\* A link of the chain ends, resolved or caught.
Unchain(p) ==
    /\ chain' = [chain EXCEPT ![p] = Tail(@)]
    /\ awaited' = [awaited EXCEPT ![p] = IF @ = 0 THEN 0 ELSE @ - 1]
    /\ step' = [step EXCEPT ![p] = "idle"]

\* (mutant) As if a remote offer rolled the peer's own offer back.
SetRemoteRollsBack(p) ==
    /\ step[p] = "idle"
    /\ chain[p] # <<>>
    /\ sig' = [sig EXCEPT ![p] = "have-remote-offer"]
    /\ step' = [step EXCEPT ![p] = "answering"]
    /\ UNCHANGED <<burst, awaited, phase, listening, deaf, frames, chain, tracks, applied, failed,
                   sfuVars, lost>>

\* createAnswer's setRemoteDescription takes an offer in the stable state.
SetRemote(p) ==
    /\ step[p] = "idle"
    /\ chain[p] # <<>>
    /\ sig[p] = "stable"
    /\ sig' = [sig EXCEPT ![p] = "have-remote-offer"]
    /\ step' = [step EXCEPT ![p] = "answering"]
    /\ UNCHANGED <<burst, awaited, phase, listening, deaf, frames, chain, tracks, applied, failed,
                   sfuVars, lost>>

\* (mutant) As if the chain lacked its catch: no later link runs.
GlareBreaksChain(p) ==
    /\ step[p] = "idle"
    /\ chain[p] # <<>>
    /\ sig[p] # "stable"
    /\ failed' = failed \cup {p}
    /\ step' = [step EXCEPT ![p] = "broken"]
    /\ UNCHANGED <<burst, awaited, phase, sig, listening, deaf, frames, chain, tracks, applied, sfuVars, lost>>

\* It throws while the peer waits for the answer to its own offer.
Glare(p) ==
    /\ step[p] = "idle"
    /\ chain[p] # <<>>
    /\ sig[p] # "stable"
    /\ failed' = failed \cup {p}
    /\ Unchain(p)
    /\ UNCHANGED <<burst, phase, sig, listening, deaf, frames, tracks, applied, sfuVars, lost>>

\* (mutant) As if the answer were applied and never posted.
SetLocalUnposted(p) ==
    /\ step[p] = "answering"
    /\ sig' = [sig EXCEPT ![p] = "stable"]
    /\ tracks' = [tracks EXCEPT ![p] = Head(chain[p])]
    /\ Unchain(p)
    /\ UNCHANGED <<burst, phase, listening, deaf, frames, applied, failed, sfuVars, lost>>

\* createAnswer, setLocalDescription; then the answer is on its way.
SetLocal(p) ==
    /\ step[p] = "answering"
    /\ sig' = [sig EXCEPT ![p] = "stable"]
    /\ tracks' = [tracks EXCEPT ![p] = Head(chain[p])]
    /\ step' = [step EXCEPT ![p] = "posting"]
    /\ UNCHANGED <<burst, awaited, phase, listening, deaf, frames, chain, applied, failed, sfuVars, lost>>

\* The SFU takes an answer if an offer is pending: the call names no offer.
SfuTakes(p) ==
    /\ step[p] = "posting"
    /\ pend[p] # {}
    /\ known' = [known EXCEPT ![p] = Head(chain[p])]
    /\ pend' = [pend EXCEPT ![p] = {}]
    /\ taken' = [taken EXCEPT ![p] = @ + 1]
    /\ step' = [step EXCEPT ![p] = "posted"]
    /\ UNCHANGED <<burst, awaited, phase, sig, listening, deaf, frames, chain, tracks, applied, failed,
                   room, lost>>

\* (mutant) As if `applied` counted before the call had succeeded.
AppliedEarly(p) ==
    /\ step[p] \in {"posting", "posted"}
    /\ applied' = [applied EXCEPT ![p] = @ + 1]
    /\ Unchain(p)
    /\ UNCHANGED <<burst, phase, sig, listening, deaf, frames, tracks, failed, sfuVars, lost>>

Applied(p) ==
    /\ step[p] = "posted"
    /\ applied' = [applied EXCEPT ![p] = @ + 1]
    /\ Unchain(p)
    /\ UNCHANGED <<burst, phase, sig, listening, deaf, frames, tracks, failed, sfuVars, lost>>

\* (mutant) As if an answer that the SFU does not take were never rejected.
PostHangs(p) ==
    /\ step[p] \in {"posting", "posted"} /\ lost < MaxLost /\ lost' = lost + 1
    /\ failed' = failed \cup {p}
    /\ Unchain(p)
    /\ UNCHANGED <<burst, phase, sig, listening, deaf, frames, tracks, applied, sfuVars>>

\* The SFU has no pending offer, or the call or its answer is lost.
PostFails(p) ==
    /\ \/ step[p] = "posting" /\ pend[p] = {} /\ lost' = lost
       \/ step[p] \in {"posting", "posted"} /\ lost < MaxLost /\ lost' = lost + 1
    /\ failed' = failed \cup {p}
    /\ Unchain(p)
    /\ UNCHANGED <<burst, phase, sig, listening, deaf, frames, tracks, applied, sfuVars>>

(***************************************************************************)
(* Teardown.  t8 detaches every wire and only then lets peers leave; f5    *)
(* leaves, detaches and closes one peer at a time.                         *)
(***************************************************************************)
\* The f5 loop lets peers[0] go when nobody is joining; a finally block when
\* a join has failed or the loop is over.
MayLeave(p) == phase[p] = "in" /\ ~burst /\ In(Busy \cup {"leaving", "draining", "detached"}) = {}

CallLeave(p) ==
    /\ \/ MayLeave(p) /\ phase' = [phase EXCEPT ![p] = "leaving"]
       \/ /\ burst /\ phase[p] = "detached"
          /\ In({"in", "dropped", "draining", "leaving"}) = {}
          /\ phase' = [phase EXCEPT ![p] = "leaving"]
    /\ \/ /\ room' = room \ {p}
          /\ pend' = [pend EXCEPT ![p] = {}]
          /\ UNCHANGED lost
       \/ lost < MaxLost /\ lost' = lost + 1 /\ UNCHANGED <<room, pend>>
    /\ UNCHANGED <<burst, peerVars, known, taken>>

\* detach: off(), then wait for the promise that `pending` is now.
Detach(p) ==
    /\ \/ ~burst /\ phase[p] = "leaving"
       \/ burst /\ phase[p] \in {"in", "dropped"} /\ In(Busy \cup {"draining"}) = {}
    /\ phase' = [phase EXCEPT ![p] = "draining"]
    /\ listening' = listening \ {p}
    /\ awaited' = [awaited EXCEPT ![p] = Len(chain[p])]
    /\ UNCHANGED <<burst, sig, deaf, frames, chain, step, tracks, applied, failed, sfuVars, lost>>

\* (mutant) As if the wire were cut without waiting for the chain.
DetachUndrained(p) ==
    /\ phase[p] = "draining"
    /\ phase' = [phase EXCEPT ![p] = "detached"]
    /\ frames' = [frames EXCEPT ![p] = <<>>]
    /\ UNCHANGED <<burst, awaited, deaf, sig, listening, chain, step, tracks, applied, failed, sfuVars, lost>>

\* That promise is settled; events.disconnect drops what is still on its way.
Detached(p) ==
    /\ phase[p] = "draining"
    /\ awaited[p] = 0
    /\ phase' = [phase EXCEPT ![p] = "detached"]
    /\ frames' = [frames EXCEPT ![p] = <<>>]
    /\ UNCHANGED <<burst, awaited, deaf, sig, listening, chain, step, tracks, applied, failed, sfuVars, lost>>

Close(p) ==
    /\ phase[p] = IF burst THEN "leaving" ELSE "detached"
    /\ phase' = [phase EXCEPT ![p] = "closed"]
    /\ sig' = [sig EXCEPT ![p] = "closed"]
    /\ UNCHANGED <<burst, awaited, listening, deaf, frames, chain, step, tracks, applied, failed, sfuVars, lost>>

StopRoom ==
    /\ room # {}
    /\ In({"closed"}) # {}
    /\ In(Phases \ {"new", "dropped", "closed"}) = {}
    /\ In({"dropped"}) # {} \/ In({"new"}) = {}
    /\ burst => In({"dropped"}) = {}
    /\ room' = {}
    /\ pend' = [p \in Peers |-> {}]
    /\ UNCHANGED <<burst, phase, peerVars, known, taken, lost>>

Renegotiates(p) == SetRemote(p) \/ Glare(p) \/ SetLocal(p) \/ Applied(p) \/ PostFails(p)
Sfu(p) == SfuAdmits(p) \/ SfuOffers(p) \/ SfuExpires(p) \/ SfuTakes(p)
Joins(p) == Prepare(p) \/ JoinReturns(p) \/ JoinFails(p) \/ AcceptAnswer(p)
Leaves(p) == CallLeave(p) \/ Detach(p) \/ Detached(p) \/ Close(p)

Next == \/ CallJoin \/ StopRoom
        \/ \E p \in Peers : Joins(p) \/ Sfu(p) \/ Hear(p) \/ SocketCloses(p)
                          \/ Renegotiates(p) \/ Leaves(p)

Spec == Init /\ [][Next]_vars

(***************************************************************************)
(* Fairness: the event loop runs what is ready, calls return or time out,  *)
(* the SFU makes offers, gives up stale ones and answers what it is sent.  *)
(* Nobody has to start a teardown, but a detach goes on.                   *)
(***************************************************************************)
FairSpec ==
    /\ Spec
    /\ \A p \in Peers :
        /\ WF_vars(Hear(p)) /\ WF_vars(Renegotiates(p) \/ SfuTakes(p))
        /\ WF_vars(SfuOffers(p)) /\ WF_vars(SfuExpires(p)) /\ WF_vars(Detached(p))

-----------------------------------------------------------------------------
(***************************************************************************)
(* Properties.                                                             *)
(***************************************************************************)
\* The variables have their types.
TypeOK ==
    /\ burst \in Bursts
    /\ phase \in [Peers -> Phases]
    /\ sig \in [Peers -> {"stable", "have-local-offer", "have-remote-offer", "closed"}]
    /\ listening \subseteq Peers /\ deaf \subseteq Peers /\ room \subseteq Peers /\ failed \subseteq Peers
    /\ frames \in [Peers -> Seq(SUBSET Peers)] /\ chain \in [Peers -> Seq(SUBSET Peers)]
    /\ step \in [Peers -> {"idle", "answering", "posting", "posted"}]
    /\ tracks \in [Peers -> SUBSET Peers] /\ known \in [Peers -> SUBSET Peers]
    /\ pend \in [Peers -> SUBSET SUBSET Peers]
    /\ awaited \in [Peers -> Nat] /\ applied \in [Peers -> Nat] /\ taken \in [Peers -> Nat] /\ lost \in Nat

\* The answer to a peer's own offer always finds the offer in place, although
\* the SFU's offers reach the peer before that answer does: acceptAnswer does
\* not throw (peer.ts 474-480, t8 148-158).
JoinAnswerFits == \A p \in In(Busy) : sig[p] = "have-local-offer"

\* What count() reports was taken by the SFU; t8's verdict adds it up.
AppliedIsTaken == \A p \in Peers : applied[p] <= taken[p]

\* After detach nothing of the pipeline touches the peer: no description is
\* set on a connection that the teardown closes (renegotiation.ts 81-91).
QuietAfterDetach ==
    \A p \in Peers :
        phase[p] \in {"detached", "closed"} \/ sig[p] = "closed" =>
            chain[p] = <<>> /\ step[p] = "idle" /\ p \notin listening

\* Unless one of its renegotiations failed, a peer that is at rest has the
\* tracks the SFU believes it has.
InStepWithSfu ==
    \A p \in In({"in"}) \ failed :
        step[p] \in {"idle", "answering"} => tracks[p] = known[p]

\* What makes the invariants above inductive, peer by peer: a peer is not
\* renegotiating while its own offer is out, the SFU is ahead of count() while
\* an answer is on its way back, and a chain only shrinks once off() was called.
Pipeline(p) ==
    /\ step[p] # "idle" => chain[p] # <<>>
    /\ phase[p] \in Busy => sig[p] = "have-local-offer" /\ step[p] = "idle"
    /\ sig[p] = "closed" => phase[p] = "closed"
    /\ phase[p] = "new" => p \notin listening /\ chain[p] = <<>>
    /\ phase[p] = "draining" => p \notin listening /\ awaited[p] = Len(chain[p])
    /\ phase[p] \in {"detached", "closed"} \/ (burst /\ phase[p] = "leaving") =>
          p \notin listening /\ chain[p] = <<>>

InStep(p) ==
    /\ step[p] \in {"posting", "posted"} => tracks[p] = Head(chain[p])
    /\ step[p] = "posted" => known[p] = tracks[p]
    /\ phase[p] = "in" /\ p \notin failed /\ step[p] \in {"idle", "answering"} =>
          tracks[p] = known[p]

Counted(p) == applied[p] + (IF step[p] = "posted" THEN 1 ELSE 0) <= taken[p]

RenegotiationInv ==
    TypeOK /\ \A p \in Peers : Pipeline(p) /\ InStep(p) /\ Counted(p)

\* detach always returns: every link it waits for ends, also one whose answer
\* the SFU does not take, whose call is lost, or that meets the peer's own offer.
DetachEnds == \A p \in Peers : phase[p] = "draining" ~> phase[p] # "draining"

\* Once everybody is in, each peer whose events socket is up ends up with
\* everybody's tracks, also one that was offered them while it could not apply an offer (t8 17-21).
EveryoneLearns ==
    In({"in"}) = Peers ~> (Ending \/ \A p \in Peers \ deaf : tracks[p] = Others(p))
=============================================================================
