-------------------------- MODULE RpcClientProofs ---------------------------
(***************************************************************************)
(* Safety of the RPC client for any number of calls and connections.       *)
(***************************************************************************)
EXTENDS RpcClient, TLAPS

(* No call has been made.                                                  *)
LEMMA InitInv == Init => ClientInv
BY DEF Init, ClientInv, TypeOK, AnswersMatch, PendingIsWaiting, IdsNameCalls, Entry, Message

(* The entries of the map, one by one.                                     *)
LEMMA EntryFacts ==
    ASSUME ClientInv
    PROVE  /\ \A p \in pending : /\ p.call \in Calls /\ state[p.call] = "waiting"
                                 /\ p = [id |-> idOf[p.call], call |-> p.call]
           /\ \A c \in Calls : state[c] = "waiting" => [id |-> idOf[c], call |-> c] \in pending
BY DEF ClientInv, PendingIsWaiting

(* And back: entries that are the waiting calls make PendingIsWaiting.     *)
LEMMA PendingFromEntries ==
    ASSUME \A p \in pending' : /\ p.call \in Calls /\ state'[p.call] = "waiting"
                               /\ p = [id |-> idOf'[p.call], call |-> p.call],
           \A c \in Calls : state'[c] = "waiting" => [id |-> idOf'[c], call |-> c] \in pending'
    PROVE  PendingIsWaiting'
BY DEF PendingIsWaiting

(* An id other than 0 finds the entry of its own call, if that one waits.  *)
LEMMA EntryOfId ==
    ASSUME ClientInv, NEW c \in Calls, idOf[c] # 0
    PROVE  EntriesFor(idOf[c]) =
              IF state[c] = "waiting" THEN {[id |-> idOf[c], call |-> c]} ELSE {}
<1>1. \A p \in EntriesFor(idOf[c]) :
         state[c] = "waiting" /\ p = [id |-> idOf[c], call |-> c]
  BY EntryFacts DEF EntriesFor, ClientInv, IdsNameCalls
<1>2. CASE state[c] = "waiting"
  <2>1. [id |-> idOf[c], call |-> c] \in EntriesFor(idOf[c])
    BY <1>2, EntryFacts DEF EntriesFor
  <2> QED BY <1>1, <1>2, <2>1
<1>3. CASE state[c] # "waiting"
  BY <1>1, <1>3
<1> QED BY <1>2, <1>3

(* Only sockets change: Connect, Open, Disconnect, RemoteClose.            *)
LEMMA SocketInv ==
    ASSUME ClientInv, UNCHANGED <<clientVars, wire>>, TypeOK'
    PROVE  ClientInv'
BY DEF ClientInv, AnswersMatch, PendingIsWaiting, IdsNameCalls, clientVars, wire

(* The close of a socket empties the map and rejects what was in it.       *)
LEMMA ClosedInv ==
    ASSUME ClientInv, NEW s \in Sockets, Closed(s)
    PROVE  ClientInv'
<1>1. {p.call : p \in pending} = {c \in Calls : state[c] = "waiting"}
  <2>1. ASSUME NEW c \in Calls, state[c] = "waiting"
        PROVE  c \in {p.call : p \in pending}
    <3>1. [id |-> idOf[c], call |-> c] \in pending
      BY <2>1, EntryFacts
    <3>2. [id |-> idOf[c], call |-> c].call = c
      OBVIOUS
    <3> QED BY <3>1, <3>2
  <2> QED BY <2>1, EntryFacts
<1>2. \A c \in Calls : state'[c] = IF state[c] = "waiting" THEN "rejected" ELSE state[c]
  BY <1>1 DEF Closed, Reject
<1>3. TypeOK'
  <2>1. state' \in [Calls -> {"idle", "waiting", "resolved", "rejected"}]
    BY DEF Closed, Reject, ClientInv, TypeOK
  <2> QED BY <2>1 DEF Closed, ClientInv, TypeOK
<1>4. AnswersMatch' /\ PendingIsWaiting'
  BY <1>2 DEF Closed, ClientInv, AnswersMatch, PendingIsWaiting
<1>5. IdsNameCalls'
  BY <1>2 DEF Closed, ClientInv, IdsNameCalls
<1> QED BY <1>3, <1>4, <1>5 DEF ClientInv

(* A call draws an id nothing else bears.                                  *)
LEMMA CallInv ==
    ASSUME ClientInv, NEW c \in Calls, Call(c)
    PROVE  ClientInv'
<1>1. /\ state[c] = "idle" /\ idOf[c] = 0 /\ c \notin timers
      /\ requestId \in Nat /\ requestId' = requestId + 1
      /\ ws \in Sockets
      /\ \A d \in Calls : /\ idOf'[d] = IF d = c THEN requestId + 1 ELSE idOf[d]
                          /\ state'[d] = IF d = c THEN "waiting" ELSE state[d]
                          /\ d \in timers' <=> d \in timers \/ d = c
                          /\ idOf[d] \in Nat /\ idOf[d] <= requestId
  BY DEF Call, Connected, ClientInv, TypeOK, IdsNameCalls
<1>2. /\ requests' = requests \cup {[sock |-> ws, id |-> requestId + 1, call |-> c]}
      /\ answers' = answers /\ answer' = answer
  BY <1>1 DEF Call
<1>3. EntriesFor(requestId') = {}
  <2>1. \A p \in pending : p.id <= requestId
    BY <1>1, EntryFacts
  <2>2. \A p \in pending : p.id \in Nat
    BY DEF ClientInv, TypeOK, Entry
  <2> QED BY <1>1, <2>1, <2>2 DEF EntriesFor
<1>4. pending' = pending \cup {[id |-> requestId + 1, call |-> c]}
  BY <1>1, <1>3 DEF Call
<1>5. TypeOK'
  BY <1>1, <1>2, <1>4 DEF Call, ClientInv, TypeOK, Entry, Message
<1>6. AnswersMatch'
  BY <1>1, <1>2 DEF ClientInv, AnswersMatch
<1>7. PendingIsWaiting'
  BY <1>1, <1>4, EntryFacts, PendingFromEntries
<1>8. \A m \in requests \cup answers : m.call \in Calls /\ m.call # c
  BY <1>1 DEF ClientInv, TypeOK, Message, IdsNameCalls
<1>9. IdsNameCalls'
  <2>1. \A d \in Calls : /\ state'[d] = "waiting" => d \in timers'
                         /\ idOf'[d] <= requestId'
                         /\ state'[d] = "idle" => idOf'[d] = 0 /\ d \notin timers'
    BY <1>1 DEF ClientInv, IdsNameCalls
  <2>2. \A d \in timers' : idOf'[d] # 0
    BY <1>1 DEF Call, ClientInv, TypeOK, IdsNameCalls
  <2>3. \A d, e \in Calls : idOf'[d] = idOf'[e] /\ idOf'[d] # 0 => d = e
    <3>1. \A d \in Calls : idOf[d] # requestId + 1
      BY <1>1
    <3> QED BY <1>1, <3>1 DEF ClientInv, IdsNameCalls
  <2>4. \A m \in requests \cup answers : m.id = idOf'[m.call] /\ m.id # 0
    BY <1>1, <1>8 DEF ClientInv, IdsNameCalls
  <2>5. \A m \in requests' \cup answers' : m.id = idOf'[m.call] /\ m.id # 0
    <3>1. requestId + 1 # 0
      BY <1>1
    <3> QED BY <1>1, <1>2, <2>4, <3>1
  <2> QED BY <2>1, <2>2, <2>3, <2>5 DEF IdsNameCalls
<1> QED BY <1>5, <1>6, <1>7, <1>9 DEF ClientInv

(* An answer settles the call its id names, if that call still waits.      *)
LEMMA DeliverInv ==
    ASSUME ClientInv, NEW m \in answers, Deliver(m)
    PROVE  ClientInv'
<1> DEFINE c == m.call
<1>1. c \in Calls /\ m.id = idOf[c] /\ idOf[c] # 0 /\ m \in Message
  BY DEF ClientInv, TypeOK, Message, IdsNameCalls
<1>2. EntriesFor(m.id) = IF state[c] = "waiting" THEN {[id |-> idOf[c], call |-> c]} ELSE {}
  BY <1>1, EntryOfId
<1>3. {p.call : p \in EntriesFor(m.id)} = IF state[c] = "waiting" THEN {c} ELSE {}
  <2>1. {p.call : p \in {[id |-> idOf[c], call |-> c]}} = {c}
    OBVIOUS
  <2> QED BY <1>2, <2>1
<1>4. \A d \in Calls :
         /\ d # c \/ state[c] # "waiting" => state'[d] = state[d] /\ answer'[d] = answer[d]
         /\ d = c /\ state[c] = "waiting" =>
               \/ state'[d] = "resolved" /\ answer'[d] = c
               \/ state'[d] = "rejected" /\ answer'[d] = answer[d]
  BY <1>3 DEF Deliver, Reject
<1>5. pending' = pending \ {[id |-> idOf[c], call |-> c]}
  <2>1. CASE state[c] = "waiting"
    BY <1>2, <2>1 DEF Deliver
  <2>2. CASE state[c] # "waiting"
    <3>1. [id |-> idOf[c], call |-> c] \notin pending
      BY <2>2 DEF ClientInv, PendingIsWaiting
    <3> QED BY <1>2, <2>2, <3>1 DEF Deliver
  <2> QED BY <2>1, <2>2
<1>6. TypeOK'
  <2>1. state' \in [Calls -> {"idle", "waiting", "resolved", "rejected"}]
    BY DEF Deliver, Reject, ClientInv, TypeOK
  <2>2. answer' \in [Calls -> Calls \cup {NoCall}]
    BY <1>1 DEF Deliver, ClientInv, TypeOK
  <2> QED BY <2>1, <2>2 DEF Deliver, ClientInv, TypeOK
<1>7. AnswersMatch'
  BY <1>4 DEF ClientInv, AnswersMatch
<1>8. PendingIsWaiting'
  <2>1. idOf' = idOf
    BY DEF Deliver
  <2> QED BY <1>1, <1>4, <1>5, <2>1, EntryFacts, PendingFromEntries
<1>9. IdsNameCalls'
  BY <1>4 DEF Deliver, ClientInv, IdsNameCalls
<1> QED BY <1>6, <1>7, <1>8, <1>9 DEF ClientInv

(* The timer of a call that settled does nothing.                          *)
LEMMA TimeoutInv ==
    ASSUME ClientInv, NEW c \in Calls, Timeout(c)
    PROVE  ClientInv'
<1>1. c \in timers /\ idOf[c] # 0
  BY DEF Timeout, ClientInv, IdsNameCalls
<1>2. EntriesFor(idOf[c]) = IF state[c] = "waiting" THEN {[id |-> idOf[c], call |-> c]} ELSE {}
  BY <1>1, EntryOfId
<1>3. \A d \in Calls :
         state'[d] = IF d = c /\ state[c] = "waiting" THEN "rejected" ELSE state[d]
  BY <1>2 DEF Timeout, Reject
<1>4. pending' = pending \ {[id |-> idOf[c], call |-> c]}
  <2>1. CASE state[c] = "waiting"
    BY <1>2, <2>1 DEF Timeout
  <2>2. CASE state[c] # "waiting"
    <3>1. [id |-> idOf[c], call |-> c] \notin pending
      BY <2>2 DEF ClientInv, PendingIsWaiting
    <3> QED BY <1>2, <2>2, <3>1 DEF Timeout
  <2> QED BY <2>1, <2>2
<1>5. TypeOK'
  <2>1. state' \in [Calls -> {"idle", "waiting", "resolved", "rejected"}]
    BY DEF Timeout, Reject, ClientInv, TypeOK
  <2>2. pending' \subseteq Entry /\ timers' \subseteq Calls
    BY <1>4 DEF Timeout, ClientInv, TypeOK
  <2>3. UNCHANGED <<ws, sock, requestId, idOf, answer, requests, answers>>
    BY DEF Timeout, wire
  <2> QED BY <2>1, <2>2, <2>3 DEF ClientInv, TypeOK
<1>6. AnswersMatch' /\ PendingIsWaiting'
  <2>1. idOf' = idOf /\ answer' = answer
    BY DEF Timeout
  <2>2. AnswersMatch'
    BY <1>3, <2>1 DEF ClientInv, AnswersMatch
  <2> QED BY <1>3, <1>4, <2>1, <2>2, EntryFacts, PendingFromEntries
<1>7. IdsNameCalls'
  <2>1. UNCHANGED <<requestId, idOf, requests, answers>> /\ timers' = timers \ {c}
    BY DEF Timeout, wire
  <2> QED BY <1>3, <2>1 DEF ClientInv, IdsNameCalls
<1> QED BY <1>5, <1>6, <1>7 DEF ClientInv

(* Every step of the client and of the wire keeps the invariant.           *)
LEMMA NextInv == ClientInv /\ [Next]_vars => ClientInv'
<1> SUFFICES ASSUME ClientInv, [Next]_vars PROVE ClientInv'
  OBVIOUS
<1>1. ASSUME NEW s \in Sockets, Connect(s) \/ Open(s) \/ RemoteClose(s) \/ Disconnect
      PROVE  ClientInv'
  <2>1. UNCHANGED <<clientVars, wire>>
    BY <1>1 DEF Connect, Open, RemoteClose, Disconnect
  <2>2. TypeOK'
    BY <1>1, <2>1
    DEF Connect, Open, RemoteClose, Disconnect, ClientInv, TypeOK, clientVars, wire
  <2> QED BY <2>1, <2>2, SocketInv
<1>2. ASSUME Disconnect
      PROVE  ClientInv'
  <2>1. ws \in Sockets
    BY <1>2 DEF Disconnect, ClientInv, TypeOK
  <2> QED BY <1>1, <1>2, <2>1
<1>3. ASSUME NEW c \in Calls, CallRefused(c)
      PROVE  ClientInv'
  BY <1>3 DEF CallRefused, wire, ClientInv, TypeOK, AnswersMatch, PendingIsWaiting, IdsNameCalls
<1>4. ASSUME NEW m \in requests, Serve(m)
      PROVE  ClientInv'
  BY <1>4 DEF Serve, clientVars, ClientInv, TypeOK, AnswersMatch, PendingIsWaiting, IdsNameCalls
<1>5. CASE UNCHANGED vars
  <2>1. TypeOK' /\ UNCHANGED <<clientVars, wire>>
    BY <1>5 DEF vars, clientVars, wire, ClientInv, TypeOK
  <2> QED BY <2>1, SocketInv
<1> QED
  BY <1>1, <1>2, <1>3, <1>4, <1>5, ClosedInv, CallInv, DeliverInv, TimeoutInv DEF Next

(* Ids name calls for ever, and the map is the set of waiting calls.       *)
THEOREM ClientInductive == Spec => []ClientInv
BY InitInv, NextInv, PTL DEF Spec

(* No call is ever resolved with the answer to another one, over any       *)
(* number of reconnections and late answers.                               *)
THEOREM ClientAnswersMatch == Spec => []AnswersMatch
<1>1. ClientInv => AnswersMatch
  BY DEF ClientInv
<1> QED BY <1>1, ClientInductive, PTL

(* The map of pending requests neither forgets nor retains a call.         *)
THEOREM ClientPendingIsWaiting == Spec => []PendingIsWaiting
<1>1. ClientInv => PendingIsWaiting
  BY DEF ClientInv
<1> QED BY <1>1, ClientInductive, PTL
=============================================================================
