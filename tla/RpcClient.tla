----------------------------- MODULE RpcClient ------------------------------
(***************************************************************************)
(* The WebSocket RPC of src/client.ts (InstrumentedClient): calls numbered *)
(* by a counter that outlives reconnections, a map of pending calls that   *)
(* answers, a 120 s timer per call and the close event of any socket       *)
(* settle, and the executor, which answers requests in any order, late or  *)
(* never.  A socket that is closing still delivers messages until its      *)
(* close event.                                                            *)
(***************************************************************************)
EXTENDS Naturals

CONSTANTS
    Calls,      \* calls made through wsCall, each once
    Sockets,    \* WebSocket objects, each used for one connect()
    NoCall, NoSocket

ASSUME ClientAssumption ==
    /\ NoCall \notin Calls
    /\ NoSocket \notin Sockets

VARIABLES
    ws,         \* this.ws
    sock,       \* sock[s]: readyState of socket s
    requestId,  \* this.requestId
    pending,    \* this.pendingRequests: at most one entry per id
    idOf,       \* idOf[c]: the id captured by c's timer and promise
    state,      \* state[c]: c's promise
    answer,     \* answer[c]: the call whose answer resolved c
    timers,     \* the calls whose 120 s timer is armed
    requests,   \* requests the executor has not served
    answers     \* answers on their way to the client

clientVars == <<requestId, pending, idOf, state, answer, timers>>
wire == <<requests, answers>>
vars == <<ws, sock, clientVars, wire>>

Message == [sock : Sockets, id : Nat, call : Calls]
Entry == [id : Nat, call : Calls]

Init ==
    /\ ws = NoSocket
    /\ sock = [s \in Sockets |-> "unused"]
    /\ requestId = 0
    /\ pending = {}
    /\ idOf = [c \in Calls |-> 0]
    /\ state = [c \in Calls |-> "idle"]
    /\ answer = [c \in Calls |-> NoCall]
    /\ timers = {}
    /\ requests = {}
    /\ answers = {}

Connected == ws # NoSocket /\ sock[ws] = "open"
EntriesFor(id) == {p \in pending : p.id = id}

(* A promise settles once: later calls of resolve and reject do nothing.   *)
Reject(cs) ==
    state' = [c \in Calls |-> IF c \in cs /\ state[c] = "waiting" THEN "rejected" ELSE state[c]]

(* Mutant: each connection counts its requests from one.                   *)
ConnectResetsIds(s) ==
    /\ sock[s] = "unused"
    /\ ws' = s
    /\ sock' = [sock EXCEPT ![s] = "connecting"]
    /\ requestId' = 0
    /\ UNCHANGED <<pending, idOf, state, answer, timers, wire>>

(* connect(): a new socket takes the place of the last one, open or not.   *)
Connect(s) ==
    /\ sock[s] = "unused"
    /\ ws' = s
    /\ sock' = [sock EXCEPT ![s] = "connecting"]
    /\ UNCHANGED <<clientVars, wire>>

Open(s) ==
    /\ sock[s] = "connecting"
    /\ sock' = [sock EXCEPT ![s] = "open"]
    /\ UNCHANGED <<ws, clientVars, wire>>

(* disconnect(): the close handshake starts, its event comes later.        *)
Disconnect ==
    /\ ws # NoSocket
    /\ sock' = [sock EXCEPT ![ws] = IF @ = "closed" THEN @ ELSE "closing"]
    /\ ws' = NoSocket
    /\ UNCHANGED <<clientVars, wire>>

(* The executor, or the network, starts closing the connection.            *)
RemoteClose(s) ==
    /\ sock[s] = "open"
    /\ sock' = [sock EXCEPT ![s] = "closing"]
    /\ UNCHANGED <<ws, clientVars, wire>>

(* Mutant: the map is cleared before its calls are rejected.               *)
ClosedForgetsCalls(s) ==
    /\ sock[s] \in {"connecting", "open", "closing"}
    /\ sock' = [sock EXCEPT ![s] = "closed"]
    /\ pending' = {}
    /\ requests' = {m \in requests : m.sock # s}
    /\ answers' = {m \in answers : m.sock # s}
    /\ UNCHANGED <<ws, requestId, idOf, state, answer, timers>>

(* The close event: every pending call is rejected, whichever socket it    *)
(* was sent on; what was in flight on s is lost.                           *)
Closed(s) ==
    /\ sock[s] \in {"connecting", "open", "closing"}
    /\ sock' = [sock EXCEPT ![s] = "closed"]
    /\ Reject({p.call : p \in pending})
    /\ pending' = {}
    /\ requests' = {m \in requests : m.sock # s}
    /\ answers' = {m \in answers : m.sock # s}
    /\ UNCHANGED <<ws, requestId, idOf, answer, timers>>

(* wsCall without an open socket throws at once.                           *)
CallRefused(c) ==
    /\ state[c] = "idle"
    /\ ~Connected
    /\ state' = [state EXCEPT ![c] = "rejected"]
    /\ UNCHANGED <<ws, sock, requestId, pending, idOf, answer, timers, wire>>

Call(c) ==
    /\ state[c] = "idle"
    /\ Connected
    /\ requestId' = requestId + 1
    /\ idOf' = [idOf EXCEPT ![c] = requestId']
    /\ pending' = (pending \ EntriesFor(requestId')) \cup {[id |-> requestId', call |-> c]}
    /\ state' = [state EXCEPT ![c] = "waiting"]
    /\ timers' = timers \cup {c}
    /\ requests' = requests \cup {[sock |-> ws, id |-> requestId', call |-> c]}
    /\ UNCHANGED <<ws, sock, answer, answers>>

(* The executor answers a request, any one, once.                          *)
Serve(m) ==
    /\ m \in requests
    /\ requests' = requests \ {m}
    /\ answers' = answers \cup {m}
    /\ UNCHANGED <<ws, sock, clientVars>>

(* The message handler: an answer settles the call pending under its id,   *)
(* with its result or its error; an answer to no pending call is dropped.  *)
Deliver(m) ==
    /\ m \in answers
    /\ sock[m.sock] \in {"open", "closing"}
    /\ answers' = answers \ {m}
    /\ pending' = pending \ EntriesFor(m.id)
    /\ LET hit == {p.call : p \in EntriesFor(m.id)}
       IN  \/ /\ state' = [c \in Calls |->
                             IF c \in hit /\ state[c] = "waiting" THEN "resolved" ELSE state[c]]
              /\ answer' = [c \in Calls |->
                             IF c \in hit /\ state[c] = "waiting" THEN m.call ELSE answer[c]]
           \/ Reject(hit) /\ UNCHANGED answer
    /\ UNCHANGED <<ws, sock, requestId, idOf, timers, requests>>

(* Mutant: the timer rejects its call but leaves the entry in the map.     *)
TimeoutLeaksEntry(c) ==
    /\ c \in timers
    /\ timers' = timers \ {c}
    /\ IF EntriesFor(idOf[c]) # {} THEN Reject({c}) ELSE UNCHANGED state
    /\ UNCHANGED <<ws, sock, requestId, idOf, pending, answer, wire>>

(* The timer of c fires: it looks its own id up in the map.                *)
Timeout(c) ==
    /\ c \in timers
    /\ timers' = timers \ {c}
    /\ pending' = pending \ EntriesFor(idOf[c])
    /\ IF EntriesFor(idOf[c]) # {} THEN Reject({c}) ELSE UNCHANGED state
    /\ UNCHANGED <<ws, sock, requestId, idOf, answer, wire>>

Next ==
    \/ \E s \in Sockets : Connect(s) \/ Open(s) \/ RemoteClose(s) \/ Closed(s)
    \/ Disconnect
    \/ \E c \in Calls : CallRefused(c) \/ Call(c) \/ Timeout(c)
    \/ \E m \in requests : Serve(m)
    \/ \E m \in answers : Deliver(m)

Spec == Init /\ [][Next]_vars

(* Timers fire.  Nothing is assumed of the executor or the network.        *)
FairSpec == Spec /\ \A c \in Calls : WF_vars(Timeout(c))
-----------------------------------------------------------------------------
TypeOK ==
    /\ ws \in Sockets \cup {NoSocket}
    /\ sock \in [Sockets -> {"unused", "connecting", "open", "closing", "closed"}]
    /\ requestId \in Nat
    /\ pending \subseteq Entry
    /\ idOf \in [Calls -> Nat]
    /\ state \in [Calls -> {"idle", "waiting", "resolved", "rejected"}]
    /\ answer \in [Calls -> Calls \cup {NoCall}]
    /\ timers \subseteq Calls
    /\ requests \subseteq Message
    /\ answers \subseteq Message

(* A call that resolves does so with the answer to its own request: an     *)
(* answer that comes after its call timed out, or on a socket the client   *)
(* has left, never settles another call.                                   *)
AnswersMatch ==
    \A c \in Calls : state[c] = "resolved" => answer[c] = c

(* The map holds exactly the calls that still wait, each under its own id, *)
(* so that no call is forgotten and no settled call stays behind.          *)
PendingIsWaiting ==
    pending = {[id |-> idOf[c], call |-> c] : c \in {d \in Calls : state[d] = "waiting"}}

(* The strengthening: ids name calls, in the map and on the wire.          *)
IdsNameCalls ==
    /\ \A c \in Calls : state[c] = "waiting" => c \in timers
    /\ \A c \in Calls : idOf[c] <= requestId
    /\ \A c \in Calls : state[c] = "idle" => idOf[c] = 0 /\ c \notin timers
    /\ \A c, d \in Calls : idOf[c] = idOf[d] /\ idOf[c] # 0 => c = d
    /\ \A c \in timers : idOf[c] # 0
    /\ \A m \in requests \cup answers : m.id = idOf[m.call] /\ m.id # 0

ClientInv == TypeOK /\ AnswersMatch /\ PendingIsWaiting /\ IdsNameCalls

(* Every call settles, even if the executor never answers and the socket   *)
(* never closes.                                                           *)
EveryCallSettles ==
    \A c \in Calls : state[c] = "waiting" ~> state[c] \in {"resolved", "rejected"}
=============================================================================
