---------------------------- MODULE RemoteBridge ----------------------------
(***************************************************************************)
(* Remote access to a home server that no client can reach directly.  The  *)
(* home server's agent (internal/internet_bridge/agent.go) keeps a         *)
(* WebSocket to the public server (cmd/remote_server/main.go), which sends *)
(* each client's request down the socket of the agent it names and hands   *)
(* the response that comes back up to the client's goroutine, through an   *)
(* unbuffered channel it finds in the map pending.m.                       *)
(*                                                                         *)
(* Goroutines of the public server: one reader for each socket, and one    *)
(* for each client's request.  An agent is one loop that serves one        *)
(* request at a time.  Sockets break, agents die and dial again, and the   *)
(* two ends of a socket need not notice at the same time: what was under   *)
(* way when it broke may still arrive or be lost.                          *)
(***************************************************************************)
EXTENDS Naturals, Sequences

CONSTANTS
    Servers,      \* X-Server-IDs of the home servers
    Clients,      \* goroutines serving client requests
    Results,      \* what doLocalRequest may return: responses, "local request failed"
    MaxRequests,  \* bound: requests in a behaviour
    MaxDials      \* bound: sockets in a behaviour

Requests == 1 .. MaxRequests  \* the reqIds, which are taken to be distinct
Sockets == 1 .. MaxDials
NoSocket == 0
NoRequest == 0

ASSUME BoundsAssumption == MaxRequests \in Nat /\ MaxDials \in Nat
ASSUME SetsAssumption ==
    /\ Servers # {} /\ Results # {}
    /\ {"none", "timeout", "offline"} \cap Results = {}

VARIABLES
    agents,    \* the map agents: server ID -> the socket its agent registered on
    pending,   \* the keys of pending.m
    mux,       \* the socket whose reader holds pending.mux, or NoSocket
    dialed,    \* sockets there have been: 1 .. dialed
    owner,     \* the server whose agent dialed each socket
    up,        \* the sockets that still carry messages
    toPublic,  \* messages on each socket on their way to the public server
    toAgent,   \* requests on each socket on their way to the agent
    reader,    \* what each socket's reader is doing
    got,       \* the message each reader has read last
    known,     \* sockets whose reader has set agentID
    link,      \* each agent's socket, or NoSocket while it waits to dial
    serving,   \* the request each agent is carrying out
    pc,        \* what each client's goroutine does next
    req,       \* the request of each client's goroutine
    via,       \* the socket of the agent it found
    target, handled, answer  \* history: what became of each request

publicVars == <<agents, pending, mux, reader, got, known>>
agentVars  == <<link, serving>>
socketVars == <<dialed, owner, up, toPublic, toAgent>>
clientVars == <<pc, req, via>>
history    == <<target, handled, answer>>
vars == <<publicVars, agentVars, socketVars, clientVars, history>>

-----------------------------------------------------------------------------
Register == [type |-> "register", req |-> NoRequest, result |-> "none"]
Response(r, x) == [type |-> "response", req |-> r, result |-> x]
NoMessage == Register  \* the value before anything is read

Promise == INSTANCE RequestReply WITH
    Servers <- Servers, Requests <- Requests, Results <- Results,
    target <- target, handled <- handled, answer <- answer

(* Sends that fail are not noticed: the error of the write is dropped. *)
Put(queue, c, m) == IF c \in up THEN [queue EXCEPT ![c] = Append(@, m)] ELSE queue

-----------------------------------------------------------------------------
(* The agent.                                                              *)

Dial(s) ==
    /\ link[s] = NoSocket /\ dialed < MaxDials
    /\ dialed' = dialed + 1
    /\ owner' = [owner EXCEPT ![dialed'] = s]
    /\ up' = up \cup {dialed'}
    /\ toPublic' = [toPublic EXCEPT ![dialed'] = <<Register>>]
    /\ reader' = [reader EXCEPT ![dialed'] = "reading"]
    /\ link' = [link EXCEPT ![s] = dialed']
    /\ UNCHANGED <<agents, pending, mux, got, known, serving, toAgent, clientVars, history>>

ReadRequest(s) ==
    /\ link[s] # NoSocket /\ serving[s] = NoRequest
    /\ toAgent[link[s]] # <<>>
    /\ serving' = [serving EXCEPT ![s] = Head(toAgent[link[s]])]
    /\ toAgent' = [toAgent EXCEPT ![link[s]] = Tail(@)]
    /\ UNCHANGED <<publicVars, link, dialed, owner, up, toPublic, clientVars, history>>

(* doLocalRequest and the response.                                        *)
Serve(s) ==
    /\ serving[s] # NoRequest
    /\ \E x \in Results :
          /\ handled' = [handled EXCEPT ![serving[s]] = Append(@, [server |-> s, result |-> x])]
          /\ toPublic' = Put(toPublic, link[s], Response(serving[s], x))
    /\ serving' = [serving EXCEPT ![s] = NoRequest]
    /\ UNCHANGED <<publicVars, link, dialed, owner, up, toAgent, clientVars, target, answer>>

(* ReadMessage fails; the agent waits RetryDelay and dials again.          *)
LoseLink(s) ==
    /\ link[s] # NoSocket /\ link[s] \notin up /\ serving[s] = NoRequest
    /\ link' = [link EXCEPT ![s] = NoSocket]
    /\ UNCHANGED <<publicVars, serving, socketVars, clientVars, history>>

(* The home server's process dies and is started again.                    *)
Die(s) ==
    /\ link[s] # NoSocket
    /\ up' = up \ {link[s]}
    /\ link' = [link EXCEPT ![s] = NoSocket]
    /\ serving' = [serving EXCEPT ![s] = NoRequest]
    /\ UNCHANGED <<publicVars, dialed, owner, toPublic, toAgent, clientVars, history>>

Break(c) ==
    /\ c \in up
    /\ up' = up \ {c}
    /\ UNCHANGED <<publicVars, agentVars, dialed, owner, toPublic, toAgent, clientVars, history>>

-----------------------------------------------------------------------------
(* The reader of a socket, handleAgentWSGin.                               *)

ReadMessage(c, m) ==
    /\ reader[c] = "reading" /\ toPublic[c] # <<>>
    /\ m = Head(toPublic[c])
    /\ toPublic' = [toPublic EXCEPT ![c] = Tail(@)]
    /\ got' = [got EXCEPT ![c] = m]
    /\ UNCHANGED <<agentVars, dialed, owner, up, toAgent, clientVars, history>>

ReadRegister(c) ==
    /\ ReadMessage(c, Register)
    /\ known' = known \cup {c}
    /\ agents' = [agents EXCEPT ![owner[c]] = c]
    /\ UNCHANGED <<pending, mux, reader>>

ReadResponse(c) ==
    /\ \E r \in Requests, x \in Results : ReadMessage(c, Response(r, x))
    /\ reader' = [reader EXCEPT ![c] = "locking"]
    /\ UNCHANGED <<agents, pending, mux, known>>

(* pending.mux is had.  If nobody is in pending.m for the response it is   *)
(* dropped; else the reader waits for the client with the mutex locked.    *)
Lock(c) ==
    /\ reader[c] = "locking" /\ mux = NoSocket
    /\ \/ /\ got[c].req \in pending
          /\ mux' = c
          /\ reader' = [reader EXCEPT ![c] = "sending"]
       \/ /\ got[c].req \notin pending
          /\ reader' = [reader EXCEPT ![c] = "reading"]
          /\ UNCHANGED mux
    /\ UNCHANGED <<agents, pending, got, known, agentVars, socketVars, clientVars, history>>

Answer(k, a) ==
    /\ answer' = [answer EXCEPT ![req[k]] = a]
    /\ pc' = [pc EXCEPT ![k] = "idle"]
    /\ req' = [req EXCEPT ![k] = NoRequest]
    /\ via' = [via EXCEPT ![k] = NoSocket]
    /\ UNCHANGED <<target, handled>>

(* Mutant: the channel stays in the map.                                   *)
HandOverKeeps(c, k) ==
    /\ reader[c] = "sending" /\ pc[k] = "wait" /\ req[k] = got[c].req
    /\ Answer(k, got[c].result)
    /\ mux' = NoSocket
    /\ reader' = [reader EXCEPT ![c] = "reading"]
    /\ UNCHANGED <<agents, pending, got, known, agentVars, socketVars>>

(* Mutant: the mutex stays locked.                                         *)
HandOverLocked(c, k) ==
    /\ reader[c] = "sending" /\ pc[k] = "wait" /\ req[k] = got[c].req
    /\ Answer(k, got[c].result)
    /\ pending' = pending \ {got[c].req}
    /\ reader' = [reader EXCEPT ![c] = "reading"]
    /\ UNCHANGED <<agents, mux, got, known, agentVars, socketVars>>

(* The client takes the response; delete and Unlock follow.                *)
HandOver(c, k) ==
    /\ reader[c] = "sending" /\ pc[k] = "wait" /\ req[k] = got[c].req
    /\ Answer(k, got[c].result)
    /\ pending' = pending \ {got[c].req}
    /\ mux' = NoSocket
    /\ reader' = [reader EXCEPT ![c] = "reading"]
    /\ UNCHANGED <<agents, got, known, agentVars, socketVars>>

(* Mutant: agents keeps the entry.                                         *)
ReadFailsKeeps(c) ==
    /\ reader[c] = "reading" /\ c \notin up
    /\ reader' = [reader EXCEPT ![c] = "done"]
    /\ UNCHANGED <<agents, pending, mux, got, known, agentVars, socketVars, clientVars, history>>

(* The socket is found broken: the reader takes its agent off the map,     *)
(* without a look at whether the entry is its own.                         *)
ReadFails(c) ==
    /\ reader[c] = "reading" /\ c \notin up
    /\ reader' = [reader EXCEPT ![c] = "done"]
    /\ agents' = IF c \in known THEN [agents EXCEPT ![owner[c]] = NoSocket] ELSE agents
    /\ UNCHANGED <<pending, mux, got, known, agentVars, socketVars, clientVars, history>>

-----------------------------------------------------------------------------
(* The goroutine of a client's request, handleClientRequest.               *)

(* Mutant: ok is not looked at.                                            *)
FindAgentAnyway(k, r, s) ==
    /\ pc[k] = "idle" /\ r \notin DOMAIN target
    /\ target' = [q \in DOMAIN target \cup {r} |-> IF q = r THEN s ELSE target[q]]
    /\ pc' = [pc EXCEPT ![k] = "write"]
    /\ req' = [req EXCEPT ![k] = r]
    /\ via' = [via EXCEPT ![k] = agents[s]]
    /\ UNCHANGED <<publicVars, agentVars, socketVars, handled, answer>>

FindAgent(k, r, s) ==
    /\ pc[k] = "idle" /\ r \notin DOMAIN target
    /\ \A q \in 1 .. (r - 1) : q \in DOMAIN target
    /\ target' = [q \in DOMAIN target \cup {r} |-> IF q = r THEN s ELSE target[q]]
    /\ \/ /\ agents[s] = NoSocket
          /\ answer' = [answer EXCEPT ![r] = "offline"]
          /\ UNCHANGED clientVars
       \/ /\ agents[s] # NoSocket
          /\ pc' = [pc EXCEPT ![k] = "write"]
          /\ req' = [req EXCEPT ![k] = r]
          /\ via' = [via EXCEPT ![k] = agents[s]]
          /\ UNCHANGED answer
    /\ UNCHANGED <<publicVars, agentVars, socketVars, handled>>

(* Mutant: the message goes out twice.                                     *)
SendRequestTwice(k) ==
    /\ pc[k] = "write"
    /\ toAgent' = IF via[k] \in up
                  THEN [toAgent EXCEPT ![via[k]] = @ \o <<req[k], req[k]>>] ELSE toAgent
    /\ pc' = [pc EXCEPT ![k] = "enlist"]
    /\ UNCHANGED <<publicVars, agentVars, dialed, owner, up, toPublic, req, via, history>>

SendRequest(k) ==
    /\ pc[k] = "write"
    /\ toAgent' = Put(toAgent, via[k], req[k])
    /\ pc' = [pc EXCEPT ![k] = "enlist"]
    /\ UNCHANGED <<publicVars, agentVars, dialed, owner, up, toPublic, req, via, history>>

(* The channel goes into pending.m only now; the 10 seconds start after it. *)
Enlist(k) ==
    /\ pc[k] = "enlist" /\ mux = NoSocket
    /\ pending' = pending \cup {req[k]}
    /\ pc' = [pc EXCEPT ![k] = "wait"]
    /\ UNCHANGED <<agents, mux, reader, got, known, agentVars, socketVars, req, via, history>>

(* The channel stays in pending.m.                                         *)
TimeOut(k) ==
    /\ pc[k] = "wait"
    /\ Answer(k, "timeout")
    /\ UNCHANGED <<publicVars, agentVars, socketVars>>

-----------------------------------------------------------------------------
AgentStep(s) == ReadRequest(s) \/ Serve(s) \/ LoseLink(s)
ReaderStep(c) ==
    \/ ReadRegister(c) \/ ReadResponse(c) \/ Lock(c) \/ ReadFails(c)
    \/ \E k \in Clients : HandOver(c, k)
ClientStep(k) == SendRequest(k) \/ Enlist(k) \/ TimeOut(k)

Init ==
    /\ agents = [s \in Servers |-> NoSocket]
    /\ pending = {} /\ mux = NoSocket /\ dialed = 0
    /\ owner = [c \in Sockets |-> CHOOSE s \in Servers : TRUE]
    /\ up = {} /\ known = {}
    /\ toPublic = [c \in Sockets |-> <<>>] /\ toAgent = [c \in Sockets |-> <<>>]
    /\ reader = [c \in Sockets |-> "none"] /\ got = [c \in Sockets |-> NoMessage]
    /\ link = [s \in Servers |-> NoSocket] /\ serving = [s \in Servers |-> NoRequest]
    /\ pc = [k \in Clients |-> "idle"]
    /\ req = [k \in Clients |-> NoRequest] /\ via = [k \in Clients |-> NoSocket]
    /\ Promise!Init

Next ==
    \/ \E s \in Servers : Dial(s) \/ Die(s) \/ AgentStep(s)
    \/ \E c \in Sockets : Break(c) \/ ReaderStep(c)
    \/ \E k \in Clients :
          \/ \E r \in Requests, s \in Servers : FindAgent(k, r, s)
          \/ ClientStep(k)

Spec == Init /\ [][Next]_vars

(* Goroutines that can run do, and timers run out.  Nothing makes clients  *)
(* send, agents dial, or sockets break.                                    *)
FairSpec ==
    /\ Spec
    /\ \A s \in Servers : WF_vars(AgentStep(s))
    /\ \A c \in Sockets : WF_vars(ReaderStep(c))
    /\ \A k \in Clients : WF_vars(ClientStep(k))

-----------------------------------------------------------------------------
(* Properties.                                                             *)

Messages == {Register} \cup {Response(r, x) : r \in Requests, x \in Results}

(* Every variable has its type (main.go:14-46, agent.go:14-35).            *)
TypeOK ==
    /\ agents \in [Servers -> Sockets \cup {NoSocket}]
    /\ pending \subseteq Requests /\ mux \in Sockets \cup {NoSocket}
    /\ dialed \in 0 .. MaxDials /\ owner \in [Sockets -> Servers]
    /\ up \subseteq Sockets /\ known \subseteq Sockets
    /\ toPublic \in [Sockets -> Seq(Messages)] /\ toAgent \in [Sockets -> Seq(Requests)]
    /\ reader \in [Sockets -> {"none", "reading", "locking", "sending", "done"}]
    /\ got \in [Sockets -> Messages]
    /\ link \in [Servers -> Sockets \cup {NoSocket}]
    /\ serving \in [Servers -> Requests \cup {NoRequest}]
    /\ pc \in [Clients -> {"idle", "write", "enlist", "wait"}]
    /\ req \in [Clients -> Requests \cup {NoRequest}]
    /\ via \in [Clients -> Sockets \cup {NoSocket}]
    /\ \A k \in Clients : pc[k] = "write" => via[k] # NoSocket
    /\ DOMAIN target \subseteq Requests /\ \A r \in DOMAIN target : target[r] \in Servers
    /\ handled \in [Requests -> Seq([server : Servers, result : Results])]
    /\ answer \in [Requests -> Promise!Answers]

(* An entry of agents is of a socket its own agent registered on, and does *)
(* not outlive that socket's reader: once a broken socket is noticed no    *)
(* request is written to it, however late the registrations and errors of  *)
(* a reconnecting agent's sockets are read (main.go:67-88).                *)
AgentsAreRead ==
    \A s \in Servers : agents[s] # NoSocket =>
        /\ owner[agents[s]] = s
        /\ agents[s] \in known
        /\ reader[agents[s]] # "done"

(* A goroutine that waits has its channel in pending.m, and the channel of *)
(* a request that got its response is gone: only timeouts leave channels   *)
(* behind (main.go:93-104, 152-163).                                       *)
PendingMatchesWaiters ==
    /\ \A k \in Clients : pc[k] = "wait" => req[k] \in pending
    /\ \A r \in pending :
          \/ \E k \in Clients : pc[k] = "wait" /\ req[k] = r
          \/ answer[r] = "timeout"

(* A request is carried out at most once, by the server it names, and its  *)
(* client gets what came of it, a timeout, or "Agent offline" if it is     *)
(* never carried out; no request gets another's response (main.go:90-104,  *)
(* 109-163; agent.go:65-86).                                               *)
KeepsPromise == Promise!Spec

(* The reader that holds pending.mux waits for a client that has gone.     *)
Wedged ==
    \E c \in Sockets : /\ reader[c] = "sending"
                       /\ \A k \in Clients : ~ (pc[k] = "wait" /\ req[k] = got[c].req)

(* The goroutine of a request comes to its end, with a response or the     *)
(* timeout, unless a response that came after its request's timeout has    *)
(* locked pending.mux for good: nothing else can hold a client up          *)
(* (main.go:93-104, 148-163).                                              *)
AnsweredUnlessWedged == \A k \in Clients : pc[k] # "idle" ~> (pc[k] = "idle" \/ Wedged)

(* "case <-time.After(10 * time.Second): ... Timeout" (main.go:161-162): a *)
(* client whose request is not answered in time gets a timeout.            *)
EveryRequestEnds == \A k \in Clients : pc[k] # "idle" ~> pc[k] = "idle"

=============================================================================
