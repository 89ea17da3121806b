------------------------- MODULE RemoteBridgeProofs -------------------------
(***************************************************************************)
(* Proofs about RemoteBridge for any servers, clients, responses, requests *)
(* and sockets, and that it implements RequestReply.                       *)
(***************************************************************************)
EXTENDS RemoteBridge, TLAPS

-----------------------------------------------------------------------------
(* Type correctness: a goroutine has a request while it is not idle, and a *)
(* reader that locks or sends has read a response.                         *)

Responses == {m \in Messages : m.type = "response" /\ m.req \in Requests /\ m.result \in Results}

PublicOK ==
    /\ agents \in [Servers -> Sockets \cup {NoSocket}]
    /\ pending \subseteq Requests /\ mux \in Sockets \cup {NoSocket}
    /\ known \subseteq Sockets
    /\ reader \in [Sockets -> {"none", "reading", "locking", "sending", "done"}]
    /\ got \in [Sockets -> Messages]
    /\ \A c \in Sockets : reader[c] \in {"locking", "sending"} => got[c] \in Responses
AgentsOK ==
    /\ link \in [Servers -> Sockets \cup {NoSocket}]
    /\ serving \in [Servers -> Requests \cup {NoRequest}]
SocketsOK ==
    /\ dialed \in 0 .. MaxDials /\ owner \in [Sockets -> Servers] /\ up \subseteq Sockets
    /\ toPublic \in [Sockets -> Seq(Messages)] /\ toAgent \in [Sockets -> Seq(Requests)]
ClientsOK ==
    /\ pc \in [Clients -> {"idle", "write", "enlist", "wait"}]
    /\ req \in [Clients -> Requests \cup {NoRequest}]
    /\ via \in [Clients -> Sockets \cup {NoSocket}]
    /\ \A k \in Clients : /\ pc[k] = "write" => via[k] \in Sockets
                          /\ pc[k] # "idle" => req[k] \in Requests
AskedOK == DOMAIN target \subseteq Requests /\ \A r \in DOMAIN target : target[r] \in Servers
HandledOK == handled \in [Requests -> Seq([server : Servers, result : Results])]
AnswersOK == answer \in [Requests -> Promise!Answers]

TypeInv ==
    PublicOK /\ AgentsOK /\ SocketsOK /\ ClientsOK /\ AskedOK /\ HandledOK /\ AnswersOK

LEMMA Unchanged ==
    /\ PublicOK /\ UNCHANGED publicVars => PublicOK'
    /\ AgentsOK /\ UNCHANGED agentVars => AgentsOK'
    /\ SocketsOK /\ UNCHANGED socketVars => SocketsOK'
    /\ ClientsOK /\ UNCHANGED clientVars => ClientsOK'
    /\ AskedOK /\ UNCHANGED target => AskedOK'
    /\ HandledOK /\ UNCHANGED handled => HandledOK'
    /\ AnswersOK /\ UNCHANGED answer => AnswersOK'
  BY DEF PublicOK, publicVars, AgentsOK, agentVars, SocketsOK, socketVars, ClientsOK, clientVars,
     AskedOK, HandledOK, AnswersOK

(* Sockets and requests are numbered from 1.                               *)
LEMMA Numbers == NoSocket \notin Sockets /\ NoRequest \notin Requests
  BY BoundsAssumption DEF NoSocket, NoRequest, Sockets, Requests

(* Messages are told apart by their type.                                  *)
LEMMA MessageTypes ==
    /\ Register \in Messages /\ Register \notin Responses
    /\ \A m \in Messages : m = Register \/ m \in Responses
    /\ \A r \in Requests, x \in Results :
          Response(r, x) \in Responses /\ Response(r, x).req = r /\ Response(r, x).result = x
    /\ \A m \in Responses : m \in Messages /\ m.req \in Requests /\ m.result \in Results
<1>1. \A r \in Requests, x \in Results :
         /\ Response(r, x).type = "response" /\ Response(r, x).req = r /\ Response(r, x).result = x
         /\ Response(r, x) \in Messages
  BY DEF Response, Messages
<1>2. Register.type = "register" /\ Register \in Messages
  BY DEF Register, Messages
<1>3. \A m \in Messages : m = Register \/ \E r \in Requests, x \in Results : m = Response(r, x)
  BY DEF Messages
<1> QED
  BY <1>1, <1>2, <1>3 DEF Responses

LEMMA PutTypes ==
    ASSUME NEW S, NEW queue \in [Sockets -> Seq(S)], NEW m \in S, NEW c, up \subseteq Sockets
    PROVE  Put(queue, c, m) \in [Sockets -> Seq(S)]
<1>1. CASE c \in up
  <2>1. c \in Sockets /\ Append(queue[c], m) \in Seq(S)
    BY <1>1
  <2> QED
    BY <1>1, <2>1 DEF Put
<1>2. CASE c \notin up
  BY <1>2 DEF Put
<1> QED
  BY <1>1, <1>2

LEMMA AnswerTypes ==
    ASSUME TypeInv, NEW k \in Clients, NEW a \in Promise!Answers, Answer(k, a)
    PROVE  ClientsOK' /\ AskedOK' /\ HandledOK' /\ AnswersOK'
  BY Unchanged DEF TypeInv, Answer, ClientsOK, AnswersOK

LEMMA AgentTypes ==
    ASSUME TypeInv, NEW s \in Servers, Dial(s) \/ Die(s) \/ AgentStep(s) PROVE TypeInv'
<1> USE Unchanged DEF TypeInv
<1>1. CASE Dial(s)
  <2>1. dialed' \in Sockets /\ dialed' \in 0 .. MaxDials
    BY <1>1, BoundsAssumption DEF Dial, Sockets, SocketsOK
  <2>2. PublicOK'
    BY <1>1, <2>1 DEF Dial, PublicOK
  <2>3. <<Register>> \in Seq(Messages)
    BY MessageTypes
  <2>4. SocketsOK'
    BY <1>1, <2>1, <2>3 DEF Dial, SocketsOK
  <2>5. AgentsOK'
    BY <1>1, <2>1 DEF Dial, AgentsOK
  <2> QED
    BY <1>1, <2>2, <2>4, <2>5 DEF Dial, history
<1>2. CASE Die(s)
  <2>1. SocketsOK' /\ AgentsOK'
    BY <1>2 DEF Die, SocketsOK, AgentsOK
  <2> QED
    BY <1>2, <2>1 DEF Die, history
<1>3. CASE ReadRequest(s)
  <2>1. link[s] \in Sockets
    BY <1>3 DEF ReadRequest, AgentsOK
  <2>2. Head(toAgent[link[s]]) \in Requests /\ Tail(toAgent[link[s]]) \in Seq(Requests)
    BY <1>3, <2>1 DEF ReadRequest, SocketsOK
  <2>3. AgentsOK' /\ SocketsOK'
    BY <1>3, <2>1, <2>2 DEF ReadRequest, AgentsOK, SocketsOK
  <2> QED
    BY <1>3, <2>3 DEF ReadRequest, history
<1>4. CASE Serve(s)
  <2>1. PICK x \in Results :
           /\ handled' = [handled EXCEPT ![serving[s]] = Append(@, [server |-> s, result |-> x])]
           /\ toPublic' = Put(toPublic, link[s], Response(serving[s], x))
    BY <1>4 DEF Serve
  <2>2. serving[s] \in Requests
    BY <1>4 DEF Serve, AgentsOK
  <2>3. HandledOK'
    <3>1. Append(handled[serving[s]], [server |-> s, result |-> x])
             \in Seq([server : Servers, result : Results])
      <4>1. [server |-> s, result |-> x] \in [server : Servers, result : Results]
        OBVIOUS
      <4>2. handled[serving[s]] \in Seq([server : Servers, result : Results])
        BY <2>2 DEF HandledOK
      <4> QED
        BY <4>1, <4>2
    <3> QED
      BY <2>1, <2>2, <3>1 DEF HandledOK
  <2>4. Response(serving[s], x) \in Messages
    BY <2>2, MessageTypes
  <2>5. SocketsOK'
    BY <1>4, <2>1, <2>4, PutTypes DEF Serve, SocketsOK
  <2>6. AgentsOK'
    BY <1>4 DEF Serve, AgentsOK
  <2> QED
    BY <1>4, <2>3, <2>5, <2>6 DEF Serve
<1>5. CASE LoseLink(s)
  <2>1. AgentsOK'
    BY <1>5 DEF LoseLink, AgentsOK
  <2> QED
    BY <1>5, <2>1 DEF LoseLink, history
<1> QED
  BY <1>1, <1>2, <1>3, <1>4, <1>5 DEF AgentStep

LEMMA ReaderTypes ==
    ASSUME TypeInv, NEW c \in Sockets, Break(c) \/ ReaderStep(c) PROVE TypeInv'
<1> USE Unchanged DEF TypeInv
<1>1. CASE Break(c)
  <2>1. SocketsOK'
    BY <1>1 DEF Break, SocketsOK
  <2> QED
    BY <1>1, <2>1 DEF Break, history
<1>2. ASSUME NEW m, ReadMessage(c, m)
      PROVE  /\ m \in Messages /\ reader[c] = "reading" /\ got' = [got EXCEPT ![c] = m]
             /\ SocketsOK' /\ AgentsOK' /\ ClientsOK' /\ AskedOK' /\ HandledOK' /\ AnswersOK'
  <2>1. Head(toPublic[c]) \in Messages /\ Tail(toPublic[c]) \in Seq(Messages)
    BY <1>2 DEF ReadMessage, SocketsOK
  <2>2. SocketsOK'
    BY <1>2, <2>1 DEF ReadMessage, SocketsOK
  <2> QED
    BY <1>2, <2>1, <2>2 DEF ReadMessage, history
<1>3. CASE ReadRegister(c)
  <2>1. ReadMessage(c, Register)
    BY <1>3 DEF ReadRegister
  <2>2. PublicOK'
    BY <1>2, <1>3, <2>1 DEF ReadRegister, PublicOK, SocketsOK
  <2> QED
    BY <1>2, <2>1, <2>2
<1>4. CASE ReadResponse(c)
  <2>1. PICK r \in Requests, x \in Results : ReadMessage(c, Response(r, x))
    BY <1>4 DEF ReadResponse
  <2>2. Response(r, x) \in Responses
    BY MessageTypes
  <2>3. PublicOK'
    BY <1>2, <1>4, <2>1, <2>2 DEF ReadResponse, PublicOK
  <2> QED
    BY <1>2, <2>1, <2>3
<1>5. CASE Lock(c)
  <2>1. PublicOK'
    BY <1>5 DEF Lock, PublicOK
  <2> QED
    BY <1>5, <2>1 DEF Lock, history
<1>6. ASSUME NEW k \in Clients, HandOver(c, k) PROVE TypeInv'
  <2>1. got[c] \in Responses
    BY <1>6 DEF HandOver, PublicOK
  <2>2. got[c].result \in Promise!Answers
    BY <2>1, MessageTypes DEF Promise!Answers
  <2>3. Answer(k, got[c].result)
    BY <1>6 DEF HandOver
  <2>4. PublicOK'
    BY <1>6 DEF HandOver, PublicOK
  <2> QED
    BY <1>6, <2>2, <2>3, <2>4, AnswerTypes DEF HandOver
<1>7. CASE ReadFails(c)
  <2>1. PublicOK'
    BY <1>7 DEF ReadFails, PublicOK, SocketsOK
  <2> QED
    BY <1>7, <2>1 DEF ReadFails, history
<1> QED
  BY <1>1, <1>3, <1>4, <1>5, <1>6, <1>7 DEF ReaderStep

LEMMA ClientTypes ==
    ASSUME TypeInv, NEW k \in Clients,
           ClientStep(k) \/ \E r \in Requests, s \in Servers : FindAgent(k, r, s)
    PROVE  TypeInv'
<1> USE Unchanged DEF TypeInv
<1>1. ASSUME NEW r \in Requests, NEW s \in Servers, FindAgent(k, r, s) PROVE TypeInv'
  <2>1. AskedOK'
    BY <1>1 DEF FindAgent, AskedOK
  <2>2. AnswersOK'
    BY <1>1 DEF FindAgent, AnswersOK, Promise!Answers, Promise!Offline
  <2>3. ClientsOK'
    BY <1>1 DEF FindAgent, ClientsOK, clientVars, PublicOK
  <2> QED
    BY <1>1, <2>1, <2>2, <2>3 DEF FindAgent
<1>2. CASE SendRequest(k)
  <2>1. req[k] \in Requests
    BY <1>2 DEF SendRequest, ClientsOK
  <2>2. SocketsOK'
    BY <1>2, <2>1, PutTypes DEF SendRequest, SocketsOK
  <2>3. ClientsOK'
    BY <1>2 DEF SendRequest, ClientsOK
  <2> QED
    BY <1>2, <2>2, <2>3 DEF SendRequest, history
<1>3. CASE Enlist(k)
  <2>1. PublicOK' /\ ClientsOK'
    BY <1>3 DEF Enlist, PublicOK, ClientsOK
  <2> QED
    BY <1>3, <2>1 DEF Enlist, history
<1>4. CASE TimeOut(k)
  <2>1. Answer(k, "timeout") /\ "timeout" \in Promise!Answers
    BY <1>4 DEF TimeOut, Promise!Answers, Promise!Timeout
  <2> QED
    BY <1>4, <2>1, AnswerTypes DEF TimeOut
<1> QED
  BY <1>1, <1>2, <1>3, <1>4 DEF ClientStep

LEMMA InitTypes == ASSUME Init PROVE TypeInv
<1>1. (CHOOSE s \in Servers : TRUE) \in Servers
  BY SetsAssumption
<1>2. PublicOK
  BY MessageTypes DEF Init, PublicOK, NoMessage
<1>3. SocketsOK
  <2>1. <<>> \in Seq(Messages) /\ <<>> \in Seq(Requests) /\ 0 \in 0 .. MaxDials
    BY BoundsAssumption
  <2>2. owner \in [Sockets -> Servers] /\ up \subseteq Sockets
    BY <1>1 DEF Init
  <2> QED
    BY <2>1, <2>2 DEF Init, SocketsOK
<1>4. AskedOK /\ HandledOK /\ AnswersOK
  BY DEF Init, Promise!Init, AskedOK, HandledOK, AnswersOK, Promise!Answers, Promise!NoAnswer
<1> QED
  BY <1>2, <1>3, <1>4 DEF Init, TypeInv, AgentsOK, ClientsOK

LEMMA TypeStep == ASSUME TypeInv, [Next]_vars PROVE TypeInv'
<1>1. CASE UNCHANGED vars
  BY <1>1, Unchanged DEF vars, history, TypeInv
<1> QED
  BY <1>1, AgentTypes, ReaderTypes, ClientTypes DEF Next

(* Every reachable state is well typed, whatever breaks and dies (main.go: *)
(* 14-46, agent.go:14-35).                                                 *)
THEOREM TypeCorrect == Spec => []TypeOK
<1>1. TypeInv => TypeOK
  BY Numbers
  DEF TypeInv, TypeOK, PublicOK, AgentsOK, SocketsOK, ClientsOK, AskedOK, HandledOK, AnswersOK
<1> QED
  BY <1>1, InitTypes, TypeStep, PTL DEF Spec

-----------------------------------------------------------------------------
(* Sockets: those not dialed yet are empty, and an agent's socket is one   *)
(* it has dialed itself.                                                   *)

Undialed ==
    \A c \in Sockets : c > dialed =>
        reader[c] = "none" /\ c \notin known /\ c \notin up /\ toAgent[c] = <<>>

OwnLinks == \A s \in Servers : link[s] # NoSocket => link[s] <= dialed /\ owner[link[s]] = s

SocketsInv == AgentsAreRead /\ Undialed /\ OwnLinks

LEMMA SocketsStep == ASSUME TypeInv, SocketsInv, [Next]_vars PROVE SocketsInv'
<1> USE DEF SocketsInv, AgentsAreRead, Undialed, OwnLinks
<1>0. /\ agents \in [Servers -> Sockets \cup {NoSocket}] /\ owner \in [Sockets -> Servers]
      /\ link \in [Servers -> Sockets \cup {NoSocket}] /\ NoSocket \notin Sockets
      /\ known \subseteq Sockets /\ up \subseteq Sockets /\ toAgent \in [Sockets -> Seq(Requests)]
      /\ reader \in [Sockets -> {"none", "reading", "locking", "sending", "done"}]
      /\ dialed \in Nat /\ Sockets \subseteq Nat
  BY Numbers DEF TypeInv, PublicOK, AgentsOK, SocketsOK, Sockets
<1>1. ASSUME UNCHANGED <<agents, known, owner, dialed, link>>, up' \subseteq up,
             \A c \in Sockets : /\ toAgent[c] = <<>> => toAgent'[c] = <<>>
                                /\ reader[c] = "none" => reader'[c] = "none"
                                /\ reader[c] # "done" => reader'[c] # "done"
      PROVE  SocketsInv'
  BY <1>0, <1>1
<1>2. ASSUME NEW s \in Servers, Dial(s) PROVE SocketsInv'
  <2>1. /\ dialed' = dialed + 1 /\ dialed' \in Sockets
        /\ owner' = [owner EXCEPT ![dialed'] = s] /\ link' = [link EXCEPT ![s] = dialed']
        /\ up' = up \cup {dialed'} /\ reader' = [reader EXCEPT ![dialed'] = "reading"]
        /\ UNCHANGED <<agents, known, toAgent>>
    BY <1>0, <1>2, BoundsAssumption DEF Dial, Sockets
  <2>2. dialed' \notin known
    BY <1>0, <2>1
  <2>3. \A c \in Sockets : c # dialed' => reader'[c] = reader[c] /\ owner'[c] = owner[c]
    BY <1>0, <2>1
  <2>4. AgentsAreRead'
    BY <1>0, <2>1, <2>2, <2>3
  <2>5. Undialed'
    BY <1>0, <2>1, <2>3
  <2>6. OwnLinks'
    <3> SUFFICES ASSUME NEW t \in Servers, link'[t] # NoSocket
                 PROVE  link'[t] <= dialed' /\ owner'[link'[t]] = t
      OBVIOUS
    <3>1. CASE t = s
      BY <1>0, <2>1, <3>1
    <3>2. CASE t # s
      <4>1. link'[t] = link[t] /\ link[t] \in Sockets /\ link[t] <= dialed /\ owner[link[t]] = t
        BY <1>0, <2>1, <3>2
      <4>2. \A x \in Nat : x <= dialed => x # dialed' /\ x <= dialed'
        BY <1>0, <2>1
      <4>3. link[t] # dialed' /\ link[t] <= dialed'
        BY <1>0, <4>1, <4>2
      <4> QED
        BY <2>3, <4>1, <4>3
    <3> QED
      BY <3>1, <3>2
  <2> QED
    BY <2>4, <2>5, <2>6
<1>3. ASSUME NEW s \in Servers, Die(s) \/ LoseLink(s) PROVE SocketsInv'
  <2>1. /\ link' = [link EXCEPT ![s] = NoSocket] /\ up' \subseteq up
        /\ UNCHANGED <<agents, known, owner, dialed, toAgent, reader>>
    BY <1>3 DEF Die, LoseLink, publicVars, socketVars
  <2> QED
    BY <1>0, <2>1
<1>4. ASSUME NEW s \in Servers, ReadRequest(s) PROVE SocketsInv'
  <2>1. \A c \in Sockets : toAgent[c] = <<>> => toAgent'[c] = <<>>
    BY <1>0, <1>4 DEF ReadRequest
  <2> QED
    BY <1>1, <1>4, <2>1 DEF ReadRequest, publicVars
<1>5. ASSUME NEW s \in Servers, Serve(s) PROVE SocketsInv'
  BY <1>1, <1>5 DEF Serve, publicVars
<1>6. ASSUME NEW c \in Sockets, Break(c) \/ ReadResponse(c) \/ Lock(c) PROVE SocketsInv'
  <2>1. /\ UNCHANGED <<agents, known, owner, dialed, link, toAgent>> /\ up' \subseteq up
        /\ \/ reader' = reader
           \/ /\ reader[c] \in {"reading", "locking"}
              /\ \E l \in {"reading", "locking", "sending"} : reader' = [reader EXCEPT ![c] = l]
    BY <1>6 DEF Break, ReadResponse, ReadMessage, Lock, publicVars, agentVars, socketVars
  <2> QED
    BY <1>0, <1>1, <2>1
<1>7. ASSUME NEW c \in Sockets, ReadRegister(c) PROVE SocketsInv'
  <2>1. /\ UNCHANGED <<owner, dialed, link, up, toAgent, reader>> /\ reader[c] = "reading"
        /\ known' = known \cup {c} /\ agents' = [agents EXCEPT ![owner[c]] = c]
    BY <1>7 DEF ReadRegister, ReadMessage, agentVars
  <2> QED
    BY <1>0, <2>1
<1>8. ASSUME NEW c \in Sockets, ReadFails(c) PROVE SocketsInv'
  <2>1. /\ UNCHANGED <<known, owner, dialed, link, up, toAgent>> /\ reader[c] = "reading"
        /\ reader' = [reader EXCEPT ![c] = "done"]
        /\ agents' = IF c \in known THEN [agents EXCEPT ![owner[c]] = NoSocket] ELSE agents
    BY <1>8 DEF ReadFails, agentVars, socketVars
  <2>2. \A s \in Servers : agents'[s] # NoSocket => agents'[s] = agents[s] /\ agents[s] # c
    BY <1>0, <2>1
  <2> QED
    BY <1>0, <2>1, <2>2
<1>9. ASSUME NEW c \in Sockets, NEW k \in Clients, HandOver(c, k) PROVE SocketsInv'
  <2>1. /\ UNCHANGED <<agents, known, owner, dialed, link, up, toAgent>> /\ reader[c] = "sending"
        /\ reader' = [reader EXCEPT ![c] = "reading"]
    BY <1>9 DEF HandOver, agentVars, socketVars
  <2> QED
    BY <1>0, <1>1, <2>1
<1>10. ASSUME NEW k \in Clients,
              Enlist(k) \/ TimeOut(k) \/ \E r \in Requests, s \in Servers : FindAgent(k, r, s)
       PROVE  SocketsInv'
  BY <1>1, <1>10 DEF Enlist, TimeOut, FindAgent, publicVars, agentVars, socketVars
<1>11. ASSUME NEW k \in Clients, SendRequest(k) PROVE SocketsInv'
  <2>1. \A c \in Sockets : c \notin up => toAgent'[c] = toAgent[c]
    BY <1>0, <1>11 DEF SendRequest, Put
  <2>2. UNCHANGED <<agents, known, owner, dialed, link, up, reader>>
    BY <1>11 DEF SendRequest, publicVars, agentVars
  <2> QED
    BY <1>0, <2>1, <2>2
<1>12. CASE UNCHANGED vars
  BY <1>1, <1>12 DEF vars, publicVars, agentVars, socketVars
<1> QED
  BY <1>2, <1>3, <1>4, <1>5, <1>6, <1>7, <1>8, <1>9, <1>10, <1>11, <1>12
  DEF Next, AgentStep, ReaderStep, ClientStep

LEMMA SocketsInit == ASSUME Init PROVE SocketsInv
  BY DEF Init, SocketsInv, AgentsAreRead, Undialed, OwnLinks

(* The entry of agents that a request finds is of a socket that the named  *)
(* server's agent registered on and that is still read (main.go:67-88).    *)
THEOREM RequestsGoToReadSockets == Spec => []AgentsAreRead
<1>1. SocketsInv => AgentsAreRead
  BY DEF SocketsInv
<1> QED
  BY <1>1, InitTypes, TypeStep, SocketsInit, SocketsStep, PTL DEF Spec

-----------------------------------------------------------------------------
(* Waiters: no two goroutines have the same request, and a request has no  *)
(* answer while its goroutine runs.                                        *)

ClientsDiffer ==
    \A k, l \in Clients : pc[k] # "idle" /\ pc[l] # "idle" /\ req[k] = req[l] => k = l

Unanswered ==
    /\ \A k \in Clients : pc[k] # "idle" => req[k] \in DOMAIN target /\ answer[req[k]] = "none"
    /\ \A r \in Requests : r \notin DOMAIN target => answer[r] = "none"

PendingInv == ClientsDiffer /\ Unanswered /\ pending \subseteq DOMAIN target /\ PendingMatchesWaiters

LEMMA PendingStep == ASSUME TypeInv, PendingInv, [Next]_vars PROVE PendingInv'
<1> USE DEF PendingInv, ClientsDiffer, Unanswered, PendingMatchesWaiters
<1>0. /\ pc \in [Clients -> {"idle", "write", "enlist", "wait"}]
      /\ req \in [Clients -> Requests \cup {NoRequest}] /\ answer \in [Requests -> Promise!Answers]
      /\ pending \subseteq Requests /\ DOMAIN target \subseteq Requests
      /\ \A k \in Clients : pc[k] # "idle" => req[k] \in Requests
  BY DEF TypeInv, PublicOK, ClientsOK, AskedOK, AnswersOK
<1>1. ASSUME UNCHANGED <<pc, req, target, answer, pending>> PROVE PendingInv'
  BY <1>1
<1>2. ASSUME NEW s \in Servers, Dial(s) \/ Die(s) \/ AgentStep(s) PROVE PendingInv'
  BY <1>1, <1>2 DEF Dial, Die, AgentStep, ReadRequest, Serve, LoseLink, publicVars, clientVars, history
<1>3. ASSUME NEW c \in Sockets,
             Break(c) \/ ReadRegister(c) \/ ReadResponse(c) \/ Lock(c) \/ ReadFails(c)
      PROVE  PendingInv'
  BY <1>1, <1>3 DEF Break, ReadRegister, ReadResponse, ReadMessage, Lock, ReadFails, publicVars,
     clientVars, history
<1>4. ASSUME NEW k \in Clients, NEW a \in Promise!Answers, pc[k] = "wait", Answer(k, a),
             \/ pending' = pending /\ a = "timeout"
             \/ pending' = pending \ {req[k]}
      PROVE  PendingInv'
  <2>1. /\ \A l \in Clients : l # k => pc'[l] = pc[l] /\ req'[l] = req[l]
        /\ pc'[k] = "idle" /\ target' = target /\ answer'[req[k]] = a
        /\ \A r \in Requests : r # req[k] => answer'[r] = answer[r]
    BY <1>0, <1>4 DEF Answer
  <2>2. \A l \in Clients : pc'[l] # "idle" => l # k /\ req[l] # req[k]
    BY <1>4, <2>1
  <2>3. ClientsDiffer' /\ Unanswered' /\ pending' \subseteq DOMAIN target'
    BY <1>0, <1>4, <2>1, <2>2
  <2>4. PendingMatchesWaiters'
    BY <1>0, <1>4, <2>1, <2>2
  <2> QED
    BY <2>3, <2>4
<1>5. ASSUME NEW c \in Sockets, NEW k \in Clients, HandOver(c, k) PROVE PendingInv'
  <2>1. got[c].result \in Promise!Answers
    BY <1>5, MessageTypes DEF HandOver, TypeInv, PublicOK, Promise!Answers
  <2> QED
    BY <1>4, <1>5, <2>1 DEF HandOver
<1>6. ASSUME NEW k \in Clients, TimeOut(k) PROVE PendingInv'
  BY <1>4, <1>6 DEF TimeOut, publicVars, Promise!Answers, Promise!Timeout
<1>7. ASSUME NEW k \in Clients, NEW r \in Requests, NEW s \in Servers, FindAgent(k, r, s)
      PROVE  PendingInv'
  <2>1. /\ DOMAIN target' = DOMAIN target \cup {r} /\ r \notin DOMAIN target /\ pending' = pending
        /\ pc[k] = "idle"
    BY <1>7 DEF FindAgent, publicVars
  <2>2. CASE answer' = [answer EXCEPT ![r] = "offline"] /\ UNCHANGED <<pc, req>>
    <3>1. \A q \in Requests : q # r => answer'[q] = answer[q]
      BY <1>0, <2>2
    <3> QED
      BY <1>0, <2>1, <2>2, <3>1
  <2>3. CASE /\ pc' = [pc EXCEPT ![k] = "write"]
             /\ req' = [req EXCEPT ![k] = r]
             /\ UNCHANGED answer
    <3>1. \A l \in Clients : l # k => pc'[l] = pc[l] /\ req'[l] = req[l]
      BY <1>0, <2>3
    <3>2. pc'[k] = "write" /\ req'[k] = r
      BY <1>0, <2>3
    <3>3. ClientsDiffer' /\ Unanswered'
      BY <1>0, <2>1, <2>3, <3>1, <3>2
    <3>4. PendingMatchesWaiters'
      BY <1>0, <2>1, <2>3, <3>1, <3>2
    <3> QED
      BY <2>1, <3>3, <3>4
  <2> QED
    BY <1>7, <2>2, <2>3 DEF FindAgent, clientVars
<1>8. ASSUME NEW k \in Clients, SendRequest(k) \/ Enlist(k) PROVE PendingInv'
  <2>1. /\ UNCHANGED <<req, target, answer>> /\ pc[k] # "idle" /\ pc[k] # "wait"
        /\ \/ pc' = [pc EXCEPT ![k] = "enlist"] /\ pending' = pending
           \/ pc' = [pc EXCEPT ![k] = "wait"] /\ pending' = pending \cup {req[k]}
    BY <1>8 DEF SendRequest, Enlist, publicVars, history
  <2>2. /\ \A l \in Clients : l # k => pc'[l] = pc[l]
        /\ \/ pc'[k] = "enlist" /\ pending' = pending
           \/ pc'[k] = "wait" /\ pending' = pending \cup {req[k]}
    BY <1>0, <2>1
  <2> QED
    BY <1>0, <2>1, <2>2
<1>9. CASE UNCHANGED vars
  BY <1>1, <1>9 DEF vars, publicVars, clientVars, history
<1> QED
  BY <1>2, <1>3, <1>5, <1>6, <1>7, <1>8, <1>9 DEF Next, ReaderStep, ClientStep

LEMMA PendingInit == ASSUME Init PROVE PendingInv
  BY DEF Init, Promise!Init, Promise!NoAnswer, PendingInv, ClientsDiffer, Unanswered,
     PendingMatchesWaiters

(* The map of channels holds those who wait, and otherwise only what       *)
(* timeouts left behind (main.go:93-104, 152-163).                         *)
THEOREM ChannelsAreAwaited == Spec => []PendingMatchesWaiters
<1>1. PendingInv => PendingMatchesWaiters
  BY DEF PendingInv
<1> QED
  BY <1>1, InitTypes, TypeStep, PendingInit, PendingStep, PTL DEF Spec

-----------------------------------------------------------------------------
(* Requests on their way: a request that a goroutine is about to write, or *)
(* that is on a socket, or with an agent, is at that place only, and on    *)
(* its way to the server it names; it has not been carried out, and its    *)
(* client has at most given up.                                            *)

OnItsWay(r, s) ==
    /\ r \in DOMAIN target /\ target[r] = s
    /\ answer[r] \in {"none", "timeout"} /\ handled[r] = <<>>

Places ==
    /\ \A k \in Clients : pc[k] = "write" => via[k] <= dialed /\ OnItsWay(req[k], owner[via[k]])
    /\ \A c \in Sockets, i \in Nat : i \in DOMAIN toAgent[c] => OnItsWay(toAgent[c][i], owner[c])
    /\ \A s \in Servers : serving[s] # NoRequest => OnItsWay(serving[s], s)

OnePlace ==
    /\ \A c, d \in Sockets, i, j \in Nat :
          i \in DOMAIN toAgent[c] /\ j \in DOMAIN toAgent[d] /\ toAgent[c][i] = toAgent[d][j]
             => c = d /\ i = j
    /\ \A c \in Sockets, i \in Nat : i \in DOMAIN toAgent[c] =>
          /\ \A s \in Servers : toAgent[c][i] # serving[s]
          /\ \A k \in Clients : pc[k] = "write" => toAgent[c][i] # req[k]
    /\ \A s \in Servers, k \in Clients : pc[k] = "write" => serving[s] # req[k]

(* A response is what came of its request.                                 *)
Tells(m) == m \in Responses => handled[m.req] # <<>> /\ handled[m.req][1].result = m.result

ResponsesTell ==
    /\ \A c \in Sockets, i \in Nat : i \in DOMAIN toPublic[c] => Tells(toPublic[c][i])
    /\ \A c \in Sockets : reader[c] \in {"locking", "sending"} => Tells(got[c])

Unhandled == \A r \in Requests : r \notin DOMAIN target => handled[r] = <<>>

FlightInv == Places /\ OnePlace /\ ResponsesTell /\ Unhandled

Inv == TypeInv /\ SocketsInv /\ PendingInv /\ FlightInv

(* What sequences hold after the operations on them.                       *)
LEMMA Appended ==
    ASSUME NEW S, NEW queue \in Seq(S), NEW e \in S
    PROVE  /\ DOMAIN Append(queue, e) = DOMAIN queue \cup {Len(queue) + 1}
           /\ Len(queue) + 1 \notin DOMAIN queue /\ Len(queue) + 1 \in Nat
           /\ \A i \in DOMAIN queue : Append(queue, e)[i] = queue[i]
           /\ Append(queue, e)[Len(queue) + 1] = e
  OBVIOUS

LEMMA TailOf ==
    ASSUME NEW S, NEW queue \in Seq(S), queue # <<>>
    PROVE  /\ \A i \in Nat : i \in DOMAIN Tail(queue) =>
                 i + 1 \in DOMAIN queue /\ Tail(queue)[i] = queue[i + 1] /\ i + 1 # 1
           /\ 1 \in DOMAIN queue /\ Head(queue) = queue[1]
  OBVIOUS

(* Steps that neither write nor take a request.                            *)
LEMMA FlightKept ==
    ASSUME Inv,
           UNCHANGED <<toAgent, target, handled>>, dialed' \in {dialed, dialed + 1},
           \A c \in Sockets : c <= dialed => owner'[c] = owner[c],
           \A s \in Servers : serving'[s] \in {serving[s], NoRequest},
           \A k \in Clients : pc'[k] = "write" => pc[k] = "write" /\ req'[k] = req[k] /\ via'[k] = via[k],
           \A r \in Requests : answer'[r] \in {answer[r], "timeout"} \/ handled[r] # <<>>
    PROVE  Places' /\ OnePlace' /\ Unhandled'
<1>1. /\ dialed \in Nat /\ Sockets \subseteq Nat /\ DOMAIN target \subseteq Requests
      /\ toAgent \in [Sockets -> Seq(Requests)] /\ NoRequest \notin Requests
      /\ \A k \in Clients : pc[k] = "write" => via[k] \in Sockets
  BY Numbers DEF Inv, TypeInv, SocketsOK, ClientsOK, AskedOK, Sockets
<1>2. \A r, s : OnItsWay(r, s) => OnItsWay(r, s)'
  BY <1>1 DEF OnItsWay
<1>3. \A c \in Sockets : c <= dialed => c <= dialed'
  BY <1>1
<1>4. ASSUME NEW c \in Sockets, NEW i \in Nat, i \in DOMAIN toAgent[c] PROVE owner'[c] = owner[c]
  <2>1. toAgent[c] # <<>>
    BY <1>1, <1>4
  <2> QED
    BY <1>1, <2>1 DEF Inv, SocketsInv, Undialed
<1>5. Places'
  <2>1. ASSUME NEW k \in Clients
        PROVE  (pc[k] = "write" => via[k] <= dialed /\ OnItsWay(req[k], owner[via[k]]))'
    <3> SUFFICES ASSUME pc'[k] = "write"
                 PROVE  (via[k] <= dialed /\ OnItsWay(req[k], owner[via[k]]))'
      OBVIOUS
    <3>1. /\ req'[k] = req[k] /\ via'[k] = via[k] /\ via[k] \in Sockets /\ via[k] <= dialed
          /\ OnItsWay(req[k], owner[via[k]])
      BY <1>1 DEF Inv, FlightInv, Places
    <3> QED
      BY <1>2, <1>3, <3>1 DEF OnItsWay
  <2>2. ASSUME NEW c \in Sockets, NEW i \in Nat
        PROVE  (i \in DOMAIN toAgent[c] => OnItsWay(toAgent[c][i], owner[c]))'
    BY <1>2, <1>4 DEF Inv, FlightInv, Places, OnItsWay
  <2>3. ASSUME NEW s \in Servers
        PROVE  (serving[s] # NoRequest => OnItsWay(serving[s], s))'
    BY <1>2 DEF Inv, FlightInv, Places, OnItsWay
  <2> QED
    BY <2>1, <2>2, <2>3 DEF Places
<1>6. OnePlace'
  <2>1. \A c \in Sockets, i \in Nat : i \in DOMAIN toAgent[c] => toAgent[c][i] \in Requests
    BY <1>1
  <2>2. \A k \in Clients : pc[k] = "write" => req[k] \in Requests
    BY DEF Inv, TypeInv, ClientsOK
  <2> QED
    BY <1>1, <2>1, <2>2 DEF Inv, FlightInv, OnePlace
<1> QED
  BY <1>5, <1>6 DEF Inv, FlightInv, Unhandled

(* Steps that put no response anywhere, and of handled only lengthen what  *)
(* is empty.                                                               *)
LEMMA ResponsesKept ==
    ASSUME Inv,
           \A r \in Requests : handled[r] # <<>> => handled'[r] = handled[r],
           \A c \in Sockets, i \in Nat : i \in DOMAIN toPublic'[c] =>
               \/ \E j \in Nat : j \in DOMAIN toPublic[c] /\ toPublic'[c][i] = toPublic[c][j]
               \/ Tells(toPublic[c][i])',
           \A c \in Sockets : reader'[c] \in {"locking", "sending"} =>
               \/ reader[c] \in {"locking", "sending"} /\ got'[c] = got[c]
               \/ \E j \in Nat : j \in DOMAIN toPublic[c] /\ got'[c] = toPublic[c][j]
    PROVE  ResponsesTell'
<1> USE DEF Tells
<1>1. \A m \in Responses : m.req \in Requests
  BY MessageTypes
<1>2. \A m \in Responses : Tells(m) => Tells(m)'
  BY <1>1
<1>3. ASSUME NEW c \in Sockets, NEW i \in Nat, i \in DOMAIN toPublic'[c]
      PROVE  Tells(toPublic[c][i])'
  BY <1>2, <1>3 DEF Inv, FlightInv, ResponsesTell
<1>4. ASSUME NEW c \in Sockets, reader'[c] \in {"locking", "sending"}
      PROVE  Tells(got[c])'
  BY <1>2, <1>4 DEF Inv, FlightInv, ResponsesTell
<1> QED
  BY <1>3, <1>4 DEF ResponsesTell

LEMMA AgentFlight ==
    ASSUME Inv, NEW s \in Servers, Dial(s) \/ Die(s) \/ LoseLink(s) PROVE FlightInv'
<1>1. /\ owner \in [Sockets -> Servers] /\ dialed \in Nat /\ Sockets \subseteq Nat
      /\ serving \in [Servers -> Requests \cup {NoRequest}]
      /\ toPublic \in [Sockets -> Seq(Messages)]
      /\ reader \in [Sockets -> {"none", "reading", "locking", "sending", "done"}]
  BY DEF Inv, TypeInv, PublicOK, SocketsOK, AgentsOK, Sockets
<1>2. /\ UNCHANGED <<pc, req, via, target, handled, answer, toAgent, got>>
      /\ \A t \in Servers : serving'[t] \in {serving[t], NoRequest}
      /\ dialed' \in {dialed, dialed + 1}
      /\ \A c \in Sockets : c <= dialed => owner'[c] = owner[c]
  BY <1>1 DEF Dial, Die, LoseLink, publicVars, socketVars, clientVars, history
<1>3. Places' /\ OnePlace' /\ Unhandled'
  BY <1>2, FlightKept
<1>4. ASSUME NEW c \in Sockets, NEW i \in Nat, i \in DOMAIN toPublic'[c]
      PROVE  \/ \E j \in Nat : j \in DOMAIN toPublic[c] /\ toPublic'[c][i] = toPublic[c][j]
             \/ Tells(toPublic[c][i])'
  <2>1. CASE toPublic'[c] = toPublic[c]
    BY <1>4, <2>1
  <2>2. CASE toPublic'[c] = <<Register>>
    <3>1. toPublic'[c][i] \notin Responses
      BY <1>4, <2>2, MessageTypes
    <3> QED
      BY <3>1 DEF Tells
  <2> QED
    BY <1>1, <2>1, <2>2 DEF Dial, Die, LoseLink, socketVars
<1>5. \A c \in Sockets : reader'[c] \in {"locking", "sending"} => reader[c] \in {"locking", "sending"}
  BY <1>1 DEF Dial, Die, LoseLink, publicVars
<1>6. ResponsesTell'
  BY <1>2, <1>4, <1>5, ResponsesKept
<1> QED
  BY <1>3, <1>6 DEF FlightInv

(* A step of the public server changes an answer only to a timeout, or to  *)
(* what a request that has been carried out came to.                       *)
LEMMA PublicFlight ==
    ASSUME Inv,
           \/ \E c \in Sockets : Break(c) \/ ReaderStep(c)
           \/ \E k \in Clients : Enlist(k) \/ TimeOut(k)
    PROVE  FlightInv'
<1>1. /\ pc \in [Clients -> {"idle", "write", "enlist", "wait"}]
      /\ req \in [Clients -> Requests \cup {NoRequest}] /\ via \in [Clients -> Sockets \cup {NoSocket}]
      /\ answer \in [Requests -> Promise!Answers]
      /\ toPublic \in [Sockets -> Seq(Messages)] /\ got \in [Sockets -> Messages]
      /\ reader \in [Sockets -> {"none", "reading", "locking", "sending", "done"}]
  BY DEF Inv, TypeInv, PublicOK, SocketsOK, ClientsOK, AnswersOK
<1>2. UNCHANGED <<target, handled, toAgent, serving, dialed, owner>>
  BY DEF Break, ReaderStep, ReadRegister, ReadResponse, ReadMessage, Lock, ReadFails, HandOver,
     Enlist, TimeOut, Answer, agentVars, socketVars, history
<1>3. ASSUME NEW k \in Clients, NEW a, Answer(k, a), pc[k] = "wait",
             a = "timeout" \/ handled[req[k]] # <<>>
      PROVE  /\ \A l \in Clients : pc'[l] = "write" =>
                   pc[l] = "write" /\ req'[l] = req[l] /\ via'[l] = via[l]
             /\ \A r \in Requests : answer'[r] \in {answer[r], "timeout"} \/ handled[r] # <<>>
  <2>1. \A l \in Clients : l # k => pc'[l] = pc[l] /\ req'[l] = req[l] /\ via'[l] = via[l]
    BY <1>1, <1>3 DEF Answer
  <2>2. pc'[k] = "idle" /\ \A r \in Requests : r # req[k] => answer'[r] = answer[r]
    BY <1>1, <1>3 DEF Answer
  <2>3. req[k] \in Requests => answer'[req[k]] = a
    BY <1>1, <1>3 DEF Answer
  <2> QED
    BY <1>3, <2>1, <2>2, <2>3
<1>4. /\ \A l \in Clients : pc'[l] = "write" =>
            pc[l] = "write" /\ req'[l] = req[l] /\ via'[l] = via[l]
      /\ \A r \in Requests : answer'[r] \in {answer[r], "timeout"} \/ handled[r] # <<>>
  <2>1. ASSUME NEW c \in Sockets, NEW k \in Clients, HandOver(c, k) PROVE handled[req[k]] # <<>>
    BY <2>1 DEF HandOver, Inv, TypeInv, PublicOK, FlightInv, ResponsesTell, Tells
  <2>2. CASE \E c \in Sockets, k \in Clients : HandOver(c, k)
    BY <1>3, <2>1, <2>2 DEF HandOver
  <2>3. CASE \E k \in Clients : TimeOut(k)
    BY <1>3, <2>3 DEF TimeOut
  <2>4. CASE \E k \in Clients : Enlist(k)
    BY <1>1, <2>4 DEF Enlist, history
  <2>5. CASE \E c \in Sockets : Break(c) \/ ReadRegister(c) \/ ReadResponse(c) \/ Lock(c) \/ ReadFails(c)
    <3>1. UNCHANGED <<pc, req, via, answer>>
      BY <2>5 DEF Break, ReadRegister, ReadResponse, ReadMessage, Lock, ReadFails, clientVars, history
    <3> QED
      BY <3>1
  <2> QED
    BY <2>2, <2>3, <2>4, <2>5 DEF ReaderStep
<1>5. Places' /\ OnePlace' /\ Unhandled'
  BY <1>2, <1>4, FlightKept
<1>6. ASSUME NEW c \in Sockets, NEW i \in Nat, i \in DOMAIN toPublic'[c]
      PROVE  \E j \in Nat : j \in DOMAIN toPublic[c] /\ toPublic'[c][i] = toPublic[c][j]
  <2>1. CASE toPublic'[c] = toPublic[c]
    BY <1>6, <2>1
  <2>2. CASE toPublic[c] # <<>> /\ toPublic'[c] = Tail(toPublic[c])
    BY <1>1, <1>6, <2>2, TailOf
  <2>3. \/ toPublic' = toPublic
        \/ \E d \in Sockets : toPublic[d] # <<>> /\ toPublic' = [toPublic EXCEPT ![d] = Tail(@)]
    BY DEF Break, ReaderStep, ReadRegister, ReadResponse, ReadMessage, Lock, ReadFails, HandOver,
       Enlist, TimeOut, socketVars
  <2> QED
    BY <1>1, <2>1, <2>2, <2>3
<1>7. ASSUME NEW c \in Sockets, reader'[c] \in {"locking", "sending"}
      PROVE  \/ reader[c] \in {"locking", "sending"} /\ got'[c] = got[c]
             \/ \E j \in Nat : j \in DOMAIN toPublic[c] /\ got'[c] = toPublic[c][j]
  <2>1. ASSUME NEW d \in Sockets, NEW m, ReadMessage(d, m), d = c
        PROVE  \E j \in Nat : j \in DOMAIN toPublic[c] /\ got'[c] = toPublic[c][j]
    <3>1. got'[c] = Head(toPublic[c]) /\ toPublic[c] # <<>>
      BY <1>1, <2>1 DEF ReadMessage
    <3> QED
      BY <1>1, <3>1, TailOf
  <2>2. ASSUME NEW d \in Sockets, NEW m, ReadMessage(d, m), d # c
        PROVE  got'[c] = got[c]
    BY <1>1, <2>2 DEF ReadMessage
  <2>3. CASE \E d \in Sockets : ReadRegister(d) \/ ReadResponse(d)
    <3>1. PICK d \in Sockets : ReadRegister(d) \/ ReadResponse(d)
      BY <2>3
    <3>2. \E m : ReadMessage(d, m)
      BY <3>1 DEF ReadRegister, ReadResponse
    <3>3. d # c => reader'[c] = reader[c]
      BY <1>1, <3>1 DEF ReadRegister, ReadResponse
    <3> QED
      BY <1>7, <2>1, <2>2, <3>2, <3>3
  <2>4. CASE \/ \E d \in Sockets : Break(d) \/ Lock(d) \/ ReadFails(d) \/ \E k \in Clients : HandOver(d, k)
             \/ \E k \in Clients : Enlist(k) \/ TimeOut(k)
    <3>1. got' = got
      BY <2>4 DEF Break, Lock, ReadFails, HandOver, Enlist, TimeOut, publicVars
    <3>2. reader[c] \in {"locking", "sending"}
      BY <1>1, <1>7, <2>4 DEF Break, Lock, ReadFails, HandOver, Enlist, TimeOut, publicVars
    <3> QED
      BY <3>1, <3>2
  <2> QED
    BY <2>3, <2>4 DEF ReaderStep
<1>8. ResponsesTell'
  BY <1>2, <1>6, <1>7, ResponsesKept
<1> QED
  BY <1>5, <1>8 DEF FlightInv

(* A request goes from its socket to the agent.                            *)
LEMMA ReadFlight == ASSUME Inv, NEW s \in Servers, ReadRequest(s) PROVE FlightInv'
<1> DEFINE c == link[s]
<1>1. /\ toAgent \in [Sockets -> Seq(Requests)] /\ serving \in [Servers -> Requests \cup {NoRequest}]
      /\ c \in Sockets /\ owner[c] = s /\ toAgent[c] # <<>> /\ NoRequest \notin Requests
      /\ \A k \in Clients : pc[k] = "write" => req[k] \in Requests
  BY Numbers DEF Inv, TypeInv, AgentsOK, SocketsOK, ClientsOK, SocketsInv, OwnLinks, ReadRequest
<1>2. /\ serving' = [serving EXCEPT ![s] = Head(toAgent[c])] /\ serving[s] = NoRequest
      /\ toAgent' = [toAgent EXCEPT ![c] = Tail(@)]
      /\ UNCHANGED <<reader, got, pc, req, via, target, handled, answer, dialed, owner, toPublic>>
  BY DEF ReadRequest, publicVars, clientVars, history
<1>3. 1 \in DOMAIN toAgent[c] /\ 1 \in Nat /\ Head(toAgent[c]) = toAgent[c][1]
  BY <1>1, TailOf
<1>4. ASSUME NEW d \in Sockets, NEW i \in Nat, i \in DOMAIN toAgent'[d]
      PROVE  \E j \in Nat : /\ j \in DOMAIN toAgent[d] /\ toAgent'[d][i] = toAgent[d][j]
                            /\ d = c => j = i + 1 /\ j # 1
                            /\ d # c => j = i
  <2>1. CASE d = c
    <3>1. toAgent'[d] = Tail(toAgent[c])
      BY <1>1, <1>2, <2>1
    <3> QED
      BY <1>1, <1>4, <2>1, <3>1, TailOf
  <2>2. CASE d # c
    BY <1>1, <1>2, <1>4, <2>2
  <2> QED
    BY <2>1, <2>2
<1>5. OnItsWay(toAgent[c][1], s)
  BY <1>1, <1>3 DEF Inv, FlightInv, Places
<1>6. \A t \in Servers : serving'[t] = IF t = s THEN toAgent[c][1] ELSE serving[t]
  BY <1>1, <1>2, <1>3
<1>7. Places'
  <2>1. ASSUME NEW d \in Sockets, NEW i \in Nat, i \in DOMAIN toAgent'[d]
        PROVE  OnItsWay(toAgent[d][i], owner[d])'
    BY <1>2, <1>4, <2>1 DEF Inv, FlightInv, Places, OnItsWay
  <2>2. ASSUME NEW t \in Servers
        PROVE  (serving[t] # NoRequest => OnItsWay(serving[t], t))'
    BY <1>2, <1>5, <1>6 DEF Inv, FlightInv, Places, OnItsWay
  <2>3. ASSUME NEW k \in Clients
        PROVE  (pc[k] = "write" => via[k] <= dialed /\ OnItsWay(req[k], owner[via[k]]))'
    BY <1>2 DEF Inv, FlightInv, Places, OnItsWay
  <2> QED
    BY <2>1, <2>2, <2>3 DEF Places
<1>8. OnePlace'
  <2>1. ASSUME NEW d \in Sockets, NEW e \in Sockets, NEW i \in Nat, NEW j \in Nat,
               i \in DOMAIN toAgent'[d], j \in DOMAIN toAgent'[e], toAgent'[d][i] = toAgent'[e][j]
        PROVE  d = e /\ i = j
    <3>1. PICK m \in Nat : /\ m \in DOMAIN toAgent[d] /\ toAgent'[d][i] = toAgent[d][m]
                           /\ d = c => m = i + 1
                           /\ d # c => m = i
      BY <1>4, <2>1
    <3>2. PICK n \in Nat : /\ n \in DOMAIN toAgent[e] /\ toAgent'[e][j] = toAgent[e][n]
                           /\ e = c => n = j + 1
                           /\ e # c => n = j
      BY <1>4, <2>1
    <3>3. d = e /\ m = n
      BY <2>1, <3>1, <3>2 DEF Inv, FlightInv, OnePlace
    <3> QED
      BY <3>1, <3>2, <3>3
  <2>2. ASSUME NEW d \in Sockets, NEW i \in Nat, i \in DOMAIN toAgent'[d]
        PROVE  /\ \A t \in Servers : toAgent'[d][i] # serving'[t]
               /\ \A k \in Clients : pc[k] = "write" => toAgent'[d][i] # req[k]
    <3>1. PICK m \in Nat : /\ m \in DOMAIN toAgent[d] /\ toAgent'[d][i] = toAgent[d][m]
                           /\ d = c => m # 1
      BY <1>4, <2>2
    <3>2. toAgent[d][m] # toAgent[c][1]
      BY <1>1, <1>3, <3>1 DEF Inv, FlightInv, OnePlace
    <3> QED
      BY <1>6, <3>1, <3>2 DEF Inv, FlightInv, OnePlace
  <2>3. ASSUME NEW t \in Servers, NEW k \in Clients, pc[k] = "write" PROVE serving'[t] # req[k]
    BY <1>1, <1>3, <1>6, <2>3 DEF Inv, FlightInv, OnePlace
  <2>4. pc' = pc /\ req' = req
    BY <1>2
  <2> QED
    BY <2>1, <2>2, <2>3, <2>4 DEF OnePlace
<1>9. ResponsesTell' /\ Unhandled'
  BY <1>2 DEF Inv, FlightInv, ResponsesTell, Unhandled, Tells
<1> QED
  BY <1>7, <1>8, <1>9 DEF FlightInv

(* An agent carries a request out, and sends what came of it.              *)
LEMMA ServeFlight ==
    ASSUME Inv, NEW s \in Servers, Serve(s)
    PROVE  FlightInv' /\ Promise!Next
<1> DEFINE r == serving[s]
<1>1. PICK x \in Results :
         /\ handled' = [handled EXCEPT ![r] = Append(@, [server |-> s, result |-> x])]
         /\ toPublic' = Put(toPublic, link[s], Response(r, x))
  BY DEF Serve
<1>2. /\ serving' = [serving EXCEPT ![s] = NoRequest]
      /\ UNCHANGED <<reader, got, pc, req, via, target, answer, dialed, owner, toAgent>>
  BY DEF Serve, publicVars, clientVars
<1>3. /\ r \in Requests /\ serving \in [Servers -> Requests \cup {NoRequest}]
      /\ toAgent \in [Sockets -> Seq(Requests)] /\ toPublic \in [Sockets -> Seq(Messages)]
      /\ handled \in [Requests -> Seq([server : Servers, result : Results])]
      /\ up \subseteq Sockets /\ DOMAIN target \subseteq Requests /\ NoRequest \notin Requests
      /\ \A k \in Clients : pc[k] = "write" => req[k] \in Requests
  BY Numbers DEF Inv, TypeInv, AgentsOK, SocketsOK, ClientsOK, HandledOK, AskedOK, Serve
<1>4. OnItsWay(r, s)
  BY <1>3 DEF Inv, FlightInv, Places
<1>5. /\ \A q \in Requests : q # r => handled'[q] = handled[q]
      /\ handled'[r] = <<[server |-> s, result |-> x]>>
  BY <1>1, <1>3, <1>4 DEF OnItsWay
<1>6. \A t \in Servers : serving'[t] = IF t = s THEN NoRequest ELSE serving[t]
  BY <1>2, <1>3
<1>7. \A q, t : OnItsWay(q, t) /\ q # r => OnItsWay(q, t)'
  BY <1>2, <1>3, <1>5 DEF OnItsWay
<1>8. Places'
  <2>1. ASSUME NEW d \in Sockets, NEW i \in Nat, i \in DOMAIN toAgent[d]
        PROVE  OnItsWay(toAgent[d][i], owner[d])'
    BY <1>2, <1>7, <2>1 DEF Inv, FlightInv, Places, OnePlace, OnItsWay
  <2>2. ASSUME NEW t \in Servers
        PROVE  (serving[t] # NoRequest => OnItsWay(serving[t], t))'
    BY <1>4, <1>6, <1>7 DEF Inv, FlightInv, Places, OnItsWay
  <2>3. ASSUME NEW k \in Clients
        PROVE  (pc[k] = "write" => via[k] <= dialed /\ OnItsWay(req[k], owner[via[k]]))'
    BY <1>2, <1>7 DEF Inv, FlightInv, Places, OnePlace, OnItsWay
  <2> QED
    BY <1>2, <2>1, <2>2, <2>3 DEF Places
<1>9. OnePlace'
  BY <1>2, <1>3, <1>6 DEF Inv, FlightInv, OnePlace
<1>10. Unhandled'
  BY <1>2, <1>4, <1>5 DEF Inv, FlightInv, Unhandled, OnItsWay
<1>11. ResponsesTell'
  <2>1. \A q \in Requests : handled[q] # <<>> => handled'[q] = handled[q]
    BY <1>4, <1>5 DEF OnItsWay
  <2>2. Response(r, x) \in Messages /\ \A m : m = Response(r, x) => Tells(m)'
    <3>1. handled'[r] # <<>> /\ handled'[r][1].result = x
      BY <1>5
    <3> QED
      BY <1>3, <3>1, MessageTypes DEF Tells
  <2>3. ASSUME NEW d \in Sockets, NEW i \in Nat, i \in DOMAIN toPublic'[d]
        PROVE  \/ \E j \in Nat : j \in DOMAIN toPublic[d] /\ toPublic'[d][i] = toPublic[d][j]
               \/ Tells(toPublic[d][i])'
    <3>1. CASE toPublic'[d] = toPublic[d]
      BY <2>3, <3>1
    <3>2. CASE toPublic'[d] = Append(toPublic[d], Response(r, x))
      <4>1. CASE i \in DOMAIN toPublic[d]
        BY <1>3, <2>2, <3>2, <4>1, Appended
      <4>2. CASE i = Len(toPublic[d]) + 1
        <5>1. toPublic'[d][i] = Response(r, x)
          BY <1>3, <2>2, <3>2, <4>2, Appended
        <5> QED
          BY <2>2, <5>1 DEF Tells
      <4> QED
        BY <1>3, <2>2, <2>3, <3>2, <4>1, <4>2, Appended
    <3> QED
      BY <1>1, <1>3, <3>1, <3>2 DEF Put
  <2> QED
    BY <1>2, <2>1, <2>3, ResponsesKept
<1>12. Promise!Handle(r, x)
  BY <1>1, <1>2, <1>3, <1>4
  DEF Promise!Handle, Promise!Asked, Promise!NoAnswer, Promise!Timeout, OnItsWay
<1> QED
  BY <1>3, <1>8, <1>9, <1>10, <1>11, <1>12 DEF FlightInv, Promise!Next

(* A new request finds its agent's socket, or that there is none.          *)
LEMMA FindFlight ==
    ASSUME Inv, NEW k \in Clients, NEW r \in Requests, NEW s \in Servers, FindAgent(k, r, s)
    PROVE  FlightInv' /\ Promise!Next
<1>1. /\ pc \in [Clients -> {"idle", "write", "enlist", "wait"}]
      /\ req \in [Clients -> Requests \cup {NoRequest}] /\ via \in [Clients -> Sockets \cup {NoSocket}]
      /\ answer \in [Requests -> Promise!Answers] /\ DOMAIN target \subseteq Requests
      /\ dialed \in Nat /\ Sockets \subseteq Nat /\ known \subseteq Sockets
      /\ agents \in [Servers -> Sockets \cup {NoSocket}]
  BY DEF Inv, TypeInv, PublicOK, SocketsOK, ClientsOK, AnswersOK, AskedOK, Sockets
<1>2. /\ r \notin DOMAIN target /\ DOMAIN target' = DOMAIN target \cup {r} /\ target'[r] = s
      /\ \A q \in DOMAIN target : target'[q] = target[q]
      /\ UNCHANGED <<reader, got, handled, serving, dialed, owner, toPublic, toAgent>>
      /\ pc[k] = "idle"
  BY DEF FindAgent, publicVars, agentVars, socketVars
<1>3. handled[r] = <<>> /\ answer[r] = "none" /\ \A q \in Requests : q # r => answer'[q] = answer[q]
  BY <1>1, <1>2 DEF FindAgent, Inv, PendingInv, Unanswered, FlightInv, Unhandled
<1>4. \A q, t : OnItsWay(q, t) => OnItsWay(q, t)' /\ q # r
  BY <1>1, <1>2, <1>3 DEF OnItsWay
<1>5. ASSUME NEW l \in Clients, pc'[l] = "write"
      PROVE  \/ pc[l] = "write" /\ req'[l] = req[l] /\ via'[l] = via[l]
             \/ req'[l] = r /\ via'[l] <= dialed /\ owner[via'[l]] = s /\ answer'[r] = "none"
  <2>1. CASE UNCHANGED clientVars
    BY <1>5, <2>1 DEF clientVars
  <2>2. CASE /\ agents[s] # NoSocket /\ UNCHANGED answer
             /\ pc' = [pc EXCEPT ![k] = "write"]
             /\ req' = [req EXCEPT ![k] = r]
             /\ via' = [via EXCEPT ![k] = agents[s]]
    <3>1. owner[agents[s]] = s /\ agents[s] \in known
      BY <2>2 DEF Inv, SocketsInv, AgentsAreRead
    <3>2. agents[s] <= dialed
      <4>1. \A d \in Sockets : d <= dialed \/ d > dialed
        BY <1>1
      <4> QED
        BY <1>1, <3>1, <4>1 DEF Inv, SocketsInv, Undialed
    <3>3. CASE l = k
      <4>1. req'[l] = r /\ via'[l] = agents[s]
        BY <1>1, <2>2, <3>3
      <4> QED
        BY <1>3, <2>2, <3>1, <3>2, <4>1
    <3>4. CASE l # k
      BY <1>1, <1>5, <2>2, <3>4
    <3> QED
      BY <3>3, <3>4
  <2> QED
    BY <2>1, <2>2 DEF FindAgent
<1>6. Places'
  <2>1. ASSUME NEW d \in Sockets, NEW i \in Nat
        PROVE  (i \in DOMAIN toAgent[d] => OnItsWay(toAgent[d][i], owner[d]))'
    BY <1>2, <1>4 DEF Inv, FlightInv, Places, OnItsWay
  <2>2. ASSUME NEW t \in Servers
        PROVE  (serving[t] # NoRequest => OnItsWay(serving[t], t))'
    BY <1>2, <1>4 DEF Inv, FlightInv, Places, OnItsWay
  <2>3. ASSUME NEW l \in Clients
        PROVE  (pc[l] = "write" => via[l] <= dialed /\ OnItsWay(req[l], owner[via[l]]))'
    <3> SUFFICES ASSUME pc'[l] = "write"
                 PROVE  (via[l] <= dialed /\ OnItsWay(req[l], owner[via[l]]))'
      OBVIOUS
    <3>1. CASE pc[l] = "write" /\ req'[l] = req[l] /\ via'[l] = via[l]
      BY <1>2, <1>4, <3>1 DEF Inv, FlightInv, Places, OnItsWay
    <3>2. CASE req'[l] = r /\ via'[l] <= dialed /\ owner[via'[l]] = s /\ answer'[r] = "none"
      BY <1>2, <1>3, <3>2 DEF OnItsWay
    <3> QED
      BY <1>5, <3>1, <3>2
  <2> QED
    BY <2>1, <2>2, <2>3 DEF Places
<1>7. OnePlace'
  <2>1. \A d \in Sockets, i \in Nat : i \in DOMAIN toAgent[d] => toAgent[d][i] # r
    BY <1>4 DEF Inv, FlightInv, Places
  <2>2. \A t \in Servers : serving[t] # r
    <3>1. r # NoRequest
      BY Numbers
    <3> QED
      BY <1>4, <3>1 DEF Inv, FlightInv, Places
  <2>3. \A l \in Clients : pc'[l] = "write" => (pc[l] = "write" /\ req'[l] = req[l]) \/ req'[l] = r
    BY <1>5
  <2>4. toAgent' = toAgent /\ serving' = serving
    BY <1>2
  <2> QED
    BY <2>1, <2>2, <2>3, <2>4 DEF Inv, FlightInv, OnePlace
<1>8. ResponsesTell' /\ Unhandled'
  BY <1>2 DEF Inv, FlightInv, ResponsesTell, Unhandled, Tells
<1>9. Promise!Ask(r, s) \/ Promise!Refuse(r, s)
  BY DEF FindAgent, Promise!Ask, Promise!Refuse, Promise!AskFor, Promise!Asked, Promise!Offline
<1> QED
  BY <1>6, <1>7, <1>8, <1>9 DEF FlightInv, Promise!Next

(* It is written to that socket, if it still is one.                       *)
LEMMA SendFlight == ASSUME Inv, NEW k \in Clients, SendRequest(k) PROVE FlightInv'
<1> DEFINE c == via[k]
           r == req[k]
<1>1. /\ pc \in [Clients -> {"idle", "write", "enlist", "wait"}]
      /\ toAgent \in [Sockets -> Seq(Requests)]
      /\ c \in Sockets /\ r \in Requests
  BY DEF Inv, TypeInv, SocketsOK, ClientsOK, SendRequest
<1>2. /\ UNCHANGED <<reader, got, req, via, target, handled, answer, serving, dialed, owner, toPublic>>
      /\ pc' = [pc EXCEPT ![k] = "enlist"] /\ pc[k] = "write"
  BY DEF SendRequest, publicVars, agentVars, history
<1>3. \A l \in Clients : pc'[l] = "write" => l # k /\ pc[l] = "write" /\ req[l] # r
  BY <1>1, <1>2 DEF Inv, PendingInv, ClientsDiffer
<1>4. ASSUME NEW d \in Sockets, NEW i \in Nat, i \in DOMAIN toAgent'[d]
      PROVE  \/ i \in DOMAIN toAgent[d] /\ toAgent'[d][i] = toAgent[d][i]
             \/ d = c /\ i = Len(toAgent[c]) + 1 /\ toAgent'[d][i] = r
  <2>1. CASE toAgent'[d] = toAgent[d]
    BY <1>4, <2>1
  <2>2. CASE d = c /\ toAgent'[d] = Append(toAgent[c], r)
    BY <1>1, <1>4, <2>2, Appended
  <2> QED
    BY <1>1, <2>1, <2>2 DEF SendRequest, Put
<1>5. OnItsWay(r, owner[c])
  BY <1>2 DEF Inv, FlightInv, Places
<1>6. Places'
  <2>1. ASSUME NEW d \in Sockets, NEW i \in Nat, i \in DOMAIN toAgent'[d]
        PROVE  OnItsWay(toAgent[d][i], owner[d])'
    BY <1>2, <1>4, <1>5, <2>1 DEF Inv, FlightInv, Places, OnItsWay
  <2>2. ASSUME NEW t \in Servers
        PROVE  (serving[t] # NoRequest => OnItsWay(serving[t], t))'
    BY <1>2 DEF Inv, FlightInv, Places, OnItsWay
  <2>3. ASSUME NEW l \in Clients
        PROVE  (pc[l] = "write" => via[l] <= dialed /\ OnItsWay(req[l], owner[via[l]]))'
    BY <1>2, <1>3 DEF Inv, FlightInv, Places, OnItsWay
  <2> QED
    BY <2>1, <2>2, <2>3 DEF Places
<1>7. OnePlace'
  <2>1. ASSUME NEW d \in Sockets, NEW e \in Sockets, NEW i \in Nat, NEW j \in Nat,
               i \in DOMAIN toAgent'[d], j \in DOMAIN toAgent'[e], toAgent'[d][i] = toAgent'[e][j]
        PROVE  d = e /\ i = j
    <3>1. \A f \in Sockets, m \in Nat : m \in DOMAIN toAgent[f] => toAgent[f][m] # r
      BY <1>2 DEF Inv, FlightInv, OnePlace
    <3> QED
      BY <1>4, <2>1, <3>1 DEF Inv, FlightInv, OnePlace
  <2>2. ASSUME NEW d \in Sockets, NEW i \in Nat, i \in DOMAIN toAgent'[d]
        PROVE  /\ \A t \in Servers : toAgent'[d][i] # serving[t]
               /\ \A l \in Clients : pc'[l] = "write" => toAgent'[d][i] # req[l]
    BY <1>2, <1>3, <1>4, <2>2 DEF Inv, FlightInv, OnePlace
  <2>3. \A t \in Servers, l \in Clients : pc'[l] = "write" => serving[t] # req[l]
    BY <1>3 DEF Inv, FlightInv, OnePlace
  <2>4. serving' = serving /\ req' = req
    BY <1>2
  <2> QED
    BY <2>1, <2>2, <2>3, <2>4 DEF OnePlace
<1>8. ResponsesTell' /\ Unhandled'
  BY <1>2 DEF Inv, FlightInv, ResponsesTell, Unhandled, Tells
<1> QED
  BY <1>6, <1>7, <1>8 DEF FlightInv

LEMMA FlightInit == ASSUME Init PROVE FlightInv
<1>1. /\ \A c \in Sockets : DOMAIN toAgent[c] = {} /\ DOMAIN toPublic[c] = {}
      /\ \A s \in Servers : serving[s] = NoRequest
      /\ \A k \in Clients : pc[k] = "idle"
      /\ \A c \in Sockets : reader[c] = "none"
      /\ \A r \in Requests : handled[r] = <<>>
  BY DEF Init, Promise!Init
<1> QED
  BY <1>1 DEF FlightInv, Places, OnePlace, ResponsesTell, Unhandled

LEMMA FlightStep == ASSUME Inv, [Next]_vars PROVE FlightInv'
<1>1. CASE UNCHANGED vars
  BY <1>1 DEF vars, publicVars, agentVars, socketVars, clientVars, history, Inv, FlightInv, Places,
     OnePlace, ResponsesTell, Unhandled, OnItsWay, Tells
<1> QED
  BY <1>1, AgentFlight, PublicFlight, ReadFlight, ServeFlight, FindFlight, SendFlight
  DEF Next, AgentStep, ClientStep

-----------------------------------------------------------------------------
(* Refinement.                                                             *)

(* A step of the bridge is a step of the promise, or none of it.           *)
LEMMA StepKeepsPromise == ASSUME Inv, [Next]_vars PROVE [Promise!Next]_(Promise!replyVars)
<1> USE DEF Promise!replyVars
<1>1. CASE UNCHANGED vars
  BY <1>1 DEF vars, history
<1>2. ASSUME NEW s \in Servers, Dial(s) \/ Die(s) \/ ReadRequest(s) \/ LoseLink(s)
      PROVE  UNCHANGED <<target, handled, answer>>
  BY <1>2 DEF Dial, Die, ReadRequest, LoseLink, history
<1>3. ASSUME NEW c \in Sockets,
             Break(c) \/ ReadRegister(c) \/ ReadResponse(c) \/ Lock(c) \/ ReadFails(c)
      PROVE  UNCHANGED <<target, handled, answer>>
  BY <1>3 DEF Break, ReadRegister, ReadResponse, ReadMessage, Lock, ReadFails, history
<1>4. ASSUME NEW k \in Clients, SendRequest(k) \/ Enlist(k)
      PROVE  UNCHANGED <<target, handled, answer>>
  BY <1>4 DEF SendRequest, Enlist, history
<1>5. ASSUME NEW c \in Sockets, NEW k \in Clients, HandOver(c, k) PROVE Promise!Next
  <2>1. /\ req[k] \in Requests /\ req[k] \in DOMAIN target /\ answer[req[k]] = "none"
        /\ handled[req[k]] # <<>> /\ handled[req[k]][1].result = got[c].result
    BY <1>5 DEF HandOver, Inv, TypeInv, PublicOK, ClientsOK, PendingInv, Unanswered, FlightInv,
       ResponsesTell, Tells
  <2>2. Promise!Reply(req[k])
    BY <1>5, <2>1
    DEF HandOver, Answer, Promise!Reply, Promise!Open, Promise!Asked, Promise!NoAnswer
  <2> QED
    BY <2>1, <2>2 DEF Promise!Next
<1>6. ASSUME NEW k \in Clients, TimeOut(k) PROVE Promise!Next
  <2>1. req[k] \in Requests /\ req[k] \in DOMAIN target /\ answer[req[k]] = "none"
    BY <1>6 DEF TimeOut, Inv, TypeInv, ClientsOK, PendingInv, Unanswered
  <2>2. Promise!GiveUp(req[k])
    BY <1>6, <2>1 DEF TimeOut, Answer, Promise!GiveUp, Promise!Open, Promise!Asked,
       Promise!NoAnswer, Promise!Timeout
  <2> QED
    BY <2>1, <2>2 DEF Promise!Next
<1> QED
  BY <1>1, <1>2, <1>3, <1>4, <1>5, <1>6, ServeFlight, FindFlight
  DEF Next, AgentStep, ReaderStep, ClientStep

(* The bridge does what RequestReply promises: a request is carried out at *)
(* most once, by the server it names, and answered with what came of it,   *)
(* with a timeout, or as offline and then never carried out (main.go:      *)
(* 90-163, agent.go:65-86).                                                *)
THEOREM BridgeKeepsPromise == Spec => KeepsPromise
<1>1. Init => Inv /\ Promise!Init
  BY InitTypes, SocketsInit, PendingInit, FlightInit DEF Inv, Init
<1>2. Inv /\ [Next]_vars => Inv'
  BY TypeStep, SocketsStep, PendingStep, FlightStep DEF Inv
<1> QED
  BY <1>1, <1>2, StepKeepsPromise, PTL DEF Spec, KeepsPromise, Promise!Spec

=============================================================================
