-------------------------- MODULE HomeServerProofs --------------------------
(***************************************************************************)
(* Proofs about HomeServer for any handlers, names, devices, requests,     *)
(* crashes and failures.                                                   *)
(***************************************************************************)
EXTENDS HomeServer, TLAPS

-----------------------------------------------------------------------------
(* Type correctness, with the types of what TypeOK leaves open.            *)

Users == 1 .. Len(users)
UserRow == [name : Names, password : Passwords, email : Passwords]
DeviceRow == [owner : {Api!Nobody} \cup Users, accepted : BOOLEAN, namedBy : {Api!Nobody} \cup Users]

Requests ==
    {Auth!Idle}
        \cup [op : {"register"}, name : Names, password : Passwords, kind : Auth!Kinds]
        \cup [op : {"issue"}, user : Users, kind : Auth!Kinds]
        \cup [op : {"ttl", "expire"}, token : Nat, user : Users]
        \cup [op : {"change"}, user : Users, column : {"password", "email"}, value : Passwords]
        \cup [op : {"command", "name", "delete"}, user : Users, device : Devices]

EnvOK ==
    /\ Env!TypeOK /\ made \in Nat
    /\ \A k \in DOMAIN outside : outside[k] \in Nat \ {0}
UsersOK == users \in Seq(UserRow)
TokensOK == \A t \in tokens : t.user \in Users /\ t.key # 0 /\ t.home # 0
SessionsOK ==
    /\ opened \in Nat /\ DOMAIN sessions \subseteq 1 .. opened /\ ended \subseteq 1 .. opened
    /\ \A t \in DOMAIN sessions : sessions[t] \in [user : Users, ttl : {"fresh", "old"}]
DevicesOK == DOMAIN device \subseteq Devices /\ \A d \in DOMAIN device : device[d] \in DeviceRow
RequestsOK ==
    /\ request \in [Handlers -> Requests]
    /\ phase # "up" => request = [h \in Handlers |-> Auth!Idle]
    /\ served \in 0 .. MaxRequests
NamesOK == overlapped \subseteq Names

TypeInv ==
    EnvOK /\ UsersOK /\ TokensOK /\ SessionsOK /\ DevicesOK /\ RequestsOK /\ NamesOK

(* The rows of users are numbered from 1.                                  *)
LEMMA UserNumbers == ASSUME UsersOK PROVE DOMAIN users = Users /\ Len(users) \in Nat
  BY DEF UsersOK, Users

(* The start of the process keeps the types of its variables.              *)
LEMMA StartTypes == ASSUME TypeInv, Start PROVE TypeInv'
<1>1. UNCHANGED <<Users, Requests, DeviceRow>>
  BY DEF Start, accounts, Users, Requests, DeviceRow
<1>2. request = [h \in Handlers |-> Auth!Idle] /\ phase # "up"
  BY DEF TypeInv, RequestsOK, Start, Env!LoadConfig, Env!Truncate, Env!Flush, Env!SaveFails
<1>3. RequestsOK' /\ UsersOK' /\ TokensOK' /\ SessionsOK' /\ DevicesOK' /\ NamesOK'
  BY <1>1, <1>2 DEF TypeInv, RequestsOK, UsersOK, TokensOK, SessionsOK, DevicesOK, NamesOK, UserRow,
     Start, accounts, devices, requests
<1>4. CASE Env!LoadConfig
  <2>1. \A k \in Env!Secrets : Env!Get(k) \in Nat
    BY DEF TypeInv, EnvOK, Env!TypeOK, Env!Get
  <2> QED
    BY <1>3, <1>4, <2>1 DEF TypeInv, EnvOK, Env!TypeOK, Env!LoadConfig
<1>5. CASE Env!Truncate
  BY <1>3, <1>5 DEF TypeInv, EnvOK, Env!TypeOK, Env!Truncate, Env!NoLines
<1>6. CASE Env!Flush
  BY <1>3, <1>6 DEF TypeInv, EnvOK, Env!TypeOK, Env!Flush, Env!NoLines
<1>7. CASE Env!SaveFails
  BY <1>3, <1>7, BoundsAssumption DEF TypeInv, EnvOK, Env!TypeOK, Env!SaveFails, Env!NoLines
<1> QED
  BY <1>4, <1>5, <1>6, <1>7 DEF Start

(* So does its end.                                                        *)
LEMMA CrashTypes == ASSUME TypeInv, Crash PROVE TypeInv'
<1>1. UNCHANGED <<Users, Requests, DeviceRow>>
  BY DEF Crash, accounts, Users, Requests, DeviceRow
<1>2. request' = [h \in Handlers |-> Auth!Idle]
  BY DEF Crash
<1>3. RequestsOK' /\ UsersOK' /\ TokensOK' /\ SessionsOK' /\ DevicesOK' /\ NamesOK'
  BY <1>1, <1>2 DEF TypeInv, RequestsOK, UsersOK, TokensOK, SessionsOK, DevicesOK, NamesOK, UserRow,
     Crash, accounts, devices, Requests
<1>4. EnvOK'
  BY BoundsAssumption DEF TypeInv, EnvOK, Env!TypeOK, Crash, Env!Crash, Env!NoLines, Env!Unset
<1> QED
  BY <1>3, <1>4 DEF TypeInv

(* A handler's next step is a request, and there is room for it.           *)
LEMMA Doing ==
    ASSUME RequestsOK, NEW h \in Handlers, NEW r \in Requests, Auth!Does(h, r),
           served' = served \/ Auth!Serve, Requests \subseteq Requests', phase' = phase, phase = "up"
    PROVE  RequestsOK'
  BY BoundsAssumption DEF RequestsOK, Auth!Does, Auth!Serve

(* What a request does to users, tokens and sessions keeps the types.      *)
LEMMA AccountTypes ==
    ASSUME TypeInv, phase = "up", UNCHANGED <<env, devices>>, NEW h \in Handlers, Auth!Handle(h)
    PROVE  TypeInv'
<1>1. EnvOK'
  BY DEF TypeInv, EnvOK, Env!TypeOK, env
<1>2. phase' = phase /\ cfg' = cfg /\ device' = device
  BY DEF env, devices
<1>3. Auth!Idle \in Requests /\ request[h] \in Requests /\ DOMAIN users = Users /\ Len(users) \in Nat
  BY UserNumbers DEF Requests, TypeInv, RequestsOK
<1>4. ASSUME users' = users PROVE UsersOK' /\ DevicesOK' /\ UNCHANGED <<Users, Requests>>
  BY <1>2, <1>4 DEF TypeInv, UsersOK, DevicesOK, DeviceRow, Users, Requests, UserRow
<1>5. ASSUME UNCHANGED <<users, tokens>> PROVE TokensOK'
  BY <1>5 DEF TypeInv, TokensOK, Users
<1>6. ASSUME UNCHANGED <<users, sessions, opened, ended>> PROVE SessionsOK'
  BY <1>6 DEF TypeInv, SessionsOK, Users
<1>7. ASSUME NEW r \in Requests, users' = users, Auth!Does(h, r), served' = served \/ Auth!Serve
      PROVE  RequestsOK'
  BY <1>2, <1>4, <1>7, Doing DEF TypeInv
<1>8. ASSUME NEW r \in Requests, users' = users, Auth!Starts(h, r)
      PROVE  RequestsOK'
  BY <1>7, <1>8 DEF Auth!Starts
<1>9. CASE \E n \in Names, p \in Passwords, kind \in Auth!Kinds : Auth!CheckName(h, n, p, kind)
  <2>1. PICK n \in Names, p \in Passwords, kind \in Auth!Kinds : Auth!CheckName(h, n, p, kind)
    BY <1>9
  <2>2. [op |-> "register", name |-> n, password |-> p, kind |-> kind] \in Requests
    BY DEF Requests
  <2>3. UNCHANGED <<users, tokens, sessions, opened, ended>> /\ NamesOK'
    BY <2>1 DEF Auth!CheckName, TypeInv, NamesOK
  <2>4. RequestsOK'
    BY <1>3, <1>8, <2>1, <2>2, <2>3 DEF Auth!CheckName
  <2> QED
    BY <1>1, <1>4, <1>5, <1>6, <2>3, <2>4 DEF TypeInv
<1>10. CASE \E n \in Names, p \in Passwords, kind \in Auth!Kinds : Auth!Authenticate(h, n, p, kind)
  <2>1. PICK n \in Names, p \in Passwords, kind \in Auth!Kinds : Auth!Authenticate(h, n, p, kind)
    BY <1>10
  <2>2. \A u \in Users : Auth!Issuing(u, kind) \in Requests
    BY DEF Requests, Auth!Issuing
  <2>3. UNCHANGED <<users, tokens, sessions, opened, ended>> /\ NamesOK'
    BY <2>1 DEF Auth!Authenticate, Auth!accounts, TypeInv, NamesOK
  <2>4. RequestsOK'
    BY <1>3, <1>8, <2>1, <2>2, <2>3 DEF Auth!Authenticate
  <2> QED
    BY <1>1, <1>4, <1>5, <1>6, <2>3, <2>4 DEF TypeInv
<1>11. CASE Auth!InsertUser(h)
  <2>1. request[h] \in [op : {"register"}, name : Names, password : Passwords, kind : Auth!Kinds]
    BY <1>3, <1>11 DEF Auth!InsertUser, Requests, Auth!Idle
  <2>2. UsersOK' /\ Len(users') = Len(users) + 1
    BY <1>11, <2>1 DEF Auth!InsertUser, TypeInv, UsersOK, UserRow
  <2>3. Users \subseteq Users' /\ Len(users) + 1 \in Users'
    BY <1>3, <2>2 DEF Users
  <2>4. Requests \subseteq Requests' /\ DeviceRow \subseteq DeviceRow'
    BY <2>3 DEF Requests, DeviceRow
  <2>5. TokensOK' /\ SessionsOK' /\ NamesOK'
    BY <1>11, <2>3 DEF Auth!InsertUser, TypeInv, TokensOK, SessionsOK, NamesOK
  <2>6. DevicesOK'
    BY <1>2, <2>4 DEF TypeInv, DevicesOK
  <2>7. Auth!Issuing(Len(users) + 1, request[h].kind) \in Requests'
    BY <2>1, <2>3 DEF Auth!Issuing, Requests
  <2>8. RequestsOK'
    BY <1>2, <1>11, <2>4, <2>7 DEF Auth!InsertUser, Auth!Does, TypeInv, RequestsOK
  <2> QED
    BY <1>1, <2>2, <2>5, <2>6, <2>8 DEF TypeInv
<1>12. CASE Auth!IssueToken(h)
  <2>1. request[h] \in [op : {"issue"}, user : Users, kind : Auth!Kinds]
    BY <1>3, <1>12 DEF Auth!IssueToken, Requests, Auth!Idle
  <2>2. cfg["JWT_SECRET"] # 0 /\ cfg["AGENT_ID"] # 0
    BY DEF TypeInv, EnvOK, Env!TypeOK, Env!Secrets
  <2>3. users' = users /\ TokensOK' /\ SessionsOK' /\ NamesOK'
    BY <1>12, <2>1, <2>2, <1>6 DEF Auth!IssueToken, TypeInv, TokensOK, NamesOK, Users
  <2> QED
    BY <1>1, <1>3, <1>4, <1>7, <1>12, <2>3 DEF Auth!IssueToken, TypeInv
<1>13. CASE Auth!OpenSession(h)
  <2>1. request[h] \in [op : {"issue"}, user : Users, kind : Auth!Kinds]
    BY <1>3, <1>13 DEF Auth!OpenSession, Requests, Auth!Idle
  <2>2. users' = users /\ tokens' = tokens /\ NamesOK'
    BY <1>13 DEF Auth!OpenSession, TypeInv, NamesOK
  <2>3. SessionsOK'
    BY <1>13, <2>1 DEF Auth!OpenSession, TypeInv, SessionsOK, Users
  <2> QED
    BY <1>1, <1>3, <1>4, <1>5, <1>7, <1>13, <2>2, <2>3 DEF Auth!OpenSession, TypeInv
<1>14. CASE \E t \in 1 .. opened : Auth!GetSession(h, t)
  <2>1. PICK t \in 1 .. opened : Auth!GetSession(h, t)
    BY <1>14
  <2>2. t \in DOMAIN sessions => [op |-> "ttl", token |-> t, user |-> sessions[t].user] \in Requests
    BY DEF Requests, TypeInv, SessionsOK
  <2>3. UNCHANGED <<users, tokens, sessions, opened, ended>> /\ NamesOK'
    BY <2>1 DEF Auth!GetSession, Auth!accounts, TypeInv, NamesOK
  <2>4. RequestsOK'
    BY <1>3, <1>8, <2>1, <2>2, <2>3 DEF Auth!GetSession
  <2> QED
    BY <1>1, <1>4, <1>5, <1>6, <2>3, <2>4 DEF TypeInv
<1>15. CASE \E t \in 1 .. opened : Auth!LogoutSession(h, t)
  <2>1. UNCHANGED <<users, tokens>> /\ NamesOK'
    BY <1>15 DEF Auth!LogoutSession, TypeInv, NamesOK
  <2>2. SessionsOK'
    BY <1>15 DEF Auth!LogoutSession, Auth!Without, TypeInv, SessionsOK, Users
  <2>3. RequestsOK'
    BY <1>3, <1>8, <1>15, <2>1 DEF Auth!LogoutSession
  <2> QED
    BY <1>1, <1>4, <1>5, <2>1, <2>2, <2>3 DEF TypeInv
<1>16. CASE Auth!ReadTTL(h)
  <2>1. request[h] \in [op : {"ttl", "expire"}, token : Nat, user : Users]
    BY <1>3, <1>16 DEF Auth!ReadTTL, Requests, Auth!Idle
  <2>2. [request[h] EXCEPT !.op = "expire"] \in Requests
    BY <2>1 DEF Requests
  <2>3. UNCHANGED <<users, tokens, sessions, opened, ended>> /\ NamesOK'
    BY <1>16 DEF Auth!ReadTTL, Auth!accounts, TypeInv, NamesOK
  <2>4. RequestsOK'
    BY <1>3, <1>7, <1>16, <2>2, <2>3 DEF Auth!ReadTTL
  <2> QED
    BY <1>1, <1>4, <1>5, <1>6, <2>3, <2>4 DEF TypeInv
<1>17. CASE Auth!Prolong(h)
  <2>1. users' = users /\ tokens' = tokens /\ NamesOK'
    BY <1>17 DEF Auth!Prolong, TypeInv, NamesOK
  <2>2. SessionsOK'
    BY <1>17 DEF Auth!Prolong, TypeInv, SessionsOK, Users
  <2> QED
    BY <1>1, <1>3, <1>4, <1>5, <1>7, <1>17, <2>1, <2>2 DEF Auth!Prolong, TypeInv
<1>18. CASE \E u \in DOMAIN users, p, v \in Passwords, column \in {"password", "email"} :
              Auth!CheckPassword(h, u, p, column, v)
  <2>1. PICK u \in DOMAIN users, p \in Passwords, v \in Passwords, column \in {"password", "email"} :
               Auth!CheckPassword(h, u, p, column, v)
    BY <1>18
  <2>2. [op |-> "change", user |-> u, column |-> column, value |-> v] \in Requests
    BY <1>3 DEF Requests
  <2>3. UNCHANGED <<users, tokens, sessions, opened, ended>> /\ NamesOK'
    BY <2>1 DEF Auth!CheckPassword, Auth!accounts, TypeInv, NamesOK
  <2>4. RequestsOK'
    BY <1>3, <1>8, <2>1, <2>2, <2>3 DEF Auth!CheckPassword
  <2> QED
    BY <1>1, <1>4, <1>5, <1>6, <2>3, <2>4 DEF TypeInv
<1>19. CASE Auth!UpdateUser(h)
  <2>1. request[h] \in [op : {"change"}, user : Users, column : {"password", "email"}, value : Passwords]
    BY <1>3, <1>19 DEF Auth!UpdateUser, Requests, Auth!Idle
  <2>a. users[request[h].user] \in UserRow /\ request[h].user \in 1 .. Len(users)
    BY <1>3, <2>1 DEF TypeInv, UsersOK, Users
  <2>b. PICK row \in UserRow : users' = [users EXCEPT ![request[h].user] = row]
    BY <1>19, <2>1, <2>a DEF Auth!UpdateUser, UserRow
  <2>2. UsersOK' /\ Len(users') = Len(users)
    BY <2>a, <2>b DEF TypeInv, UsersOK
  <2>3. UNCHANGED <<Users, Requests, DeviceRow>>
    BY <2>2 DEF Users, Requests, DeviceRow
  <2>4. TokensOK' /\ SessionsOK' /\ NamesOK' /\ DevicesOK'
    BY <1>2, <1>19, <2>3 DEF Auth!UpdateUser, TypeInv, TokensOK, SessionsOK, NamesOK, DevicesOK
  <2>5. RequestsOK'
    BY <1>2, <1>3, <1>19, <2>3, Doing DEF Auth!UpdateUser, TypeInv
  <2> QED
    BY <1>1, <2>2, <2>4, <2>5 DEF TypeInv
<1> QED
  BY <1>9, <1>10, <1>11, <1>12, <1>13, <1>14, <1>15, <1>16, <1>17, <1>18, <1>19 DEF Auth!Handle

(* So do the requests on devices.                                          *)
LEMMA DeviceTypes ==
    ASSUME TypeInv, phase = "up", UNCHANGED <<env, accounts>>, NEW h \in Handlers,
           \/ \E t \in tokens : Api!Handle(h, t.user)
           \/ Api!Act(h) \/ Api!Refuse(h)
    PROVE  TypeInv'
<1>1. UNCHANGED <<Users, UserRow, Requests, DeviceRow>> /\ phase' = phase
  BY DEF accounts, env, Users, Requests, DeviceRow
<1>2. EnvOK' /\ UsersOK' /\ TokensOK' /\ SessionsOK' /\ NamesOK'
  BY <1>1 DEF TypeInv, EnvOK, Env!TypeOK, env, accounts, UsersOK, TokensOK, SessionsOK, NamesOK
<1>3. Auth!Idle \in Requests /\ request[h] \in Requests /\ Api!Idle = Auth!Idle
  BY DEF Requests, TypeInv, RequestsOK, Api!Idle, Auth!Idle
<1>4. ASSUME NEW r \in Requests, request' = [request EXCEPT ![h] = r],
             served' = served \/ Api!Serve
      PROVE  RequestsOK'
  BY <1>1, <1>4, BoundsAssumption DEF TypeInv, RequestsOK, Api!Serve
<1>5. ASSUME NEW d \in Devices, NEW row \in DeviceRow, Api!Put(d, row)
      PROVE  DevicesOK'
  BY <1>1, <1>5 DEF Api!Put, TypeInv, DevicesOK
<1>6. ASSUME NEW t \in tokens, NEW d \in Devices, Api!Accept(t.user, d) \/ Api!SetOwner(t.user, d)
      PROVE  TypeInv'
  <2>1. t.user \in Users
    BY DEF TypeInv, TokensOK
  <2>2. Api!Exists(d) => /\ [device[d] EXCEPT !.accepted = TRUE, !.owner = t.user] \in DeviceRow
                         /\ [device[d] EXCEPT !.owner = t.user] \in DeviceRow
    BY <2>1 DEF Api!Exists, TypeInv, DevicesOK, DeviceRow
  <2>3. DevicesOK'
    BY <1>1, <1>5, <1>6, <2>2 DEF Api!Accept, Api!SetOwner, TypeInv, DevicesOK
  <2>4. RequestsOK'
    BY <1>1, <1>6, BoundsAssumption DEF Api!Accept, Api!SetOwner, Api!Serve, TypeInv, RequestsOK
  <2> QED
    BY <1>2, <2>3, <2>4 DEF TypeInv
<1>7. ASSUME NEW t \in tokens, NEW d \in Devices, NEW op \in {"command", "name", "delete"},
             Api!CheckOwner(h, t.user, d, op)
      PROVE  TypeInv'
  <2>1. [op |-> op, user |-> t.user, device |-> d] \in Requests
    BY DEF TypeInv, TokensOK, Requests
  <2>2. RequestsOK' /\ device' = device
    BY <1>3, <1>4, <1>7, <2>1 DEF Api!CheckOwner, Api!deviceVars
  <2> QED
    BY <1>1, <1>2, <2>2 DEF TypeInv, DevicesOK
<1>8. CASE Api!Refuse(h)
  <2>1. RequestsOK' /\ device' = device
    BY <1>3, <1>4, <1>8 DEF Api!Refuse, Api!deviceVars
  <2> QED
    BY <1>1, <1>2, <2>1 DEF TypeInv, DevicesOK
<1>9. CASE Api!Act(h)
  <2>1. request[h] \in [op : {"command", "name", "delete"}, user : Users, device : Devices]
    BY <1>3, <1>9 DEF Api!Act, Requests, Auth!Idle
  <2>2. Api!Exists(request[h].device) =>
            [device[request[h].device] EXCEPT !.namedBy = request[h].user] \in DeviceRow
    BY <2>1 DEF Api!Exists, TypeInv, DevicesOK, DeviceRow
  <2>3. DevicesOK'
    BY <1>1, <1>5, <1>9, <2>1, <2>2 DEF Api!Act, TypeInv, DevicesOK
  <2>4. RequestsOK'
    BY <1>3, <1>4, <1>9 DEF Api!Act
  <2> QED
    BY <1>2, <2>3, <2>4 DEF TypeInv
<1> QED
  BY <1>6, <1>7, <1>8, <1>9 DEF Api!Handle

(* And time, and devices that appear.                                      *)
LEMMA WorldTypes == ASSUME TypeInv, World PROVE TypeInv'
<1>1. EnvOK' /\ RequestsOK' /\ UNCHANGED <<users, tokens, overlapped>>
  <2>1. UNCHANGED <<users, tokens, overlapped>>
    BY DEF World, Auth!Time, Auth!SessionAges, accounts
  <2>2. Requests' = Requests
    BY <2>1 DEF Requests, Users
  <2> QED
    BY <2>1, <2>2 DEF World, TypeInv, EnvOK, Env!TypeOK, env, requests, RequestsOK
<1>2. UsersOK' /\ TokensOK' /\ NamesOK' /\ UNCHANGED <<Users, DeviceRow>>
  BY <1>1 DEF TypeInv, UsersOK, TokensOK, NamesOK, Users, UserRow, DeviceRow
<1>3. CASE Auth!Time /\ UNCHANGED devices
  <2>1. SessionsOK'
    BY <1>2, <1>3 DEF Auth!Time, Auth!SessionAges, Auth!Without, TypeInv, SessionsOK
  <2> QED
    BY <1>1, <1>2, <1>3, <2>1 DEF TypeInv, DevicesOK, devices
<1>4. CASE (\E d \in Devices : Api!Appear(d)) /\ UNCHANGED accounts
  <2>1. DevicesOK'
    BY <1>2, <1>4 DEF Api!Appear, Api!Put, TypeInv, DevicesOK, DeviceRow
  <2> QED
    BY <1>1, <1>2, <1>4, <2>1 DEF TypeInv, SessionsOK, accounts
<1> QED
  BY <1>3, <1>4 DEF World

LEMMA InitTypes == ASSUME Init PROVE TypeInv
<1>1. EnvOK
  <2>1. \A k \in DOMAIN file : k \in Env!Secrets \cup {"SETTINGS"} /\ file[k] \in Nat
    <3>1. PICK K \in {{}, {"SETTINGS"}, {"SETTINGS", "JWT_SECRET"}, {"SETTINGS"} \cup Env!Secrets} :
             file = [k \in K |-> CASE k = "SETTINGS" -> 1 [] k = "JWT_SECRET" -> 2 [] OTHER -> 3]
      BY DEF Init, Env!Init
    <3> QED
      BY <3>1 DEF Env!Secrets
  <2>2. \A k \in DOMAIN outside : outside[k] \in Nat \ {0}
    BY DEF Init, Env!Init
  <2>3. cfg \in [Env!Secrets -> Nat]
    BY DEF Init, Env!Init, Env!Unset
  <2>4. /\ DOMAIN saving = {} /\ phase = "off" /\ made = 4
        /\ crashes = 0 /\ failures = 0 /\ spoiled = FALSE
    BY DEF Init, Env!Init, Env!NoLines
  <2>5. crashes \in 0 .. MaxCrashes /\ failures \in 0 .. MaxFailures
    BY <2>4, BoundsAssumption
  <2> QED
    BY <2>1, <2>2, <2>3, <2>4, <2>5 DEF EnvOK, Env!TypeOK
<1>2. CASE NewHome
  <2>1. UsersOK /\ TokensOK /\ DevicesOK
    BY <1>2 DEF NewHome, UsersOK, TokensOK, DevicesOK
  <2> QED
    BY <1>1, <2>1, BoundsAssumption
    DEF Init, TypeInv, SessionsOK, RequestsOK, NamesOK, Requests, Auth!Idle
<1>3. ASSUME NEW n1 \in Names, NEW n2 \in Names, NEW p1 \in Passwords, NEW p2 \in Passwords,
             NEW d \in Devices, OldHome(n1, n2, p1, p2, d)
      PROVE  TypeInv
  <2>1. UsersOK /\ Len(users) = 2
    BY <1>3 DEF OldHome, UsersOK, UserRow
  <2>2. Users = {1, 2}
    BY <2>1 DEF Users
  <2>3. TokensOK
    BY <1>3, <2>2 DEF OldHome, TokensOK, Env!Secrets
  <2>4. DevicesOK
    BY <1>3, <2>2 DEF OldHome, DevicesOK, DeviceRow, Api!Nobody
  <2> QED
    BY <1>1, <2>1, <2>3, <2>4, BoundsAssumption
    DEF Init, TypeInv, SessionsOK, RequestsOK, NamesOK, Requests, Auth!Idle
<1> QED
  BY <1>2, <1>3 DEF Init

LEMMA TypeStep == ASSUME TypeInv, [Next]_vars PROVE TypeInv'
<1>1. CASE Start
  BY <1>1, StartTypes
<1>2. CASE Crash
  BY <1>2, CrashTypes
<1>3. CASE ServeAccounts
  BY <1>3, AccountTypes DEF ServeAccounts
<1>4. CASE ServeDevices
  BY <1>4, DeviceTypes DEF ServeDevices
<1>5. CASE World
  BY <1>5, WorldTypes
<1>6. CASE UNCHANGED vars
  <2>1. UNCHANGED <<env, accounts, devices, requests>>
    BY <1>6 DEF vars
  <2>2. UNCHANGED <<Users, UserRow, Requests, DeviceRow>>
    BY <2>1 DEF accounts, Users, Requests, DeviceRow
  <2> QED
    BY <2>1, <2>2 DEF env, accounts, devices, requests, TypeInv, EnvOK, Env!TypeOK, UsersOK,
       TokensOK, SessionsOK, DevicesOK, RequestsOK, NamesOK
<1> QED
  BY <1>1, <1>2, <1>3, <1>4, <1>5, <1>6 DEF Next

(* Every reachable state of a home is well typed, and no request is under  *)
(* way unless its process is up (config.go, auth.go, devices.go, main.go). *)
THEOREM TypeCorrect == Spec => []TypeOK
<1>1. TypeInv => TypeOK
  <2> SUFFICES ASSUME TypeInv PROVE TypeOK
    OBVIOUS
  <2>1. DOMAIN users = Users /\ \A u \in DOMAIN users : users[u] \in UserRow
    BY UserNumbers DEF TypeInv, UsersOK, Users
  <2>2. \A h \in Handlers :
           \/ request[h] = Auth!Idle
           \/ phase = "up" /\ request[h].op \in {"register", "issue", "ttl", "expire", "change",
                                                 "command", "name", "delete"}
    <3> SUFFICES ASSUME NEW h \in Handlers, request[h] # Auth!Idle
                 PROVE  phase = "up" /\ request[h].op \in {"register", "issue", "ttl", "expire", "change",
                                              "command", "name", "delete"}
      OBVIOUS
    <3>1. request[h] \in Requests /\ phase = "up"
      BY DEF TypeInv, RequestsOK
    <3> QED
      BY <3>1 DEF Requests
  <2> QED
    BY <2>1, <2>2 DEF TypeInv, TypeOK, EnvOK, UserRow, TokensOK, SessionsOK, DevicesOK, DeviceRow,
       RequestsOK, NamesOK
<1> QED
  BY <1>1, InitTypes, TypeStep, PTL DEF Spec

-----------------------------------------------------------------------------
(* Sessions: a new one gets an ID there has not been, and nothing else     *)
(* adds to them.                                                           *)

LEMMA SessionStep ==
    ASSUME TypeInv, LoggedOutStaysOut, [Next]_vars PROVE LoggedOutStaysOut'
<1> USE DEF LoggedOutStaysOut, Auth!LoggedOutStaysOut
<1>1. ASSUME UNCHANGED <<sessions, ended>> PROVE LoggedOutStaysOut'
  BY <1>1
<1>2. CASE Start \/ Crash \/ ServeDevices \/ UNCHANGED vars
  BY <1>1, <1>2 DEF Start, Crash, ServeDevices, vars, accounts
<1>3. CASE World
  <2>1. ASSUME NEW t \in DOMAIN sessions, Auth!SessionAges(t) PROVE LoggedOutStaysOut'
    BY <2>1 DEF Auth!SessionAges, Auth!Without
  <2> QED
    BY <1>1, <1>3, <2>1 DEF World, Auth!Time, accounts
<1>4. ASSUME NEW h \in Handlers, Auth!Handle(h) PROVE LoggedOutStaysOut'
  <2>1. CASE Auth!OpenSession(h)
    <3>1. opened' \notin ended /\ ended' = ended /\ DOMAIN sessions' = DOMAIN sessions \cup {opened'}
      BY <2>1 DEF Auth!OpenSession, TypeInv, SessionsOK
    <3> QED
      BY <3>1
  <2>2. ASSUME NEW t \in 1 .. opened, Auth!LogoutSession(h, t) PROVE LoggedOutStaysOut'
    BY <2>2 DEF Auth!LogoutSession, Auth!Without
  <2>3. CASE Auth!Prolong(h)
    BY <2>3 DEF Auth!Prolong
  <2>4. CASE \/ \E n \in Names, p \in Passwords, kind \in Auth!Kinds :
                   Auth!CheckName(h, n, p, kind) \/ Auth!Authenticate(h, n, p, kind)
             \/ Auth!InsertUser(h) \/ Auth!IssueToken(h) \/ Auth!ReadTTL(h) \/ Auth!UpdateUser(h)
             \/ \E t \in 1 .. opened : Auth!GetSession(h, t)
             \/ \E u \in DOMAIN users, p, v \in Passwords, column \in {"password", "email"} :
                   Auth!CheckPassword(h, u, p, column, v)
    BY <1>1, <2>4 DEF Auth!CheckName, Auth!Authenticate, Auth!InsertUser, Auth!IssueToken,
       Auth!ReadTTL, Auth!UpdateUser, Auth!GetSession, Auth!CheckPassword, Auth!accounts
  <2> QED
    BY <1>4, <2>1, <2>2, <2>3, <2>4 DEF Auth!Handle
<1> QED
  BY <1>2, <1>3, <1>4 DEF Next, ServeAccounts

(* A session that was logged out is not brought back by a validation that  *)
(* had found it before, nor by a new session's ID (auth.go:184-217).       *)
THEOREM LoggedOutForGood == Spec => []LoggedOutStaysOut
<1>1. Init => LoggedOutStaysOut
  BY DEF Init, LoggedOutStaysOut, Auth!LoggedOutStaysOut
<1> QED
  BY <1>1, InitTypes, TypeStep, SessionStep, PTL DEF Spec

-----------------------------------------------------------------------------
(* Names: of two registrations of a name that are under way, the second to *)
(* look the name up has put it among those that overlapped.                *)

Registers(h, n) == request[h].op = "register" /\ request[h].name = n

RegistrationsNoted ==
    \A h \in Handlers, n \in Names : Registers(h, n) /\ n \notin overlapped =>
        /\ \A u \in DOMAIN users : users[u].name # n
        /\ \A g \in Handlers : Registers(g, n) => g = h

NamesInv == OneAccountPerName /\ RegistrationsNoted

LEMMA NamesStep == ASSUME TypeInv, NamesInv, [Next]_vars PROVE NamesInv'
<1> USE DEF NamesInv, OneAccountPerName, Auth!OneAccountPerName, RegistrationsNoted
<1>1. ASSUME DOMAIN users' = DOMAIN users, \A u \in DOMAIN users : users'[u].name = users[u].name,
             overlapped' = overlapped,
             \A h \in Handlers, n \in Names : Registers(h, n)' => Registers(h, n)
      PROVE  NamesInv'
  BY <1>1
<1>2. ASSUME UNCHANGED <<users, overlapped, request>> PROVE NamesInv'
  BY <1>1, <1>2 DEF Registers
<1>3. \A h \in Handlers : request[h] \in Requests /\ request \in [Handlers -> Requests]
  BY DEF TypeInv, RequestsOK
<1>4. ASSUME NEW h \in Handlers, NEW r, r.op # "register", request' = [request EXCEPT ![h] = r],
             UNCHANGED <<users, overlapped>>
      PROVE  NamesInv'
  BY <1>1, <1>3, <1>4 DEF Registers
<1>5. CASE Start \/ World \/ UNCHANGED vars
  BY <1>2, <1>5 DEF Start, World, vars, accounts, requests, Auth!Time, Auth!SessionAges
<1>6. CASE Crash
  BY <1>1, <1>6 DEF Crash, accounts, Registers, Auth!Idle
<1>7. CASE ServeDevices
  <2>1. PICK h \in Handlers : \/ \E t \in tokens : Api!Handle(h, t.user)
                              \/ Api!Act(h) \/ Api!Refuse(h)
    BY <1>7 DEF ServeDevices
  <2>2. UNCHANGED <<users, overlapped>>
    BY <1>7 DEF ServeDevices, accounts
  <2>3. \/ request' = request
        \/ \E r : r.op # "register" /\ request' = [request EXCEPT ![h] = r]
    BY <2>1 DEF Api!Handle, Api!Accept, Api!SetOwner, Api!CheckOwner, Api!Act, Api!Refuse, Api!Idle
  <2> QED
    BY <1>2, <1>4, <2>2, <2>3
<1>8. ASSUME NEW h \in Handlers, Auth!Handle(h) PROVE NamesInv'
  <2> USE <1>3 DEF Registers, Auth!Does, Auth!Starts, Auth!Idle
  <2>1. ASSUME NEW n \in Names, NEW p \in Passwords, NEW kind \in Auth!Kinds,
               Auth!CheckName(h, n, p, kind)
        PROVE  NamesInv'
    BY <2>1 DEF Auth!CheckName
  <2>2. CASE Auth!InsertUser(h)
    <3> DEFINE n == request[h].name
    <3>1. request[h] \in [op : {"register"}, name : Names, password : Passwords, kind : Auth!Kinds]
      BY <2>2 DEF Auth!InsertUser, Requests
    <3>2. PICK row \in UserRow : row.name = n /\ users' = Append(users, row)
      BY <2>2, <3>1 DEF Auth!InsertUser, UserRow
    <3>3. /\ DOMAIN users' = DOMAIN users \cup {Len(users) + 1} /\ users'[Len(users) + 1].name = n
          /\ \A u \in DOMAIN users : users'[u] = users[u] /\ u # Len(users) + 1
      BY <3>2, UserNumbers DEF TypeInv, UsersOK, Users
    <3>4. n \in Names /\ Registers(h, n) /\ overlapped' = overlapped
      BY <2>2, <3>1 DEF Auth!InsertUser
    <3>5. \A g \in Handlers, m \in Names : Registers(g, m)' => Registers(g, m) /\ g # h
      BY <2>2 DEF Auth!InsertUser, Auth!Issuing
    <3>6. OneAccountPerName'
      BY <3>3, <3>4
    <3>7. RegistrationsNoted'
      <4> SUFFICES ASSUME NEW g \in Handlers, NEW m \in Names, Registers(g, m)', m \notin overlapped
                   PROVE  /\ \A u \in DOMAIN users' : users'[u].name # m
                          /\ \A f \in Handlers : Registers(f, m)' => f = g
        BY <3>4
      <4>1. Registers(g, m) /\ m # n
        BY <3>4, <3>5
      <4> QED
        BY <3>3, <3>5, <4>1
    <3> QED
      BY <3>6, <3>7
  <2>3. CASE Auth!UpdateUser(h)
    <3>1. request[h] \in [op : {"change"}, user : Users, column : {"password", "email"}, value : Passwords]
      BY <2>3 DEF Auth!UpdateUser, Requests
    <3>2. DOMAIN users' = DOMAIN users /\ \A u \in DOMAIN users : users'[u].name = users[u].name
      BY <2>3, <3>1, UserNumbers DEF Auth!UpdateUser, TypeInv, UsersOK, UserRow, Users
    <3> QED
      BY <1>1, <2>3, <3>2 DEF Auth!UpdateUser
  <2>4. ASSUME NEW n \in Names, NEW p \in Passwords, NEW kind \in Auth!Kinds,
               Auth!Authenticate(h, n, p, kind)
        PROVE  NamesInv'
    <3>1. PICK r : r.op # "register" /\ request' = [request EXCEPT ![h] = r]
      BY <2>4 DEF Auth!Authenticate, Auth!Issuing
    <3> QED
      BY <1>4, <2>4, <3>1 DEF Auth!Authenticate, Auth!accounts
  <2>5. CASE Auth!IssueToken(h) \/ Auth!OpenSession(h) \/ Auth!Prolong(h)
    BY <1>4, <2>5 DEF Auth!IssueToken, Auth!OpenSession, Auth!Prolong
  <2>6. ASSUME NEW t \in 1 .. opened, Auth!GetSession(h, t) \/ Auth!LogoutSession(h, t)
        PROVE  NamesInv'
    BY <1>4, <2>6 DEF Auth!GetSession, Auth!LogoutSession, Auth!accounts
  <2>7. CASE Auth!ReadTTL(h)
    <3>1. request[h] \in [op : {"ttl", "expire"}, token : Nat, user : Users]
      BY <2>7 DEF Auth!ReadTTL, Requests
    <3> QED
      BY <1>4, <2>7, <3>1 DEF Auth!ReadTTL, Auth!accounts
  <2>8. ASSUME NEW u \in DOMAIN users, NEW p \in Passwords, NEW v \in Passwords,
               NEW column \in {"password", "email"}, Auth!CheckPassword(h, u, p, column, v)
        PROVE  NamesInv'
    BY <1>4, <2>8 DEF Auth!CheckPassword, Auth!accounts
  <2> QED
    BY <1>8, <2>1, <2>2, <2>3, <2>4, <2>5, <2>6, <2>7, <2>8 DEF Auth!Handle
<1> QED
  BY <1>5, <1>6, <1>7, <1>8 DEF Next, ServeAccounts

(* Two accounts share a name only if two registrations of it overlapped    *)
(* (auth.go:40-65, schema.sql:149-154).                                    *)
THEOREM NamesUnique == Spec => []OneAccountPerName
<1>1. Init => NamesInv
  <2> SUFFICES ASSUME Init PROVE NamesInv
    OBVIOUS
  <2>1. RegistrationsNoted
    BY DEF Init, RegistrationsNoted, Registers, Auth!Idle
  <2>2. CASE NewHome
    BY <2>1, <2>2 DEF NewHome, NamesInv, OneAccountPerName, Auth!OneAccountPerName
  <2>3. ASSUME NEW n1 \in Names, NEW n2 \in Names, NEW p1 \in Passwords, NEW p2 \in Passwords,
               NEW d \in Devices, n1 # n2, OldHome(n1, n2, p1, p2, d)
        PROVE  NamesInv
    <3>1. DOMAIN users = {1, 2} /\ users[1].name = n1 /\ users[2].name = n2
      BY <2>3 DEF OldHome
    <3> QED
      BY <2>1, <2>3, <3>1 DEF NamesInv, OneAccountPerName, Auth!OneAccountPerName
  <2> QED
    BY <2>2, <2>3 DEF Init
<1>2. NamesInv => OneAccountPerName
  BY DEF NamesInv
<1> QED
  BY <1>1, <1>2, InitTypes, TypeStep, NamesStep, PTL DEF Spec

-----------------------------------------------------------------------------
(* Owners: what a request looked up is among what users have had, and so   *)
(* is every row.                                                           *)

Had(u, d, accepted) == [user |-> u, device |-> d, accepted |-> accepted] \in held

RowsHeld == \A d \in DOMAIN device : Had(device[d].owner, d, device[d].accepted)

OwnerWas(r) ==
    \E accepted \in BOOLEAN : Had(r.user, r.device, accepted) /\ (r.op = "command" => accepted)

LookupsHeld ==
    \A h \in Handlers : request[h].op \in {"command", "name", "delete"} => OwnerWas(request[h])

ActsHeld == \A a \in acts : OwnerWas(a)

OwnersInv == RowsHeld /\ LookupsHeld /\ ActsHeld

(* What users have had only grows.                                         *)
LEMMA HeldGrows ==
    ASSUME OwnersInv, held \subseteq held', acts' = acts, device' = device,
           \A h \in Handlers : \/ request'[h] = request[h] \/ OwnerWas(request'[h])
                               \/ request'[h].op \notin {"command", "name", "delete"}
    PROVE  OwnersInv'
<1>1. \A r : OwnerWas(r) => OwnerWas(r)'
  BY DEF OwnerWas, Had
<1>2. RowsHeld' /\ ActsHeld'
  BY <1>1 DEF OwnersInv, RowsHeld, ActsHeld, Had
<1>3. LookupsHeld'
  BY <1>1 DEF OwnersInv, LookupsHeld, OwnerWas, Had
<1> QED
  BY <1>2, <1>3 DEF OwnersInv

(* A row that is put is noted among them.                                  *)
LEMMA PutHeld ==
    ASSUME OwnersInv, NEW d \in Devices, NEW row \in [owner : Nat, accepted : BOOLEAN, namedBy : Nat],
           Api!Put(d, row)
    PROVE  held \subseteq held' /\ RowsHeld'
  BY DEF Api!Put, OwnersInv, RowsHeld, Had

LEMMA OwnersStep == ASSUME TypeInv, OwnersInv, [Next]_vars PROVE OwnersInv'
<1>1. request \in [Handlers -> Requests] /\ Auth!Idle = [op |-> "none"] /\ Api!Idle = Auth!Idle
  BY DEF TypeInv, RequestsOK, Auth!Idle, Api!Idle
<1>2. ASSUME UNCHANGED <<device, held, acts>>,
             \A h \in Handlers : \/ request'[h] = request[h]
                                 \/ request'[h].op \notin {"command", "name", "delete"}
      PROVE  OwnersInv'
  BY <1>2, HeldGrows
<1>3. CASE Start \/ UNCHANGED vars
  BY <1>2, <1>3 DEF Start, vars, devices, requests
<1>4. CASE Crash
  BY <1>1, <1>2, <1>4 DEF Crash, devices
<1>5. ASSUME NEW h \in Handlers, NEW r, r.op \notin {"command", "name", "delete"},
             Auth!Does(h, r), UNCHANGED devices
      PROVE  OwnersInv'
  BY <1>1, <1>2, <1>5 DEF Auth!Does, devices
<1>6. ASSUME NEW h \in Handlers, Auth!Handle(h), UNCHANGED devices PROVE OwnersInv'
  <2> USE DEF Auth!Starts, Auth!Issuing, Auth!Idle
  <2>1. ASSUME NEW n \in Names, NEW p \in Passwords, NEW kind \in Auth!Kinds,
               Auth!CheckName(h, n, p, kind) \/ Auth!Authenticate(h, n, p, kind)
        PROVE  \E r : r.op \notin {"command", "name", "delete"} /\ Auth!Does(h, r)
    BY <2>1 DEF Auth!CheckName, Auth!Authenticate
  <2>2. CASE Auth!InsertUser(h) \/ Auth!IssueToken(h) \/ Auth!OpenSession(h) \/ Auth!Prolong(h)
             \/ Auth!UpdateUser(h)
    BY <1>5, <1>6, <2>2 DEF Auth!InsertUser, Auth!IssueToken, Auth!OpenSession, Auth!Prolong,
       Auth!UpdateUser
  <2>3. ASSUME NEW t \in 1 .. opened, Auth!GetSession(h, t) \/ Auth!LogoutSession(h, t)
        PROVE  OwnersInv'
    BY <1>5, <1>6, <2>3 DEF Auth!GetSession, Auth!LogoutSession
  <2>4. CASE Auth!ReadTTL(h)
    <3>1. request[h] \in [op : {"ttl", "expire"}, token : Nat, user : Users]
      BY <1>1, <2>4 DEF Auth!ReadTTL, Requests
    <3> QED
      BY <1>5, <1>6, <2>4, <3>1 DEF Auth!ReadTTL
  <2>5. ASSUME NEW u \in DOMAIN users, NEW p \in Passwords, NEW v \in Passwords,
               NEW column \in {"password", "email"}, Auth!CheckPassword(h, u, p, column, v)
        PROVE  OwnersInv'
    BY <1>5, <1>6, <2>5 DEF Auth!CheckPassword
  <2> QED
    BY <1>5, <1>6, <2>1, <2>2, <2>3, <2>4, <2>5 DEF Auth!Handle
<1>10. Users \subseteq Nat /\ Api!Nobody = 0
  BY UserNumbers DEF TypeInv, Users, Api!Nobody
<1>7. ASSUME NEW h \in Handlers, NEW u \in Users, Api!Handle(h, u) PROVE OwnersInv'
  <2>1. ASSUME NEW d \in Devices, Api!Accept(u, d) \/ Api!SetOwner(u, d) PROVE OwnersInv'
    <3>1. request' = request /\ acts' = acts
      BY <2>1 DEF Api!Accept, Api!SetOwner
    <3>2. CASE UNCHANGED <<device, held>>
      BY <1>2, <3>1, <3>2
    <3>3. CASE d \in DOMAIN device /\ \E accepted \in BOOLEAN :
                  Api!Put(d, [device[d] EXCEPT !.accepted = accepted, !.owner = u])
      <4>1. PICK accepted \in BOOLEAN :
               Api!Put(d, [device[d] EXCEPT !.accepted = accepted, !.owner = u])
        BY <3>3
      <4>2. [device[d] EXCEPT !.accepted = accepted, !.owner = u]
               \in [owner : Nat, accepted : BOOLEAN, namedBy : Nat]
        <5>1. device[d] \in [owner : Nat, accepted : BOOLEAN, namedBy : Nat]
          BY <1>10, <3>3 DEF TypeInv, DevicesOK, DeviceRow
        <5> QED
          BY <1>10, <5>1
      <4>3. held \subseteq held' /\ RowsHeld'
        BY <4>1, <4>2, PutHeld
      <4> QED
        BY <3>1, <4>3 DEF OwnersInv, LookupsHeld, ActsHeld, OwnerWas, Had
    <3>4. ASSUME d \in DOMAIN device
          PROVE  [device[d] EXCEPT !.owner = u]
                    = [device[d] EXCEPT !.accepted = device[d].accepted, !.owner = u]
                 /\ device[d].accepted \in BOOLEAN
      BY <3>4 DEF TypeInv, DevicesOK, DeviceRow
    <3> QED
      BY <2>1, <3>2, <3>3, <3>4 DEF Api!Accept, Api!SetOwner, Api!Exists
  <2>2. ASSUME NEW d \in Devices, NEW op \in {"command", "name", "delete"}, Api!CheckOwner(h, u, d, op)
        PROVE  OwnersInv'
    <3>1. UNCHANGED <<device, held, acts>>
      BY <2>2 DEF Api!CheckOwner, Api!deviceVars
    <3>2. CASE d \in DOMAIN device /\ device[d].owner = u /\ (op = "command" => device[d].accepted)
               /\ request' = [request EXCEPT ![h] = [op |-> op, user |-> u, device |-> d]]
      <4>1. device[d].accepted \in BOOLEAN /\ Had(u, d, device[d].accepted)
        BY <3>2 DEF OwnersInv, RowsHeld, TypeInv, DevicesOK, DeviceRow
      <4>2. OwnerWas(request'[h])
        BY <1>1, <3>2, <4>1 DEF OwnerWas
      <4> QED
        BY <1>1, <3>1, <3>2, <4>2, HeldGrows
    <3>3. CASE request' = [request EXCEPT ![h] = Api!Idle]
      BY <1>1, <1>2, <3>1, <3>3
    <3> QED
      BY <2>2, <3>2, <3>3 DEF Api!CheckOwner, Api!Exists
  <2> QED
    BY <1>7, <2>1, <2>2 DEF Api!Handle
<1>8. ASSUME NEW h \in Handlers, Api!Act(h) PROVE OwnersInv'
  <2> DEFINE r == request[h]
             d == r.device
  <2>1. r \in [op : {"command", "name", "delete"}, user : Users, device : Devices]
    BY <1>1, <1>8 DEF Api!Act, Requests
  <2>2. OwnerWas(r)
    BY <2>1 DEF OwnersInv, LookupsHeld
  <2>3. /\ \A g \in Handlers : request'[g] = request[g] \/ request'[g].op = "none"
        /\ acts' = acts \cup {r}
    BY <1>1, <1>8 DEF Api!Act
  <2>4. held \subseteq held' /\ RowsHeld'
    <3>1. CASE d \in DOMAIN device /\ Api!Put(d, [device[d] EXCEPT !.namedBy = r.user])
      <4>1. [device[d] EXCEPT !.namedBy = r.user] \in [owner : Nat, accepted : BOOLEAN, namedBy : Nat]
        BY <2>1, <3>1 DEF TypeInv, DevicesOK, DeviceRow, Users, Api!Nobody
      <4> QED
        BY <2>1, <3>1, <4>1, PutHeld
    <3>2. CASE held' = held /\ \/ device' = device
                               \/ device' = [e \in DOMAIN device \ {d} |-> device[e]]
      BY <3>2 DEF OwnersInv, RowsHeld, Had
    <3> QED
      BY <1>8, <3>1, <3>2 DEF Api!Act, Api!Exists
  <2>5. \A s : OwnerWas(s) => OwnerWas(s)'
    BY <2>4 DEF OwnerWas, Had
  <2> QED
    BY <2>2, <2>3, <2>4, <2>5 DEF OwnersInv, LookupsHeld, ActsHeld
<1>9. ASSUME NEW h \in Handlers, Api!Refuse(h) PROVE OwnersInv'
  BY <1>1, <1>2, <1>9 DEF Api!Refuse, Api!deviceVars
<1>12. CASE ServeDevices
  BY <1>7, <1>8, <1>9, <1>12 DEF ServeDevices, TypeInv, TokensOK
<1>11. CASE World
  <2>1. CASE Auth!Time /\ UNCHANGED devices
    BY <1>2, <1>11, <2>1 DEF World, requests, devices
  <2>2. ASSUME NEW d \in Devices, Api!Appear(d) PROVE OwnersInv'
    <3>1. held \subseteq held' /\ RowsHeld' /\ request' = request /\ acts' = acts
      BY <2>2, PutHeld DEF Api!Appear, Api!Nobody
    <3> QED
      BY <3>1 DEF OwnersInv, LookupsHeld, ActsHeld, OwnerWas, Had
  <2> QED
    BY <1>11, <2>1, <2>2 DEF World
<1> QED
  BY <1>3, <1>4, <1>6, <1>11, <1>12 DEF Next, ServeAccounts

(* Whoever commands, renames or deletes a device has owned it, and had it  *)
(* accepted if it is commanded (devices.go:97-224).                        *)
THEOREM OnlyOwnersAct == Spec => []OwnersAct
<1>1. Init => OwnersInv
  <2>1. Init => LookupsHeld /\ ActsHeld
    BY DEF Init, LookupsHeld, ActsHeld, Auth!Idle
  <2>2. NewHome => RowsHeld
    BY DEF NewHome, RowsHeld
  <2>3. ASSUME NEW n1, NEW n2, NEW p1, NEW p2, NEW d, OldHome(n1, n2, p1, p2, d) PROVE RowsHeld
    BY <2>3 DEF OldHome, RowsHeld, Had
  <2> QED
    BY <2>1, <2>2, <2>3 DEF Init, OwnersInv
<1>2. OwnersInv => OwnersAct
  BY DEF OwnersInv, ActsHeld, OwnerWas, Had, OwnersAct, Api!OwnersAct
<1> QED
  BY <1>1, <1>2, InitTypes, TypeStep, OwnersStep, PTL DEF Spec

-----------------------------------------------------------------------------
(* Secrets: what the file holds, what the process has, and what has been   *)
(* given to those who logged in, at each point of the start.  While the    *)
(* file is being written nobody has a token: had there been one, no secret *)
(* would have been missing.                                                *)

OriginalOK == \A k \in DOMAIN original : k \in Env!Secrets \cup {"SETTINGS"} /\ original[k] # 0

Keeps(f) == \A k \in DOMAIN original : k \in DOMAIN f /\ (k \in DOMAIN outside \/ f[k] = original[k])

Given(t, secret) == t.key = secret["JWT_SECRET"] /\ t.home = secret["AGENT_ID"]

OffOK == Keeps(file) /\ \A t \in tokens : Given(t, [k \in Env!Secrets |-> Env!Get(k)])
SavingOK ==
    /\ tokens = {}
    /\ \A k \in Env!Secrets : k \in DOMAIN outside => cfg[k] = outside[k]
SaveOK == Keeps(file) /\ \A k \in Env!Secrets : Env!Get(k) # 0 => cfg[k] = Env!Get(k)
WriteOK == Keeps(saving) /\ \A k \in Env!Secrets : k \in DOMAIN saving /\ saving[k] = cfg[k]
UpOK ==
    /\ Keeps(file)
    /\ \A k \in Env!Secrets : Env!Get(k) = cfg[k]
    /\ \A t \in tokens : Given(t, cfg)

SecretsInv ==
    /\ OriginalOK
    /\ ~ spoiled => /\ phase = "off" => OffOK
                    /\ phase \in {"save", "write"} => SavingOK
                    /\ phase = "save" => SaveOK
                    /\ phase = "write" => WriteOK
                    /\ phase = "up" => UpOK

LEMMA StartSecrets == ASSUME TypeInv, SecretsInv, Start PROVE SecretsInv'
<1> USE DEF Env!Secrets
<1>1. /\ UNCHANGED <<tokens, outside, original>> /\ OriginalOK'
      /\ cfg \in [Env!Secrets -> Nat]
      /\ \A k \in DOMAIN outside : outside[k] # 0
  BY DEF Start, accounts, SecretsInv, OriginalOK, TypeInv, EnvOK, Env!TypeOK, Env!LoadConfig,
     Env!Truncate, Env!Flush, Env!SaveFails
<1>2. CASE Env!LoadConfig
  <2>1. /\ file' = file /\ spoiled' = spoiled /\ phase = "off" /\ phase' \in {"save", "up"}
        /\ \A k \in Env!Secrets : Env!Get(k)' = Env!Get(k)
        /\ \A k \in Env!Secrets : Env!Get(k) # 0 => cfg'[k] = Env!Get(k)
        /\ phase' = "up" <=> \A k \in Env!Secrets : Env!Get(k) # 0
    BY <1>1, <1>2 DEF Env!LoadConfig, Env!Get
  <2> SUFFICES ASSUME ~ spoiled PROVE SecretsInv'
    BY <1>1, <2>1 DEF SecretsInv
  <2>2. OffOK /\ Keeps(file)'
    BY <1>1, <2>1 DEF SecretsInv, OffOK, Keeps
  <2>3. \A t \in tokens : Given(t, [k \in Env!Secrets |-> Env!Get(k)]) /\ t.key # 0 /\ t.home # 0
    BY <2>2 DEF OffOK, TypeInv, TokensOK
  <2>4. tokens # {} => \A k \in Env!Secrets : Env!Get(k) # 0
    BY <2>3 DEF Given
  <2>5. CASE phase' = "up"
    <3>1. UpOK'
      BY <1>1, <2>1, <2>2, <2>3, <2>5 DEF UpOK, Given
    <3> QED
      BY <1>1, <2>5, <3>1 DEF SecretsInv
  <2>6. CASE phase' = "save"
    <3>1. SaveOK'
      BY <2>1, <2>2 DEF SaveOK
    <3>2. SavingOK'
      BY <1>1, <2>1, <2>4, <2>6 DEF SavingOK, Env!Get
    <3> QED
      BY <1>1, <2>6, <3>1, <3>2 DEF SecretsInv
  <2> QED
    BY <2>1, <2>5, <2>6
<1>3. CASE Env!Truncate
  <2>1. /\ phase = "save" /\ phase' = "write" /\ UNCHANGED <<cfg, spoiled>>
        /\ DOMAIN saving' = DOMAIN file \cup Env!Secrets
        /\ \A k \in DOMAIN saving' : saving'[k] = IF k \in Env!Secrets THEN cfg[k] ELSE file[k]
    BY <1>3 DEF Env!Truncate
  <2> SUFFICES ASSUME ~ spoiled PROVE SecretsInv'
    BY <1>1, <2>1 DEF SecretsInv
  <2>2. SavingOK /\ SaveOK
    BY <2>1 DEF SecretsInv
  <2>3. SavingOK'
    BY <1>1, <2>1, <2>2 DEF SavingOK
  <2>4. \A k \in DOMAIN original : k \in DOMAIN outside \/ saving'[k] = original[k]
    <3> SUFFICES ASSUME NEW k \in DOMAIN original, k \notin DOMAIN outside
                 PROVE  saving'[k] = original[k]
      OBVIOUS
    <3>1. k \in DOMAIN file /\ file[k] = original[k] /\ original[k] # 0
      BY <2>2 DEF SaveOK, Keeps, SecretsInv, OriginalOK
    <3>2. k \in Env!Secrets => cfg[k] = file[k]
      BY <2>2, <3>1 DEF SaveOK, Env!Get
    <3> QED
      BY <2>1, <3>1, <3>2
  <2>5. WriteOK'
    BY <1>1, <2>1, <2>2, <2>4 DEF WriteOK, SaveOK, Keeps
  <2> QED
    BY <1>1, <2>1, <2>3, <2>5 DEF SecretsInv
<1>4. CASE Env!Flush
  <2>1. /\ phase = "write" /\ phase' = "up" /\ file' = saving /\ UNCHANGED <<cfg, spoiled>>
    BY <1>4 DEF Env!Flush
  <2> SUFFICES ASSUME ~ spoiled PROVE SecretsInv'
    BY <1>1, <2>1 DEF SecretsInv
  <2>2. SavingOK /\ WriteOK
    BY <2>1 DEF SecretsInv
  <2>3. \A k \in Env!Secrets : Env!Get(k)' = cfg[k]
    BY <1>1, <2>1, <2>2 DEF SavingOK, WriteOK, Env!Get
  <2>4. UpOK'
    BY <1>1, <2>1, <2>2, <2>3 DEF UpOK, SavingOK, WriteOK, Keeps
  <2> QED
    BY <1>1, <2>1, <2>4 DEF SecretsInv
<1>5. CASE Env!SaveFails
  BY <1>1, <1>5 DEF Env!SaveFails, SecretsInv
<1> QED
  BY <1>2, <1>3, <1>4, <1>5 DEF Start

LEMMA CrashSecrets == ASSUME TypeInv, SecretsInv, Crash PROVE SecretsInv'
<1>1. /\ UNCHANGED <<tokens, outside, original, file>> /\ phase # "off" /\ phase' = "off"
      /\ spoiled' = (spoiled \/ phase = "write") /\ OriginalOK'
  BY DEF Crash, Env!Crash, accounts, SecretsInv, OriginalOK
<1> SUFFICES ASSUME ~ spoiled, phase # "write" PROVE SecretsInv'
  BY <1>1 DEF SecretsInv
<1>2. phase \in {"save", "up"} /\ Keeps(file) /\ \A k \in Env!Secrets : Env!Get(k)' = Env!Get(k)
  BY <1>1 DEF SecretsInv, SaveOK, UpOK, Env!Get, TypeInv, EnvOK, Env!TypeOK
<1>3. \A t \in tokens : Given(t, [k \in Env!Secrets |-> Env!Get(k)])
  BY <1>1, <1>2 DEF SecretsInv, SavingOK, UpOK, Given, Env!Secrets
<1>4. OffOK'
  BY <1>1, <1>2, <1>3 DEF OffOK, Keeps, Given, Env!Secrets
<1> QED
  BY <1>1, <1>4 DEF SecretsInv

LEMMA SecretsStep == ASSUME TypeInv, SecretsInv, [Next]_vars PROVE SecretsInv'
<1>1. ASSUME UNCHANGED env, phase = "up", \A t \in tokens' : t \in tokens \/ Given(t, cfg)
      PROVE  SecretsInv'
  BY <1>1 DEF env, SecretsInv, OriginalOK, UpOK, Keeps, Given, Env!Get
<1>2. ASSUME UNCHANGED <<env, tokens>> PROVE SecretsInv'
  BY <1>2 DEF env, SecretsInv, OriginalOK, OffOK, SavingOK, SaveOK, WriteOK, UpOK, Keeps, Given,
     Env!Get
<1>3. CASE World \/ ServeDevices \/ UNCHANGED vars
  BY <1>2, <1>3 DEF World, ServeDevices, vars, accounts, Auth!Time, Auth!SessionAges
<1>4. CASE ServeAccounts
  <2>1. PICK h \in Handlers : Auth!Handle(h)
    BY <1>4 DEF ServeAccounts
  <2>2. UNCHANGED env /\ phase = "up"
    BY <1>4 DEF ServeAccounts
  <2>3. CASE Auth!IssueToken(h)
    BY <1>1, <2>2, <2>3 DEF Auth!IssueToken, Given
  <2>4. CASE \/ \E n \in Names, p \in Passwords, kind \in Auth!Kinds :
                   Auth!CheckName(h, n, p, kind) \/ Auth!Authenticate(h, n, p, kind)
             \/ Auth!InsertUser(h) \/ Auth!OpenSession(h) \/ Auth!ReadTTL(h) \/ Auth!Prolong(h)
             \/ \E t \in 1 .. opened : Auth!GetSession(h, t) \/ Auth!LogoutSession(h, t)
             \/ \E u \in DOMAIN users, p, v \in Passwords, column \in {"password", "email"} :
                   Auth!CheckPassword(h, u, p, column, v)
             \/ Auth!UpdateUser(h)
    <3>1. tokens' = tokens
      BY <2>4 DEF Auth!CheckName, Auth!Authenticate, Auth!InsertUser, Auth!OpenSession,
         Auth!ReadTTL, Auth!Prolong, Auth!GetSession, Auth!LogoutSession, Auth!CheckPassword,
         Auth!UpdateUser, Auth!accounts
    <3> QED
      BY <1>2, <2>2, <3>1
  <2> QED
    BY <2>1, <2>3, <2>4 DEF Auth!Handle
<1> QED
  BY <1>3, <1>4, StartSecrets, CrashSecrets DEF Next

LEMMA SecretsInit == ASSUME Init PROVE SecretsInv
<1> USE DEF Env!Secrets
<1>1. OriginalOK /\ Keeps(file) /\ phase = "off"
  <2>1. PICK K \in {{}, {"SETTINGS"}, {"SETTINGS", "JWT_SECRET"}, {"SETTINGS"} \cup Env!Secrets} :
           file = [k \in K |-> CASE k = "SETTINGS" -> 1 [] k = "JWT_SECRET" -> 2 [] OTHER -> 3]
    BY DEF Init, Env!Init
  <2>2. original = file /\ phase = "off"
    BY DEF Init, Env!Init
  <2> QED
    BY <2>1, <2>2 DEF OriginalOK, Keeps
<1>2. \A t \in tokens : Given(t, [k \in Env!Secrets |-> Env!Get(k)])
  <2>1. NewHome => tokens = {}
    BY DEF NewHome
  <2>2. ASSUME NEW n1, NEW n2, NEW p1, NEW p2, NEW d, OldHome(n1, n2, p1, p2, d), NEW t \in tokens
        PROVE  t.key = Env!Get("JWT_SECRET") /\ t.home = Env!Get("AGENT_ID")
    BY <2>2 DEF OldHome
  <2> QED
    BY <2>1, <2>2 DEF Init, Given
<1> QED
  BY <1>1, <1>2 DEF SecretsInv, OffOK

(* The file of settings keeps the operator's lines, and would give the     *)
(* next start the secrets the running process has, unless a save failed or *)
(* was cut short (config.go:140-234).                                      *)
THEOREM SettingsKept == Spec => []FileKept
<1>1. TypeInv /\ SecretsInv => FileKept
  <2> SUFFICES ASSUME SecretsInv, phase # "write", ~ spoiled, phase \in {"off", "save", "up"}
               PROVE  Env!FileKept
    BY DEF FileKept, Env!FileKept, TypeInv, EnvOK, Env!TypeOK
  <2> QED
    BY DEF SecretsInv, OffOK, SaveOK, UpOK, Keeps, Env!FileKept
<1> QED
  BY <1>1, InitTypes, TypeStep, SecretsInit, SecretsStep, PTL DEF Spec

(* Under the same condition a running process accepts every token that was *)
(* ever given and has not expired, and has the ID that went with it        *)
(* (config.go:68-234, auth.go:67-75, 160-182, api/auth.go:11-41).          *)
THEOREM LoginsOutliveRestarts == Spec => []AnswersStayGood
<1>1. SecretsInv => AnswersStayGood
  BY DEF SecretsInv, UpOK, Given, AnswersStayGood, Auth!ValidJWT
<1> QED
  BY <1>1, InitTypes, TypeStep, SecretsInit, SecretsStep, PTL DEF Spec

=============================================================================
