----------------------------- MODULE HomeServer -----------------------------
(***************************************************************************)
(* The HTTP side of one home, composed: its secrets (EnvFile), accounts    *)
(* (Accounts) and devices (DeviceApi).  A request is served while the      *)
(* process is up (cmd/engine/main.go); those on devices need a token the   *)
(* process's key has signed (web/middleware/auth.go).  The process may end *)
(* at any moment; requests are lost with it, PostgreSQL and Redis are not. *)
(***************************************************************************)
EXTENDS Naturals, Sequences

CONSTANTS Handlers, Names, Passwords, Devices, MaxRequests, MaxCrashes, MaxFailures

ASSUME BoundsAssumption == MaxRequests \in Nat /\ MaxCrashes \in Nat /\ MaxFailures \in Nat

VARIABLES
    outside, file, cfg, phase, saving, made, crashes, failures, spoiled, original,
    users, tokens, sessions, opened, ended, overlapped,
    device, acts, held,
    request, served

Env == INSTANCE EnvFile
Auth == INSTANCE Accounts
Api == INSTANCE DeviceApi

env      == <<outside, file, cfg, phase, saving, made, crashes, failures, spoiled, original>>
accounts == <<users, tokens, sessions, opened, ended, overlapped>>
devices  == <<device, acts, held>>
requests == <<request, served>>
vars == <<env, accounts, devices, requests>>

Start ==
    /\ Env!LoadConfig \/ Env!Truncate \/ Env!Flush \/ Env!SaveFails
    /\ UNCHANGED <<accounts, devices, requests>>

Crash ==
    /\ Env!Crash
    /\ request' = [h \in Handlers |-> Auth!Idle]
    /\ UNCHANGED <<accounts, devices, served>>

ServeAccounts ==
    /\ phase = "up"
    /\ \E h \in Handlers : Auth!Handle(h)
    /\ UNCHANGED <<env, devices>>

(* RequireAuth, and the handlers behind it.                                *)
ServeDevices ==
    /\ phase = "up"
    /\ \E h \in Handlers :
          \/ \E t \in tokens : Auth!ValidJWT(t) /\ Api!Handle(h, t.user)
          \/ Api!Act(h) \/ Api!Refuse(h)
    /\ UNCHANGED <<env, accounts>>

World ==
    /\ \/ Auth!Time /\ UNCHANGED devices
       \/ (\E d \in Devices : Api!Appear(d)) /\ UNCHANGED accounts
    /\ UNCHANGED <<env, requests>>

-----------------------------------------------------------------------------
(* A home that is new, or that has run before: then with two accounts, a   *)
(* device of the first, and tokens for both signed with the key it had.    *)
NewHome ==
    /\ users = <<>> /\ tokens = {} /\ device = [d \in {} |-> 0] /\ held = {}

OldHome(n1, n2, p1, p2, d) ==
    /\ users = <<[name |-> n1, password |-> p1, email |-> p1],
                 [name |-> n2, password |-> p2, email |-> p2]>>
    /\ \A k \in Env!Secrets : Env!Get(k) # 0
    /\ tokens = {[user |-> u, key |-> Env!Get("JWT_SECRET"), home |-> Env!Get("AGENT_ID")] :
                    u \in {1, 2}}
    /\ device = [e \in {d} |-> [owner |-> 1, accepted |-> TRUE, namedBy |-> Api!Nobody]]
    /\ held = {[user |-> 1, device |-> d, accepted |-> TRUE]}

Init ==
    /\ Env!Init
    /\ \/ NewHome
       \/ \E n1, n2 \in Names, p1, p2 \in Passwords, d \in Devices :
             n1 # n2 /\ OldHome(n1, n2, p1, p2, d)
    /\ sessions = [t \in {} |-> 0] /\ opened = 0 /\ ended = {} /\ overlapped = {}
    /\ acts = {}
    /\ request = [h \in Handlers |-> Auth!Idle] /\ served = 0

Next == Start \/ Crash \/ ServeAccounts \/ ServeDevices \/ World

Spec == Init /\ [][Next]_vars

-----------------------------------------------------------------------------
(* Properties.                                                             *)

(* The parts' state has its type; a request is a step the code has, and    *)
(* there is none unless the process is up (config.go:18-28, auth.go:17-21, *)
(* devices.go:15-17).                                                      *)
TypeOK ==
    /\ Env!TypeOK
    /\ \A u \in DOMAIN users : users[u] \in [name : Names, password : Passwords, email : Passwords]
    /\ \A t \in tokens : t.user \in DOMAIN users /\ t.key # 0 /\ t.home # 0
    /\ DOMAIN sessions \subseteq 1 .. opened /\ ended \subseteq 1 .. opened
    /\ \A t \in DOMAIN sessions : sessions[t].user \in DOMAIN users
                                  /\ sessions[t].ttl \in {"fresh", "old"}
    /\ overlapped \subseteq Names /\ served \in 0 .. MaxRequests
    /\ \A d \in DOMAIN device : d \in Devices /\ device[d].accepted \in BOOLEAN
                                /\ device[d].owner \in {Api!Nobody} \cup DOMAIN users
    /\ \A h \in Handlers :
          \/ request[h] = Auth!Idle
          \/ phase = "up" /\ request[h].op \in {"register", "issue", "ttl", "expire", "change",
                                                "command", "name", "delete"}

(* Parts' properties, of the whole.                                        *)
FileKept == Env!FileKept
LoggedOutStaysOut == Auth!LoggedOutStaysOut
OneAccountPerName == Auth!OneAccountPerName
OwnersAct == Api!OwnersAct

(* Whoever has logged in stays logged in, and finds the home under the ID  *)
(* the answer gave, however often the process ends and starts again, and   *)
(* wherever: unless a save of .env failed or was cut short, a running      *)
(* process has the key and the ID of every answer that has not expired     *)
(* (config.go:68-234, auth.go:67-75, 160-182, api/auth.go:11-41).          *)
AnswersStayGood ==
    phase = "up" /\ ~ spoiled =>
        \A t \in tokens : Auth!ValidJWT(t) /\ t.home = cfg["AGENT_ID"]

=============================================================================
