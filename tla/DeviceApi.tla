----------------------------- MODULE DeviceApi ------------------------------
(***************************************************************************)
(* internal/web/api/devices.go: what users do with devices.  A report of a *)
(* device nobody knows inserts its row (internal/automation/updater.go);   *)
(* a user accepts it and so becomes its owner, takes it over from another  *)
(* owner, and as its owner commands, renames and deletes it.  These three  *)
(* look the owner up in one statement and act in another one.              *)
(*                                                                         *)
(* Each request carries a token, and is the user's whom it names.          *)
(***************************************************************************)
EXTENDS Naturals

CONSTANTS Handlers, Devices, MaxRequests

VARIABLES
    device,  \* table devices: [owner, accepted, namedBy] of each that has a row
    request, \* what each handler has still to do
    served,  \* counter for the bound
    acts,    \* history: [op, user, device] carried out
    held     \* history: [user, device, accepted] there has been

deviceVars == <<device, acts, held>>

Nobody == 0
Idle == [op |-> "none"]
Serve == served < MaxRequests /\ served' = served + 1
Exists(d) == d \in DOMAIN device

Put(d, row) ==
    /\ device' = [e \in DOMAIN device \cup {d} |-> IF e = d THEN row ELSE device[e]]
    /\ held' = held \cup {[user |-> row.owner, device |-> d, accepted |-> row.accepted]}

(* InsertDevice, for a report.                                             *)
Appear(d) ==
    /\ ~ Exists(d)
    /\ Put(d, [owner |-> Nobody, accepted |-> FALSE, namedBy |-> Nobody])
    /\ UNCHANGED <<acts, request, served>>

(* POST accept, whoever owned the device before.                           *)
Accept(u, d) ==
    /\ Serve
    /\ \/ Exists(d) /\ Put(d, [device[d] EXCEPT !.accepted = TRUE, !.owner = u])
       \/ ~ Exists(d) /\ UNCHANGED <<device, held>>
    /\ UNCHANGED <<acts, request>>

(* PATCH setowner, whoever owned the device before.                        *)
SetOwner(u, d) ==
    /\ Serve
    /\ \/ Exists(d) /\ Put(d, [device[d] EXCEPT !.owner = u])
       \/ ~ Exists(d) /\ UNCHANGED <<device, held>>
    /\ UNCHANGED <<acts, request>>

(* Mutant: an accepted device is anybody's.                                *)
CheckAccepted(h, u, d, op) ==
    /\ request[h] = Idle /\ Serve
    /\ request' = [request EXCEPT ![h] =
                      IF Exists(d) /\ (device[d].owner = u \/ device[d].accepted)
                      THEN [op |-> op, user |-> u, device |-> d] ELSE Idle]
    /\ UNCHANGED deviceVars

CheckOwner(h, u, d, op) ==
    /\ request[h] = Idle /\ Serve
    /\ request' = [request EXCEPT ![h] =
                      IF Exists(d) /\ device[d].owner = u /\ (op = "command" => device[d].accepted)
                      THEN [op |-> op, user |-> u, device |-> d] ELSE Idle]
    /\ UNCHANGED deviceVars

(* The second statement, or the command's message; a body that does not    *)
(* parse ends the request before it.                                       *)
Act(h) ==
    LET r == request[h]
        d == r.device
    IN  /\ r.op \in {"command", "name", "delete"}
        /\ \/ /\ r.op = "command" /\ UNCHANGED <<device, held>>
           \/ /\ r.op = "name" /\ Exists(d) /\ Put(d, [device[d] EXCEPT !.namedBy = r.user])
           \/ /\ r.op = "delete" /\ Exists(d)
              /\ device' = [e \in DOMAIN device \ {d} |-> device[e]]
              /\ UNCHANGED held
           \/ /\ r.op # "command" /\ ~ Exists(d) /\ UNCHANGED <<device, held>>
        /\ acts' = acts \cup {r}
        /\ request' = [request EXCEPT ![h] = Idle]
        /\ UNCHANGED served

Refuse(h) ==
    /\ request[h].op \in {"command", "name"}
    /\ request' = [request EXCEPT ![h] = Idle]
    /\ UNCHANGED <<deviceVars, served>>

Handle(h, u) ==
    \E d \in Devices :
        \/ Accept(u, d) \/ SetOwner(u, d)
        \/ \E op \in {"command", "name", "delete"} : CheckOwner(h, u, d, op)

-----------------------------------------------------------------------------
(* Only who has owned a device commands, renames or deletes it, and it is  *)
(* commanded only if it was accepted when that user had it, whatever       *)
(* changes of owner, deletions and new rows fall between the lookup and    *)
(* the act (devices.go:97-224).                                            *)
OwnersAct ==
    \A a \in acts :
        \E h \in held : /\ h.user = a.user /\ h.device = a.device
                        /\ a.op = "command" => h.accepted

=============================================================================
