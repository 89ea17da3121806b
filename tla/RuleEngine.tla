----------------------------- MODULE RuleEngine -----------------------------
(***************************************************************************)
(* The life of an automation rule: POST, PATCH and DELETE on               *)
(* /automations/rules (internal/web/api/automation.go), the engine that    *)
(* keeps the triggers of each rule in step with its row                    *)
(* (internal/engine/engine.go), and the process's start.                   *)
(*                                                                         *)
(* Every request is a goroutine, and every call it makes on PostgreSQL,    *)
(* Redis or cron is one step: two requests interleave between any two of   *)
(* these calls, and the process may die between them.  The rows and the    *)
(* Redis sets outlive the process; the cron jobs and the requests do not.  *)
(*                                                                         *)
(* A rule's conditions are reduced to what the engine takes from them: the *)
(* devices the tree names, the cron expressions of its time conditions,    *)
(* and whether the JSON fits models.Condition at all.                      *)
(***************************************************************************)
EXTENDS CronScheduler, FiniteSets

CONSTANTS
    Devices,     \* device IDs
    Crons,       \* cron expressions ConvertToCronExpression may print
    Names,       \* rule names
    Users,       \* authenticated users
    Conds,       \* condition trees, each [parses, devices, crons]
    Forms,       \* bodies of POST: [name, cond, enabled]
    Patches,     \* bodies of PATCH: [fields, name, cond, enabled]
    Handlers,    \* goroutines serving requests
    Overlap,     \* may clients send a request on a rule before the last one on it ended?
    MaxRequests, \* bound: requests in a behaviour
    MaxCrashes,  \* bound: times the process dies
    MaxFaults    \* bound: calls on PostgreSQL, Redis or the task queue that fail

RuleFields == {"name", "cond", "enabled"}

ASSUME CondsAssumption ==
    Conds \subseteq [parses: BOOLEAN, devices: SUBSET Devices, crons: SUBSET Crons]
ASSUME RequestsAssumption ==
    /\ Forms \subseteq [name: Names, cond: Conds, enabled: BOOLEAN]
    /\ Patches \subseteq [fields: SUBSET RuleFields, name: Names, cond: Conds, enabled: BOOLEAN]
ASSUME NonEmptyAssumption ==
    Names # {} /\ Users # {} /\ Conds # {} /\ Crons # {}
ASSUME BoundsAssumption ==
    /\ MaxRequests \in Nat /\ MaxCrashes \in Nat /\ MaxFaults \in Nat
    /\ Overlap \in BOOLEAN

VARIABLES
    rules,      \* table rules: a set of rows with unique id
    nextRule,   \* the identity sequence of rules.id
    schedules,  \* table schedules
    nextSched,  \* the identity sequence of schedules.id
    assoc,      \* Redis sets device:<id>:rules
    evals,      \* rules with an evaluate_rule task queued
    boot,       \* how far the process's start has come
    pc,         \* the call each handler makes next
    req,        \* each handler's request, and the row it has read or created
    work,       \* what the engine's loops have read and still have to do
    adding,     \* the arguments of the AddOrUpdateSchedule call in progress
    entry,      \* the ID AddJob returned, not yet in jobMap
    requests, crashes, faults  \* counters for the three bounds

tables   == <<rules, nextRule, schedules, nextSched>>
handlers == <<pc, req, work, adding, entry>>
counters == <<requests, crashes, faults>>
vars == <<schedulerVars, tables, assoc, evals, boot, handlers, counters>>

-----------------------------------------------------------------------------
(* Rows, and the zero values Go gives to a variable declared with none.    *)

RuleRow == [id: Nat, name: Names, owner: Users, enabled: BOOLEAN, cond: Conds]
ScheduleRow == [id: Nat, rule: Nat, cron: Crons, enabled: BOOLEAN]

NoRule ==
    [id |-> 0, name |-> CHOOSE n \in Names : TRUE, owner |-> CHOOSE u \in Users : TRUE,
     enabled |-> FALSE, cond |-> CHOOSE c \in Conds : TRUE]
NoSchedule ==
    [id |-> 0, rule |-> 0, cron |-> CHOOSE c \in Crons : TRUE, enabled |-> FALSE]
NoPatch ==
    [fields |-> {}, name |-> NoRule.name, cond |-> NoRule.cond, enabled |-> FALSE]

NoRequest == [op |-> "none", user |-> NoRule.owner, rule |-> 0, patch |-> NoPatch, copy |-> NoRule]
NoWork == [seen |-> NoRule, keys |-> {}, crons |-> {}, rows |-> {}, listed |-> FALSE]

RulesWithID(r) == {x \in rules : x.id = r}
SchedulesOf(r) == {s \in schedules : s.rule = r}

(* Mutants: fields that were not sent are written as NULL, or all are sent. *)
MergeNull(x, p) ==
    [x EXCEPT !.cond = IF "cond" \in p.fields THEN p.cond ELSE [parses |-> FALSE]]

MergeAll(x, p) == [x EXCEPT !.name = p.name, !.cond = p.cond, !.enabled = p.enabled]

(* What PATCH does to its copy of the row: only the fields it was sent. *)
Merge(x, p) ==
    [x EXCEPT !.name = IF "name" \in p.fields THEN p.name ELSE @,
              !.cond = IF "cond" \in p.fields THEN p.cond ELSE @,
              !.enabled = IF "enabled" \in p.fields THEN p.enabled ELSE @]

(* When the engine wants the rule evaluated on an update of device d. *)
Watches(x, d) == x.enabled /\ x.cond.parses /\ d \in x.cond.devices

-----------------------------------------------------------------------------
(* How a handler moves on.                                                 *)

At(h, l) == pc[h] = l
Goto(h, l) == pc' = [pc EXCEPT ![h] = l]

(* The response is sent and the goroutine ends. *)
Done(h) ==
    /\ Goto(h, "idle")
    /\ req' = [req EXCEPT ![h] = NoRequest]
    /\ work' = [work EXCEPT ![h] = NoWork]
    /\ adding' = [adding EXCEPT ![h] = NoSchedule]
    /\ entry' = [entry EXCEPT ![h] = NoEntry]

(* Mutant: the loop ends after its first turn.                             *)
NextConditionStops(h) == "list"

(* The next turn of createSchedulesFromTimeConditions' loop, or the end of it. *)
NextCondition(h) == IF work[h].crons = {} THEN "list" ELSE "lookup"

(* AddOrUpdateSchedule is called from that loop and, later, for every row  *)
(* refreshSchedulesForRule has listed.                                     *)
Added(h) == IF work[h].listed THEN "rows" ELSE NextCondition(h)

-----------------------------------------------------------------------------
(* Start of the process, engine.Start: first the schedules, then the       *)
(* associations.  The web server starts after both.                        *)

LoadSchedules ==
    /\ boot = "loading"
    /\ \E s \in schedules :
          /\ s.enabled /\ s.id \notin DOMAIN jobMap
          /\ LoadSchedule(s)
    /\ UNCHANGED <<tables, assoc, evals, boot, handlers, counters>>

SchedulesLoaded ==
    /\ boot = "loading"
    /\ \A s \in schedules : s.enabled => s.id \in DOMAIN jobMap
    /\ boot' = "clearing"
    /\ UNCHANGED <<schedulerVars, tables, assoc, evals, handlers, counters>>

(* populateDeviceRuleAssociations deletes every device:*:rules set ...     *)
ClearAssociations ==
    /\ boot = "clearing"
    /\ assoc' = [d \in Devices |-> {}]
    /\ boot' = "associating"
    /\ UNCHANGED <<schedulerVars, tables, evals, handlers, counters>>

(* ... and adds each enabled rule to the devices its conditions name; in   *)
(* the mutant, it forgets to skip the disabled ones.                       *)
AssociateDisabledToo ==
    /\ boot = "associating"
    /\ assoc' = [d \in Devices |->
                   {x.id : x \in {y \in rules : y.cond.parses /\ d \in y.cond.devices}}]
    /\ boot' = "booted"
    /\ UNCHANGED <<schedulerVars, tables, evals, handlers, counters>>

Associate ==
    /\ boot = "associating"
    /\ assoc' = [d \in Devices |-> {x.id : x \in {y \in rules : Watches(y, d)}}]
    /\ boot' = "booted"
    /\ UNCHANGED <<schedulerVars, tables, evals, handlers, counters>>

StartWebServer ==
    /\ boot = "booted"
    /\ boot' = "serving"
    /\ UNCHANGED <<schedulerVars, tables, assoc, evals, handlers, counters>>

(* The process dies, with its goroutines and its cron, and is started again. *)
Crash ==
    /\ crashes < MaxCrashes
    /\ crashes' = crashes + 1
    /\ boot' = "loading"
    /\ RestartScheduler
    /\ pc' = [h \in Handlers |-> "idle"]
    /\ req' = [h \in Handlers |-> NoRequest]
    /\ work' = [h \in Handlers |-> NoWork]
    /\ adding' = [h \in Handlers |-> NoSchedule]
    /\ entry' = [h \in Handlers |-> NoEntry]
    /\ UNCHANGED <<tables, assoc, evals, requests, faults>>

-----------------------------------------------------------------------------
(* Requests arrive.  Nothing in the server keeps two requests on one rule  *)
(* apart; Overlap = FALSE is a client that waits for each answer.          *)

(* The handler is working on rule row x, or on one it cannot tell from x.  *)
Touches(h, x) ==
    /\ pc[h] # "idle"
    /\ \/ req[h].rule = x.id
       \/ /\ req[h].op = "post" /\ req[h].rule = 0
          /\ req[h].copy.name = x.name /\ req[h].copy.owner = x.owner

Creating(u, n) ==
    \E h \in Handlers :
        /\ pc[h] # "idle" /\ req[h].op = "post" /\ req[h].rule = 0
        /\ req[h].copy.name = n /\ req[h].copy.owner = u

Untouched(r) ==
    \A h \in Handlers :
        ~ \/ pc[h] # "idle" /\ req[h].rule = r
          \/ \E x \in RulesWithID(r) : Touches(h, x)

Receive(h, request, l) ==
    /\ boot = "serving" /\ At(h, "idle")
    /\ requests < MaxRequests
    /\ requests' = requests + 1
    /\ req' = [req EXCEPT ![h] = request]
    /\ Goto(h, l)
    /\ UNCHANGED <<schedulerVars, tables, assoc, evals, boot, work, adding, entry, crashes, faults>>

Post(h) ==
    \E u \in Users, f \in Forms :
        /\ Overlap \/ ~ Creating(u, f.name)
        /\ Receive(h, [op |-> "post", user |-> u, rule |-> 0, patch |-> NoPatch,
                       copy |-> [id |-> 0, name |-> f.name, owner |-> u,
                                 enabled |-> f.enabled, cond |-> f.cond]], "insert")

(* A client may send the ID of any rule there has been.                    *)
Patch(h) ==
    \E u \in Users, r \in 1 .. (nextRule - 1), p \in Patches :
        /\ Overlap \/ (Untouched(r) /\ ("name" \in p.fields => ~ Creating(u, p.name)))
        /\ Receive(h, [op |-> "patch", user |-> u, rule |-> r, patch |-> p, copy |-> NoRule], "read")

Delete(h) ==
    \E u \in Users, r \in 1 .. (nextRule - 1) :
        /\ Overlap \/ Untouched(r)
        /\ Receive(h, [op |-> "delete", user |-> u, rule |-> r, patch |-> NoPatch, copy |-> NoRule], "keys")

-----------------------------------------------------------------------------
(* POST: the row is inserted, then looked up again by its name and owner.  *)

InsertRule(h) ==
    /\ At(h, "insert")
    /\ rules' = rules \cup {[req[h].copy EXCEPT !.id = nextRule]}
    /\ nextRule' = nextRule + 1
    /\ Goto(h, "select")
    /\ UNCHANGED <<schedulerVars, schedules, nextSched, assoc, evals, boot, req, work, adding, entry, counters>>

SelectRule(h) ==
    /\ At(h, "select")
    /\ LET named == {x \in rules : x.name = req[h].copy.name /\ x.owner = req[h].user}
       IN  \/ /\ named = {}
              /\ Done(h)
           \/ \E x \in named :
                 /\ \A y \in named : y.id <= x.id
                 /\ req' = [req EXCEPT ![h].copy = x, ![h].rule = x.id]
                 /\ Goto(h, "fetch")
                 /\ UNCHANGED <<work, adding, entry>>
    /\ UNCHANGED <<schedulerVars, tables, assoc, evals, boot, counters>>

(* PATCH: the row is read whole, merged with the request, written whole.   *)
ReadRule(h) ==
    /\ At(h, "read")
    /\ LET found == {x \in RulesWithID(req[h].rule) : x.owner = req[h].user}
       IN  \/ /\ found = {}
              /\ Done(h)
           \/ \E x \in found :
                 /\ req' = [req EXCEPT ![h].copy = Merge(x, req[h].patch)]
                 /\ Goto(h, "write")
                 /\ UNCHANGED <<work, adding, entry>>
    /\ UNCHANGED <<schedulerVars, tables, assoc, evals, boot, counters>>

(* The row may be gone by now: the UPDATE then changes none and succeeds.  *)
WriteRule(h) ==
    /\ At(h, "write")
    /\ rules' = {IF x.id = req[h].copy.id /\ x.owner = req[h].copy.owner THEN req[h].copy ELSE x
                 : x \in rules}
    /\ Goto(h, "fetch")
    /\ UNCHANGED <<schedulerVars, nextRule, schedules, nextSched, assoc, evals, boot,
                   req, work, adding, entry, counters>>

-----------------------------------------------------------------------------
(* RefreshRuleAssociations: the row is read again, the rule removed from   *)
(* every association set there is, then added to those it belongs in.      *)

FetchRule(h) ==
    /\ At(h, "fetch")
    /\ \/ /\ RulesWithID(req[h].rule) = {}
          /\ Done(h)
       \/ \E x \in RulesWithID(req[h].rule) :
             /\ work' = [work EXCEPT ![h].seen = x]
             /\ Goto(h, "keys")
             /\ UNCHANGED <<req, adding, entry>>
    /\ UNCHANGED <<schedulerVars, tables, assoc, evals, boot, counters>>

(* Mutant: only the devices of the new conditions are looked at.           *)
GetKeysOfRule(h) ==
    /\ At(h, "keys")
    /\ work' = [work EXCEPT ![h].keys = {d \in work[h].seen.cond.devices : assoc[d] # {}}]
    /\ Goto(h, "srem")
    /\ UNCHANGED <<schedulerVars, tables, assoc, evals, boot, req, adding, entry, counters>>

(* KEYS device:*:rules; Redis holds no empty set.  RemoveRuleAssociations   *)
(* starts here.                                                             *)
GetKeys(h) ==
    /\ At(h, "keys")
    /\ work' = [work EXCEPT ![h].keys = {d \in Devices : assoc[d] # {}}]
    /\ Goto(h, "srem")
    /\ UNCHANGED <<schedulerVars, tables, assoc, evals, boot, req, adding, entry, counters>>

RemoveAssociation(h) ==
    /\ At(h, "srem")
    /\ \E d \in work[h].keys :
          /\ assoc' = [assoc EXCEPT ![d] = @ \ {req[h].rule}]
          /\ work' = [work EXCEPT ![h].keys = @ \ {d}]
    /\ UNCHANGED <<schedulerVars, tables, evals, boot, pc, req, adding, entry, counters>>

(* The rule is in no set.  A disabled rule needs no more; conditions that  *)
(* do not parse make the refresh fail, and the caller triggers nothing.    *)
AssociationsRemoved(h) ==
    /\ At(h, "srem") /\ work[h].keys = {} /\ req[h].op # "delete"
    /\ \/ /\ ~ work[h].seen.enabled
          /\ Goto(h, "trigger")
          /\ UNCHANGED <<req, work, adding, entry>>
       \/ /\ work[h].seen.enabled /\ ~ work[h].seen.cond.parses
          /\ Done(h)
       \/ /\ work[h].seen.enabled /\ work[h].seen.cond.parses
          /\ work' = [work EXCEPT ![h].keys = work[h].seen.cond.devices]
          /\ Goto(h, "sadd")
          /\ UNCHANGED <<req, adding, entry>>
    /\ UNCHANGED <<schedulerVars, tables, assoc, evals, boot, counters>>

AddAssociation(h) ==
    /\ At(h, "sadd")
    /\ \E d \in work[h].keys :
          /\ assoc' = [assoc EXCEPT ![d] = @ \cup {req[h].rule}]
          /\ work' = [work EXCEPT ![h].keys = @ \ {d}]
    /\ UNCHANGED <<schedulerVars, tables, evals, boot, pc, req, adding, entry, counters>>

-----------------------------------------------------------------------------
(* refreshSchedulesForRule: the row is read a third time; every time       *)
(* condition gets a schedule row, looked up first and created if there is  *)
(* none, and a cron job; then every row of the rule gets its job anew.     *)

RefetchRule(h) ==
    /\ At(h, "sadd") /\ work[h].keys = {}
    /\ \/ /\ RulesWithID(req[h].rule) = {}
          /\ Goto(h, "trigger")
          /\ UNCHANGED work
       \/ \E x \in RulesWithID(req[h].rule) :
             LET crons == IF x.cond.parses THEN x.cond.crons ELSE {}
             IN  /\ work' = [work EXCEPT ![h].seen = x, ![h].crons = crons]
                 /\ Goto(h, IF crons = {} THEN "list" ELSE "lookup")
    /\ UNCHANGED <<schedulerVars, tables, assoc, evals, boot, req, adding, entry, counters>>

(* Mutant: every time condition gets a new row, without a look.            *)
LookupScheduleNever(h) ==
    /\ At(h, "lookup")
    /\ \E c \in work[h].crons :
          /\ work' = [work EXCEPT ![h].crons = @ \ {c}]
          /\ adding' = [adding EXCEPT ![h] =
                          [id |-> 0, rule |-> req[h].rule, cron |-> c,
                           enabled |-> work[h].seen.enabled]]
    /\ Goto(h, "create")
    /\ UNCHANGED <<schedulerVars, tables, assoc, evals, boot, req, entry, counters>>

(* Any of the rows that match may be the one QueryRow returns.             *)
LookupSchedule(h) ==
    /\ At(h, "lookup")
    /\ \E c \in work[h].crons :
          LET wanted == [NoSchedule EXCEPT !.rule = req[h].rule, !.cron = c,
                                           !.enabled = work[h].seen.enabled]
              found == {s \in SchedulesOf(req[h].rule) : s.cron = c}
          IN  /\ work' = [work EXCEPT ![h].crons = @ \ {c}]
              /\ \/ /\ found = {}
                    /\ adding' = [adding EXCEPT ![h] = wanted]
                    /\ Goto(h, "create")
                 \/ \E s \in found :
                       /\ adding' = [adding EXCEPT ![h] = [wanted EXCEPT !.id = s.id]]
                       /\ Goto(h, "update")
    /\ UNCHANGED <<schedulerVars, tables, assoc, evals, boot, req, entry, counters>>

(* The foreign key on rule_id refuses a schedule of a rule that is gone.   *)
CreateSchedule(h) ==
    /\ At(h, "create")
    /\ \/ /\ RulesWithID(req[h].rule) = {}
          /\ Goto(h, NextCondition(h))
          /\ UNCHANGED <<schedules, nextSched, adding>>
       \/ /\ RulesWithID(req[h].rule) # {}
          /\ schedules' = schedules \cup {[adding[h] EXCEPT !.id = nextSched]}
          /\ nextSched' = nextSched + 1
          /\ adding' = [adding EXCEPT ![h].id = nextSched]
          /\ Goto(h, "unschedule")
    /\ UNCHANGED <<schedulerVars, rules, nextRule, assoc, evals, boot, req, work, entry, counters>>

UpdateSchedule(h) ==
    /\ At(h, "update")
    /\ schedules' = {IF s.id = adding[h].id
                     THEN [s EXCEPT !.cron = adding[h].cron, !.enabled = adding[h].enabled]
                     ELSE s : s \in schedules}
    /\ Goto(h, "unschedule")
    /\ UNCHANGED <<schedulerVars, rules, nextRule, nextSched, assoc, evals, boot,
                   req, work, adding, entry, counters>>

(* AddOrUpdateSchedule: RemoveSchedule, AddJob, jobMap.                    *)
Unschedule(h) ==
    /\ At(h, "unschedule")
    /\ RemoveSchedule(adding[h].id)
    /\ Goto(h, IF adding[h].enabled THEN "addjob" ELSE Added(h))
    /\ UNCHANGED <<tables, assoc, evals, boot, req, work, adding, entry, counters>>

Schedule(h) ==
    /\ At(h, "addjob")
    /\ AddJob(adding[h])
    /\ entry' = [entry EXCEPT ![h] = nextEntry]
    /\ Goto(h, "mapjob")
    /\ UNCHANGED <<tables, assoc, evals, boot, req, work, adding, counters>>

RecordJob(h) ==
    /\ At(h, "mapjob")
    /\ MapJob(adding[h].id, entry[h])
    /\ entry' = [entry EXCEPT ![h] = NoEntry]
    /\ adding' = [adding EXCEPT ![h] = NoSchedule]
    /\ Goto(h, Added(h))
    /\ UNCHANGED <<tables, assoc, evals, boot, req, work, counters>>

ListSchedules(h) ==
    /\ At(h, "list")
    /\ work' = [work EXCEPT ![h].rows = SchedulesOf(req[h].rule), ![h].listed = TRUE]
    /\ Goto(h, "rows")
    /\ UNCHANGED <<schedulerVars, tables, assoc, evals, boot, req, adding, entry, counters>>

NextSchedule(h) ==
    /\ At(h, "rows")
    /\ \E s \in work[h].rows :
          /\ adding' = [adding EXCEPT ![h] = s]
          /\ work' = [work EXCEPT ![h].rows = @ \ {s}]
    /\ Goto(h, "unschedule")
    /\ UNCHANGED <<schedulerVars, tables, assoc, evals, boot, req, entry, counters>>

(* The refresh returned no error: TriggerRuleEvaluation, if the caller's    *)
(* copy of the row is enabled.                                              *)
Refreshed(h) == At(h, "trigger") \/ (At(h, "rows") /\ work[h].rows = {})

(* Mutant: PATCH does not trigger.                                         *)
TriggerOnPostOnly(h) ==
    /\ Refreshed(h)
    /\ evals' = IF req[h].op = "post" /\ req[h].copy.enabled
                THEN evals \cup {req[h].rule} ELSE evals
    /\ Done(h)
    /\ UNCHANGED <<schedulerVars, tables, assoc, boot, counters>>

TriggerRuleEvaluation(h) ==
    /\ Refreshed(h)
    /\ evals' = IF req[h].copy.enabled THEN evals \cup {req[h].rule} ELSE evals
    /\ Done(h)
    /\ UNCHANGED <<schedulerVars, tables, assoc, boot, counters>>

-----------------------------------------------------------------------------
(* DELETE: the associations are gone; then each schedule's job and row go, *)
(* and last the rule's row, the one statement that looks at the owner.     *)

ListDoomed(h) ==
    /\ At(h, "srem") /\ work[h].keys = {} /\ req[h].op = "delete"
    /\ work' = [work EXCEPT ![h].rows = SchedulesOf(req[h].rule)]
    /\ Goto(h, "rmjob")
    /\ UNCHANGED <<schedulerVars, tables, assoc, evals, boot, req, adding, entry, counters>>

(* Mutant: only the row is deleted, the job keeps running.                 *)
RemoveJobKeepsJob(h) ==
    /\ At(h, "rmjob")
    /\ \E s \in work[h].rows :
          /\ adding' = [adding EXCEPT ![h] = s]
          /\ work' = [work EXCEPT ![h].rows = @ \ {s}]
    /\ Goto(h, "rmrow")
    /\ UNCHANGED <<schedulerVars, tables, assoc, evals, boot, req, entry, counters>>

RemoveJob(h) ==
    /\ At(h, "rmjob")
    /\ \E s \in work[h].rows :
          /\ RemoveSchedule(s.id)
          /\ adding' = [adding EXCEPT ![h] = s]
          /\ work' = [work EXCEPT ![h].rows = @ \ {s}]
    /\ Goto(h, "rmrow")
    /\ UNCHANGED <<tables, assoc, evals, boot, req, entry, counters>>

DeleteSchedule(h) ==
    /\ At(h, "rmrow")
    /\ schedules' = {s \in schedules : s.id # adding[h].id}
    /\ Goto(h, "rmjob")
    /\ UNCHANGED <<schedulerVars, rules, nextRule, nextSched, assoc, evals, boot,
                   req, work, adding, entry, counters>>

(* The foreign key refuses to delete a rule that still has schedules.      *)
DeleteRule(h) ==
    /\ At(h, "rmjob") /\ work[h].rows = {}
    /\ rules' = {x \in rules : \/ x.id # req[h].rule \/ x.owner # req[h].user
                               \/ SchedulesOf(x.id) # {}}
    /\ Done(h)
    /\ UNCHANGED <<schedulerVars, nextRule, schedules, nextSched, assoc, evals, boot, counters>>

-----------------------------------------------------------------------------
(* Failed calls.  The code ends the request, or logs the error (or not     *)
(* even that) and goes on with the next turn of its loop.                  *)

EndsRequest(h) ==
    /\ \/ pc[h] \in {"insert", "select", "read", "write", "fetch"}
       \/ At(h, "keys") /\ req[h].op # "delete"
       \/ At(h, "rmjob") /\ work[h].rows = {}
       \/ Refreshed(h) /\ req[h].copy.enabled
    /\ Done(h)
    /\ UNCHANGED schedulerVars

SkipsAssociation(h) ==
    /\ pc[h] \in {"srem", "sadd"}
    /\ \E d \in work[h].keys : work' = [work EXCEPT ![h].keys = @ \ {d}]
    /\ UNCHANGED <<schedulerVars, pc, req, adding, entry>>

(* A failed lookup is taken for a schedule that does not exist.            *)
MisreadsLookup(h) ==
    /\ At(h, "lookup")
    /\ \E c \in work[h].crons :
          /\ work' = [work EXCEPT ![h].crons = @ \ {c}]
          /\ adding' = [adding EXCEPT ![h] =
                          [id |-> 0, rule |-> req[h].rule, cron |-> c,
                           enabled |-> work[h].seen.enabled]]
    /\ Goto(h, "create")
    /\ UNCHANGED <<schedulerVars, req, entry>>

SkipsRest(h) ==
    /\ \/ pc[h] \in {"create", "update"} /\ Goto(h, NextCondition(h))
       \/ At(h, "sadd") /\ work[h].keys = {} /\ Goto(h, "trigger")
       \/ At(h, "list") /\ Goto(h, "trigger")
       \/ At(h, "keys") /\ req[h].op = "delete" /\ Goto(h, "rmjob")
       \/ At(h, "srem") /\ work[h].keys = {} /\ req[h].op = "delete" /\ Goto(h, "rmjob")
       \/ At(h, "rmrow") /\ Goto(h, "rmjob")
    /\ UNCHANGED <<schedulerVars, req, work, adding, entry>>

CallFails(h) ==
    /\ faults < MaxFaults
    /\ faults' = faults + 1
    /\ \/ EndsRequest(h)
       \/ SkipsAssociation(h)
       \/ MisreadsLookup(h)
       \/ SkipsRest(h)
    /\ UNCHANGED <<tables, assoc, evals, boot, requests, crashes>>

-----------------------------------------------------------------------------
(* The queue of evaluate_rule tasks.  Tasks on one rule count as one: each *)
(* reads the rule's row when it is taken, not when it is queued.           *)

Fire ==
    /\ \E j \in entries : evals' = evals \cup {j.rule}
    /\ UNCHANGED <<schedulerVars, tables, assoc, boot, handlers, counters>>

TakeEvaluation ==
    /\ \E r \in evals : evals' = evals \ {r}
    /\ UNCHANGED <<schedulerVars, tables, assoc, boot, handlers, counters>>

Boot == LoadSchedules \/ SchedulesLoaded \/ ClearAssociations \/ Associate \/ StartWebServer

Write(h) == InsertRule(h) \/ SelectRule(h) \/ ReadRule(h) \/ WriteRule(h)

Refresh(h) ==
    \/ FetchRule(h) \/ GetKeys(h) \/ RemoveAssociation(h) \/ AssociationsRemoved(h)
    \/ AddAssociation(h) \/ RefetchRule(h)
    \/ LookupSchedule(h) \/ CreateSchedule(h) \/ UpdateSchedule(h)
    \/ Unschedule(h) \/ Schedule(h) \/ RecordJob(h)
    \/ ListSchedules(h) \/ NextSchedule(h) \/ TriggerRuleEvaluation(h)

Remove(h) == ListDoomed(h) \/ RemoveJob(h) \/ DeleteSchedule(h) \/ DeleteRule(h)

Step(h) == Write(h) \/ Refresh(h) \/ Remove(h)

Init ==
    /\ NewScheduler
    /\ rules = {} /\ nextRule = 1
    /\ schedules = {} /\ nextSched = 1
    /\ assoc = [d \in Devices |-> {}]
    /\ evals = {}
    /\ boot = "loading"
    /\ pc = [h \in Handlers |-> "idle"]
    /\ req = [h \in Handlers |-> NoRequest]
    /\ work = [h \in Handlers |-> NoWork]
    /\ adding = [h \in Handlers |-> NoSchedule]
    /\ entry = [h \in Handlers |-> NoEntry]
    /\ requests = 0 /\ crashes = 0 /\ faults = 0

Next ==
    \/ Boot \/ Crash \/ Fire \/ TakeEvaluation
    \/ \E h \in Handlers : Post(h) \/ Patch(h) \/ Delete(h) \/ Step(h) \/ CallFails(h)

Spec == Init /\ [][Next]_vars

(* A goroutine that can run does run, and the start of the process goes on. *)
(* Nothing makes clients send, jobs fire or workers take tasks.             *)
FairSpec == Spec /\ WF_vars(Boot) /\ \A h \in Handlers : WF_vars(Step(h))

-----------------------------------------------------------------------------
(* Properties.                                                             *)

Labels == {"idle", "insert", "select", "read", "write", "fetch", "keys", "srem", "sadd",
           "lookup", "create", "update", "unschedule", "addjob", "mapjob", "list", "rows",
           "trigger", "rmjob", "rmrow"}

Requests == [op: {"none", "post", "patch", "delete"}, user: Users, rule: Nat,
             patch: [fields: SUBSET RuleFields, name: Names, cond: Conds, enabled: BOOLEAN],
             copy: RuleRow]
Work == [seen: RuleRow, keys: SUBSET Devices, crons: SUBSET Crons, rows: SUBSET ScheduleRow,
         listed: BOOLEAN]
Jobs == [id: Nat, sched: Nat, rule: Nat, cron: Crons]

(* Every variable has its type (automation.go, engine.go, scheduler.go).   *)
TypeOK ==
    /\ entries \subseteq Jobs /\ nextEntry \in Nat
    /\ DOMAIN jobMap \subseteq Nat /\ \A s \in DOMAIN jobMap : jobMap[s] \in Nat
    /\ rules \subseteq RuleRow /\ nextRule \in Nat
    /\ schedules \subseteq ScheduleRow /\ nextSched \in Nat
    /\ assoc \in [Devices -> SUBSET Nat]
    /\ evals \subseteq Nat
    /\ boot \in {"loading", "clearing", "associating", "booted", "serving"}
    /\ pc \in [Handlers -> Labels]
    /\ req \in [Handlers -> Requests]
    /\ work \in [Handlers -> Work]
    /\ adding \in [Handlers -> ScheduleRow]
    /\ entry \in [Handlers -> Nat]
    /\ requests \in Nat /\ crashes \in Nat /\ faults \in Nat

(* A binding of jobMap never outlives its job, nor points at the job of    *)
(* another schedule, however the calls of AddOrUpdateSchedule and          *)
(* RemoveSchedule of several requests interleave: a Remove would otherwise *)
(* stop another rule's job (scheduler.go:108-149).                         *)
JobMapLive ==
    \A s \in DOMAIN jobMap : \E j \in entries : j.id = jobMap[s] /\ j.sched = s

(* No handler works on rule r, and the web server is up.                   *)
AtRest(r) == boot = "serving" /\ Untouched(r)

(* A rule nobody is changing is in the set of each device its conditions   *)
(* name if it is enabled, and in no other set: RefreshRuleAssociations     *)
(* leaves no device that ought to wake the rule, or still does             *)
(* (engine.go:188-226; automation.go:72 and 150).                          *)
AssociationsAtRest ==
    \A x \in rules : AtRest(x.id) =>
        \A d \in Devices : x.id \in assoc[d] <=> Watches(x, d)

LiveJob(s) ==
    /\ s.id \in DOMAIN jobMap
    /\ \E j \in entries : /\ j.id = jobMap[s.id]
                          /\ j.rule = s.rule /\ j.cron = s.cron

(* Each time condition of an enabled rule nobody is changing has a         *)
(* schedule that is enabled and whose job runs: the rule is evaluated at   *)
(* that time (engine.go:237-278 and 304-335).                              *)
TimesAtRest ==
    \A x \in rules : AtRest(x.id) /\ x.enabled /\ x.cond.parses =>
        \A c \in x.cond.crons :
            \E s \in SchedulesOf(x.id) : s.cron = c /\ s.enabled /\ LiveJob(s)

JobsOf(s) == {j \in entries : j.sched = s.id}

(* A schedule never has two cron jobs once the requests on its rule have   *)
(* ended: the one that jobMap does not hold could never be removed, and    *)
(* would fire until the process ends (scheduler.go:120-149).               *)
OneJobPerSchedule ==
    \A x \in rules : AtRest(x.id) =>
        \A s \in SchedulesOf(x.id) : Cardinality(JobsOf(s)) <= 1

(* No two schedule rows of a rule have the same time, though the table has *)
(* no constraint against it and the code looks before it inserts           *)
(* (engine.go:251-262).                                                    *)
UniqueSchedules ==
    \A s, t \in schedules : s.rule = t.rule /\ s.cron = t.cron => s.id = t.id

(* A deleted rule leaves nothing behind: no association, no schedule and   *)
(* no cron job (engine.go:281-300 and 338-360).                            *)
NothingDangles ==
    \A r \in 1 .. (nextRule - 1) : RulesWithID(r) = {} /\ AtRest(r) =>
        /\ \A d \in Devices : r \notin assoc[d]
        /\ \A j \in entries : j.rule # r
        /\ SchedulesOf(r) = {}

(* Whatever state the crash left, once the process has started again the   *)
(* associations are those of the rules' rows, stale ones gone, and the     *)
(* cron jobs are those of the enabled schedules' rows, each once           *)
(* (engine.go:40-61 and 89-132, scheduler.go:50-88).                       *)
RestartRepairs ==
    boot = "booted" =>
        /\ \A d \in Devices : assoc[d] = {x.id : x \in {y \in rules : Watches(y, d)}}
        /\ \A s \in schedules : Cardinality(JobsOf(s)) = (IF s.enabled THEN 1 ELSE 0)
        /\ \A j \in entries : \E s \in schedules : s.id = j.sched /\ LiveJob(s)

(* A job fires the rule its schedule's row names, at the time the row      *)
(* names, though the row is read, the job added and the row written by     *)
(* steps that other requests come between (engine.go:252-276 and 321-332,  *)
(* scheduler.go:59-69).                                                    *)
JobsMatchRows ==
    \A j \in entries, s \in schedules :
        j.sched = s.id => j.rule = s.rule /\ j.cron = s.cron

(* "Update only the fields that were provided" (automation.go:128): of the *)
(* row that PATCH's UPDATE replaces, the fields the client did not send    *)
(* keep their values.                                                      *)
KeepsField(x, y, p) ==
    /\ "name" \in p.fields \/ x.name = y.name
    /\ "cond" \in p.fields \/ x.cond = y.cond
    /\ "enabled" \in p.fields \/ x.enabled = y.enabled

PatchOnlyProvided ==
    [][\A h \in Handlers : At(h, "write") /\ pc'[h] = "fetch" =>
          \A x \in rules, y \in rules' :
              x.id = req[h].rule /\ y.id = x.id => KeepsField(x, y, req[h].patch)]_vars

(* A rule that POST or PATCH has written enabled, with conditions that     *)
(* parse, is evaluated on what was written: a task of it comes to be in    *)
(* the queue after the write, unless another request deletes, disables or  *)
(* garbles the rule first (automation.go:77-82 and 155-160).               *)
CanRun(x) == x.enabled /\ x.cond.parses

Reevaluated ==
    \A r \in 1 .. MaxRequests :
        (\E h \in Handlers : At(h, "fetch") /\ req[h].rule = r /\ CanRun(req[h].copy))
            ~> (r \in evals \/ ~ \E x \in RulesWithID(r) : CanRun(x))

=============================================================================
