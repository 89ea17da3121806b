------------------------------ MODULE Pipeline ------------------------------
(***************************************************************************)
(* From a device's report to the evaluation of the rules that watch it:    *)
(* onDeviceUpdate (internal/engine/engine.go) queues a device_update task, *)
(* a worker stores the new state in Redis and queues an evaluate_rule task *)
(* for each rule in the device's association set                           *)
(* (internal/automation/updater.go, internal/taskqueue/tasks.go), and a    *)
(* worker evaluates the rule.  Meanwhile devices are accepted and deleted, *)
(* and edits of rules take them out of the association sets and put them   *)
(* back (RefreshRuleAssociations).  The process may end at any moment; the *)
(* next start (cmd/engine/main.go) runs the workers and subscribes to the  *)
(* reports before it clears the association sets and fills them again.     *)
(*                                                                         *)
(* asynq is external: one queue, tasks taken in order by ten goroutines    *)
(* that run concurrently, a task that returned an error queued again after *)
(* a delay until it has been retried MaxRetry times; a task whose process  *)
(* ended counts as one that returned an error once its lease has expired.  *)
(*                                                                         *)
(* Not here: the contents of conditions and actions (Conditions,           *)
(* Arbitration), and edits of one rule that overlap (RuleEngine).          *)
(***************************************************************************)
EXTENDS Naturals, Sequences

CONSTANTS
    Devices, Rules,
    Watched,     \* the devices each rule's conditions name
    Workers,     \* goroutines of the asynq server
    MaxRetry,    \* asynq.MaxRetry(3)
    MaxReports,  \* bound: reports of devices
    MaxEvents    \* bound: PATCHes of rules, devices accepted or deleted, calls
                 \* that fail, and ends of the process, together

ASSUME WatchedAssumption == Watched \in [Rules -> SUBSET Devices]
ASSUME BoundsAssumption == MaxRetry \in Nat /\ MaxReports \in Nat /\ MaxEvents \in Nat

VARIABLES
    row,      \* each device's row in table devices: "none", "new" or "accepted"
    state,    \* Redis device:<id>: the number of the report it holds, 0 for none
    assoc,    \* Redis sets device:<id>:rules
    enabled,  \* column rules.enabled
    queue,    \* asynq's pending tasks
    retrying, \* tasks that failed and wait to be queued again
    pc,       \* the call each worker makes next
    task,     \* the task it has
    toWake,   \* the rule IDs it has read and not yet queued
    edit,     \* how far the PATCH on each rule has come
    left,     \* the sets the PATCH has still to remove the rule from or add it to
    boot,     \* how far main has come
    client,   \* StartWorkers has set asynqClient, and the workers run
    unfilled, \* the <<device, rule>> main has still to add
    reports, events,                        \* counters for the bounds
    undisturbed, current, dropped, welcomed \* history: see the properties

stores   == <<row, state, assoc, enabled>>
queues   == <<queue, retrying>>
workers  == <<pc, task, toWake>>
editors  == <<edit, left>>
process  == <<boot, client, unfilled>>
counters == <<reports, events>>
history  == <<undisturbed, current, dropped, welcomed>>
vars == <<stores, queues, workers, editors, process, counters, history>>

-----------------------------------------------------------------------------
Update(d, n) == [kind |-> "device_update", of |-> d, report |-> n, tries |-> 0]
Evaluation(r) == [kind |-> "evaluate_rule", of |-> r, report |-> 0, tries |-> 0]
NoTask == [kind |-> "none", of |-> 0, report |-> 0, tries |-> 0]

(* The rules a task is about.                                              *)
Concerned(t) ==
    IF t.kind = "evaluate_rule" THEN {t.of} ELSE {r \in Rules : t.of \in Watched[r]}

Goto(w, l) == pc' = [pc EXCEPT ![w] = l]

Done(w) ==
    /\ Goto(w, "idle")
    /\ task' = [task EXCEPT ![w] = NoTask]
    /\ toWake' = [toWake EXCEPT ![w] = {}]

Event == events < MaxEvents /\ events' = events + 1 /\ UNCHANGED reports

-----------------------------------------------------------------------------
(* main and the start of the engine.                                       *)

Launch ==
    /\ boot = "down" /\ boot' = "start"
    /\ UNCHANGED <<stores, queues, workers, editors, client, unfilled, counters, history>>

(* The goroutine of StartWorkers, which main does not wait for.            *)
StartWorkers ==
    /\ boot # "down" /\ ~ client
    /\ client' = TRUE
    /\ UNCHANGED <<stores, queues, workers, editors, boot, unfilled, counters, history>>

Subscribe ==
    /\ boot = "start" /\ boot' = "clear"
    /\ UNCHANGED <<stores, queues, workers, editors, client, unfilled, counters, history>>

(* GetAllRules, KEYS and the DELs: no set can gain a member meanwhile.     *)
ClearAssociations ==
    /\ boot = "clear" /\ boot' = "fill"
    /\ assoc' = [d \in Devices |-> {}]
    /\ unfilled' = {p \in Devices \X Rules : enabled[p[2]] /\ p[1] \in Watched[p[2]]}
    /\ UNCHANGED <<row, state, enabled, queues, workers, editors, client, counters, history>>

(* Mutant: the first device of each rule is enough.                        *)
FillSome ==
    /\ boot = "fill" /\ unfilled # {}
    /\ \E p \in unfilled :
          /\ assoc' = [assoc EXCEPT ![p[1]] = @ \cup {p[2]}]
          /\ unfilled' = {q \in unfilled : q[2] # p[2]}
    /\ UNCHANGED <<row, state, enabled, queues, workers, editors, boot, client, counters, history>>

FillAssociation ==
    /\ boot = "fill"
    /\ \E p \in unfilled :
          /\ assoc' = [assoc EXCEPT ![p[1]] = @ \cup {p[2]}]
          /\ unfilled' = unfilled \ {p}
    /\ UNCHANGED <<row, state, enabled, queues, workers, editors, boot, client, counters, history>>

(* The web server starts.                                                  *)
ServeRequests ==
    /\ boot = "fill" /\ unfilled = {}
    /\ boot' = "up"
    /\ UNCHANGED <<stores, queues, workers, editors, client, unfilled, counters, history>>

(* The end of the process: asynq keeps the tasks the workers had, and the  *)
(* handlers of the web server leave their edits where they are.            *)
Die ==
    /\ boot' = "down" /\ client' = FALSE /\ unfilled' = {}
    /\ pc' = [w \in Workers |-> IF pc[w] = "idle" THEN "idle" ELSE "lost"]
    /\ toWake' = [w \in Workers |-> {}]
    /\ edit' = [r \in Rules |-> "none"] /\ left' = [r \in Rules |-> {}]
    /\ dropped' = dropped \cup {r \in Rules : edit[r] # "none"}
    /\ UNCHANGED <<stores, retrying, task, undisturbed, current, welcomed>>

Crash == boot # "down" /\ Event /\ Die /\ UNCHANGED queue

(* A device reports; its report's number stands for the state.             *)
OnDeviceUpdate ==
    /\ boot \in {"clear", "fill", "up"}
    /\ reports < MaxReports
    /\ reports' = reports + 1
    /\ \/ /\ client
          /\ \E d \in Devices : queue' = Append(queue, Update(d, reports'))
          /\ UNCHANGED <<stores, retrying, workers, editors, process, history>>
       \/ ~ client /\ Die /\ UNCHANGED queue \* a nil client: the process panics
    /\ UNCHANGED events

(* Mutant: the mux hands each kind of task to the other's handler.         *)
TakeTaskCrossed(w) ==
    /\ client /\ pc[w] = "idle" /\ queue # <<>>
    /\ task' = [task EXCEPT ![w] = Head(queue)]
    /\ queue' = Tail(queue)
    /\ Goto(w, IF Head(queue).kind = "device_update" THEN "fetch" ELSE "lookup")
    /\ undisturbed' = [undisturbed EXCEPT ![w] = TRUE]
    /\ UNCHANGED <<stores, retrying, toWake, editors, process, counters, current, dropped, welcomed>>

(* A worker's evaluation is undisturbed until a device it depends on gets  *)
(* a new state.                                                            *)
TakeTask(w) ==
    /\ client /\ pc[w] = "idle" /\ queue # <<>>
    /\ task' = [task EXCEPT ![w] = Head(queue)]
    /\ queue' = Tail(queue)
    /\ Goto(w, IF Head(queue).kind = "device_update" THEN "lookup" ELSE "fetch")
    /\ undisturbed' = [undisturbed EXCEPT ![w] = TRUE]
    /\ UNCHANGED <<stores, retrying, toWake, editors, process, counters, current, dropped, welcomed>>

-----------------------------------------------------------------------------
(* processDeviceUpdateTask.                                                *)

(* A second try ends here, though the first may have stored its state.     *)
Ignore(w) == dropped' = IF task[w].tries > 0 THEN dropped \cup Concerned(task[w]) ELSE dropped

(* Mutant: devices nobody accepted are heard as well.                      *)
LookupAnyDevice(w) ==
    /\ pc[w] = "lookup"
    /\ Goto(w, IF row[task[w].of] = "none" THEN "insert" ELSE "store")
    /\ UNCHANGED <<stores, queues, task, toWake, editors, process, counters, history>>

LookupDevice(w) ==
    /\ pc[w] = "lookup"
    /\ \/ row[task[w].of] = "none" /\ Goto(w, "insert") /\ Ignore(w) /\ UNCHANGED <<task, toWake>>
       \/ row[task[w].of] = "new" /\ Done(w) /\ Ignore(w)
       \/ row[task[w].of] = "accepted" /\ Goto(w, "store") /\ UNCHANGED <<task, toWake, dropped>>
    /\ UNCHANGED <<stores, queues, editors, process, counters, undisturbed, current, welcomed>>

(* A failed lookup is taken for a device that does not exist.              *)
LookupFails(w) ==
    /\ pc[w] = "lookup"
    /\ Goto(w, "insert")
    /\ Ignore(w)
    /\ Event
    /\ UNCHANGED <<stores, queues, task, toWake, editors, process, undisturbed, current, welcomed>>

(* Mutant: an INSERT that overwrites the row there is.                     *)
UpsertDevice(w) ==
    /\ pc[w] = "insert"
    /\ row' = [row EXCEPT ![task[w].of] = "new"]
    /\ Done(w)
    /\ UNCHANGED <<state, assoc, enabled, queues, editors, process, counters, history>>

(* The primary key refuses a second row; the error is only logged.         *)
InsertDevice(w) ==
    /\ pc[w] = "insert"
    /\ row' = [row EXCEPT ![task[w].of] = IF @ = "none" THEN "new" ELSE @]
    /\ Done(w)
    /\ UNCHANGED <<state, assoc, enabled, queues, editors, process, counters, history>>

StoreState(w) ==
    /\ pc[w] = "store"
    /\ LET touched == {r \in Rules : task[w].of \in Watched[r]}
       IN  /\ state' = [state EXCEPT ![task[w].of] = task[w].report]
           /\ current' = current \ touched
           /\ undisturbed' = [v \in Workers |-> undisturbed[v] /\ task[v].of \notin touched]
    /\ Goto(w, "members")
    /\ UNCHANGED <<row, assoc, enabled, queues, task, toWake, editors, process, counters, dropped, welcomed>>

(* Set's error is dropped, and the rules are woken for the old state.      *)
StoreFails(w) ==
    /\ pc[w] = "store"
    /\ Goto(w, "members")
    /\ Event
    /\ UNCHANGED <<stores, queues, task, toWake, editors, process, history>>

(* During a start, the rules main has still to add are not found, nor what *)
(* a process that ended had not put back.                                  *)
ReadMembers(w) ==
    /\ pc[w] = "members"
    /\ toWake' = [toWake EXCEPT ![w] = assoc[task[w].of]]
    /\ dropped' = dropped \cup
          {r \in Concerned(task[w]) : boot # "up" /\ enabled[r] /\ r \notin assoc[task[w].of]}
    /\ Goto(w, "wake")
    /\ UNCHANGED <<stores, queues, task, editors, process, counters, undisturbed, current, welcomed>>

(* SMembers' error is dropped: nobody is woken.                            *)
MembersFail(w) ==
    /\ pc[w] = "members"
    /\ Done(w)
    /\ dropped' = dropped \cup Concerned(task[w])
    /\ Event
    /\ UNCHANGED <<stores, queues, editors, process, undisturbed, current, welcomed>>

(* SMembers gives the IDs in any order.                                    *)
WakeRule(w) ==
    /\ pc[w] = "wake"
    /\ \E r \in toWake[w] :
          /\ queue' = Append(queue, Evaluation(r))
          /\ toWake' = [toWake EXCEPT ![w] = @ \ {r}]
    /\ UNCHANGED <<stores, retrying, pc, task, editors, process, counters, history>>

(* EnqueueEvaluation's error is dropped.                                   *)
WakeFails(w) ==
    /\ pc[w] = "wake"
    /\ \E r \in toWake[w] :
          /\ toWake' = [toWake EXCEPT ![w] = @ \ {r}]
          /\ dropped' = dropped \cup {r}
    /\ Event
    /\ UNCHANGED <<stores, queues, pc, task, editors, process, undisturbed, current, welcomed>>

AllWoken(w) ==
    /\ pc[w] = "wake" /\ toWake[w] = {}
    /\ Done(w)
    /\ UNCHANGED <<stores, queues, editors, process, counters, history>>

-----------------------------------------------------------------------------
(* evaluateAndExecuteTask; whether its actions are redundant, and what it  *)
(* sends, is the subject of Arbitration.                                   *)

FetchRule(w) ==
    /\ pc[w] = "fetch"
    /\ \/ ~ enabled[task[w].of] /\ Done(w)
       \/ enabled[task[w].of] /\ Goto(w, "evaluate") /\ UNCHANGED <<task, toWake>>
    /\ UNCHANGED <<stores, queues, editors, process, counters, history>>

Evaluate(w) ==
    /\ pc[w] = "evaluate"
    /\ current' = IF undisturbed[w] THEN current \cup {task[w].of} ELSE current
    /\ Done(w)
    /\ UNCHANGED <<stores, queues, editors, process, counters, undisturbed, dropped, welcomed>>

(* asynq, given an error: retried, or archived.                            *)
Retry(t) ==
    \/ /\ t.tries < MaxRetry
       /\ retrying' = Append(retrying, [t EXCEPT !.tries = @ + 1])
       /\ UNCHANGED dropped
    \/ /\ t.tries = MaxRetry
       /\ dropped' = dropped \cup Concerned(t)
       /\ UNCHANGED retrying

(* GetRuleByID, or GetAllRules after the rule's conditions held.           *)
QueryFails(w) ==
    /\ pc[w] \in {"fetch", "evaluate"}
    /\ Retry(task[w])
    /\ Done(w)
    /\ Event
    /\ UNCHANGED <<stores, queue, editors, process, undisturbed, current, welcomed>>

(* asynq finds a task whose process ended.                                 *)
Recover(w) ==
    /\ client /\ pc[w] = "lost"
    /\ Retry(task[w])
    /\ Done(w)
    /\ UNCHANGED <<stores, queue, editors, process, counters, undisturbed, current, welcomed>>

(* The delay is over, for any of the tasks.                                *)
QueueAgain ==
    /\ client
    /\ \E i \in 1 .. Len(retrying) :
          /\ queue' = Append(queue, retrying[i])
          /\ retrying' = SubSeq(retrying, 1, i - 1) \o SubSeq(retrying, i + 1, Len(retrying))
    /\ UNCHANGED <<stores, workers, editors, process, counters, history>>

-----------------------------------------------------------------------------
(* PATCH of a rule's enabled flag, and the refresh that follows; clients   *)
(* wait for each answer before they edit the same rule again.              *)

WriteRule(r) ==
    /\ boot = "up" /\ edit[r] = "none" /\ Event
    /\ \E e \in BOOLEAN : enabled' = [enabled EXCEPT ![r] = e]
    /\ edit' = [edit EXCEPT ![r] = "keys"]
    /\ UNCHANGED <<row, state, assoc, queues, workers, left, process, history>>

GetKeys(r) ==
    /\ edit[r] = "keys"
    /\ left' = [left EXCEPT ![r] = {d \in Devices : assoc[d] # {}}]
    /\ edit' = [edit EXCEPT ![r] = "srem"]
    /\ UNCHANGED <<stores, queues, workers, process, counters, history>>

RemoveAssociation(r) ==
    /\ edit[r] = "srem"
    /\ \E d \in left[r] :
          /\ assoc' = [assoc EXCEPT ![d] = @ \ {r}]
          /\ left' = [left EXCEPT ![r] = @ \ {d}]
    /\ UNCHANGED <<row, state, enabled, queues, workers, edit, process, counters, history>>

AssociationsRemoved(r) ==
    /\ edit[r] = "srem" /\ left[r] = {}
    /\ \/ /\ enabled[r]
          /\ left' = [left EXCEPT ![r] = Watched[r]]
          /\ edit' = [edit EXCEPT ![r] = "sadd"]
       \/ /\ ~ enabled[r]
          /\ edit' = [edit EXCEPT ![r] = "none"]
          /\ UNCHANGED left
    /\ UNCHANGED <<stores, queues, workers, process, counters, history>>

AddAssociation(r) ==
    /\ edit[r] = "sadd"
    /\ \E d \in left[r] :
          /\ assoc' = [assoc EXCEPT ![d] = @ \cup {r}]
          /\ left' = [left EXCEPT ![r] = @ \ {d}]
    /\ UNCHANGED <<row, state, enabled, queues, workers, edit, process, counters, history>>

Trigger(r) ==
    /\ edit[r] = "sadd" /\ left[r] = {}
    /\ queue' = Append(queue, Evaluation(r))
    /\ edit' = [edit EXCEPT ![r] = "none"]
    /\ UNCHANGED <<stores, retrying, workers, left, process, counters, history>>

(* TriggerRuleEvaluation drops EnqueueEvaluation's error.                  *)
TriggerFails(r) ==
    /\ edit[r] = "sadd" /\ left[r] = {}
    /\ edit' = [edit EXCEPT ![r] = "none"]
    /\ dropped' = dropped \cup {r}
    /\ Event
    /\ UNCHANGED <<stores, queues, workers, left, process, undisturbed, current, welcomed>>

-----------------------------------------------------------------------------
(* The devices API; the row's state in Redis and the sets are left alone.  *)

Change(d, v) ==
    /\ boot = "up" /\ Event
    /\ row' = [row EXCEPT ![d] = v]
    /\ UNCHANGED <<state, assoc, enabled, queues, workers, editors, process, undisturbed, current, dropped>>

AcceptDevice(d) ==
    /\ row[d] # "none"
    /\ Change(d, "accepted")
    /\ welcomed' = welcomed \cup {d}

DeleteDevice(d) ==
    /\ row[d] # "none"
    /\ Change(d, "none")
    /\ UNCHANGED welcomed

-----------------------------------------------------------------------------
ProcessDeviceUpdate(w) ==
    \/ LookupDevice(w) \/ LookupFails(w) \/ InsertDevice(w)
    \/ StoreState(w) \/ StoreFails(w) \/ ReadMembers(w) \/ MembersFail(w)
    \/ WakeRule(w) \/ WakeFails(w) \/ AllWoken(w)

EvaluateAndExecute(w) == FetchRule(w) \/ Evaluate(w) \/ QueryFails(w)

EditRule(r) ==
    \/ WriteRule(r) \/ GetKeys(r) \/ RemoveAssociation(r) \/ AssociationsRemoved(r)
    \/ AddAssociation(r) \/ Trigger(r) \/ TriggerFails(r)

(* The associations are those of a start that has ended.                   *)
Init ==
    /\ row \in [Devices -> {"none", "accepted"}]
    /\ state = [d \in Devices |-> 0]
    /\ enabled \in [Rules -> BOOLEAN]
    /\ assoc = [d \in Devices |-> {r \in Rules : enabled[r] /\ d \in Watched[r]}]
    /\ queue = <<>> /\ retrying = <<>>
    /\ pc = [w \in Workers |-> "idle"] /\ task = [w \in Workers |-> NoTask]
    /\ toWake = [w \in Workers |-> {}]
    /\ edit = [r \in Rules |-> "none"] /\ left = [r \in Rules |-> {}]
    /\ boot = "up" /\ client = TRUE /\ unfilled = {}
    /\ reports = 0 /\ events = 0
    /\ undisturbed = [w \in Workers |-> FALSE]
    /\ current = Rules /\ dropped = {}
    /\ welcomed = {d \in Devices : row[d] = "accepted"}

Main ==
    \/ Launch \/ StartWorkers \/ Subscribe \/ ClearAssociations \/ FillAssociation
    \/ ServeRequests \/ Crash

Next ==
    \/ Main \/ OnDeviceUpdate \/ QueueAgain
    \/ \E w \in Workers : TakeTask(w) \/ Recover(w) \/ ProcessDeviceUpdate(w) \/ EvaluateAndExecute(w)
    \/ \E r \in Rules : EditRule(r)
    \/ \E d \in Devices : AcceptDevice(d) \/ DeleteDevice(d)

Spec == Init /\ [][Next]_vars

-----------------------------------------------------------------------------
(* Properties.                                                             *)

Tasks ==
    [kind : {"device_update"}, of : Devices, report : 1 .. MaxReports, tries : 0 .. MaxRetry]
        \cup [kind : {"evaluate_rule"}, of : Rules, report : {0}, tries : 0 .. MaxRetry]

(* Every variable has its type (tasks.go:31-39, worker.go:11-15).          *)
TypeOK ==
    /\ row \in [Devices -> {"none", "new", "accepted"}]
    /\ state \in [Devices -> 0 .. MaxReports]
    /\ assoc \in [Devices -> SUBSET Rules] /\ enabled \in [Rules -> BOOLEAN]
    /\ queue \in Seq(Tasks) /\ retrying \in Seq(Tasks)
    /\ pc \in [Workers -> {"idle", "lookup", "insert", "store", "members", "wake",
                           "fetch", "evaluate", "lost"}]
    /\ task \in [Workers -> Tasks \cup {NoTask}]
    /\ \A w \in Workers :
          pc[w] # "lost" =>
              (pc[w] \in {"fetch", "evaluate"} <=> task[w].kind = "evaluate_rule")
    /\ boot \in {"down", "start", "clear", "fill", "up"} /\ client \in BOOLEAN
    /\ unfilled \subseteq Devices \X Rules /\ (boot # "fill" => unfilled = {})
    /\ toWake \in [Workers -> SUBSET Rules]
    /\ edit \in [Rules -> {"none", "keys", "srem", "sadd"}]
    /\ left \in [Rules -> SUBSET Devices]
    /\ reports \in 0 .. MaxReports /\ events \in 0 .. MaxEvents
    /\ undisturbed \in [Workers -> BOOLEAN]
    /\ current \subseteq Rules /\ dropped \subseteq Rules /\ welcomed \subseteq Devices

Quiet ==
    /\ boot = "up" /\ queue = <<>> /\ retrying = <<>>
    /\ \A w \in Workers : pc[w] = "idle"
    /\ \A r \in Rules : edit[r] = "none"

(* When nothing is left to do, each enabled rule has been evaluated on the *)
(* states its devices have now, from beginning to end, though states are   *)
(* stored, sets read, tasks queued and the rule taken out of the sets and  *)
(* put back by steps that come in between each other.  The only exceptions *)
(* are rules whose wake-up was dropped: an error that tasks.go:88,         *)
(* updater.go:61 or engine.go:377 ignores, retries used up, a process that *)
(* ended before the edit of the rule had triggered it, sets read before a  *)
(* start had filled them, or a device that is gone when the report the end *)
(* of a process cut short is tried again                                   *)
(* (updater.go:53-65, tasks.go:76-92, engine.go:39-61, 91-132, 188-234).   *)
NoLostWakeup == Quiet => \A r \in Rules : enabled[r] => r \in current \cup dropped

(* No report of a device nobody has accepted reaches the rules, even when  *)
(* acceptance, deletion and reports of the device overlap (updater.go:     *)
(* 19-37).  welcomed holds the devices that have ever been accepted.       *)
StrangersUnheard == \A d \in Devices : state[d] # 0 => d \in welcomed

(* A device once accepted does not become a stranger because a report that *)
(* did not find it, or could not look, comes back to insert it: only       *)
(* DELETE takes its row away (updater.go:19-31, queries.go:101-107).       *)
AcceptedStays ==
    [][\A d \in Devices : row[d] = "accepted" => row'[d] \in {"accepted", "none"}]_vars

=============================================================================
