--------------------------- MODULE PipelineProofs ---------------------------
(***************************************************************************)
(* Proofs about Pipeline for any devices, rules, workers, retries, reports *)
(* and events.                                                             *)
(***************************************************************************)
EXTENDS Pipeline, TLAPS, SequenceTheorems

-----------------------------------------------------------------------------
(* Type correctness: a worker that is not idle has a task, of the kind its *)
(* next call is about.                                                     *)

UpdateCalls == {"lookup", "insert", "store", "members", "wake"}
EvaluationCalls == {"fetch", "evaluate"}
Calls == {"idle", "lost"} \cup UpdateCalls \cup EvaluationCalls

StoresOK ==
    /\ row \in [Devices -> {"none", "new", "accepted"}]
    /\ state \in [Devices -> 0 .. MaxReports]
    /\ assoc \in [Devices -> SUBSET Rules] /\ enabled \in [Rules -> BOOLEAN]
QueuesOK == queue \in Seq(Tasks) /\ retrying \in Seq(Tasks)
HasItsTask(w) ==
    /\ pc[w] = "idle" => task[w] = NoTask
    /\ pc[w] # "idle" => task[w] \in Tasks
    /\ pc[w] \in UpdateCalls => task[w].kind = "device_update"
    /\ pc[w] \in EvaluationCalls => task[w].kind = "evaluate_rule"
WorkersOK ==
    /\ pc \in [Workers -> Calls]
    /\ task \in [Workers -> Tasks \cup {NoTask}]
    /\ toWake \in [Workers -> SUBSET Rules]
    /\ \A w \in Workers : HasItsTask(w)
EditorsOK ==
    /\ edit \in [Rules -> {"none", "keys", "srem", "sadd"}]
    /\ left \in [Rules -> SUBSET Devices]
ProcessOK ==
    /\ boot \in {"down", "start", "clear", "fill", "up"} /\ client \in BOOLEAN
    /\ unfilled \subseteq Devices \X Rules /\ (boot # "fill" => unfilled = {})
CountersOK == reports \in 0 .. MaxReports /\ events \in 0 .. MaxEvents
HistoryOK ==
    /\ undisturbed \in [Workers -> BOOLEAN]
    /\ current \subseteq Rules /\ dropped \subseteq Rules /\ welcomed \subseteq Devices

TypeInv ==
    StoresOK /\ QueuesOK /\ WorkersOK /\ EditorsOK /\ ProcessOK /\ CountersOK /\ HistoryOK

(* What is left alone keeps its type.                                      *)
LEMMA Unchanged ==
    /\ StoresOK /\ UNCHANGED stores => StoresOK'
    /\ QueuesOK /\ UNCHANGED queues => QueuesOK'
    /\ WorkersOK /\ UNCHANGED workers => WorkersOK'
    /\ EditorsOK /\ UNCHANGED editors => EditorsOK'
    /\ ProcessOK /\ UNCHANGED process => ProcessOK'
    /\ CountersOK /\ UNCHANGED counters => CountersOK'
    /\ CountersOK /\ Event => CountersOK'
    /\ HistoryOK /\ UNCHANGED history => HistoryOK'
<1>1. CountersOK /\ Event => CountersOK'
  BY BoundsAssumption DEF CountersOK, Event
<1> QED
  BY <1>1 DEF StoresOK, stores, QueuesOK, queues, WorkersOK, workers, HasItsTask, EditorsOK, editors,
     ProcessOK, process, CountersOK, counters, HistoryOK, history

(* The tasks there are.                                                    *)
LEMMA NewTasks ==
    /\ \A d \in Devices, n \in 1 .. MaxReports : Update(d, n) \in Tasks
    /\ \A r \in Rules : Evaluation(r) \in Tasks
    /\ \A t \in Tasks : /\ t.kind = "device_update" => t.of \in Devices /\ t.report \in 0 .. MaxReports
                        /\ t.kind = "evaluate_rule" => t.of \in Rules
                        /\ t.kind \in {"device_update", "evaluate_rule"}
                        /\ Concerned(t) \subseteq Rules
<1>1. 0 \in 0 .. MaxRetry
  BY BoundsAssumption
<1>2. \A t \in Tasks : /\ t.kind = "device_update" => t.of \in Devices /\ t.report \in 0 .. MaxReports
                       /\ t.kind = "evaluate_rule" => t.of \in Rules
                       /\ t.kind \in {"device_update", "evaluate_rule"}
  BY DEF Tasks
<1> QED
  BY <1>1, <1>2 DEF Update, Evaluation, Tasks, Concerned

LEMMA DoneTypes == ASSUME WorkersOK, NEW w \in Workers, Done(w) PROVE WorkersOK'
  BY DEF WorkersOK, HasItsTask, Done, Goto, Calls, UpdateCalls, EvaluationCalls

(* A worker goes on with the task it has.                                  *)
LEMMA GotoTypes ==
    ASSUME WorkersOK, NEW w \in Workers, NEW l, UNCHANGED <<task, toWake>>, Goto(w, l),
           \/ pc[w] \in UpdateCalls /\ l \in UpdateCalls
           \/ pc[w] \in EvaluationCalls /\ l \in EvaluationCalls
    PROVE  WorkersOK'
  BY DEF WorkersOK, HasItsTask, Goto, Calls, UpdateCalls, EvaluationCalls

LEMMA RetryTypes ==
    ASSUME QueuesOK, dropped \subseteq Rules, NEW t \in Tasks, Retry(t)
    PROVE  retrying' \in Seq(Tasks) /\ dropped' \subseteq Rules
<1>1. CASE t.tries < MaxRetry /\ retrying' = Append(retrying, [t EXCEPT !.tries = @ + 1]) /\ dropped' = dropped
  <2>1. [t EXCEPT !.tries = @ + 1] \in Tasks
    BY <1>1, BoundsAssumption DEF Tasks
  <2> QED
    BY <1>1, <2>1 DEF QueuesOK
<1>2. CASE dropped' = dropped \cup Concerned(t) /\ retrying' = retrying
  BY <1>2, NewTasks DEF QueuesOK
<1> QED
  BY <1>1, <1>2 DEF Retry

(* The end of the process.                                                 *)
LEMMA DieTypes ==
    ASSUME TypeInv, Die
    PROVE  StoresOK' /\ WorkersOK' /\ EditorsOK' /\ ProcessOK' /\ HistoryOK' /\ retrying' = retrying
<1>1. WorkersOK'
  BY DEF TypeInv, Die, WorkersOK, HasItsTask, Calls, UpdateCalls, EvaluationCalls
<1> QED
  BY <1>1, Unchanged DEF TypeInv, Die, EditorsOK, ProcessOK, HistoryOK

LEMMA MainTypes == ASSUME TypeInv, Main PROVE TypeInv'
<1>1. CASE Launch \/ StartWorkers \/ Subscribe \/ ServeRequests
  BY <1>1, Unchanged DEF TypeInv, Launch, StartWorkers, Subscribe, ServeRequests, ProcessOK
<1>2. CASE ClearAssociations
  BY <1>2, Unchanged DEF TypeInv, ClearAssociations, StoresOK, ProcessOK
<1>3. CASE FillAssociation
  BY <1>3, Unchanged DEF TypeInv, FillAssociation, StoresOK, ProcessOK
<1>4. CASE Crash
  BY <1>4, Unchanged, DieTypes DEF TypeInv, Crash, QueuesOK
<1> QED
  BY <1>1, <1>2, <1>3, <1>4 DEF Main

LEMMA ReportTypes == ASSUME TypeInv, OnDeviceUpdate PROVE TypeInv'
<1>1. reports' \in 1 .. MaxReports /\ CountersOK'
  BY BoundsAssumption DEF OnDeviceUpdate, TypeInv, CountersOK
<1>2. CASE ~ client /\ Die /\ UNCHANGED queue
  BY <1>1, <1>2, DieTypes DEF TypeInv, QueuesOK
<1>3. ASSUME NEW d \in Devices, queue' = Append(queue, Update(d, reports')), retrying' = retrying
      PROVE  QueuesOK'
  <2>1. Update(d, reports') \in Tasks
    BY <1>1, NewTasks
  <2> QED
    BY <1>3, <2>1 DEF TypeInv, QueuesOK
<1> QED
  BY <1>1, <1>2, <1>3, Unchanged DEF OnDeviceUpdate, TypeInv

LEMMA QueueTypes == ASSUME TypeInv, QueueAgain PROVE TypeInv'
<1>1. PICK i \in 1 .. Len(retrying) :
         /\ queue' = Append(queue, retrying[i])
         /\ retrying' = SubSeq(retrying, 1, i - 1) \o SubSeq(retrying, i + 1, Len(retrying))
  BY DEF QueueAgain
<1>2. retrying \in Seq(Tasks) /\ Len(retrying) \in Nat
  BY DEF TypeInv, QueuesOK
<1>3. SubSeq(retrying, 1, i - 1) \in Seq(Tasks)
  BY <1>2, SubSeqProperties
<1>4. SubSeq(retrying, i + 1, Len(retrying)) \in Seq(Tasks)
  BY <1>2, SubSeqProperties
<1>5. QueuesOK'
  BY <1>1, <1>2, <1>3, <1>4, ConcatProperties DEF TypeInv, QueuesOK
<1> QED
  BY <1>5, Unchanged DEF QueueAgain, TypeInv

LEMMA TakeTypes == ASSUME TypeInv, NEW w \in Workers, TakeTask(w) PROVE TypeInv'
<1>1. Head(queue) \in Tasks /\ Tail(queue) \in Seq(Tasks)
  BY DEF TakeTask, TypeInv, QueuesOK
<1>2. Head(queue).kind \in {"device_update", "evaluate_rule"}
  BY <1>1, NewTasks
<1>3. WorkersOK'
  BY <1>1, <1>2 DEF TakeTask, TypeInv, WorkersOK, HasItsTask, Goto, Calls, UpdateCalls, EvaluationCalls
<1> QED
  BY <1>1, <1>3, Unchanged DEF TakeTask, TypeInv, QueuesOK, HistoryOK

LEMMA UpdateTypes == ASSUME TypeInv, NEW w \in Workers, ProcessDeviceUpdate(w) PROVE TypeInv'
<1> USE Unchanged DEF TypeInv
<1>1. /\ pc[w] \in UpdateCalls
      /\ task[w] \in Tasks /\ task[w].kind = "device_update"
  <2>1. pc[w] \in UpdateCalls
    BY DEF ProcessDeviceUpdate, LookupDevice, LookupFails, InsertDevice, StoreState, StoreFails,
       ReadMembers, MembersFail, WakeRule, WakeFails, AllWoken, UpdateCalls
  <2> QED
    BY <2>1 DEF WorkersOK, HasItsTask, UpdateCalls
<1>2. /\ task[w].of \in Devices /\ task[w].report \in 0 .. MaxReports
      /\ Concerned(task[w]) \subseteq Rules
  BY <1>1, NewTasks
<1>3. dropped \subseteq Rules /\ (Ignore(w) => dropped' \subseteq Rules)
  BY <1>2 DEF HistoryOK, Ignore
<1>4. CASE LookupDevice(w) \/ LookupFails(w) \/ StoreFails(w) \/ AllWoken(w) \/ MembersFail(w)
  <2>1. WorkersOK'
    BY <1>1, <1>4, DoneTypes, GotoTypes DEF LookupDevice, LookupFails, StoreFails, AllWoken, MembersFail,
       UpdateCalls
  <2>2. HistoryOK'
    BY <1>2, <1>3, <1>4 DEF LookupDevice, LookupFails, StoreFails, AllWoken, MembersFail, HistoryOK, history
  <2> QED
    BY <1>4, <2>1, <2>2 DEF LookupDevice, LookupFails, StoreFails, AllWoken, MembersFail
<1>5. CASE InsertDevice(w)
  <2>1. StoresOK'
    BY <1>2, <1>5 DEF InsertDevice, StoresOK
  <2> QED
    BY <1>5, <2>1, DoneTypes DEF InsertDevice
<1>6. CASE StoreState(w)
  <2>1. StoresOK'
    BY <1>2, <1>6 DEF StoreState, StoresOK
  <2>2. HistoryOK'
    BY <1>6 DEF StoreState, HistoryOK
  <2>3. WorkersOK'
    BY <1>1, <1>6, GotoTypes DEF StoreState, UpdateCalls
  <2> QED
    BY <1>6, <2>1, <2>2, <2>3 DEF StoreState
<1>7. CASE ReadMembers(w)
  <2>1. WorkersOK'
    BY <1>1, <1>2, <1>7
    DEF ReadMembers, WorkersOK, HasItsTask, Goto, Calls, UpdateCalls, EvaluationCalls, StoresOK
  <2>2. HistoryOK'
    BY <1>2, <1>7 DEF ReadMembers, HistoryOK
  <2> QED
    BY <1>7, <2>1, <2>2 DEF ReadMembers
<1>8. CASE WakeRule(w)
  <2>1. PICK r \in toWake[w] : /\ queue' = Append(queue, Evaluation(r))
                               /\ toWake' = [toWake EXCEPT ![w] = @ \ {r}]
    BY <1>8 DEF WakeRule
  <2>2. WorkersOK' /\ r \in Rules
    BY <1>8, <2>1 DEF WakeRule, WorkersOK, HasItsTask
  <2>3. QueuesOK'
    BY <1>8, <2>1, <2>2, NewTasks DEF WakeRule, QueuesOK
  <2> QED
    BY <1>8, <2>2, <2>3 DEF WakeRule
<1>9. CASE WakeFails(w)
  <2>1. PICK r \in toWake[w] : /\ toWake' = [toWake EXCEPT ![w] = @ \ {r}]
                               /\ dropped' = dropped \cup {r}
    BY <1>9 DEF WakeFails
  <2>2. WorkersOK' /\ r \in Rules
    BY <1>9, <2>1 DEF WakeFails, WorkersOK, HasItsTask
  <2>3. HistoryOK'
    BY <1>9, <2>1, <2>2 DEF WakeFails, HistoryOK
  <2> QED
    BY <1>9, <2>2, <2>3 DEF WakeFails
<1> QED
  BY <1>4, <1>5, <1>6, <1>7, <1>8, <1>9 DEF ProcessDeviceUpdate

LEMMA EvaluationTypes ==
    ASSUME TypeInv, NEW w \in Workers, EvaluateAndExecute(w) \/ Recover(w) PROVE TypeInv'
<1> USE Unchanged DEF TypeInv
<1>1. task[w] \in Tasks
  BY DEF EvaluateAndExecute, FetchRule, Evaluate, QueryFails, Recover, WorkersOK, HasItsTask
<1>2. CASE FetchRule(w)
  <2>1. WorkersOK'
    BY <1>2, DoneTypes, GotoTypes DEF FetchRule, EvaluationCalls
  <2> QED
    BY <1>2, <2>1 DEF FetchRule
<1>3. CASE Evaluate(w)
  <2>1. task[w].of \in Rules
    BY <1>1, <1>3, NewTasks DEF Evaluate, WorkersOK, HasItsTask, EvaluationCalls
  <2>2. HistoryOK'
    BY <1>3, <2>1 DEF Evaluate, HistoryOK
  <2> QED
    BY <1>3, <2>2, DoneTypes DEF Evaluate
<1>4. CASE QueryFails(w) \/ Recover(w)
  <2>1. Retry(task[w]) /\ queue' = queue
    BY <1>4 DEF QueryFails, Recover
  <2>2. QueuesOK' /\ dropped' \subseteq Rules
    BY <1>1, <2>1, RetryTypes DEF QueuesOK, HistoryOK
  <2>3. HistoryOK'
    BY <1>4, <2>2 DEF QueryFails, Recover, HistoryOK
  <2> QED
    BY <1>4, <2>2, <2>3, DoneTypes DEF QueryFails, Recover
<1> QED
  BY <1>2, <1>3, <1>4 DEF EvaluateAndExecute

LEMMA EditTypes == ASSUME TypeInv, NEW r \in Rules, EditRule(r) PROVE TypeInv'
<1> USE Unchanged DEF TypeInv
<1>1. CASE WriteRule(r)
  BY <1>1 DEF WriteRule, StoresOK, EditorsOK
<1>2. CASE GetKeys(r) \/ AssociationsRemoved(r)
  <2>1. EditorsOK'
    BY <1>2, WatchedAssumption DEF GetKeys, AssociationsRemoved, EditorsOK
  <2> QED
    BY <1>2, <2>1 DEF GetKeys, AssociationsRemoved
<1>3. CASE RemoveAssociation(r) \/ AddAssociation(r)
  <2>1. EditorsOK' /\ StoresOK'
    BY <1>3 DEF RemoveAssociation, AddAssociation, EditorsOK, StoresOK
  <2> QED
    BY <1>3, <2>1 DEF RemoveAssociation, AddAssociation
<1>4. CASE Trigger(r)
  <2>1. QueuesOK' /\ EditorsOK'
    BY <1>4, NewTasks DEF Trigger, QueuesOK, EditorsOK
  <2> QED
    BY <1>4, <2>1 DEF Trigger
<1>5. CASE TriggerFails(r)
  BY <1>5 DEF TriggerFails, EditorsOK, HistoryOK
<1> QED
  BY <1>1, <1>2, <1>3, <1>4, <1>5 DEF EditRule

LEMMA DeviceTypes ==
    ASSUME TypeInv, NEW d \in Devices, AcceptDevice(d) \/ DeleteDevice(d) PROVE TypeInv'
  BY Unchanged DEF TypeInv, AcceptDevice, DeleteDevice, Change, StoresOK, HistoryOK

LEMMA InitTypes == ASSUME Init PROVE TypeInv
<1>1. WorkersOK
  BY DEF Init, WorkersOK, HasItsTask, Calls, UpdateCalls, EvaluationCalls
<1> QED
  BY <1>1, BoundsAssumption, WatchedAssumption
  DEF Init, TypeInv, StoresOK, QueuesOK, EditorsOK, ProcessOK, CountersOK, HistoryOK

LEMMA TypeStep == ASSUME TypeInv, [Next]_vars PROVE TypeInv'
<1>1. CASE UNCHANGED vars
  BY <1>1, Unchanged DEF vars, TypeInv
<1> QED
  BY <1>1, MainTypes, ReportTypes, QueueTypes, TakeTypes, UpdateTypes, EvaluationTypes, EditTypes,
     DeviceTypes DEF Next

(* Every reachable state is well typed, through ends and starts of the     *)
(* process at any point (tasks.go:31-39, worker.go:11-15).                 *)
THEOREM TypeCorrect == Spec => []TypeOK
<1>1. TypeInv => TypeOK
  <2>1. ASSUME TypeInv, NEW w \in Workers, pc[w] # "lost"
        PROVE  pc[w] \in {"fetch", "evaluate"} <=> task[w].kind = "evaluate_rule"
    BY <2>1 DEF TypeInv, WorkersOK, HasItsTask, NoTask, Calls, UpdateCalls, EvaluationCalls
  <2> QED
    BY <2>1 DEF TypeInv, TypeOK, StoresOK, QueuesOK, WorkersOK, EditorsOK, ProcessOK, CountersOK,
       HistoryOK, Calls, UpdateCalls, EvaluationCalls
<1> QED
  BY <1>1, InitTypes, TypeStep, PTL DEF Spec

-----------------------------------------------------------------------------
(* Devices: a report is stored by a worker that found its device accepted, *)
(* when it looked; it may have been deleted, and be a stranger, since.     *)

StrangersInv ==
    /\ \A d \in Devices : row[d] = "accepted" => d \in welcomed
    /\ \A w \in Workers : pc[w] = "store" => task[w].of \in welcomed
    /\ StrangersUnheard

LEMMA StrangersStep == ASSUME TypeInv, StrangersInv, [Next]_vars PROVE StrangersInv'
<1> USE DEF StrangersInv, StrangersUnheard
<1>1. /\ pc \in [Workers -> Calls] /\ task \in [Workers -> Tasks \cup {NoTask}]
      /\ row \in [Devices -> {"none", "new", "accepted"}] /\ state \in [Devices -> 0 .. MaxReports]
  BY DEF TypeInv, WorkersOK, StoresOK
<1>2. ASSUME UNCHANGED <<row, state>>, welcomed \subseteq welcomed',
             \A w \in Workers : pc'[w] = "store" => task'[w].of \in welcomed'
      PROVE  StrangersInv'
  BY <1>2
<1>3. ASSUME UNCHANGED <<row, state, welcomed>>, NEW w \in Workers,
             \/ \E l : Goto(w, l) /\ task' = task /\ (l = "store" => row[task[w].of] = "accepted"
                                                                  /\ task[w].of \in Devices)
             \/ Done(w)
             \/ \E l, t : Goto(w, l) /\ l # "store" /\ task' = [task EXCEPT ![w] = t]
      PROVE  StrangersInv'
  BY <1>1, <1>2, <1>3 DEF Goto, Done
<1>4. ASSUME UNCHANGED <<row, state, welcomed, pc, task>> PROVE StrangersInv'
  BY <1>2, <1>4
<1>5. ASSUME Die PROVE StrangersInv'
  BY <1>1, <1>5 DEF Die, stores
<1>6. CASE Main
  BY <1>4, <1>5, <1>6 DEF Main, Launch, StartWorkers, Subscribe, ClearAssociations, FillAssociation,
     ServeRequests, Crash, stores, workers, history
<1>7. CASE OnDeviceUpdate \/ QueueAgain \/ UNCHANGED vars
  BY <1>4, <1>5, <1>7 DEF OnDeviceUpdate, QueueAgain, vars, stores, workers, history
<1>8. ASSUME NEW r \in Rules, EditRule(r) PROVE StrangersInv'
  BY <1>4, <1>8 DEF EditRule, WriteRule, GetKeys, RemoveAssociation, AssociationsRemoved,
     AddAssociation, Trigger, TriggerFails, stores, workers, history
<1>9. ASSUME NEW d \in Devices, AcceptDevice(d) PROVE StrangersInv'
  BY <1>1, <1>9 DEF AcceptDevice, Change, workers
<1>10. ASSUME NEW d \in Devices, DeleteDevice(d) PROVE StrangersInv'
  BY <1>1, <1>10 DEF DeleteDevice, Change, workers
<1>11. ASSUME NEW w \in Workers, TakeTask(w) PROVE StrangersInv'
  <2>1. \E l, t : Goto(w, l) /\ l # "store" /\ task' = [task EXCEPT ![w] = t]
    BY <1>11 DEF TakeTask
  <2> QED
    BY <1>3, <1>11, <2>1 DEF TakeTask, stores
<1>12. ASSUME NEW w \in Workers, EvaluateAndExecute(w) \/ Recover(w) PROVE StrangersInv'
  BY <1>3, <1>12 DEF EvaluateAndExecute, FetchRule, Evaluate, QueryFails, Recover, stores, history
<1>13. ASSUME NEW w \in Workers, ProcessDeviceUpdate(w) PROVE StrangersInv'
  <2>1. CASE LookupDevice(w)
    <3>1. task[w].of \in Devices
      BY <2>1, NewTasks DEF LookupDevice, TypeInv, WorkersOK, HasItsTask, UpdateCalls
    <3> QED
      BY <1>3, <2>1, <3>1 DEF LookupDevice, stores
  <2>2. CASE LookupFails(w) \/ StoreFails(w) \/ ReadMembers(w) \/ MembersFail(w) \/ AllWoken(w)
    BY <1>3, <2>2 DEF LookupFails, StoreFails, ReadMembers, MembersFail, AllWoken, stores, history
  <2>3. CASE WakeRule(w) \/ WakeFails(w)
    BY <1>4, <2>3 DEF WakeRule, WakeFails, stores, history
  <2>4. CASE InsertDevice(w)
    <3>1. \A d \in Devices : row'[d] = "accepted" => row[d] = "accepted"
      BY <1>1, <2>4 DEF InsertDevice
    <3>2. \A v \in Workers : pc'[v] = "store" => pc[v] = "store" /\ task'[v] = task[v]
      BY <1>1, <2>4 DEF InsertDevice, Done, Goto
    <3> QED
      BY <2>4, <3>1, <3>2 DEF InsertDevice, history
  <2>5. CASE StoreState(w)
    BY <1>1, <2>5 DEF StoreState, Goto
  <2> QED
    BY <1>13, <2>1, <2>2, <2>3, <2>4, <2>5 DEF ProcessDeviceUpdate
<1> QED
  BY <1>6, <1>7, <1>8, <1>9, <1>10, <1>11, <1>12, <1>13 DEF Next

(* No report of a device that nobody ever accepted is stored, whatever     *)
(* workers, deletions and ends of the process come between the lookup and  *)
(* the SET (updater.go:19-37).                                             *)
THEOREM NoStrangerIsHeard == Spec => []StrangersUnheard
<1>1. Init => StrangersInv
  BY DEF Init, StrangersInv, StrangersUnheard
<1>2. StrangersInv => StrangersUnheard
  BY DEF StrangersInv
<1> QED
  BY <1>1, <1>2, InitTypes, TypeStep, StrangersStep, PTL DEF Spec

(* A device that is accepted remains so until it is deleted (updater.go:   *)
(* 19-31, queries.go:101-107).                                             *)
THEOREM AcceptanceLasts == Spec => AcceptedStays
<1> DEFINE Stays == \A d \in Devices : row[d] = "accepted" => row'[d] \in {"accepted", "none"}
<1>1. ASSUME TypeInv, [Next]_vars PROVE [Stays]_vars
  <2>1. row \in [Devices -> {"none", "new", "accepted"}]
    BY <1>1 DEF TypeInv, StoresOK
  <2>2. ASSUME row' = row PROVE Stays
    BY <2>2
  <2>3. CASE Main \/ OnDeviceUpdate \/ QueueAgain
    BY <2>2, <2>3 DEF Main, Launch, StartWorkers, Subscribe, ClearAssociations, FillAssociation,
       ServeRequests, Crash, Die, OnDeviceUpdate, QueueAgain, stores
  <2>4. ASSUME NEW w \in Workers,
               TakeTask(w) \/ Recover(w) \/ ProcessDeviceUpdate(w) \/ EvaluateAndExecute(w)
        PROVE  Stays
    <3>1. CASE InsertDevice(w)
      BY <2>1, <3>1 DEF InsertDevice
    <3>2. CASE ~ InsertDevice(w)
      <4>1. row' = row
        BY <2>4, <3>2 DEF TakeTask, Recover, ProcessDeviceUpdate, EvaluateAndExecute, LookupDevice,
           LookupFails, StoreState, StoreFails, ReadMembers, MembersFail, WakeRule, WakeFails,
           AllWoken, FetchRule, Evaluate, QueryFails, stores
      <4> QED
        BY <2>2, <4>1
    <3> QED
      BY <3>1, <3>2
  <2>5. ASSUME NEW r \in Rules, EditRule(r) PROVE Stays
    BY <2>2, <2>5 DEF EditRule, WriteRule, GetKeys, RemoveAssociation, AssociationsRemoved,
       AddAssociation, Trigger, TriggerFails, stores
  <2>6. ASSUME NEW d \in Devices, AcceptDevice(d) \/ DeleteDevice(d) PROVE Stays
    BY <2>1, <2>6 DEF AcceptDevice, DeleteDevice, Change
  <2> QED
    BY <1>1, <2>3, <2>4, <2>5, <2>6 DEF Next
<1> QED
  BY <1>1, InitTypes, TypeStep, PTL DEF Spec, AcceptedStays

-----------------------------------------------------------------------------
(* Association sets: an enabled rule that nobody is editing is in the sets *)
(* of the devices it watches once a start has filled them.                 *)

Associated(r) == \A d \in Watched[r] : r \in assoc[d]

SetsInv ==
    /\ \A r \in Rules : enabled[r] /\ edit[r] = "none" /\ boot = "up" => Associated(r)
    /\ \A r \in Rules : edit[r] = "sadd" => \A d \in Watched[r] : d \in left[r] \/ r \in assoc[d]
    /\ boot = "fill" =>
          \A r \in Rules, d \in Devices : enabled[r] /\ d \in Watched[r]
              => <<d, r>> \in unfilled \/ r \in assoc[d]
    /\ \A r \in Rules : edit[r] = "sadd" => enabled[r]
    /\ boot # "up" => \A r \in Rules : edit[r] = "none"

LEMMA SetsStep == ASSUME TypeInv, SetsInv, [Next]_vars PROVE SetsInv'
<1> USE WatchedAssumption DEF SetsInv, Associated
<1>1. /\ assoc \in [Devices -> SUBSET Rules] /\ enabled \in [Rules -> BOOLEAN]
      /\ edit \in [Rules -> {"none", "keys", "srem", "sadd"}] /\ left \in [Rules -> SUBSET Devices]
      /\ boot \in {"down", "start", "clear", "fill", "up"} /\ unfilled \subseteq Devices \X Rules
  BY DEF TypeInv, StoresOK, EditorsOK, ProcessOK
<1>2. ASSUME UNCHANGED <<assoc, enabled, edit, left, boot, unfilled>> PROVE SetsInv'
  BY <1>2
<1>3. ASSUME Die PROVE SetsInv'
  BY <1>1, <1>3 DEF Die, stores
<1>4. CASE Main
  <2>1. CASE Launch \/ StartWorkers \/ Subscribe
    BY <1>1, <2>1 DEF Launch, StartWorkers, Subscribe, stores, editors
  <2>2. CASE ClearAssociations
    BY <1>1, <2>2 DEF ClearAssociations, editors
  <2>3. CASE FillAssociation
    <3>1. PICK p \in unfilled : /\ assoc' = [assoc EXCEPT ![p[1]] = @ \cup {p[2]}]
                                /\ unfilled' = unfilled \ {p}
      BY <2>3 DEF FillAssociation
    <3>2. PICK e \in Devices, q \in Rules : p = <<e, q>>
      BY <1>1
    <3>3. \A d \in Devices : assoc'[d] = IF d = e THEN assoc[d] \cup {q} ELSE assoc[d]
      BY <1>1, <3>1, <3>2
    <3>4. boot = "fill" /\ UNCHANGED <<enabled, edit, left, boot>>
      BY <2>3 DEF FillAssociation, editors
    <3>5. ASSUME NEW r \in Rules, NEW d \in Devices, enabled[r], d \in Watched[r]
          PROVE  <<d, r>> \in unfilled' \/ r \in assoc'[d]
      BY <3>1, <3>2, <3>3, <3>4, <3>5
    <3> QED
      BY <3>4, <3>5
  <2>4. CASE ServeRequests
    BY <1>1, <2>4 DEF ServeRequests, stores, editors
  <2> QED
    BY <1>3, <1>4, <2>1, <2>2, <2>3, <2>4 DEF Main, Crash
<1>5. CASE OnDeviceUpdate \/ QueueAgain \/ UNCHANGED vars
  BY <1>2, <1>3, <1>5 DEF OnDeviceUpdate, QueueAgain, vars, stores, editors, process
<1>6. ASSUME NEW w \in Workers,
             TakeTask(w) \/ Recover(w) \/ ProcessDeviceUpdate(w) \/ EvaluateAndExecute(w)
      PROVE  SetsInv'
  <2>1. UNCHANGED <<assoc, enabled, edit, left, boot, unfilled>>
    BY <1>6 DEF TakeTask, Recover, ProcessDeviceUpdate, EvaluateAndExecute, LookupDevice,
       LookupFails, InsertDevice, StoreState, StoreFails, ReadMembers, MembersFail, WakeRule,
       WakeFails, AllWoken, FetchRule, Evaluate, QueryFails, stores, editors, process
  <2> QED
    BY <1>2, <2>1
<1>7. ASSUME NEW d \in Devices, AcceptDevice(d) \/ DeleteDevice(d) PROVE SetsInv'
  BY <1>2, <1>7 DEF AcceptDevice, DeleteDevice, Change, editors, process
<1>8. ASSUME NEW r \in Rules, EditRule(r) PROVE SetsInv'
  <2>1. boot = "up" /\ boot' = boot
    BY <1>8 DEF EditRule, WriteRule, GetKeys, RemoveAssociation, AssociationsRemoved,
       AddAssociation, Trigger, TriggerFails, process
  <2>2. CASE WriteRule(r)
    BY <1>1, <2>1, <2>2 DEF WriteRule
  <2>3. CASE GetKeys(r)
    BY <1>1, <2>1, <2>3 DEF GetKeys, stores
  <2>4. CASE RemoveAssociation(r)
    <3>1. PICK e \in left[r] : /\ assoc' = [assoc EXCEPT ![e] = @ \ {r}]
                               /\ left' = [left EXCEPT ![r] = @ \ {e}]
      BY <2>4 DEF RemoveAssociation
    <3>2. edit[r] = "srem" /\ UNCHANGED <<enabled, edit>>
      BY <2>4 DEF RemoveAssociation
    <3>3. \A q \in Rules : q # r => left'[q] = left[q] /\ \A d \in Devices : q \in assoc[d] => q \in assoc'[d]
      BY <1>1, <3>1
    <3> QED
      BY <2>1, <3>2, <3>3
  <2>5. CASE AssociationsRemoved(r)
    <3>1. \A q \in Rules : q # r => left'[q] = left[q] /\ edit'[q] = edit[q]
      BY <1>1, <2>5 DEF AssociationsRemoved
    <3>2. UNCHANGED <<assoc, enabled>>
      BY <2>5 DEF AssociationsRemoved, stores
    <3>3. \/ edit'[r] = "none" /\ ~ enabled[r]
          \/ edit'[r] = "sadd" /\ enabled[r] /\ left'[r] = Watched[r]
      BY <1>1, <2>5 DEF AssociationsRemoved
    <3> QED
      BY <2>1, <3>1, <3>2, <3>3
  <2>6. CASE AddAssociation(r)
    <3>1. PICK e \in left[r] : /\ assoc' = [assoc EXCEPT ![e] = @ \cup {r}]
                               /\ left' = [left EXCEPT ![r] = @ \ {e}]
      BY <2>6 DEF AddAssociation
    <3>2. edit[r] = "sadd" /\ UNCHANGED <<enabled, edit>>
      BY <2>6 DEF AddAssociation
    <3>3. \A q \in Rules, d \in Devices : q \in assoc[d] => q \in assoc'[d]
      BY <1>1, <3>1
    <3>4. \A q \in Rules : q # r => left'[q] = left[q]
      BY <1>1, <3>1
    <3>5. \A d \in left[r] : d \in left'[r] \/ r \in assoc'[d]
      BY <1>1, <3>1
    <3> QED
      BY <2>1, <3>2, <3>3, <3>4, <3>5
  <2>7. CASE Trigger(r) \/ TriggerFails(r)
    <3>1. /\ edit[r] = "sadd" /\ left[r] = {} /\ edit' = [edit EXCEPT ![r] = "none"]
          /\ UNCHANGED <<assoc, enabled, left>>
      BY <2>7 DEF Trigger, TriggerFails, stores
    <3> QED
      BY <1>1, <2>1, <3>1
  <2> QED
    BY <1>8, <2>2, <2>3, <2>4, <2>5, <2>6, <2>7 DEF EditRule
<1> QED
  BY <1>4, <1>5, <1>6, <1>7, <1>8 DEF Next

LEMMA SetsInit == ASSUME Init PROVE SetsInv
  BY WatchedAssumption DEF Init, SetsInv, Associated

-----------------------------------------------------------------------------
(* Wake-ups: of a rule that has not been evaluated on the states there     *)
(* are, something is under way that will evaluate it, or drop it.          *)

(* A task that evaluates the rule, or that stored a state at an earlier    *)
(* try.                                                                    *)
Wakes(t, r) == r \in Concerned(t) /\ (t.kind = "evaluate_rule" \/ t.tries > 0)

Queued(q, r) == \E i \in DOMAIN q : Wakes(q[i], r)

AtWork(w, r) ==
    /\ r \in Concerned(task[w])
    /\ \/ pc[w] \in {"lost", "members"}
       \/ pc[w] \in {"lookup", "store"} /\ task[w].tries > 0
       \/ pc[w] = "wake" /\ r \in toWake[w]
       \/ pc[w] \in {"fetch", "evaluate"} /\ undisturbed[w]

WillWake(r) ==
    \/ Queued(queue, r) \/ Queued(retrying, r)
    \/ \E w \in Workers : AtWork(w, r)
    \/ edit[r] # "none"

WakeInv == \A r \in Rules : enabled[r] /\ r \notin current \cup dropped => WillWake(r)

LEMMA QueuedAppend ==
    ASSUME NEW q \in Seq(Tasks), NEW t \in Tasks, NEW r
    PROVE  /\ Queued(q, r) => Queued(Append(q, t), r)
           /\ Wakes(t, r) => Queued(Append(q, t), r)
<1>1. /\ DOMAIN Append(q, t) = DOMAIN q \cup {Len(q) + 1}
      /\ \A i \in DOMAIN q : Append(q, t)[i] = q[i]
      /\ Append(q, t)[Len(q) + 1] = t
  OBVIOUS
<1> QED
  BY <1>1 DEF Queued

LEMMA QueuedTail ==
    ASSUME NEW q \in Seq(Tasks), q # <<>>, NEW r, Queued(q, r)
    PROVE  Wakes(Head(q), r) \/ Queued(Tail(q), r)
<1>1. PICK i \in DOMAIN q : Wakes(q[i], r)
  BY DEF Queued
<1>2. CASE i = 1
  BY <1>1, <1>2
<1>3. CASE i # 1
  <2>1. i - 1 \in DOMAIN Tail(q) /\ Tail(q)[i - 1] = q[i]
    BY <1>3
  <2> QED
    BY <1>1, <2>1 DEF Queued
<1> QED
  BY <1>2, <1>3

LEMMA QueuedConcat ==
    ASSUME NEW s \in Seq(Tasks), NEW t \in Seq(Tasks), NEW r, Queued(s, r) \/ Queued(t, r)
    PROVE  Queued(s \o t, r)
<1>1. Len(s) \in Nat /\ Len(t) \in Nat /\ DOMAIN s = 1 .. Len(s) /\ DOMAIN t = 1 .. Len(t)
  OBVIOUS
<1>2. /\ DOMAIN (s \o t) = 1 .. Len(s) + Len(t)
      /\ \A i \in 1 .. Len(s) + Len(t) : (s \o t)[i] = IF i <= Len(s) THEN s[i] ELSE t[i - Len(s)]
  BY ConcatProperties
<1>3. ASSUME NEW i \in DOMAIN s, Wakes(s[i], r) PROVE Queued(s \o t, r)
  <2>1. i \in 1 .. Len(s) + Len(t) /\ i <= Len(s)
    BY <1>1
  <2>2. i \in DOMAIN (s \o t) /\ (s \o t)[i] = s[i]
    BY <1>2, <2>1
  <2> QED
    BY <1>3, <2>2 DEF Queued
<1>4. ASSUME NEW i \in DOMAIN t, Wakes(t[i], r) PROVE Queued(s \o t, r)
  <2> DEFINE j == Len(s) + i
  <2>1. j \in 1 .. Len(s) + Len(t) /\ ~ (j <= Len(s)) /\ j - Len(s) = i
    BY <1>1
  <2>2. j \in DOMAIN (s \o t) /\ (s \o t)[j] = t[i]
    BY <1>2, <2>1
  <2> QED
    BY <1>4, <2>2 DEF Queued
<1> QED
  BY <1>3, <1>4 DEF Queued

LEMMA QueuedWithout ==
    ASSUME NEW q \in Seq(Tasks), NEW i \in 1 .. Len(q), NEW r, Queued(q, r)
    PROVE  Wakes(q[i], r) \/ Queued(SubSeq(q, 1, i - 1) \o SubSeq(q, i + 1, Len(q)), r)
<1> DEFINE s == SubSeq(q, 1, i - 1)
           t == SubSeq(q, i + 1, Len(q))
<1>1. Len(q) \in Nat /\ i \in Nat /\ i >= 1 /\ i <= Len(q)
  OBVIOUS
<1>2. s \in Seq(Tasks) /\ DOMAIN s = 1 .. i - 1 /\ \A j \in 1 .. i - 1 : s[j] = q[j]
  BY <1>1, SubSeqProperties
<1>3. t \in Seq(Tasks) /\ DOMAIN t = 1 .. Len(q) - i /\ \A j \in 1 .. Len(q) - i : t[j] = q[i + j]
  BY <1>1, SubSeqProperties
<1>4. PICK m \in 1 .. Len(q) : Wakes(q[m], r)
  BY DEF Queued
<1>5. CASE m < i
  <2>1. m \in 1 .. i - 1
    BY <1>1, <1>5
  <2>2. Queued(s, r)
    BY <1>2, <1>4, <2>1 DEF Queued
  <2> QED
    BY <1>2, <1>3, <2>2, QueuedConcat
<1>6. CASE m > i
  <2>1. m - i \in 1 .. Len(q) - i /\ i + (m - i) = m
    BY <1>1, <1>6
  <2>2. t[m - i] = q[m]
    BY <1>3, <2>1
  <2>3. Queued(t, r)
    BY <1>3, <1>4, <2>1, <2>2 DEF Queued
  <2> QED
    BY <1>2, <1>3, <2>3, QueuedConcat
<1> QED
  BY <1>1, <1>4, <1>5, <1>6

(* asynq keeps a task that it retries, and else the rule is dropped.       *)
LEMMA RetryWakes ==
    ASSUME QueuesOK, NEW t \in Tasks, Retry(t), NEW r, r \notin dropped'
    PROVE  /\ Queued(retrying, r) => Queued(retrying', r)
           /\ r \in Concerned(t) => Queued(retrying', r)
<1>1. CASE t.tries < MaxRetry /\ retrying' = Append(retrying, [t EXCEPT !.tries = @ + 1])
  <2> DEFINE u == [t EXCEPT !.tries = @ + 1]
  <2>1. t.tries \in Nat
    BY BoundsAssumption DEF Tasks
  <2>2. u \in Tasks
    BY <1>1, BoundsAssumption DEF Tasks
  <2>3. u.kind = t.kind /\ u.of = t.of /\ u.tries = t.tries + 1
    BY DEF Tasks
  <2>4. Concerned(u) = Concerned(t)
    BY <2>3 DEF Concerned
  <2>5. r \in Concerned(t) => Wakes(u, r)
    BY <2>1, <2>3, <2>4 DEF Wakes
  <2> QED
    BY <1>1, <2>2, <2>5, QueuedAppend DEF QueuesOK
<1>2. CASE dropped' = dropped \cup Concerned(t) /\ retrying' = retrying
  BY <1>2
<1> QED
  BY <1>1, <1>2 DEF Retry

(* A worker is at work on what it was, if nothing of it has changed.       *)
LEMMA SameWork ==
    ASSUME NEW v \in Workers, NEW r, AtWork(v, r),
           pc'[v] = pc[v], task'[v] = task[v], toWake'[v] = toWake[v],
           pc[v] \in EvaluationCalls /\ undisturbed[v] => undisturbed'[v]
    PROVE  AtWork(v, r)'
  BY DEF AtWork, EvaluationCalls

(* A step of one worker that leaves the edits and the rules alone.         *)
LEMMA OneWorker ==
    ASSUME WakeInv, NEW r \in Rules, enabled[r], r \notin current \cup dropped, edit' = edit,
           NEW w \in Workers,
           \A v \in Workers : v # w => /\ pc'[v] = pc[v] /\ task'[v] = task[v] /\ toWake'[v] = toWake[v]
                                       /\ undisturbed'[v] = undisturbed[v],
           Queued(queue, r) => WillWake(r)', Queued(retrying, r) => WillWake(r)',
           AtWork(w, r) => WillWake(r)'
    PROVE  WillWake(r)'
<1>1. CASE \E v \in Workers : v # w /\ AtWork(v, r)
  BY <1>1, SameWork DEF WillWake
<1>2. CASE edit[r] # "none"
  BY <1>2 DEF WillWake
<1> QED
  BY <1>1, <1>2 DEF WakeInv, WillWake

LEMMA TakeWakes ==
    ASSUME TypeInv, WakeInv, NEW w \in Workers, TakeTask(w),
           NEW r \in Rules, enabled'[r], r \notin current' \cup dropped'
    PROVE  WillWake(r)'
<1>1. /\ pc \in [Workers -> Calls] /\ task \in [Workers -> Tasks \cup {NoTask}]
      /\ undisturbed \in [Workers -> BOOLEAN] /\ queue \in Seq(Tasks) /\ queue # <<>>
      /\ Head(queue) \in Tasks
  BY DEF TypeInv, WorkersOK, HistoryOK, QueuesOK, TakeTask
<1>2. /\ pc[w] = "idle" /\ queue' = Tail(queue)
      /\ UNCHANGED <<enabled, current, dropped, edit, retrying, toWake>>
      /\ task' = [task EXCEPT ![w] = Head(queue)]
      /\ undisturbed' = [undisturbed EXCEPT ![w] = TRUE]
      /\ pc' = [pc EXCEPT ![w] = IF Head(queue).kind = "device_update" THEN "lookup" ELSE "fetch"]
  BY DEF TakeTask, Goto, stores, editors
<1>3. \A v \in Workers : v # w => /\ pc'[v] = pc[v] /\ task'[v] = task[v] /\ toWake'[v] = toWake[v]
                                  /\ undisturbed'[v] = undisturbed[v]
  BY <1>1, <1>2
<1>4. /\ task'[w] = Head(queue) /\ undisturbed'[w]
      /\ pc'[w] = IF Head(queue).kind = "device_update" THEN "lookup" ELSE "fetch"
  BY <1>1, <1>2
<1>5. Wakes(Head(queue), r) => AtWork(w, r)'
  BY <1>1, <1>4, NewTasks DEF Wakes, AtWork
<1>6. Queued(queue, r) => WillWake(r)'
  BY <1>1, <1>2, <1>5, QueuedTail DEF WillWake
<1>7. Queued(retrying, r) => WillWake(r)'
  BY <1>2 DEF WillWake
<1>8. ~ AtWork(w, r)
  BY <1>2 DEF AtWork
<1> QED
  BY <1>2, <1>3, <1>6, <1>7, <1>8, OneWorker

LEMMA UpdateWakes ==
    ASSUME TypeInv, SetsInv, WakeInv, NEW w \in Workers, ProcessDeviceUpdate(w),
           NEW r \in Rules, enabled'[r], r \notin current' \cup dropped'
    PROVE  WillWake(r)'
<1>1. /\ pc \in [Workers -> Calls] /\ task \in [Workers -> Tasks \cup {NoTask}]
      /\ toWake \in [Workers -> SUBSET Rules]
      /\ undisturbed \in [Workers -> BOOLEAN] /\ queue \in Seq(Tasks)
      /\ assoc \in [Devices -> SUBSET Rules]
  BY DEF TypeInv, WorkersOK, HistoryOK, QueuesOK, StoresOK
<1>2. /\ pc[w] \in UpdateCalls /\ task[w] \in Tasks /\ task[w].kind = "device_update"
      /\ task[w].of \in Devices
      /\ Concerned(task[w]) = {q \in Rules : task[w].of \in Watched[q]}
  <2>1. pc[w] \in UpdateCalls
    BY DEF ProcessDeviceUpdate, LookupDevice, LookupFails, InsertDevice, StoreState, StoreFails,
       ReadMembers, MembersFail, WakeRule, WakeFails, AllWoken, UpdateCalls
  <2>2. task[w] \in Tasks /\ task[w].kind = "device_update"
    BY <2>1 DEF TypeInv, WorkersOK, HasItsTask, UpdateCalls
  <2> QED
    BY <2>1, <2>2, NewTasks DEF Concerned
<1>3. /\ UNCHANGED <<enabled, assoc, edit, retrying, boot>>
      /\ enabled[r]
  BY DEF ProcessDeviceUpdate, LookupDevice, LookupFails, InsertDevice, StoreState, StoreFails,
     ReadMembers, MembersFail, WakeRule, WakeFails, AllWoken, stores, queues, editors, process
<1>4. r \notin dropped
  BY DEF ProcessDeviceUpdate, LookupDevice, LookupFails, InsertDevice, StoreState, StoreFails,
     ReadMembers, MembersFail, WakeRule, WakeFails, AllWoken, Ignore, history
<1>5. Queued(retrying, r) => WillWake(r)'
  BY <1>3 DEF WillWake
<1>6. ASSUME Done(w) \/ \E l : Goto(w, l) /\ UNCHANGED <<task, toWake>>, undisturbed' = undisturbed
      PROVE  \A v \in Workers : v # w => /\ pc'[v] = pc[v] /\ task'[v] = task[v] /\ toWake'[v] = toWake[v]
                                         /\ undisturbed'[v] = undisturbed[v]
  BY <1>1, <1>6 DEF Done, Goto
<1>7. CASE StoreState(w)
  <2>1. /\ pc[w] = "store" /\ pc' = [pc EXCEPT ![w] = "members"] /\ UNCHANGED <<task, toWake, queue>>
        /\ current' = current \ Concerned(task[w])
        /\ undisturbed' = [v \in Workers |-> undisturbed[v] /\ task[v].of \notin Concerned(task[w])]
    BY <1>2, <1>7 DEF StoreState, Goto, queues
  <2>2. CASE r \in Concerned(task[w])
    <3>1. AtWork(w, r)'
      BY <1>1, <2>1, <2>2 DEF AtWork
    <3> QED
      BY <3>1 DEF WillWake
  <2>3. CASE r \notin Concerned(task[w])
    <3>1. WillWake(r)
      BY <1>3, <1>4, <2>1, <2>3 DEF WakeInv
    <3>2. ASSUME NEW v \in Workers, AtWork(v, r) PROVE AtWork(v, r)'
      <4>1. v # w /\ pc'[v] = pc[v] /\ task'[v] = task[v] /\ toWake'[v] = toWake[v]
        BY <1>1, <2>1, <2>3, <3>2 DEF AtWork
      <4>2. pc[v] \in EvaluationCalls => task[v].of = r
        <5>1. pc[v] \in EvaluationCalls => task[v].kind = "evaluate_rule"
          BY DEF TypeInv, WorkersOK, HasItsTask
        <5> QED
          BY <3>2, <5>1 DEF AtWork, Concerned
      <4>3. pc[v] \in EvaluationCalls /\ undisturbed[v] => undisturbed'[v]
        BY <2>1, <2>3, <4>2
      <4> QED
        BY <3>2, <4>1, <4>3, SameWork
    <3>3. queue' = queue /\ retrying' = retrying /\ edit' = edit
      BY <1>3, <2>1
    <3> QED
      BY <3>1, <3>2, <3>3 DEF WillWake
  <2> QED
    BY <2>2, <2>3
<1>8. CASE ~ StoreState(w)
  <2>1. r \notin current /\ undisturbed' = undisturbed
    BY <1>8 DEF ProcessDeviceUpdate, LookupDevice, LookupFails, InsertDevice, StoreFails,
       ReadMembers, MembersFail, WakeRule, WakeFails, AllWoken, history
  <2>2. CASE \/ LookupDevice(w) \/ LookupFails(w) \/ InsertDevice(w) \/ StoreFails(w)
             \/ MembersFail(w) \/ AllWoken(w)
    <3>1. queue' = queue
      BY <2>2 DEF LookupDevice, LookupFails, InsertDevice, StoreFails, MembersFail, AllWoken, queues
    <3>2. \A v \in Workers : v # w => /\ pc'[v] = pc[v] /\ task'[v] = task[v] /\ toWake'[v] = toWake[v]
                                      /\ undisturbed'[v] = undisturbed[v]
      BY <1>6, <2>1, <2>2
      DEF LookupDevice, LookupFails, InsertDevice, StoreFails, MembersFail, AllWoken
    <3>3. AtWork(w, r) => AtWork(w, r)'
      <4>1. CASE LookupDevice(w) /\ row[task[w].of] = "accepted"
        BY <1>1, <4>1 DEF LookupDevice, Goto, AtWork
      <4>2. CASE (LookupDevice(w) /\ row[task[w].of] \in {"none", "new"}) \/ LookupFails(w)
        <5>1. Ignore(w) /\ pc[w] = "lookup"
          BY <4>2 DEF LookupDevice, LookupFails
        <5> QED
          BY <5>1 DEF Ignore, AtWork
      <4>3. CASE InsertDevice(w) \/ MembersFail(w) \/ AllWoken(w)
        BY <4>3 DEF InsertDevice, MembersFail, AllWoken, AtWork
      <4>4. CASE StoreFails(w)
        BY <1>1, <4>4 DEF StoreFails, Goto, AtWork
      <4> QED
        BY <2>2, <4>1, <4>2, <4>3, <4>4 DEF LookupDevice
    <3> QED
      BY <1>3, <1>4, <1>5, <2>1, <3>1, <3>2, <3>3, OneWorker DEF WillWake
  <2>3. CASE ReadMembers(w)
    <3>1. /\ queue' = queue /\ task' = task /\ pc[w] = "members" /\ pc' = [pc EXCEPT ![w] = "wake"]
          /\ toWake' = [toWake EXCEPT ![w] = assoc[task[w].of]]
          /\ dropped' = dropped \cup
                {q \in Concerned(task[w]) : boot # "up" /\ enabled[q] /\ q \notin assoc[task[w].of]}
      BY <2>3 DEF ReadMembers, Goto, queues
    <3>2. CASE AtWork(w, r)
      <4>1. r \in Concerned(task[w]) /\ task[w].of \in Watched[r]
        BY <1>2, <3>2 DEF AtWork
      <4>2. CASE r \in assoc[task[w].of]
        <5>1. AtWork(w, r)'
          BY <1>1, <3>1, <4>1, <4>2 DEF AtWork
        <5> QED
          BY <5>1 DEF WillWake
      <4>3. CASE r \notin assoc[task[w].of]
        <5>1. boot = "up"
          BY <1>3, <3>1, <4>1, <4>3
        <5>2. edit[r] # "none"
          BY <1>3, <4>1, <4>3, <5>1 DEF SetsInv, Associated
        <5> QED
          BY <1>3, <5>2 DEF WillWake
      <4> QED
        BY <4>2, <4>3
    <3>3. \A v \in Workers : v # w => /\ pc'[v] = pc[v] /\ task'[v] = task[v] /\ toWake'[v] = toWake[v]
                                      /\ undisturbed'[v] = undisturbed[v]
      BY <1>1, <2>1, <3>1
    <3> QED
      BY <1>3, <1>4, <1>5, <2>1, <3>1, <3>2, <3>3, OneWorker DEF WillWake
  <2>4. CASE WakeRule(w) \/ WakeFails(w)
    <3>1. PICK q \in toWake[w] : /\ toWake' = [toWake EXCEPT ![w] = @ \ {q}]
                                 /\ \/ queue' = Append(queue, Evaluation(q))
                                    \/ queue' = queue /\ dropped' = dropped \cup {q}
      BY <2>4 DEF WakeRule, WakeFails, queues
    <3>2. q \in Rules /\ Evaluation(q) \in Tasks /\ pc[w] = "wake" /\ UNCHANGED <<pc, task>>
      BY <1>1, <2>4, NewTasks DEF WakeRule, WakeFails
    <3>3. Queued(queue, r) => Queued(queue', r)
      BY <1>1, <3>1, <3>2, QueuedAppend
    <3>4. CASE r = q
      <4>1. Wakes(Evaluation(q), r)
        BY <3>4 DEF Wakes, Concerned, Evaluation
      <4>2. Queued(queue', r)
        BY <1>1, <3>1, <3>2, <3>4, <4>1, QueuedAppend
      <4> QED
        BY <4>2 DEF WillWake
    <3>5. CASE r # q
      <4>1. AtWork(w, r) => AtWork(w, r)'
        BY <1>1, <3>1, <3>2, <3>5 DEF AtWork
      <4>2. \A v \in Workers : v # w => /\ pc'[v] = pc[v] /\ task'[v] = task[v] /\ toWake'[v] = toWake[v]
                                        /\ undisturbed'[v] = undisturbed[v]
        BY <1>1, <2>1, <3>1, <3>2
      <4> QED
        BY <1>3, <1>4, <1>5, <2>1, <3>3, <4>1, <4>2, OneWorker DEF WillWake
    <3> QED
      BY <3>4, <3>5
  <2> QED
    BY <1>8, <2>2, <2>3, <2>4 DEF ProcessDeviceUpdate
<1> QED
  BY <1>7, <1>8

LEMMA EvaluationWakes ==
    ASSUME TypeInv, WakeInv, NEW w \in Workers, EvaluateAndExecute(w) \/ Recover(w),
           NEW r \in Rules, enabled'[r], r \notin current' \cup dropped'
    PROVE  WillWake(r)'
<1>1. /\ pc \in [Workers -> Calls] /\ task \in [Workers -> Tasks \cup {NoTask}]
      /\ toWake \in [Workers -> SUBSET Rules] /\ task[w] \in Tasks
      /\ pc[w] \in EvaluationCalls => Concerned(task[w]) = {task[w].of}
  BY DEF TypeInv, WorkersOK, HasItsTask, EvaluateAndExecute, FetchRule, Evaluate, QueryFails, Recover,
     EvaluationCalls, Concerned
<1>2. UNCHANGED <<queue, enabled, edit, undisturbed>>
  BY DEF EvaluateAndExecute, FetchRule, Evaluate, QueryFails, Recover, stores, queues, editors, history
<1>3. r \notin current \cup dropped
  BY DEF EvaluateAndExecute, FetchRule, Evaluate, QueryFails, Recover, Retry, history
<1>4. \A v \in Workers : v # w => /\ pc'[v] = pc[v] /\ task'[v] = task[v] /\ toWake'[v] = toWake[v]
                                  /\ undisturbed'[v] = undisturbed[v]
  BY <1>1, <1>2 DEF EvaluateAndExecute, FetchRule, Evaluate, QueryFails, Recover, Done, Goto
<1>5. CASE FetchRule(w)
  <2>1. AtWork(w, r) => AtWork(w, r)'
    BY <1>1, <1>2, <1>5 DEF FetchRule, Goto, AtWork, EvaluationCalls
  <2>2. retrying' = retrying
    BY <1>5 DEF FetchRule, queues
  <2> QED
    BY <1>2, <1>3, <1>4, <2>1, <2>2, OneWorker DEF WillWake
<1>6. CASE Evaluate(w)
  <2>1. ~ AtWork(w, r)
    BY <1>1, <1>6 DEF Evaluate, AtWork, EvaluationCalls
  <2>2. retrying' = retrying
    BY <1>6 DEF Evaluate, queues
  <2> QED
    BY <1>2, <1>3, <1>4, <2>1, <2>2, OneWorker DEF WillWake
<1>7. CASE QueryFails(w) \/ Recover(w)
  <2>1. Retry(task[w])
    BY <1>7 DEF QueryFails, Recover
  <2>2. /\ Queued(retrying, r) => Queued(retrying', r)
        /\ r \in Concerned(task[w]) => Queued(retrying', r)
    BY <1>1, <2>1, RetryWakes DEF TypeInv
  <2>3. AtWork(w, r) => r \in Concerned(task[w])
    BY DEF AtWork
  <2> QED
    BY <1>2, <1>3, <1>4, <2>2, <2>3, OneWorker DEF WillWake
<1> QED
  BY <1>5, <1>6, <1>7 DEF EvaluateAndExecute

LEMMA QueueWakes ==
    ASSUME TypeInv, WakeInv, QueueAgain, NEW r \in Rules, enabled'[r], r \notin current' \cup dropped'
    PROVE  WillWake(r)'
<1>1. UNCHANGED <<enabled, current, dropped, edit, pc, task, toWake, undisturbed>>
  BY DEF QueueAgain, stores, workers, editors, history
<1>2. retrying \in Seq(Tasks) /\ queue \in Seq(Tasks)
  BY DEF TypeInv, QueuesOK
<1>3. PICK i \in 1 .. Len(retrying) :
         /\ queue' = Append(queue, retrying[i])
         /\ retrying' = SubSeq(retrying, 1, i - 1) \o SubSeq(retrying, i + 1, Len(retrying))
  BY DEF QueueAgain
<1>4. retrying[i] \in Tasks
  BY <1>2
<1>5. Queued(queue, r) => Queued(queue', r)
  BY <1>2, <1>3, <1>4, QueuedAppend
<1>6. Queued(retrying, r) => Queued(queue', r) \/ Queued(retrying', r)
  BY <1>2, <1>3, <1>4, QueuedAppend, QueuedWithout
<1>7. \A v \in Workers : AtWork(v, r) => AtWork(v, r)'
  BY <1>1, SameWork
<1> QED
  BY <1>1, <1>5, <1>6, <1>7 DEF WakeInv, WillWake

(* What had been under way to the rule when the process ended is still to  *)
(* be tried again; its edit counts as dropped.                             *)
LEMMA DieWakes ==
    ASSUME TypeInv, WakeInv, Die, UNCHANGED queue,
           NEW r \in Rules, enabled'[r], r \notin current' \cup dropped'
    PROVE  WillWake(r)'
<1>1. /\ UNCHANGED <<enabled, retrying, task, current>> /\ r \notin dropped /\ edit[r] = "none"
      /\ pc' = [v \in Workers |-> IF pc[v] = "idle" THEN "idle" ELSE "lost"]
  BY DEF Die, stores
<1>2. ASSUME NEW v \in Workers, AtWork(v, r) PROVE AtWork(v, r)'
  BY <1>1, <1>2 DEF AtWork
<1> QED
  BY <1>1, <1>2 DEF WakeInv, WillWake

(* Steps that add to the queue at most.                                    *)
LEMMA StillWakes ==
    ASSUME WakeInv, NEW r \in Rules, enabled'[r], enabled[r], r \notin current' \cup dropped',
           UNCHANGED <<retrying, workers, undisturbed, current>>, dropped \subseteq dropped',
           Queued(queue, r) => Queued(queue', r), edit[r] # "none" => edit'[r] # "none"
    PROVE  WillWake(r)'
<1>1. \A v \in Workers : AtWork(v, r) => AtWork(v, r)'
  BY SameWork DEF workers
<1> QED
  BY <1>1 DEF WakeInv, WillWake

LEMMA ReportWakes ==
    ASSUME TypeInv, WakeInv, OnDeviceUpdate, NEW r \in Rules, enabled'[r], r \notin current' \cup dropped'
    PROVE  WillWake(r)'
<1>1. ASSUME NEW d \in Devices, queue' = Append(queue, Update(d, reports')),
             UNCHANGED <<stores, retrying, workers, editors, history>>
      PROVE  WillWake(r)'
  <2>1. reports' \in 1 .. MaxReports
    BY BoundsAssumption DEF OnDeviceUpdate, TypeInv, CountersOK
  <2>2. Queued(queue, r) => Queued(queue', r)
    BY <1>1, <2>1, NewTasks, QueuedAppend DEF TypeInv, QueuesOK
  <2> QED
    BY <1>1, <2>2, StillWakes DEF stores, editors, history
<1> QED
  BY <1>1, DieWakes DEF OnDeviceUpdate

LEMMA MainWakes ==
    ASSUME TypeInv, WakeInv, Main, NEW r \in Rules, enabled'[r], r \notin current' \cup dropped'
    PROVE  WillWake(r)'
<1>1. CASE Crash
  BY <1>1, DieWakes DEF Crash
<1>2. CASE ~ Crash
  <2>1. UNCHANGED <<enabled, queues, workers, editors, history>>
    BY <1>2 DEF Main, Launch, StartWorkers, Subscribe, ClearAssociations, FillAssociation,
       ServeRequests, stores
  <2> QED
    BY <2>1, StillWakes DEF queues, editors, history
<1> QED
  BY <1>1, <1>2

LEMMA EditWakes ==
    ASSUME TypeInv, SetsInv, WakeInv, NEW q \in Rules, EditRule(q),
           NEW r \in Rules, enabled'[r], r \notin current' \cup dropped'
    PROVE  WillWake(r)'
<1>1. /\ edit \in [Rules -> {"none", "keys", "srem", "sadd"}] /\ enabled \in [Rules -> BOOLEAN]
      /\ queue \in Seq(Tasks) /\ Evaluation(q) \in Tasks
  BY NewTasks DEF TypeInv, EditorsOK, StoresOK, QueuesOK
<1>2. UNCHANGED <<retrying, workers, undisturbed, current>> /\ dropped \subseteq dropped'
  BY DEF EditRule, WriteRule, GetKeys, RemoveAssociation, AssociationsRemoved, AddAssociation, Trigger,
     TriggerFails, queues, history
<1>3. Queued(queue, r) => Queued(queue', r)
  BY <1>1, QueuedAppend DEF EditRule, WriteRule, GetKeys, RemoveAssociation, AssociationsRemoved,
     AddAssociation, Trigger, TriggerFails, queues
<1>4. CASE r # q
  <2>1. enabled'[r] = enabled[r] /\ edit'[r] = edit[r]
    BY <1>1, <1>4 DEF EditRule, WriteRule, GetKeys, RemoveAssociation, AssociationsRemoved,
       AddAssociation, Trigger, TriggerFails, stores
  <2> QED
    BY <1>2, <1>3, <2>1, StillWakes
<1>5. CASE r = q /\ edit'[q] # "none"
  BY <1>5 DEF WillWake
<1>6. CASE r = q /\ edit'[q] = "none"
  <2>1. Trigger(q)
    BY <1>1, <1>6 DEF EditRule, WriteRule, GetKeys, RemoveAssociation, AssociationsRemoved,
       AddAssociation, Trigger, TriggerFails, stores
  <2>2. Wakes(Evaluation(q), r)
    BY <1>6 DEF Wakes, Concerned, Evaluation
  <2>3. Queued(queue', r)
    BY <1>1, <2>1, <2>2, QueuedAppend DEF Trigger
  <2> QED
    BY <2>3 DEF WillWake
<1> QED
  BY <1>4, <1>5, <1>6

LEMMA WakeStep == ASSUME TypeInv, SetsInv, WakeInv, [Next]_vars PROVE WakeInv'
<1> SUFFICES ASSUME NEW r \in Rules, enabled'[r], r \notin current' \cup dropped'
             PROVE  WillWake(r)'
  BY DEF WakeInv
<1>1. CASE UNCHANGED vars
  BY <1>1, StillWakes DEF vars, stores, queues, editors, history
<1>2. ASSUME NEW d \in Devices, AcceptDevice(d) \/ DeleteDevice(d) PROVE WillWake(r)'
  <2>1. UNCHANGED <<enabled, queues, workers, editors, undisturbed, current, dropped>>
    BY <1>2 DEF AcceptDevice, DeleteDevice, Change
  <2> QED
    BY <2>1, StillWakes DEF queues, editors
<1> QED
  BY <1>1, <1>2, MainWakes, ReportWakes, QueueWakes, TakeWakes, UpdateWakes, EvaluationWakes, EditWakes
  DEF Next

(* No wake-up is lost on the way, other than those that an error drops or  *)
(* an end of the process cuts short, however many devices, rules, workers  *)
(* and edits there are (updater.go:53-65, tasks.go:76-92,                  *)
(* engine.go:188-234).                                                     *)
THEOREM NothingIsForgotten == Spec => []NoLostWakeup
<1>1. WakeInv => NoLostWakeup
  <2>1. ASSUME WakeInv, Quiet, NEW r \in Rules, enabled[r], r \notin current \cup dropped PROVE FALSE
    <3>1. WillWake(r)
      BY <2>1 DEF WakeInv
    <3>2. ~ Queued(queue, r) /\ ~ Queued(retrying, r)
      BY <2>1 DEF Quiet, Queued
    <3>3. \A w \in Workers : ~ AtWork(w, r)
      BY <2>1 DEF Quiet, AtWork
    <3> QED
      BY <2>1, <3>1, <3>2, <3>3 DEF Quiet, WillWake
  <2> QED
    BY <2>1 DEF NoLostWakeup
<1>2. Init => WakeInv
  BY DEF Init, WakeInv
<1> QED
  BY <1>1, <1>2, InitTypes, TypeStep, SetsInit, SetsStep, WakeStep, PTL DEF Spec

=============================================================================
