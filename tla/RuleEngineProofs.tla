-------------------------- MODULE RuleEngineProofs --------------------------
(***************************************************************************)
(* Proofs about RuleEngine for any number of handlers, rules, devices and  *)
(* users, with or without overlap, crashes and failed calls: every         *)
(* variable keeps its type, jobMap never points at a job that is gone or   *)
(* belongs to another schedule, jobs are those their schedules' rows name, *)
(* and a start repairs the sets and the jobs.                              *)
(***************************************************************************)
EXTENDS RuleEngine, TLAPS, FiniteSetTheorems

-----------------------------------------------------------------------------
(* Type correctness.                                                       *)

(* Go's zero values have the types of the variables they start.            *)
LEMMA ZeroValues ==
    /\ NoRule \in RuleRow /\ NoSchedule \in ScheduleRow
    /\ NoPatch \in [fields: SUBSET RuleFields, name: Names, cond: Conds, enabled: BOOLEAN]
    /\ NoRequest \in Requests /\ NoWork \in Work
    /\ NoEntry \in Nat
<1>1. /\ (CHOOSE n \in Names : TRUE) \in Names
      /\ (CHOOSE u \in Users : TRUE) \in Users
      /\ (CHOOSE c \in Conds : TRUE) \in Conds
      /\ (CHOOSE c \in Crons : TRUE) \in Crons
  BY NonEmptyAssumption
<1>2. NoRule \in RuleRow /\ NoSchedule \in ScheduleRow
  BY <1>1 DEF NoRule, RuleRow, NoSchedule, ScheduleRow
<1>3. NoPatch \in [fields: SUBSET RuleFields, name: Names, cond: Conds, enabled: BOOLEAN]
  BY <1>1, <1>2 DEF NoPatch, NoRule
<1>4. NoRequest \in Requests
  BY <1>1, <1>2, <1>3 DEF NoRequest, Requests, NoRule
<1>5. NoWork \in Work
  BY <1>2 DEF NoWork, Work
<1> QED
  BY <1>2, <1>3, <1>4, <1>5 DEF NoEntry

(* The end of a request keeps the types of the handlers' variables.        *)
HandlersOK ==
    /\ pc \in [Handlers -> Labels]
    /\ req \in [Handlers -> Requests]
    /\ work \in [Handlers -> Work]
    /\ adding \in [Handlers -> ScheduleRow]
    /\ entry \in [Handlers -> Nat]

LEMMA DoneOK == ASSUME HandlersOK, NEW h \in Handlers, Done(h) PROVE HandlersOK'
  BY ZeroValues DEF HandlersOK, Done, Goto, Labels

(* So does every move to another call.                                     *)
LEMMA GotoOK == ASSUME pc \in [Handlers -> Labels], NEW h \in Handlers, NEW l \in Labels, Goto(h, l)
                PROVE pc' \in [Handlers -> Labels]
  BY DEF Goto

LEMMA LoopLabels == ASSUME NEW h \in Handlers PROVE NextCondition(h) \in Labels /\ Added(h) \in Labels
  BY DEF NextCondition, Added, Labels

SchedulerOK ==
    /\ entries \subseteq Jobs /\ nextEntry \in Nat
    /\ DOMAIN jobMap \subseteq Nat /\ \A s \in DOMAIN jobMap : jobMap[s] \in Nat

(* The scheduler's operators keep the types of its variables.              *)
LEMMA RemoveScheduleOK == ASSUME SchedulerOK, NEW sid, RemoveSchedule(sid) PROVE SchedulerOK'
  BY DEF SchedulerOK, RemoveSchedule

LEMMA JobType == ASSUME NEW id \in Nat, NEW s \in ScheduleRow PROVE Job(id, s) \in Jobs
  BY DEF Job, Jobs, ScheduleRow

LEMMA AddJobOK == ASSUME SchedulerOK, NEW s \in ScheduleRow, AddJob(s) PROVE SchedulerOK'
  BY JobType DEF SchedulerOK, AddJob

LEMMA MapJobOK == ASSUME SchedulerOK, NEW sid \in Nat, NEW id \in Nat, MapJob(sid, id) PROVE SchedulerOK'
  BY DEF SchedulerOK, MapJob, WithJob

LEMMA LoadScheduleOK == ASSUME SchedulerOK, NEW s \in ScheduleRow, LoadSchedule(s) PROVE SchedulerOK'
  BY JobType DEF SchedulerOK, LoadSchedule, WithJob, ScheduleRow

LEMMA RestartOK == ASSUME RestartScheduler \/ (NewScheduler /\ UNCHANGED schedulerVars) PROVE SchedulerOK'
  BY DEF SchedulerOK, RestartScheduler, NewScheduler, schedulerVars

StoreOK ==
    /\ rules \subseteq RuleRow /\ nextRule \in Nat
    /\ schedules \subseteq ScheduleRow /\ nextSched \in Nat
    /\ assoc \in [Devices -> SUBSET Nat]
    /\ evals \subseteq Nat
    /\ boot \in {"loading", "clearing", "associating", "booted", "serving"}
    /\ requests \in Nat /\ crashes \in Nat /\ faults \in Nat

LEMMA TypeParts ==
    /\ TypeOK => SchedulerOK /\ StoreOK /\ HandlersOK
    /\ SchedulerOK' /\ StoreOK' /\ HandlersOK' => TypeOK'
  BY DEF TypeOK, SchedulerOK, StoreOK, HandlersOK

(* Merging a row with a body of PATCH gives a row.                         *)
LEMMA MergeOK ==
    ASSUME NEW x \in RuleRow,
           NEW p \in [fields: SUBSET RuleFields, name: Names, cond: Conds, enabled: BOOLEAN]
    PROVE  Merge(x, p) \in RuleRow
  BY DEF Merge, RuleRow

-----------------------------------------------------------------------------
(* A step of each kind keeps the types.                                    *)

LEMMA BootType == ASSUME TypeOK, Boot PROVE TypeOK'
<1> USE DEF tables, handlers, counters
<1>0. SchedulerOK /\ StoreOK /\ HandlersOK
  BY TypeParts
<1>1. CASE LoadSchedules
  <2>1. SchedulerOK'
    BY <1>0, <1>1, LoadScheduleOK DEF LoadSchedules, StoreOK
  <2> QED
    BY <1>0, <1>1, <2>1, TypeParts DEF LoadSchedules, StoreOK, HandlersOK
<1>2. CASE SchedulesLoaded
  BY <1>0, <1>2, TypeParts DEF SchedulesLoaded, schedulerVars, SchedulerOK, StoreOK, HandlersOK
<1>3. CASE ClearAssociations
  BY <1>0, <1>3, TypeParts DEF ClearAssociations, schedulerVars, SchedulerOK, StoreOK, HandlersOK
<1>4. CASE Associate
  BY <1>0, <1>4, TypeParts DEF Associate, schedulerVars, SchedulerOK, StoreOK, HandlersOK, RuleRow
<1>5. CASE StartWebServer
  BY <1>0, <1>5, TypeParts DEF StartWebServer, schedulerVars, SchedulerOK, StoreOK, HandlersOK
<1> QED
  BY <1>1, <1>2, <1>3, <1>4, <1>5 DEF Boot

LEMMA CrashType == ASSUME TypeOK, Crash PROVE TypeOK'
<1>1. SchedulerOK'
  BY RestartOK DEF Crash
<1>2. StoreOK'
  BY TypeParts DEF Crash, tables, StoreOK
<1>3. HandlersOK'
  BY ZeroValues DEF Crash, HandlersOK, Labels
<1> QED
  BY <1>1, <1>2, <1>3, TypeParts

LEMMA QueueType == ASSUME TypeOK, Fire \/ TakeEvaluation PROVE TypeOK'
  BY TypeParts DEF Fire, TakeEvaluation, tables, handlers, counters, schedulerVars,
                   SchedulerOK, StoreOK, HandlersOK, Jobs

LEMMA ReceiveType == ASSUME TypeOK, NEW h \in Handlers, Post(h) \/ Patch(h) \/ Delete(h) PROVE TypeOK'
<1>0. SchedulerOK /\ StoreOK /\ HandlersOK
  BY TypeParts
<1>1. ASSUME NEW r \in Requests, NEW l \in Labels, Receive(h, r, l) PROVE TypeOK'
  BY <1>0, <1>1, TypeParts DEF Receive, Goto, schedulerVars, tables, SchedulerOK, StoreOK, HandlersOK
<1>2. CASE Post(h)
  <2>1. PICK u \in Users, f \in Forms :
            Receive(h, [op |-> "post", user |-> u, rule |-> 0, patch |-> NoPatch,
                        copy |-> [id |-> 0, name |-> f.name, owner |-> u,
                                  enabled |-> f.enabled, cond |-> f.cond]], "insert")
    BY <1>2 DEF Post
  <2>2. [id |-> 0, name |-> f.name, owner |-> u, enabled |-> f.enabled, cond |-> f.cond] \in RuleRow
    BY RequestsAssumption DEF RuleRow
  <2>3. [op |-> "post", user |-> u, rule |-> 0, patch |-> NoPatch,
         copy |-> [id |-> 0, name |-> f.name, owner |-> u,
                   enabled |-> f.enabled, cond |-> f.cond]] \in Requests
    BY <2>2, ZeroValues DEF Requests
  <2> QED
    BY <1>1, <2>1, <2>3 DEF Labels
<1>3. CASE Patch(h)
  <2>1. PICK u \in Users, r \in 1 .. (nextRule - 1), p \in Patches :
            Receive(h, [op |-> "patch", user |-> u, rule |-> r, patch |-> p, copy |-> NoRule], "read")
    BY <1>3 DEF Patch
  <2>2. [op |-> "patch", user |-> u, rule |-> r, patch |-> p, copy |-> NoRule] \in Requests
    BY <1>0, RequestsAssumption, ZeroValues DEF Requests, StoreOK
  <2> QED
    BY <1>1, <2>1, <2>2 DEF Labels
<1>4. CASE Delete(h)
  <2>1. PICK u \in Users, r \in 1 .. (nextRule - 1) :
            Receive(h, [op |-> "delete", user |-> u, rule |-> r, patch |-> NoPatch, copy |-> NoRule], "keys")
    BY <1>4 DEF Delete
  <2>2. [op |-> "delete", user |-> u, rule |-> r, patch |-> NoPatch, copy |-> NoRule] \in Requests
    BY <1>0, ZeroValues DEF Requests, StoreOK
  <2> QED
    BY <1>1, <2>1, <2>2 DEF Labels
<1> QED
  BY <1>2, <1>3, <1>4

LEMMA WriteType == ASSUME TypeOK, NEW h \in Handlers, Write(h) PROVE TypeOK'
<1> USE DEF tables, counters
<1>0. SchedulerOK /\ StoreOK /\ HandlersOK
  BY TypeParts
<1>1. CASE InsertRule(h)
  <2>1. req[h].copy \in RuleRow
    BY <1>0 DEF HandlersOK, Requests
  <2>2. [req[h].copy EXCEPT !.id = nextRule] \in RuleRow
    BY <1>0, <2>1 DEF StoreOK, RuleRow
  <2>3. StoreOK' /\ SchedulerOK'
    BY <1>0, <1>1, <2>2 DEF InsertRule, StoreOK, SchedulerOK, schedulerVars
  <2>4. HandlersOK'
    BY <1>0, <1>1 DEF InsertRule, HandlersOK, Goto, Labels
  <2> QED
    BY <2>3, <2>4, TypeParts
<1>2. CASE SelectRule(h)
  <2>1. SchedulerOK' /\ StoreOK'
    BY <1>0, <1>2 DEF SelectRule, StoreOK, SchedulerOK, schedulerVars
  <2>2. CASE Done(h)
    BY <1>0, <2>1, <2>2, DoneOK, TypeParts
  <2>3. CASE ~ Done(h)
    <3>1. PICK x \in rules : /\ req' = [req EXCEPT ![h].copy = x, ![h].rule = x.id]
                             /\ Goto(h, "fetch")
                             /\ UNCHANGED <<work, adding, entry>>
      BY <1>2, <2>3 DEF SelectRule
    <3>2. x \in RuleRow /\ x.id \in Nat
      BY <1>0 DEF StoreOK, RuleRow
    <3>3. req' \in [Handlers -> Requests]
      BY <1>0, <3>1, <3>2 DEF HandlersOK, Requests
    <3>4. HandlersOK'
      BY <1>0, <3>1, <3>3 DEF HandlersOK, Goto, Labels
    <3> QED
      BY <2>1, <3>4, TypeParts
  <2> QED
    BY <2>2, <2>3
<1>3. CASE ReadRule(h)
  <2>1. SchedulerOK' /\ StoreOK'
    BY <1>0, <1>3 DEF ReadRule, StoreOK, SchedulerOK, schedulerVars
  <2>2. CASE Done(h)
    BY <1>0, <2>1, <2>2, DoneOK, TypeParts
  <2>3. CASE ~ Done(h)
    <3>1. PICK x \in rules : /\ req' = [req EXCEPT ![h].copy = Merge(x, req[h].patch)]
                             /\ Goto(h, "write")
                             /\ UNCHANGED <<work, adding, entry>>
      BY <1>3, <2>3 DEF ReadRule, RulesWithID
    <3>2. Merge(x, req[h].patch) \in RuleRow
      BY <1>0, MergeOK DEF HandlersOK, Requests, StoreOK
    <3>3. req' \in [Handlers -> Requests]
      BY <1>0, <3>1, <3>2 DEF HandlersOK, Requests
    <3>4. HandlersOK'
      BY <1>0, <3>1, <3>3 DEF HandlersOK, Goto, Labels
    <3> QED
      BY <2>1, <3>4, TypeParts
  <2> QED
    BY <2>2, <2>3
<1>4. CASE WriteRule(h)
  <2>1. req[h].copy \in RuleRow
    BY <1>0 DEF HandlersOK, Requests
  <2>2. StoreOK' /\ SchedulerOK'
    BY <1>0, <1>4, <2>1 DEF WriteRule, StoreOK, SchedulerOK, schedulerVars
  <2>3. HandlersOK'
    BY <1>0, <1>4 DEF WriteRule, HandlersOK, Goto, Labels
  <2> QED
    BY <2>2, <2>3, TypeParts
<1> QED
  BY <1>1, <1>2, <1>3, <1>4 DEF Write

LEMMA RefreshType == ASSUME TypeOK, NEW h \in Handlers, Refresh(h) PROVE TypeOK'
<1> USE DEF tables, counters
<1>0. SchedulerOK /\ StoreOK /\ HandlersOK
  BY TypeParts
<1>1. /\ req[h].rule \in Nat /\ adding[h] \in ScheduleRow /\ adding[h].id \in Nat
      /\ work[h] \in Work /\ entry[h] \in Nat
  BY <1>0 DEF HandlersOK, Requests, ScheduleRow
<1>2. NextCondition(h) \in Labels /\ Added(h) \in Labels
  BY LoopLabels
<1>3. \A r : SchedulesOf(r) \in SUBSET ScheduleRow
  BY <1>0 DEF SchedulesOf, StoreOK
<1>4. CASE FetchRule(h)
  <2>1. SchedulerOK' /\ StoreOK'
    BY <1>0, <1>4 DEF FetchRule, StoreOK, SchedulerOK, schedulerVars
  <2>2. CASE Done(h)
    BY <1>0, <2>1, <2>2, DoneOK, TypeParts
  <2>3. CASE ~ Done(h)
    <3>1. PICK x \in rules : /\ work' = [work EXCEPT ![h].seen = x]
                             /\ Goto(h, "keys")
                             /\ UNCHANGED <<req, adding, entry>>
      BY <1>4, <2>3 DEF FetchRule, RulesWithID
    <3>2. work' \in [Handlers -> Work]
      BY <1>0, <1>1, <3>1 DEF HandlersOK, StoreOK, Work
    <3> QED
      BY <1>0, <2>1, <3>1, <3>2, TypeParts DEF HandlersOK, Goto, Labels
  <2> QED
    BY <2>2, <2>3
<1>5. CASE GetKeys(h)
  <2>1. work' \in [Handlers -> Work]
    BY <1>0, <1>1, <1>5 DEF GetKeys, HandlersOK, Work
  <2> QED
    BY <1>0, <1>5, <2>1, TypeParts
    DEF GetKeys, HandlersOK, StoreOK, SchedulerOK, schedulerVars, Goto, Labels
<1>6. CASE RemoveAssociation(h) \/ AddAssociation(h)
  <2>1. work' \in [Handlers -> Work]
    BY <1>0, <1>1, <1>6 DEF RemoveAssociation, AddAssociation, HandlersOK, Work
  <2>2. assoc' \in [Devices -> SUBSET Nat]
    BY <1>0, <1>1, <1>6 DEF RemoveAssociation, AddAssociation, StoreOK
  <2> QED
    BY <1>0, <1>6, <2>1, <2>2, TypeParts
    DEF RemoveAssociation, AddAssociation, HandlersOK, StoreOK, SchedulerOK, schedulerVars
<1>7. CASE AssociationsRemoved(h)
  <2>1. SchedulerOK' /\ StoreOK'
    BY <1>0, <1>7 DEF AssociationsRemoved, StoreOK, SchedulerOK, schedulerVars
  <2>2. CASE Done(h)
    BY <1>0, <2>1, <2>2, DoneOK, TypeParts
  <2>3. CASE Goto(h, "trigger") /\ UNCHANGED <<req, work, adding, entry>>
    BY <1>0, <2>1, <2>3, TypeParts DEF HandlersOK, Goto, Labels
  <2>4. CASE /\ work' = [work EXCEPT ![h].keys = work[h].seen.cond.devices]
             /\ Goto(h, "sadd")
             /\ UNCHANGED <<req, adding, entry>>
    <3>1. work[h].seen.cond.devices \subseteq Devices
      BY <1>1, CondsAssumption DEF Work, RuleRow
    <3>2. work' \in [Handlers -> Work]
      BY <1>0, <1>1, <2>4, <3>1 DEF HandlersOK, Work
    <3> QED
      BY <1>0, <2>1, <2>4, <3>2, TypeParts DEF HandlersOK, Goto, Labels
  <2> QED
    BY <1>7, <2>2, <2>3, <2>4 DEF AssociationsRemoved
<1>8. CASE RefetchRule(h)
  <2>1. SchedulerOK' /\ StoreOK'
    BY <1>0, <1>8 DEF RefetchRule, StoreOK, SchedulerOK, schedulerVars
  <2>2. CASE Goto(h, "trigger") /\ UNCHANGED work
    BY <1>0, <1>8, <2>1, <2>2, TypeParts DEF RefetchRule, HandlersOK, Goto, Labels
  <2>3. CASE ~ (Goto(h, "trigger") /\ UNCHANGED work)
    <3>1. PICK x \in rules :
              LET crons == IF x.cond.parses THEN x.cond.crons ELSE {}
              IN  /\ work' = [work EXCEPT ![h].seen = x, ![h].crons = crons]
                  /\ Goto(h, IF crons = {} THEN "list" ELSE "lookup")
      BY <1>8, <2>3 DEF RefetchRule, RulesWithID
    <3>2. x \in RuleRow /\ (IF x.cond.parses THEN x.cond.crons ELSE {}) \subseteq Crons
      BY <1>0, CondsAssumption DEF StoreOK, RuleRow
    <3>3. work' \in [Handlers -> Work]
      BY <1>0, <1>1, <3>1, <3>2 DEF HandlersOK, Work
    <3> QED
      BY <1>0, <1>8, <2>1, <3>1, <3>3, TypeParts DEF RefetchRule, HandlersOK, Goto, Labels
  <2> QED
    BY <2>2, <2>3
<1>9. CASE LookupSchedule(h)
  <2>1. PICK c \in work[h].crons :
          LET wanted == [NoSchedule EXCEPT !.rule = req[h].rule, !.cron = c,
                                           !.enabled = work[h].seen.enabled]
              found == {s \in SchedulesOf(req[h].rule) : s.cron = c}
          IN  /\ work' = [work EXCEPT ![h].crons = @ \ {c}]
              /\ \/ /\ found = {}
                    /\ adding' = [adding EXCEPT ![h] = wanted]
                    /\ Goto(h, "create")
                 \/ \E s \in found :
                       /\ adding' = [adding EXCEPT ![h] = [wanted EXCEPT !.id = s.id]]
                       /\ Goto(h, "update")
    BY <1>9 DEF LookupSchedule
  <2> DEFINE wanted == [NoSchedule EXCEPT !.rule = req[h].rule, !.cron = c,
                                          !.enabled = work[h].seen.enabled]
  <2>2. wanted \in ScheduleRow
    BY <1>1, ZeroValues DEF ScheduleRow, Work, RuleRow
  <2>3. work' \in [Handlers -> Work]
    BY <1>0, <1>1, <2>1 DEF HandlersOK, Work
  <2>4. adding' \in [Handlers -> ScheduleRow] /\ pc' \in [Handlers -> Labels]
    <3>1. CASE adding' = [adding EXCEPT ![h] = wanted] /\ Goto(h, "create")
      BY <1>0, <2>2, <3>1 DEF HandlersOK, Goto, Labels
    <3>2. CASE \E s \in SchedulesOf(req[h].rule) :
                  /\ adding' = [adding EXCEPT ![h] = [wanted EXCEPT !.id = s.id]]
                  /\ Goto(h, "update")
      <4>1. PICK s \in SchedulesOf(req[h].rule) :
                  /\ adding' = [adding EXCEPT ![h] = [wanted EXCEPT !.id = s.id]]
                  /\ Goto(h, "update")
        BY <3>2
      <4>2. [wanted EXCEPT !.id = s.id] \in ScheduleRow
        <5> HIDE DEF wanted
        <5> QED
          BY <1>3, <2>2 DEF ScheduleRow
      <4> HIDE DEF wanted
      <4> QED
        BY <1>0, <4>1, <4>2 DEF HandlersOK, Goto, Labels
    <3> QED
      BY <2>1, <3>1, <3>2
  <2> QED
    BY <1>0, <1>9, <2>3, <2>4, TypeParts
    DEF LookupSchedule, HandlersOK, StoreOK, SchedulerOK, schedulerVars
<1>10. CASE CreateSchedule(h)
  <2>1. CASE Goto(h, NextCondition(h)) /\ UNCHANGED <<schedules, nextSched, adding>>
    BY <1>0, <1>2, <1>10, <2>1, TypeParts
    DEF CreateSchedule, HandlersOK, StoreOK, SchedulerOK, schedulerVars, Goto
  <2>2. CASE /\ schedules' = schedules \cup {[adding[h] EXCEPT !.id = nextSched]}
             /\ nextSched' = nextSched + 1
             /\ adding' = [adding EXCEPT ![h].id = nextSched]
             /\ Goto(h, "unschedule")
    <3>1. [adding[h] EXCEPT !.id = nextSched] \in ScheduleRow
      BY <1>0, <1>1 DEF StoreOK, ScheduleRow
    <3>2. adding' \in [Handlers -> ScheduleRow]
      BY <1>0, <2>2, <3>1 DEF HandlersOK
    <3>3. schedules' \subseteq ScheduleRow /\ nextSched' \in Nat
      BY <1>0, <2>2, <3>1 DEF StoreOK
    <3> QED
      BY <1>0, <1>10, <2>2, <3>2, <3>3, TypeParts
      DEF CreateSchedule, HandlersOK, StoreOK, SchedulerOK, schedulerVars, Goto, Labels
  <2> QED
    BY <1>10, <2>1, <2>2 DEF CreateSchedule
<1>11. CASE UpdateSchedule(h)
  <2>1. schedules' \subseteq ScheduleRow
    BY <1>0, <1>1, <1>11 DEF UpdateSchedule, StoreOK, ScheduleRow
  <2> QED
    BY <1>0, <1>11, <2>1, TypeParts
    DEF UpdateSchedule, HandlersOK, StoreOK, SchedulerOK, schedulerVars, Goto, Labels
<1>12. CASE Unschedule(h)
  <2>1. SchedulerOK'
    BY <1>0, <1>12, RemoveScheduleOK DEF Unschedule
  <2> QED
    BY <1>0, <1>2, <1>12, <2>1, TypeParts DEF Unschedule, HandlersOK, StoreOK, Goto, Labels
<1>13. CASE Schedule(h)
  <2>1. SchedulerOK'
    BY <1>0, <1>1, <1>13, AddJobOK DEF Schedule
  <2> QED
    BY <1>0, <1>13, <2>1, TypeParts DEF Schedule, HandlersOK, StoreOK, SchedulerOK, Goto, Labels
<1>14. CASE RecordJob(h)
  <2>1. SchedulerOK'
    BY <1>0, <1>1, <1>14, MapJobOK DEF RecordJob
  <2> QED
    BY <1>0, <1>2, <1>14, <2>1, ZeroValues, TypeParts DEF RecordJob, HandlersOK, StoreOK, Goto
<1>15. CASE ListSchedules(h)
  <2>1. work' \in [Handlers -> Work]
    BY <1>0, <1>1, <1>3, <1>15 DEF ListSchedules, HandlersOK, Work
  <2> QED
    BY <1>0, <1>15, <2>1, TypeParts
    DEF ListSchedules, HandlersOK, StoreOK, SchedulerOK, schedulerVars, Goto, Labels
<1>16. CASE NextSchedule(h)
  <2>1. work' \in [Handlers -> Work]
    BY <1>0, <1>1, <1>16 DEF NextSchedule, HandlersOK, Work
  <2>2. adding' \in [Handlers -> ScheduleRow]
    BY <1>0, <1>1, <1>16 DEF NextSchedule, HandlersOK, Work
  <2> QED
    BY <1>0, <1>16, <2>1, <2>2, TypeParts
    DEF NextSchedule, HandlersOK, StoreOK, SchedulerOK, schedulerVars, Goto, Labels
<1>17. CASE TriggerRuleEvaluation(h)
  <2>1. HandlersOK'
    BY <1>0, <1>17, DoneOK DEF TriggerRuleEvaluation
  <2> QED
    BY <1>0, <1>1, <1>17, <2>1, TypeParts
    DEF TriggerRuleEvaluation, StoreOK, SchedulerOK, schedulerVars
<1> QED
  BY <1>4, <1>5, <1>6, <1>7, <1>8, <1>9, <1>10, <1>11, <1>12, <1>13, <1>14, <1>15, <1>16, <1>17
  DEF Refresh

LEMMA RemoveType == ASSUME TypeOK, NEW h \in Handlers, Remove(h) PROVE TypeOK'
<1> USE DEF tables, counters
<1>0. SchedulerOK /\ StoreOK /\ HandlersOK
  BY TypeParts
<1>1. work[h] \in Work /\ \A r : SchedulesOf(r) \in SUBSET ScheduleRow
  BY <1>0 DEF HandlersOK, StoreOK, SchedulesOf
<1>2. CASE ListDoomed(h)
  <2>1. work' \in [Handlers -> Work]
    BY <1>0, <1>1, <1>2 DEF ListDoomed, HandlersOK, Work
  <2> QED
    BY <1>0, <1>2, <2>1, TypeParts
    DEF ListDoomed, HandlersOK, StoreOK, SchedulerOK, schedulerVars, Goto, Labels
<1>3. CASE RemoveJob(h)
  <2>1. SchedulerOK'
    BY <1>0, <1>3, RemoveScheduleOK DEF RemoveJob
  <2>2. work' \in [Handlers -> Work] /\ adding' \in [Handlers -> ScheduleRow]
    BY <1>0, <1>1, <1>3 DEF RemoveJob, HandlersOK, Work
  <2> QED
    BY <1>0, <1>3, <2>1, <2>2, TypeParts DEF RemoveJob, HandlersOK, StoreOK, Goto, Labels
<1>4. CASE DeleteSchedule(h)
  BY <1>0, <1>4, TypeParts
  DEF DeleteSchedule, HandlersOK, StoreOK, SchedulerOK, schedulerVars, Goto, Labels
<1>5. CASE DeleteRule(h)
  <2>1. HandlersOK'
    BY <1>0, <1>5, DoneOK DEF DeleteRule
  <2> QED
    BY <1>0, <1>5, <2>1, TypeParts DEF DeleteRule, StoreOK, SchedulerOK, schedulerVars
<1> QED
  BY <1>2, <1>3, <1>4, <1>5 DEF Remove

LEMMA FailureType == ASSUME TypeOK, NEW h \in Handlers, CallFails(h) PROVE TypeOK'
<1>0. SchedulerOK /\ StoreOK /\ HandlersOK
  BY TypeParts
<1>1. work[h] \in Work /\ req[h].rule \in Nat
  BY <1>0 DEF HandlersOK, Requests
<1>2. StoreOK'
  BY <1>0 DEF CallFails, StoreOK, tables
<1>3. SchedulerOK'
  BY <1>0 DEF CallFails, EndsRequest, SkipsAssociation, MisreadsLookup, SkipsRest,
              SchedulerOK, schedulerVars
<1>4. HandlersOK'
  <2>1. CASE EndsRequest(h)
    BY <1>0, <2>1, DoneOK DEF EndsRequest
  <2>2. CASE SkipsAssociation(h)
    <3>1. work' \in [Handlers -> Work]
      BY <1>0, <1>1, <2>2 DEF SkipsAssociation, HandlersOK, Work
    <3> QED
      BY <1>0, <2>2, <3>1 DEF SkipsAssociation, HandlersOK
  <2>3. CASE MisreadsLookup(h)
    <3>1. work' \in [Handlers -> Work]
      BY <1>0, <1>1, <2>3 DEF MisreadsLookup, HandlersOK, Work
    <3>2. adding' \in [Handlers -> ScheduleRow]
      BY <1>0, <1>1, <2>3 DEF MisreadsLookup, HandlersOK, Work, ScheduleRow, RuleRow
    <3> QED
      BY <1>0, <2>3, <3>1, <3>2 DEF MisreadsLookup, HandlersOK, Goto, Labels
  <2>4. CASE SkipsRest(h)
    BY <1>0, <2>4, LoopLabels DEF SkipsRest, HandlersOK, Goto, Labels
  <2> QED
    BY <2>1, <2>2, <2>3, <2>4 DEF CallFails
<1> QED
  BY <1>2, <1>3, <1>4, TypeParts

LEMMA InitType == Init => TypeOK
  BY ZeroValues DEF Init, NewScheduler, TypeOK, Labels

LEMMA StutterType == TypeOK /\ UNCHANGED vars => TypeOK'
  BY DEF TypeOK, vars, schedulerVars, tables, handlers, counters

LEMMA NextType == TypeOK /\ [Next]_vars => TypeOK'
<1> SUFFICES ASSUME TypeOK, Next PROVE TypeOK'
  BY StutterType
<1>1. CASE Boot \/ Crash \/ Fire \/ TakeEvaluation
  BY <1>1, BootType, CrashType, QueueType
<1>2. ASSUME NEW h \in Handlers, Post(h) \/ Patch(h) \/ Delete(h) \/ Step(h) \/ CallFails(h)
      PROVE  TypeOK'
  BY <1>2, ReceiveType, WriteType, RefreshType, RemoveType, FailureType DEF Step
<1> QED
  BY <1>1, <1>2 DEF Next

(* Every variable has its type in every state of every behaviour.          *)
THEOREM TypeCorrect == Spec => []TypeOK
  BY InitType, NextType, PTL DEF Spec

-----------------------------------------------------------------------------
(* JobMapLive.  It is not inductive: a handler between AddJob and the      *)
(* write of jobMap holds the ID of a job no binding points at yet, and a   *)
(* Remove by another handler must not be able to hit it.  JobsInv adds the *)
(* freshness and uniqueness of cron's IDs and those pending jobs.          *)

JobsFresh ==
    /\ \A j \in entries : j.id < nextEntry
    /\ \A j, k \in entries : j.id = k.id => j = k

PendingLive ==
    \A h \in Handlers : At(h, "mapjob") =>
        \E j \in entries : j.id = entry[h] /\ j.sched = adding[h].id

PendingUnmapped ==
    \A h \in Handlers : At(h, "mapjob") => \A s \in DOMAIN jobMap : jobMap[s] # entry[h]

PendingDistinct ==
    \A g, h \in Handlers : At(g, "mapjob") /\ At(h, "mapjob") /\ entry[g] = entry[h] => g = h

JobsInv == TypeOK /\ JobsFresh /\ JobMapLive /\ PendingLive /\ PendingUnmapped /\ PendingDistinct

(* Two bindings of jobMap never share a job.                               *)
LEMMA JobMapInjective ==
    ASSUME JobsFresh, JobMapLive, NEW s \in DOMAIN jobMap, NEW t \in DOMAIN jobMap,
           jobMap[s] = jobMap[t]
    PROVE  s = t
<1>1. PICK j \in entries : j.id = jobMap[s] /\ j.sched = s
  BY DEF JobMapLive
<1>2. PICK k \in entries : k.id = jobMap[t] /\ k.sched = t
  BY DEF JobMapLive
<1> QED
  BY <1>1, <1>2 DEF JobsFresh

(* The steps that neither touch the scheduler nor bring a handler to the   *)
(* write of jobMap.                                                        *)
Quiet ==
    /\ UNCHANGED schedulerVars
    /\ \A h \in Handlers : pc'[h] = "mapjob" =>
          At(h, "mapjob") /\ entry'[h] = entry[h] /\ adding'[h] = adding[h]

LEMMA QuietKeeps == ASSUME JobsInv, TypeOK', Quiet PROVE JobsInv'
<1> USE DEF JobsInv, Quiet, schedulerVars, At
<1>1. JobsFresh' /\ JobMapLive'
  BY DEF JobsFresh, JobMapLive
<1>2. PendingLive'
  BY DEF PendingLive
<1>3. PendingUnmapped'
  BY DEF PendingUnmapped
<1>4. PendingDistinct'
  BY DEF PendingDistinct
<1> QED
  BY <1>1, <1>2, <1>3, <1>4

(* A handler that moves to a call other than the write of jobMap.          *)
LEMMA MovesQuietly ==
    ASSUME TypeOK, NEW h \in Handlers, UNCHANGED schedulerVars,
           NEW l, l # "mapjob", pc' = [pc EXCEPT ![h] = l],
           \A g \in Handlers \ {h} : entry'[g] = entry[g] /\ adding'[g] = adding[g]
    PROVE  Quiet
  BY DEF TypeOK, Quiet, At

LEMMA DoneQuietly ==
    ASSUME TypeOK, NEW h \in Handlers, UNCHANGED schedulerVars, Done(h) PROVE Quiet
  BY DEF Done, Goto, TypeOK, Quiet, At

LEMMA LoopMoves == ASSUME NEW h \in Handlers PROVE NextCondition(h) # "mapjob" /\ Added(h) # "mapjob"
  BY DEF NextCondition, Added

(* The four steps that change the scheduler.                               *)
LEMMA RemoveKeeps ==
    ASSUME JobsInv, TypeOK', NEW sid, RemoveSchedule(sid), NEW h \in Handlers, ~ At(h, "mapjob"),
           UNCHANGED entry, NEW l, l # "mapjob", pc' = [pc EXCEPT ![h] = l],
           \A g \in Handlers \ {h} : adding'[g] = adding[g]
    PROVE  JobsInv'
<1>1. JobsFresh'
  BY DEF JobsInv, JobsFresh, RemoveSchedule
<1>2. JobMapLive'
  <2> SUFFICES ASSUME NEW s \in DOMAIN jobMap, s # sid
               PROVE  \E j \in entries' : j.id = jobMap[s] /\ j.sched = s
    BY DEF JobMapLive, RemoveSchedule
  <2>1. PICK j \in entries : j.id = jobMap[s] /\ j.sched = s
    BY DEF JobsInv, JobMapLive
  <2>2. sid \in DOMAIN jobMap => j.id # jobMap[sid]
    BY <2>1, JobMapInjective DEF JobsInv
  <2> QED
    BY <2>1, <2>2 DEF RemoveSchedule
<1>3. \A g \in Handlers : pc'[g] = "mapjob" =>
          At(g, "mapjob") /\ entry'[g] = entry[g] /\ adding'[g] = adding[g]
  BY DEF JobsInv, TypeOK, At
<1>4. PendingLive'
  <2> SUFFICES ASSUME NEW g \in Handlers, pc'[g] = "mapjob"
               PROVE  \E j \in entries' : j.id = entry[g] /\ j.sched = adding[g].id
    BY <1>3 DEF PendingLive, At
  <2>1. At(g, "mapjob")
    BY <1>3
  <2>2. PICK j \in entries : j.id = entry[g] /\ j.sched = adding[g].id
    BY <2>1 DEF JobsInv, PendingLive
  <2>3. sid \in DOMAIN jobMap => j.id # jobMap[sid]
    BY <2>1, <2>2 DEF JobsInv, PendingUnmapped
  <2> QED
    BY <2>2, <2>3 DEF RemoveSchedule
<1>5. PendingUnmapped'
  BY <1>3 DEF JobsInv, PendingUnmapped, RemoveSchedule, At
<1>6. PendingDistinct'
  BY <1>3 DEF JobsInv, PendingDistinct, At
<1> QED
  BY <1>1, <1>2, <1>4, <1>5, <1>6 DEF JobsInv

LEMMA LoadKeeps == ASSUME JobsInv, TypeOK', LoadSchedules PROVE JobsInv'
<1>1. PICK s \in schedules : s.id \notin DOMAIN jobMap /\ LoadSchedule(s)
  BY DEF LoadSchedules
<1>2. /\ entries' = entries \cup {Job(nextEntry, s)} /\ nextEntry' = nextEntry + 1
      /\ Job(nextEntry, s).id = nextEntry /\ Job(nextEntry, s).sched = s.id
      /\ nextEntry \in Nat /\ \A j \in entries : j.id \in Nat /\ j.id < nextEntry
  BY <1>1 DEF LoadSchedule, Job, JobsInv, JobsFresh, TypeOK, Jobs
<1>3. /\ DOMAIN jobMap' = DOMAIN jobMap \cup {s.id}
      /\ \A t \in DOMAIN jobMap : jobMap'[t] = jobMap[t]
      /\ jobMap'[s.id] = nextEntry
  BY <1>1 DEF LoadSchedule, WithJob
<1>4. UNCHANGED <<pc, entry, adding>>
  BY DEF LoadSchedules, handlers
<1>5. JobsFresh'
  BY <1>2 DEF JobsInv, JobsFresh
<1>6. JobMapLive'
  BY <1>2, <1>3 DEF JobsInv, JobMapLive
<1>7. PendingLive'
  BY <1>2, <1>4 DEF JobsInv, PendingLive, At
<1>8. PendingUnmapped'
  <2> SUFFICES ASSUME NEW g \in Handlers, At(g, "mapjob"), NEW t \in DOMAIN jobMap'
               PROVE  jobMap'[t] # entry[g]
    BY <1>4 DEF PendingUnmapped, At
  <2>1. entry[g] < nextEntry /\ entry[g] \in Nat
    BY <1>2 DEF JobsInv, PendingLive
  <2> QED
    BY <1>2, <1>3, <2>1 DEF JobsInv, PendingUnmapped
<1>9. PendingDistinct'
  BY <1>4 DEF JobsInv, PendingDistinct, At
<1> QED
  BY <1>5, <1>6, <1>7, <1>8, <1>9 DEF JobsInv

LEMMA ScheduleKeeps == ASSUME JobsInv, TypeOK', NEW h \in Handlers, Schedule(h) PROVE JobsInv'
<1>1. /\ entries' = entries \cup {Job(nextEntry, adding[h])} /\ nextEntry' = nextEntry + 1
      /\ Job(nextEntry, adding[h]).id = nextEntry
      /\ Job(nextEntry, adding[h]).sched = adding[h].id
      /\ nextEntry \in Nat /\ \A j \in entries : j.id \in Nat /\ j.id < nextEntry
  BY DEF Schedule, AddJob, Job, JobsInv, JobsFresh, TypeOK, Jobs
<1>2. /\ pc'[h] = "mapjob" /\ entry'[h] = nextEntry /\ UNCHANGED <<adding, jobMap>>
      /\ \A g \in Handlers \ {h} : pc'[g] = pc[g] /\ entry'[g] = entry[g]
  BY DEF Schedule, Goto, AddJob, JobsInv, TypeOK
<1>3. JobsFresh'
  BY <1>1 DEF JobsInv, JobsFresh
<1>4. JobMapLive'
  BY <1>1, <1>2 DEF JobsInv, JobMapLive
<1>5. PendingLive'
  BY <1>1, <1>2 DEF JobsInv, PendingLive, At
<1>6. \A s \in DOMAIN jobMap : jobMap[s] < nextEntry /\ jobMap[s] \in Nat
  BY <1>1 DEF JobsInv, JobMapLive
<1>7. PendingUnmapped'
  BY <1>1, <1>2, <1>6 DEF JobsInv, PendingUnmapped, At
<1>8. \A g \in Handlers : At(g, "mapjob") => entry[g] < nextEntry /\ entry[g] \in Nat
  BY <1>1 DEF JobsInv, PendingLive
<1>9. PendingDistinct'
  BY <1>1, <1>2, <1>8 DEF JobsInv, PendingDistinct, At
<1> QED
  BY <1>3, <1>4, <1>5, <1>7, <1>9 DEF JobsInv

LEMMA RecordKeeps == ASSUME JobsInv, TypeOK', NEW h \in Handlers, RecordJob(h) PROVE JobsInv'
<1>1. /\ At(h, "mapjob") /\ UNCHANGED <<entries, nextEntry>>
      /\ DOMAIN jobMap' = DOMAIN jobMap \cup {adding[h].id}
      /\ jobMap'[adding[h].id] = entry[h]
      /\ \A s \in DOMAIN jobMap \ {adding[h].id} : jobMap'[s] = jobMap[s]
  BY DEF RecordJob, MapJob, WithJob
<1>2. /\ pc'[h] # "mapjob"
      /\ \A g \in Handlers \ {h} : pc'[g] = pc[g] /\ entry'[g] = entry[g] /\ adding'[g] = adding[g]
  BY LoopMoves DEF RecordJob, Goto, JobsInv, TypeOK
<1>3. JobsFresh'
  BY <1>1 DEF JobsInv, JobsFresh
<1>4. JobMapLive'
  BY <1>1 DEF JobsInv, JobMapLive, PendingLive
<1>5. PendingLive'
  BY <1>1, <1>2 DEF JobsInv, PendingLive, At
<1>6. PendingUnmapped'
  BY <1>1, <1>2 DEF JobsInv, PendingUnmapped, PendingDistinct, At
<1>7. PendingDistinct'
  BY <1>2 DEF JobsInv, PendingDistinct, At
<1> QED
  BY <1>3, <1>4, <1>5, <1>6, <1>7 DEF JobsInv

LEMMA CrashKeeps == ASSUME JobsInv, TypeOK', Crash PROVE JobsInv'
<1>1. entries' = {} /\ DOMAIN jobMap' = {} /\ \A h \in Handlers : pc'[h] # "mapjob"
  BY DEF Crash, RestartScheduler
<1> QED
  BY <1>1 DEF JobsInv, JobsFresh, JobMapLive, PendingLive, PendingUnmapped, PendingDistinct, At

(* Every other step is quiet.                                              *)
LEMMA BootKeeps == ASSUME JobsInv, TypeOK', Boot PROVE JobsInv'
<1>1. CASE LoadSchedules
  BY <1>1, LoadKeeps
<1>2. CASE SchedulesLoaded \/ ClearAssociations \/ Associate \/ StartWebServer
  <2>1. Quiet
    BY <1>2 DEF SchedulesLoaded, ClearAssociations, Associate, StartWebServer, Quiet, handlers, At
  <2> QED
    BY <2>1, QuietKeeps
<1> QED
  BY <1>1, <1>2 DEF Boot

LEMMA RequestQuiet ==
    ASSUME TypeOK, NEW h \in Handlers, Post(h) \/ Patch(h) \/ Delete(h) \/ Write(h) PROVE Quiet
<1>1. ASSUME NEW r, NEW l, l # "mapjob", Receive(h, r, l) PROVE Quiet
  BY <1>1, MovesQuietly DEF Receive, Goto
<1>2. CASE Post(h) \/ Patch(h) \/ Delete(h)
  BY <1>1, <1>2 DEF Post, Patch, Delete
<1>3. CASE Write(h)
  <2>1. UNCHANGED schedulerVars
    BY <1>3 DEF Write, InsertRule, SelectRule, ReadRule, WriteRule
  <2>2. CASE Done(h)
    BY <2>1, <2>2, DoneQuietly
  <2>3. CASE ~ Done(h)
    <3>1. /\ UNCHANGED <<entry, adding>>
          /\ Goto(h, "select") \/ Goto(h, "fetch") \/ Goto(h, "write")
      BY <1>3, <2>3 DEF Write, InsertRule, SelectRule, ReadRule, WriteRule
    <3> QED
      BY <2>1, <3>1, MovesQuietly DEF Goto
  <2> QED
    BY <2>2, <2>3
<1> QED
  BY <1>2, <1>3

LEMMA AssociationsQuiet ==
    ASSUME TypeOK, NEW h \in Handlers,
           \/ FetchRule(h) \/ GetKeys(h) \/ RemoveAssociation(h) \/ AssociationsRemoved(h)
           \/ AddAssociation(h) \/ RefetchRule(h)
    PROVE  Quiet
<1>1. UNCHANGED schedulerVars
  BY DEF FetchRule, GetKeys, RemoveAssociation, AssociationsRemoved, AddAssociation, RefetchRule
<1>2. CASE Done(h)
  BY <1>1, <1>2, DoneQuietly
<1>3. CASE RemoveAssociation(h) \/ AddAssociation(h)
  BY <1>1, <1>3 DEF RemoveAssociation, AddAssociation, Quiet, At
<1>4. CASE ~ Done(h) /\ ~ (RemoveAssociation(h) \/ AddAssociation(h))
  <2>1. /\ UNCHANGED <<entry, adding>>
        /\ \E l \in {"keys", "srem", "trigger", "sadd", "list", "lookup"} : Goto(h, l)
    BY <1>4 DEF FetchRule, GetKeys, AssociationsRemoved, RefetchRule
  <2> QED
    BY <1>1, <2>1, MovesQuietly DEF Goto
<1> QED
  BY <1>2, <1>3, <1>4

LEMMA SchedulesQuiet ==
    ASSUME TypeOK, NEW h \in Handlers,
           \/ LookupSchedule(h) \/ CreateSchedule(h) \/ UpdateSchedule(h)
           \/ ListSchedules(h) \/ NextSchedule(h) \/ TriggerRuleEvaluation(h)
    PROVE  Quiet
<1>1. UNCHANGED schedulerVars
  BY DEF LookupSchedule, CreateSchedule, UpdateSchedule, ListSchedules, NextSchedule,
         TriggerRuleEvaluation
<1>2. CASE TriggerRuleEvaluation(h)
  BY <1>1, <1>2, DoneQuietly DEF TriggerRuleEvaluation
<1>3. CASE ~ TriggerRuleEvaluation(h)
  <2>1. \A g \in Handlers \ {h} : entry'[g] = entry[g] /\ adding'[g] = adding[g]
    BY <1>3 DEF LookupSchedule, CreateSchedule, UpdateSchedule, ListSchedules, NextSchedule, TypeOK
  <2>2. \E l : l # "mapjob" /\ Goto(h, l)
    BY <1>3, LoopMoves DEF LookupSchedule, CreateSchedule, UpdateSchedule, ListSchedules, NextSchedule
  <2> QED
    BY <1>1, <2>1, <2>2, MovesQuietly DEF Goto
<1> QED
  BY <1>2, <1>3

LEMMA RemovalKeeps == ASSUME JobsInv, TypeOK', NEW h \in Handlers, Remove(h) PROVE JobsInv'
<1>0. TypeOK
  BY DEF JobsInv
<1>1. CASE RemoveJob(h)
  <2>1. PICK s \in work[h].rows : RemoveSchedule(s.id) /\ adding' = [adding EXCEPT ![h] = s]
    BY <1>1 DEF RemoveJob
  <2>2. ~ At(h, "mapjob") /\ UNCHANGED entry /\ pc' = [pc EXCEPT ![h] = "rmrow"]
    BY <1>1 DEF RemoveJob, At, Goto
  <2>3. \A g \in Handlers \ {h} : adding'[g] = adding[g]
    BY <1>0, <2>1 DEF TypeOK
  <2> QED
    BY <2>1, <2>2, <2>3, RemoveKeeps
<1>2. CASE ListDoomed(h) \/ DeleteSchedule(h)
  <2>1. /\ UNCHANGED schedulerVars /\ UNCHANGED <<entry, adding>> /\ Goto(h, "rmjob")
    BY <1>2 DEF ListDoomed, DeleteSchedule
  <2>2. Quiet
    BY <1>0, <2>1, MovesQuietly DEF Goto
  <2> QED
    BY <2>2, QuietKeeps
<1>3. CASE DeleteRule(h)
  <2>1. Quiet
    BY <1>0, <1>3, DoneQuietly DEF DeleteRule
  <2> QED
    BY <2>1, QuietKeeps
<1> QED
  BY <1>1, <1>2, <1>3 DEF Remove

LEMMA RefreshKeeps == ASSUME JobsInv, TypeOK', NEW h \in Handlers, Refresh(h) PROVE JobsInv'
<1>0. TypeOK
  BY DEF JobsInv
<1>1. CASE Unschedule(h)
  <2>1. /\ RemoveSchedule(adding[h].id) /\ ~ At(h, "mapjob") /\ UNCHANGED <<entry, adding>>
        /\ Goto(h, IF adding[h].enabled THEN "addjob" ELSE Added(h))
    BY <1>1 DEF Unschedule, At
  <2> QED
    BY <2>1, LoopMoves, RemoveKeeps DEF Goto
<1>2. CASE Schedule(h)
  BY <1>2, ScheduleKeeps
<1>3. CASE RecordJob(h)
  BY <1>3, RecordKeeps
<1>4. CASE ~ (Unschedule(h) \/ Schedule(h) \/ RecordJob(h))
  <2>1. Quiet
    BY <1>0, <1>4, AssociationsQuiet, SchedulesQuiet DEF Refresh
  <2> QED
    BY <2>1, QuietKeeps
<1> QED
  BY <1>1, <1>2, <1>3, <1>4

LEMMA FailureQuiet == ASSUME TypeOK, NEW h \in Handlers, CallFails(h) PROVE Quiet
<1>1. UNCHANGED schedulerVars
  BY DEF CallFails, EndsRequest, SkipsAssociation, MisreadsLookup, SkipsRest
<1>2. CASE EndsRequest(h)
  BY <1>1, <1>2, DoneQuietly DEF EndsRequest
<1>3. CASE SkipsAssociation(h)
  BY <1>1, <1>3 DEF SkipsAssociation, Quiet, At
<1>4. CASE MisreadsLookup(h)
  <2>1. \A g \in Handlers \ {h} : entry'[g] = entry[g] /\ adding'[g] = adding[g]
    BY <1>4 DEF MisreadsLookup, TypeOK
  <2> QED
    BY <1>1, <1>4, <2>1, MovesQuietly DEF MisreadsLookup, Goto
<1>5. CASE SkipsRest(h)
  <2>1. UNCHANGED <<entry, adding>> /\ \E l : l # "mapjob" /\ Goto(h, l)
    BY <1>5, LoopMoves DEF SkipsRest
  <2> QED
    BY <1>1, <2>1, MovesQuietly DEF Goto
<1> QED
  BY <1>2, <1>3, <1>4, <1>5 DEF CallFails

LEMMA NextJobs == JobsInv /\ [Next]_vars => JobsInv'
<1> SUFFICES ASSUME JobsInv, [Next]_vars PROVE JobsInv'
  OBVIOUS
<1>0. TypeOK /\ TypeOK'
  BY NextType DEF JobsInv
<1>1. CASE Boot \/ Crash
  BY <1>0, <1>1, BootKeeps, CrashKeeps
<1>2. CASE Fire \/ TakeEvaluation \/ UNCHANGED vars
  <2>1. Quiet
    BY <1>2 DEF Fire, TakeEvaluation, vars, handlers, Quiet, At
  <2> QED
    BY <1>0, <2>1, QuietKeeps
<1>3. ASSUME NEW h \in Handlers, Post(h) \/ Patch(h) \/ Delete(h) \/ Step(h) \/ CallFails(h)
      PROVE  JobsInv'
  <2>1. CASE Post(h) \/ Patch(h) \/ Delete(h) \/ Write(h)
    BY <1>0, <2>1, RequestQuiet, QuietKeeps
  <2>2. CASE Refresh(h) \/ Remove(h)
    BY <1>0, <2>2, RefreshKeeps, RemovalKeeps
  <2>3. CASE CallFails(h)
    BY <1>0, <2>3, FailureQuiet, QuietKeeps
  <2> QED
    BY <1>3, <2>1, <2>2, <2>3 DEF Step
<1> QED
  BY <1>1, <1>2, <1>3 DEF Next

LEMMA InitJobs == Init => JobsInv
<1> SUFFICES ASSUME Init PROVE JobsInv
  OBVIOUS
<1>1. entries = {} /\ DOMAIN jobMap = {} /\ \A h \in Handlers : pc[h] = "idle"
  BY DEF Init, NewScheduler
<1> QED
  BY <1>1, InitType
  DEF JobsInv, JobsFresh, JobMapLive, PendingLive, PendingUnmapped, PendingDistinct, At

(* However requests, crashes and failed calls interleave, each binding of  *)
(* jobMap points at a live job of its own schedule (scheduler.go:108-149). *)
THEOREM JobMapStaysLive == Spec => []JobMapLive
<1>1. Spec => []JobsInv
  BY InitJobs, NextJobs, PTL DEF Spec
<1> QED
  BY <1>1, PTL DEF JobsInv

-----------------------------------------------------------------------------
(* JobsMatchRows.  What a handler has read of a schedule may be old when   *)
(* it is used, but of a row's ID, rule and time none ever changes: IDs are *)
(* not given out twice, and UpdateSchedule writes the time it looked the   *)
(* row up by.  So whatever names a schedule, a job, an argument or a row   *)
(* of a list, is right about the row with that ID, if there still is one.  *)

Right(id, r, c) ==
    id < nextSched /\ \A s \in schedules : s.id = id => s.rule = r /\ s.cron = c

RowsDiffer ==
    /\ nextSched >= 1
    /\ \A s \in schedules : 1 <= s.id /\ s.id < nextSched
    /\ \A s, t \in schedules : s.id = t.id => s = t

JobsRight == \A j \in entries : Right(j.sched, j.rule, j.cron)

Believes(h) ==
    /\ Right(adding[h].id, adding[h].rule, adding[h].cron)
    /\ \A s \in work[h].rows : Right(s.id, s.rule, s.cron)

MatchInv == RowsDiffer /\ JobsRight /\ \A h \in Handlers : Believes(h)

(* What the types say of schedules.                                        *)
LEMMA ScheduleTypes ==
    ASSUME TypeOK
    PROVE  /\ nextSched \in Nat /\ schedules \subseteq ScheduleRow
           /\ \A s \in schedules : s.id \in Nat
           /\ adding \in [Handlers -> ScheduleRow] /\ work \in [Handlers -> Work]
           /\ \A h \in Handlers : adding[h].id \in Nat /\ \A s \in work[h].rows : s.id \in Nat
           /\ \A j \in entries : j.sched \in Nat
  BY DEF TypeOK, ScheduleRow, Work, Jobs

(* A step that makes up no row, and no job, argument or list that is not   *)
(* made of rows or of what was there, or is of no row yet.                 *)
From(s) ==
    \/ s.id = 0
    \/ \E t \in schedules : t.id = s.id /\ t.rule = s.rule /\ t.cron = s.cron
    \/ Right(s.id, s.rule, s.cron)

LEMMA FromRight ==
    ASSUME TypeOK, RowsDiffer, NEW s, From(s) PROVE Right(s.id, s.rule, s.cron)
  BY ScheduleTypes DEF From, Right, RowsDiffer

RowsKept ==
    /\ nextSched' = nextSched
    /\ \A s \in schedules' : \E t \in schedules : t.id = s.id /\ t.rule = s.rule /\ t.cron = s.cron
    /\ \A s, t \in schedules' : s.id = t.id => s = t

LEMMA RightStays ==
    ASSUME RowsKept, NEW id, NEW r, NEW c, Right(id, r, c) PROVE Right(id, r, c)'
  BY DEF RowsKept, Right

LEMMA KeptRows ==
    ASSUME TypeOK, MatchInv, RowsKept,
           \A j \in entries' : j \in entries \/ \E s : From(s) /\ j.sched = s.id /\ j.rule = s.rule
                                                             /\ j.cron = s.cron,
           \A h \in Handlers : /\ From(adding'[h])
                               /\ \A s \in work'[h].rows : From(s)
    PROVE  MatchInv'
<1>1. RowsDiffer'
  BY DEF MatchInv, RowsDiffer, RowsKept
<1>2. JobsRight'
  <2> SUFFICES ASSUME NEW j \in entries' PROVE Right(j.sched, j.rule, j.cron)'
    BY DEF JobsRight
  <2>1. Right(j.sched, j.rule, j.cron)
    BY FromRight DEF MatchInv, JobsRight
  <2> QED
    BY <2>1, RightStays
<1>3. ASSUME NEW h \in Handlers PROVE Believes(h)'
  <2>1. Right(adding'[h].id, adding'[h].rule, adding'[h].cron)
    BY FromRight DEF MatchInv
  <2>2. \A s \in work'[h].rows : Right(s.id, s.rule, s.cron)
    BY FromRight DEF MatchInv
  <2> QED
    BY <2>1, <2>2, RightStays DEF Believes
<1> QED
  BY <1>1, <1>2, <1>3 DEF MatchInv

(* The usual case: the rows are as they were.                              *)
LEMMA SameRows ==
    ASSUME TypeOK, MatchInv, UNCHANGED <<schedules, nextSched>>,
           \A j \in entries' : j \in entries \/ \E s : From(s) /\ j.sched = s.id /\ j.rule = s.rule
                                                             /\ j.cron = s.cron,
           \A h \in Handlers : \/ adding'[h] = adding[h]
                               \/ From(adding'[h]),
           \A h \in Handlers : \A s \in work'[h].rows : s \in work[h].rows \/ From(s)
    PROVE  MatchInv'
<1>1. RowsKept
  BY DEF RowsKept, MatchInv, RowsDiffer
<1>2. \A h \in Handlers : From(adding[h]) /\ \A s \in work[h].rows : From(s)
  BY DEF MatchInv, Believes, From
<1> QED
  BY <1>1, <1>2, KeptRows

LEMMA ZeroFrom == From(NoSchedule) /\ NoWork.rows = {}
  BY DEF From, NoSchedule, NoWork

LEMMA DoneMatches ==
    ASSUME TypeOK, MatchInv, NEW h \in Handlers, Done(h), UNCHANGED <<schedules, nextSched, entries>>
    PROVE  MatchInv'
  BY SameRows, ScheduleTypes, ZeroFrom DEF Done

(* A handler's list only loses rows, and it names no other schedule.       *)
LEMMA NothingNew ==
    ASSUME TypeOK, MatchInv, UNCHANGED <<schedules, nextSched, adding>>, entries' \subseteq entries,
           \A h \in Handlers : work'[h].rows \subseteq work[h].rows
    PROVE  MatchInv'
  BY SameRows
LEMMA BootMatches == ASSUME TypeOK, MatchInv, Boot \/ Crash PROVE MatchInv'
<1>1. CASE LoadSchedules
  <2>1. PICK s \in schedules : LoadSchedule(s)
    BY <1>1 DEF LoadSchedules
  <2>2. From(s) /\ entries' = entries \cup {Job(nextEntry, s)}
    BY <2>1 DEF From, LoadSchedule
  <2>3. UNCHANGED <<schedules, nextSched, adding, work>>
    BY <1>1 DEF LoadSchedules, tables, handlers
  <2> QED
    BY <2>2, <2>3, SameRows DEF Job
<1>2. CASE SchedulesLoaded \/ ClearAssociations \/ Associate \/ StartWebServer
  BY <1>2, NothingNew
  DEF SchedulesLoaded, ClearAssociations, Associate, StartWebServer, schedulerVars, tables, handlers
<1>3. CASE Crash
  BY <1>3, SameRows, ZeroFrom DEF Crash, RestartScheduler, tables
<1> QED
  BY <1>1, <1>2, <1>3 DEF Boot

LEMMA RequestMatches ==
    ASSUME TypeOK, MatchInv, NEW h \in Handlers,
           Post(h) \/ Patch(h) \/ Delete(h) \/ Write(h) \/ CallFails(h)
    PROVE  MatchInv'
<1>1. UNCHANGED <<schedules, nextSched, entries>>
  BY DEF Post, Patch, Delete, Receive, Write, InsertRule, SelectRule, ReadRule, WriteRule,
     CallFails, EndsRequest, SkipsAssociation, MisreadsLookup, SkipsRest, schedulerVars, tables
<1>2. CASE Done(h)
  BY <1>1, <1>2, DoneMatches
<1>3. CASE MisreadsLookup(h)
  <2>1. PICK c \in work[h].crons :
           /\ work' = [work EXCEPT ![h].crons = @ \ {c}]
           /\ adding' = [adding EXCEPT ![h] = [id |-> 0, rule |-> req[h].rule, cron |-> c,
                                               enabled |-> work[h].seen.enabled]]
    BY <1>3 DEF MisreadsLookup
  <2>2. From(adding'[h]) /\ \A g \in Handlers \ {h} : adding'[g] = adding[g]
    BY <2>1, ScheduleTypes DEF From
  <2>3. \A g \in Handlers : work'[g].rows = work[g].rows
    BY <2>1, ScheduleTypes DEF Work
  <2> QED
    BY <1>1, <2>2, <2>3, SameRows
<1>4. CASE SkipsAssociation(h)
  <2>1. PICK d \in work[h].keys : work' = [work EXCEPT ![h].keys = @ \ {d}]
    BY <1>4 DEF SkipsAssociation
  <2>2. \A g \in Handlers : work'[g].rows = work[g].rows
    BY <2>1, ScheduleTypes DEF Work
  <2> QED
    BY <1>1, <1>4, <2>2, NothingNew DEF SkipsAssociation
<1>5. CASE ~ Done(h) /\ ~ MisreadsLookup(h) /\ ~ SkipsAssociation(h)
  <2>1. UNCHANGED <<work, adding>>
    BY <1>5 DEF Post, Patch, Delete, Receive, Write, InsertRule, SelectRule, ReadRule, WriteRule,
       CallFails, EndsRequest, SkipsRest
  <2> QED
    BY <1>1, <2>1, NothingNew
<1> QED
  BY <1>2, <1>3, <1>4, <1>5

LEMMA AssociationsMatch ==
    ASSUME TypeOK, MatchInv, NEW h \in Handlers,
           \/ FetchRule(h) \/ GetKeys(h) \/ RemoveAssociation(h) \/ AssociationsRemoved(h)
           \/ AddAssociation(h) \/ RefetchRule(h) \/ TriggerRuleEvaluation(h) \/ DeleteRule(h)
    PROVE  MatchInv'
<1>1. UNCHANGED <<schedules, nextSched, entries>>
  BY DEF FetchRule, GetKeys, RemoveAssociation, AssociationsRemoved, AddAssociation, RefetchRule,
     TriggerRuleEvaluation, DeleteRule, schedulerVars, tables
<1>2. CASE Done(h)
  BY <1>1, <1>2, DoneMatches
<1>3. CASE ~ Done(h)
  <2>1. UNCHANGED adding
    BY <1>3 DEF FetchRule, GetKeys, RemoveAssociation, AssociationsRemoved, AddAssociation,
       RefetchRule, TriggerRuleEvaluation, DeleteRule
  <2>2. CASE UNCHANGED work
    BY <1>1, <2>1, <2>2, NothingNew
  <2>3. ASSUME NEW v, v.rows = work[h].rows, work' = [work EXCEPT ![h] = v] PROVE MatchInv'
    <3>1. \A g \in Handlers : work'[g].rows = work[g].rows
      BY <2>3, ScheduleTypes
    <3> QED
      BY <1>1, <2>1, <3>1, NothingNew
  <2>4. work[h] \in Work
    BY ScheduleTypes
  <2>5. CASE FetchRule(h)
    <3>1. PICK x : work' = [work EXCEPT ![h] = [@ EXCEPT !.seen = x]]
      BY <1>3, <2>5 DEF FetchRule
    <3> QED
      BY <2>3, <2>4, <3>1 DEF Work
  <2>6. CASE RefetchRule(h) /\ ~ UNCHANGED work
    <3>1. PICK x \in RulesWithID(req[h].rule) :
             work' = [work EXCEPT ![h].seen = x,
                                  ![h].crons = IF x.cond.parses THEN x.cond.crons ELSE {}]
      BY <2>6 DEF RefetchRule
    <3>2. \A g \in Handlers : work'[g].rows = work[g].rows
      BY <3>1, ScheduleTypes DEF Work
    <3> QED
      BY <1>1, <2>1, <3>2, NothingNew
  <2>7. CASE ~ FetchRule(h) /\ ~ RefetchRule(h)
    <3>1. UNCHANGED work \/ \E k : work' = [work EXCEPT ![h] = [@ EXCEPT !.keys = k]]
      BY <1>3, <2>7 DEF GetKeys, RemoveAssociation, AssociationsRemoved, AddAssociation,
         TriggerRuleEvaluation, DeleteRule
    <3> QED
      BY <2>2, <2>3, <2>4, <3>1 DEF Work
  <2> QED
    BY <2>2, <2>5, <2>6, <2>7
<1> QED
  BY <1>2, <1>3

(* A row created has an ID nothing names yet.                              *)
LEMMA CreateMatches == ASSUME TypeOK, MatchInv, NEW h \in Handlers, CreateSchedule(h) PROVE MatchInv'
<1>1. CASE UNCHANGED <<schedules, nextSched, adding>>
  BY <1>1, NothingNew DEF CreateSchedule, schedulerVars
<1>2. CASE ~ UNCHANGED <<schedules, nextSched, adding>>
  <2>0. PICK new : new = [adding[h] EXCEPT !.id = nextSched]
    OBVIOUS
  <2>1. /\ schedules' = schedules \cup {new} /\ nextSched' = nextSched + 1
        /\ adding' = [adding EXCEPT ![h].id = nextSched] /\ UNCHANGED <<entries, work>>
    BY <1>2, <2>0 DEF CreateSchedule, schedulerVars
  <2>2. nextSched \in Nat /\ new.id = nextSched /\ new.rule = adding[h].rule /\ new.cron = adding[h].cron
    BY <2>0, ScheduleTypes DEF ScheduleRow
  <2>3. adding'[h] = new /\ \A g \in Handlers \ {h} : adding'[g] = adding[g]
    BY <2>0, <2>1, ScheduleTypes
  <2>4. RowsDiffer'
    BY <2>1, <2>2, ScheduleTypes DEF MatchInv, RowsDiffer
  <2>5. ASSUME NEW id \in Nat, NEW r, NEW c, Right(id, r, c) PROVE Right(id, r, c)'
    BY <2>1, <2>2, <2>5 DEF Right
  <2>6. JobsRight'
    BY <2>1, <2>5, ScheduleTypes DEF MatchInv, JobsRight
  <2>7. Right(new.id, new.rule, new.cron)'
    BY <2>1, <2>2 DEF Right, MatchInv, RowsDiffer
  <2>8. ASSUME NEW g \in Handlers PROVE Believes(g)'
    <3>1. \A s \in work[g].rows : Right(s.id, s.rule, s.cron)'
      BY <2>5, ScheduleTypes DEF MatchInv, Believes
    <3>2. CASE g = h
      BY <2>1, <2>3, <2>7, <3>1, <3>2 DEF Believes
    <3>3. CASE g # h
      <4>1. PICK a \in ScheduleRow : a = adding[g]
        BY ScheduleTypes
      <4>2. Right(a.id, a.rule, a.cron)'
        BY <2>5, <4>1, ScheduleTypes DEF MatchInv, Believes
      <4> QED
        BY <2>1, <2>3, <3>1, <3>3, <4>1, <4>2 DEF Believes
    <3> QED
      BY <3>2, <3>3
  <2> QED
    BY <2>4, <2>6, <2>8 DEF MatchInv
<1> QED
  BY <1>1, <1>2

(* An update leaves the rule and the time of its row as they are.          *)
LEMMA UpdateMatches == ASSUME TypeOK, MatchInv, NEW h \in Handlers, UpdateSchedule(h) PROVE MatchInv'
<1> DEFINE Written(s) == IF s.id = adding[h].id
                         THEN [s EXCEPT !.cron = adding[h].cron, !.enabled = adding[h].enabled]
                         ELSE s
<1>1. /\ schedules' = {Written(s) : s \in schedules}
      /\ UNCHANGED <<entries, nextSched, adding, work>>
  BY DEF UpdateSchedule, schedulerVars
<1>2. ASSUME NEW s \in schedules
      PROVE  Written(s).id = s.id /\ Written(s).rule = s.rule /\ Written(s).cron = s.cron
  <2>1. s.id = adding[h].id => s.cron = adding[h].cron
    BY DEF MatchInv, Believes, Right
  <2> QED
    BY <2>1, ScheduleTypes DEF ScheduleRow
<1>3. \A s \in schedules' : \E t \in schedules : s = Written(t)
  BY <1>1
<1> HIDE DEF Written
<1>4. \A s, t \in schedules' : s.id = t.id => s = t
  BY <1>2, <1>3 DEF MatchInv, RowsDiffer
<1>5. RowsKept
  <2>1. \A s \in schedules' : \E t \in schedules : t.id = s.id /\ t.rule = s.rule /\ t.cron = s.cron
    BY <1>2, <1>3
  <2> QED
    BY <1>1, <1>4, <2>1 DEF RowsKept
<1>6. \A g \in Handlers : From(adding[g]) /\ \A s \in work[g].rows : From(s)
  BY DEF MatchInv, Believes, From
<1> QED
  BY <1>1, <1>5, <1>6, KeptRows

LEMMA SchedulesMatch ==
    ASSUME TypeOK, MatchInv, NEW h \in Handlers,
           \/ LookupSchedule(h) \/ Unschedule(h) \/ Schedule(h) \/ RecordJob(h)
           \/ ListSchedules(h) \/ NextSchedule(h)
           \/ ListDoomed(h) \/ RemoveJob(h)
    PROVE  MatchInv'
<1>1. UNCHANGED <<schedules, nextSched>>
  BY DEF LookupSchedule, Unschedule, Schedule, RecordJob, ListSchedules, NextSchedule, ListDoomed,
     RemoveJob, tables
<1>2. CASE LookupSchedule(h)
  <2>1. PICK c \in work[h].crons :
           /\ work' = [work EXCEPT ![h].crons = @ \ {c}]
           /\ \/ adding' = [adding EXCEPT ![h] = [NoSchedule EXCEPT !.rule = req[h].rule, !.cron = c,
                                                                    !.enabled = work[h].seen.enabled]]
              \/ \E s \in schedules :
                    /\ s.rule = req[h].rule /\ s.cron = c
                    /\ adding' = [adding EXCEPT ![h] =
                          [NoSchedule EXCEPT !.rule = req[h].rule, !.cron = c,
                                             !.enabled = work[h].seen.enabled, !.id = s.id]]
    BY <1>2 DEF LookupSchedule, SchedulesOf
  <2>2. From(adding'[h]) /\ \A g \in Handlers \ {h} : adding'[g] = adding[g]
    BY <2>1, ScheduleTypes DEF From, NoSchedule
  <2>3. \A g \in Handlers : work'[g].rows = work[g].rows
    BY <2>1, ScheduleTypes DEF Work
  <2> QED
    BY <1>1, <1>2, <2>2, <2>3, SameRows DEF LookupSchedule, schedulerVars
<1>3. CASE Unschedule(h)
  BY <1>1, <1>3, NothingNew DEF Unschedule, RemoveSchedule
<1>4. CASE Schedule(h)
  <2>1. /\ entries' = entries \cup {Job(nextEntry, adding[h])} /\ UNCHANGED <<adding, work>>
        /\ From(adding[h])
    BY <1>4 DEF Schedule, AddJob, MatchInv, Believes, From
  <2> QED
    BY <1>1, <2>1, SameRows DEF Job
<1>5. CASE RecordJob(h)
  <2>1. /\ UNCHANGED <<entries, work>> /\ adding'[h] = NoSchedule
        /\ \A g \in Handlers \ {h} : adding'[g] = adding[g]
    BY <1>5, ScheduleTypes DEF RecordJob, MapJob
  <2> QED
    BY <1>1, <2>1, SameRows, ZeroFrom
<1>6. CASE ListSchedules(h) \/ ListDoomed(h)
  <2>1. /\ UNCHANGED <<entries, adding>>
        /\ work'[h].rows \subseteq schedules /\ \A g \in Handlers \ {h} : work'[g] = work[g]
    BY <1>6, ScheduleTypes DEF ListSchedules, ListDoomed, schedulerVars, SchedulesOf, Work
  <2>2. \A s \in schedules : From(s)
    BY DEF From
  <2> QED
    BY <1>1, <2>1, <2>2, SameRows
<1>7. CASE NextSchedule(h) \/ RemoveJob(h)
  <2>1. PICK s \in work[h].rows : /\ adding' = [adding EXCEPT ![h] = s]
                                  /\ work' = [work EXCEPT ![h].rows = @ \ {s}]
    BY <1>7 DEF NextSchedule, RemoveJob
  <2>2. entries' \subseteq entries
    BY <1>7 DEF NextSchedule, RemoveJob, RemoveSchedule, schedulerVars
  <2>3. adding'[h] = s /\ From(s) /\ \A g \in Handlers \ {h} : adding'[g] = adding[g]
    BY <2>1, ScheduleTypes DEF MatchInv, Believes, From
  <2>4. \A g \in Handlers : work'[g].rows \subseteq work[g].rows
    BY <2>1, ScheduleTypes DEF Work
  <2> QED
    BY <1>1, <2>2, <2>3, <2>4, SameRows
<1> QED
  BY <1>2, <1>3, <1>4, <1>5, <1>6, <1>7

LEMMA DeleteMatches == ASSUME TypeOK, MatchInv, NEW h \in Handlers, DeleteSchedule(h) PROVE MatchInv'
<1>1. /\ schedules' \subseteq schedules /\ UNCHANGED <<nextSched, entries, adding, work>>
  BY DEF DeleteSchedule, schedulerVars
<1>2. RowsKept
  BY <1>1 DEF RowsKept, MatchInv, RowsDiffer
<1>3. \A g \in Handlers : From(adding[g]) /\ \A s \in work[g].rows : From(s)
  BY DEF MatchInv, Believes, From
<1> QED
  BY <1>1, <1>2, <1>3, KeptRows

LEMMA MatchStep == ASSUME TypeOK, MatchInv, [Next]_vars PROVE MatchInv'
<1>1. CASE Fire \/ TakeEvaluation \/ UNCHANGED vars
  BY <1>1, NothingNew DEF Fire, TakeEvaluation, vars, schedulerVars, tables, handlers
<1>2. ASSUME NEW h \in Handlers, Refresh(h) \/ Remove(h) PROVE MatchInv'
  BY <1>2, AssociationsMatch, CreateMatches, UpdateMatches, SchedulesMatch, DeleteMatches
  DEF Refresh, Remove
<1> QED
  BY <1>1, <1>2, BootMatches, RequestMatches DEF Next, Step

LEMMA MatchInit == ASSUME Init PROVE MatchInv
<1>1. \A h \in Handlers : adding[h] = NoSchedule /\ work[h] = NoWork
  BY DEF Init
<1> QED
  BY <1>1 DEF Init, NewScheduler, MatchInv, RowsDiffer, JobsRight, Believes, Right, NoSchedule, NoWork

(* A job fires the rule its schedule's row names, at the row's time, with  *)
(* any number of overlapping requests, crashes and failed calls: no stale  *)
(* copy of a row a handler holds can bring about anything else             *)
(* (engine.go:252-276 and 321-332, scheduler.go:59-69).                    *)
THEOREM JobsAlwaysMatchRows == Spec => []JobsMatchRows
<1>1. MatchInv => JobsMatchRows
  BY DEF MatchInv, JobsRight, Right, JobsMatchRows
<1> QED
  BY <1>1, InitType, NextType, MatchInit, MatchStep, PTL DEF Spec

-----------------------------------------------------------------------------
(* RestartRepairs.  No handler runs until the web server starts; up to     *)
(* then every job is the one jobMap has for an enabled row, and once the   *)
(* rows are loaded each enabled one has a binding.                         *)

StartInv ==
    boot # "serving" =>
        /\ \A h \in Handlers : At(h, "idle")
        /\ \A j \in entries : /\ j.sched \in DOMAIN jobMap /\ jobMap[j.sched] = j.id
                              /\ \E s \in schedules : s.id = j.sched /\ s.enabled
        /\ boot # "loading" => \A s \in schedules : s.enabled => s.id \in DOMAIN jobMap
        /\ boot = "booted" =>
              \A d \in Devices : assoc[d] = {x.id : x \in {y \in rules : Watches(y, d)}}

(* The steps of a handler need the web server or an earlier one.           *)
LEMMA HandlersWait ==
    ASSUME NEW h \in Handlers, Post(h) \/ Patch(h) \/ Delete(h) \/ Step(h) \/ CallFails(h)
    PROVE  boot' = boot /\ (boot = "serving" \/ ~ At(h, "idle"))
<1>1. CASE Post(h) \/ Patch(h) \/ Delete(h)
  BY <1>1 DEF Post, Patch, Delete, Receive
<1>2. CASE Write(h)
  BY <1>2 DEF Write, InsertRule, SelectRule, ReadRule, WriteRule, At
<1>3. CASE Refresh(h)
  BY <1>3 DEF Refresh, FetchRule, GetKeys, RemoveAssociation, AssociationsRemoved, AddAssociation,
     RefetchRule, LookupSchedule, CreateSchedule, UpdateSchedule, Unschedule, Schedule, RecordJob,
     ListSchedules, NextSchedule, TriggerRuleEvaluation, Refreshed, At
<1>4. CASE Remove(h)
  BY <1>4 DEF Remove, ListDoomed, RemoveJob, DeleteSchedule, DeleteRule, At
<1>5. CASE CallFails(h)
  BY <1>5 DEF CallFails, EndsRequest, SkipsAssociation, MisreadsLookup, SkipsRest, Refreshed, At
<1> QED
  BY <1>1, <1>2, <1>3, <1>4, <1>5 DEF Step

LEMMA StartStep == ASSUME StartInv, [Next]_vars PROVE StartInv'
<1> USE DEF StartInv
<1>1. CASE LoadSchedules
  <2>1. PICK s \in schedules : s.enabled /\ s.id \notin DOMAIN jobMap /\ LoadSchedule(s)
    BY <1>1 DEF LoadSchedules
  <2>2. /\ boot = "loading" /\ UNCHANGED <<boot, pc, schedules, rules, assoc>>
    BY <1>1 DEF LoadSchedules, tables, handlers
  <2>3. /\ DOMAIN jobMap' = DOMAIN jobMap \cup {s.id} /\ jobMap'[s.id] = nextEntry
        /\ \A t \in DOMAIN jobMap : jobMap'[t] = jobMap[t]
    BY <2>1 DEF LoadSchedule, WithJob
  <2>4. ASSUME NEW j \in entries'
        PROVE  /\ j.sched \in DOMAIN jobMap' /\ jobMap'[j.sched] = j.id
               /\ \E t \in schedules : t.id = j.sched /\ t.enabled
    <3>1. CASE j \in entries
      BY <2>2, <2>3, <3>1
    <3>2. CASE j = Job(nextEntry, s)
      BY <2>1, <2>3, <3>2 DEF Job
    <3> QED
      BY <2>1, <3>1, <3>2 DEF LoadSchedule
  <2> QED
    BY <2>2, <2>4 DEF At
<1>2. CASE SchedulesLoaded \/ ClearAssociations
  BY <1>2 DEF SchedulesLoaded, ClearAssociations, schedulerVars, tables, handlers, At
<1>3. CASE Associate
  <2>1. \A d \in Devices : assoc'[d] = {x.id : x \in {y \in rules : Watches(y, d)}}
    BY <1>3 DEF Associate
  <2> QED
    BY <1>3, <2>1 DEF Associate, schedulerVars, tables, handlers, At
<1>4. CASE StartWebServer
  BY <1>4 DEF StartWebServer
<1>5. CASE Crash
  BY <1>5 DEF Crash, RestartScheduler, At
<1>6. CASE Fire \/ TakeEvaluation \/ UNCHANGED vars
  BY <1>6 DEF Fire, TakeEvaluation, vars, schedulerVars, tables, handlers, At
<1>7. ASSUME NEW h \in Handlers, Post(h) \/ Patch(h) \/ Delete(h) \/ Step(h) \/ CallFails(h)
      PROVE  StartInv'
  BY <1>7, HandlersWait
<1> QED
  BY <1>1, <1>2, <1>3, <1>4, <1>5, <1>6, <1>7 DEF Next, Boot

LEMMA StartRepairs == ASSUME JobsInv, MatchInv, StartInv PROVE RestartRepairs
<1> SUFFICES ASSUME boot = "booted"
             PROVE  /\ \A d \in Devices : assoc[d] = {x.id : x \in {y \in rules : Watches(y, d)}}
                    /\ \A s \in schedules : Cardinality(JobsOf(s)) = (IF s.enabled THEN 1 ELSE 0)
                    /\ \A j \in entries : \E s \in schedules : s.id = j.sched /\ LiveJob(s)
  BY DEF RestartRepairs
<1>1. \A d \in Devices : assoc[d] = {x.id : x \in {y \in rules : Watches(y, d)}}
  BY DEF StartInv
<1>2. \A j \in entries : \E s \in schedules : s.id = j.sched /\ s.enabled /\ LiveJob(s)
  <2> SUFFICES ASSUME NEW j \in entries
               PROVE  \E s \in schedules : s.id = j.sched /\ s.enabled /\ LiveJob(s)
    OBVIOUS
  <2>1. PICK s \in schedules : s.id = j.sched /\ s.enabled
    BY DEF StartInv
  <2>2. j.rule = s.rule /\ j.cron = s.cron
    BY <2>1 DEF MatchInv, JobsRight, Right
  <2> QED
    BY <2>1, <2>2 DEF StartInv, LiveJob
<1>3. ASSUME NEW s \in schedules PROVE Cardinality(JobsOf(s)) = (IF s.enabled THEN 1 ELSE 0)
  <2>1. CASE s.enabled
    <3>1. s.id \in DOMAIN jobMap
      BY <2>1 DEF StartInv
    <3>2. PICK j \in entries : j.id = jobMap[s.id] /\ j.sched = s.id
      BY <3>1 DEF JobsInv, JobMapLive
    <3>3. JobsOf(s) = {j}
      BY <3>2 DEF JobsOf, StartInv, JobsInv, JobsFresh
    <3> QED
      BY <2>1, <3>3, FS_Singleton
  <2>2. CASE ~ s.enabled
    <3>1. JobsOf(s) = {}
      BY <1>2, <2>2 DEF JobsOf, MatchInv, RowsDiffer
    <3> QED
      BY <2>2, <3>1, FS_EmptySet
  <2> QED
    BY <2>1, <2>2
<1> QED
  BY <1>1, <1>2, <1>3

(* Whatever rows, sets and jobs a crash leaves, the start puts right: each *)
(* set holds the rules that belong in it, each enabled schedule has one    *)
(* job, at its row's time, and no other schedule has any                   *)
(* (engine.go:40-61 and 89-132, scheduler.go:50-88).                       *)
THEOREM StartsRepair == Spec => []RestartRepairs
<1>1. Init => StartInv
  BY DEF Init, NewScheduler, StartInv, At
<1> QED
  BY <1>1, InitType, NextType, InitJobs, NextJobs, MatchInit, MatchStep, StartStep, StartRepairs, PTL
  DEF Spec

=============================================================================
