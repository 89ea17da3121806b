----------------------------- MODULE RestProofs -----------------------------
(***************************************************************************)
(* Proofs about RuleEngine at rest, when clients wait for each answer and  *)
(* calls succeed: one schedule for each time, nothing left of a rule that  *)
(* is deleted, each rule in the sets of its devices, each of its times     *)
(* with a schedule and a job.                                              *)
(***************************************************************************)
EXTENDS ExclusionProofs

-----------------------------------------------------------------------------
(* One schedule for each time.  A failed lookup would be taken for one     *)
(* that found nothing, so no call may fail.                                *)

(* CREATE follows a lookup that found no schedule for its time, and        *)
(* nobody has added one since.                                             *)
AsksNew ==
    \A h \in Handlers : At(h, "create") =>
        \A s \in SchedulesOf(req[h].rule) : s.cron # adding[h].cron

UniqueInv == MaxFaults = 0 /\ UniqueSchedules /\ AsksNew

(* With no faults to come no call fails.                                   *)
LEMMA NoFailure == ASSUME TypeOK, MaxFaults = 0, NEW h \in Handlers PROVE ~ CallFails(h)
  BY DEF CallFails, TypeOK

(* A step that adds no schedule keeps the times apart.                     *)
LEMMA ShrinksUnique ==
    ASSUME UniqueInv, schedules' \subseteq schedules,
           \A h \in Handlers : At(h, "create")' =>
               At(h, "create") /\ req'[h].rule = req[h].rule /\ adding'[h] = adding[h]
    PROVE  UniqueInv'
  BY DEF UniqueInv, UniqueSchedules, AsksNew, SchedulesOf, At

(* Another handler adds no schedule to h's rule.                           *)
LEMMA OthersNew ==
    ASSUME Base, UniqueInv, NEW g \in Handlers, HandlerStep(g), NEW h \in Handlers, h # g,
           At(h, "create")'
    PROVE  \A s \in schedules' : s.rule = req'[h].rule => s.cron # adding'[h].cron
<1>1. Same(h) /\ At(h, "create") /\ TypeOK
  BY OthersStay DEF Others, Same, At, Base
<1>2. req[h].rule # 0 /\ req[g].rule # req[h].rule
  <2>1. Shape(h) /\ Shape(g)
    BY DEF Base, ExclInv
  <2>2. req[h].rule # 0
    BY <1>1, <2>1, Typed DEF Shape, Busy, Creates, At
  <2> QED
    BY <1>1, <2>1, <2>2 DEF Shape, Base, ExclInv, Alone, Busy, At, NoRequest
<1>3. \A s \in schedules' : s.rule = req[h].rule => s \in schedules
  BY <1>2, SchedFrame DEF SchedApart
<1> QED
  BY <1>1, <1>3 DEF UniqueInv, AsksNew, SchedulesOf, Same

(* Every step keeps UniqueInv.                                             *)
LEMMA HandlerUnique ==
    ASSUME Base, Base', UniqueInv, NEW g \in Handlers, HandlerStep(g) PROVE UniqueInv'
<1>0. TypeOK /\ TypeOK' /\ ~ CallFails(g)
  BY NoFailure DEF Base, UniqueInv
<1>1. \A h \in Handlers : h # g /\ At(h, "create")' =>
          \A s \in schedules' : s.rule = req'[h].rule => s.cron # adding'[h].cron
  BY OthersNew
<1>2. At(g, "create")' => \A s \in schedules' : s.rule = req'[g].rule => s.cron # adding'[g].cron
  <2>1. CASE LookupSchedule(g)
    BY <1>0, <2>1, LooksUp DEF SchedulesOf, At
  <2>2. CASE ~ LookupSchedule(g)
    <3>1. pc'[g] # "create"
      <4>1. CASE Done(g) \/ RefetchRule(g)
        BY <1>0, <4>1, Typed, Refetches DEF Done, Goto
      <4>2. CASE ~ (Done(g) \/ RefetchRule(g))
        BY <1>0, <2>2, <4>2, Typed
        DEF HandlerStep, Post, Patch, Delete, Receive, Step, Write, InsertRule, SelectRule, ReadRule,
            WriteRule, Refresh, FetchRule, GetKeys, RemoveAssociation, AssociationsRemoved,
            AddAssociation, CreateSchedule, UpdateSchedule, Unschedule, Schedule, RecordJob,
            ListSchedules, NextSchedule, TriggerRuleEvaluation, Remove, ListDoomed, RemoveJob,
            DeleteSchedule, DeleteRule, Goto, At, NextCondition, Added
      <4> QED
        BY <4>1, <4>2
    <3> QED
      BY <3>1 DEF At
  <2> QED
    BY <2>1, <2>2
<1>3. AsksNew'
  BY <1>1, <1>2 DEF AsksNew, SchedulesOf
<1>4. UniqueSchedules'
  <2>1. CASE CreateSchedule(g)
    BY <2>1, CreatesRow DEF UniqueInv, UniqueSchedules, AsksNew, SchedulesOf, CreateSchedule
  <2>2. CASE UpdateSchedule(g)
    BY <2>2, UpdatesRow DEF UniqueInv, UniqueSchedules
  <2>3. CASE DeleteSchedule(g)
    BY <2>3, DeletesRow DEF UniqueInv, UniqueSchedules
  <2> QED
    BY <2>1, <2>2, <2>3, SchedKinds DEF UniqueInv, UniqueSchedules
<1> QED
  BY <1>3, <1>4 DEF UniqueInv

LEMMA NextUnique == Base /\ Base' /\ UniqueInv /\ [Next]_vars => UniqueInv'
<1> SUFFICES ASSUME Base, Base', UniqueInv, [Next]_vars PROVE UniqueInv'
  OBVIOUS
<1>1. CASE Boot \/ Fire \/ TakeEvaluation \/ UNCHANGED vars
  BY <1>1, Elsewhere, ElsewhereSched, ShrinksUnique DEF Idly, At
<1>2. CASE Crash
  BY <1>2, ShrinksUnique DEF Crash, tables, At
<1>3. ASSUME NEW g \in Handlers, HandlerStep(g) PROVE UniqueInv'
  BY <1>3, HandlerUnique
<1> QED
  BY <1>1, <1>2, <1>3 DEF Next, HandlerStep

(* A rule has one schedule for each time (engine.go:251-262): the lookup   *)
(* finds the row that an earlier refresh added. A lookup that fails is     *)
(* taken for one that found nothing (engine.go:255), so the theorem needs  *)
(* calls that succeed; the process may die as often as it likes.           *)
THEOREM SchedulesStayUnique ==
    ASSUME ~ Overlap, MaxFaults = 0 PROVE Spec => []UniqueSchedules
<1>1. Init => Base /\ UniqueInv
  <2>1. Init => UniqueInv
    BY DEF Init, UniqueInv, UniqueSchedules, AsksNew, At
  <2> QED
    BY <2>1, InitBase
<1>2. Base /\ UniqueInv /\ [Next]_vars => (Base /\ UniqueInv)'
  BY NextBase, NextUnique
<1>3. UniqueInv => UniqueSchedules
  BY DEF UniqueInv
<1> QED
  BY <1>1, <1>2, <1>3, PTL DEF Spec

-----------------------------------------------------------------------------
(* Nothing dangles.  A DELETE empties the sets of its rule before it drops *)
(* the row; a call that failed would leave the rule in a set.              *)

(* A set names only rules that are there; a refresh has listed every set   *)
(* its rule is in; a removal has emptied them before the rows go.          *)
AssocRows == \A d \in Devices : \A r \in assoc[d] : RulesWithID(r) # {}

SetsDone(h) ==
    /\ At(h, "srem") => \A d \in Devices : req[h].rule \in assoc[d] => d \in work[h].keys
    /\ pc[h] \in {"rmjob", "rmrow"} => \A d \in Devices : req[h].rule \notin assoc[d]

DangleInv == MaxFaults = 0 /\ AssocRows /\ \A h \in Handlers : SetsDone(h)

(* A handler past its first calls works on a rule of its own.              *)
LEMMA BusyApart ==
    ASSUME Base, NEW g \in Handlers, NEW h \in Handlers, h # g, Busy(h), ~ Creates(h)
    PROVE  req[h].rule # 0 /\ req[h].rule # req[g].rule
<1>1. Shape(g) /\ Shape(h) /\ TypeOK
  BY DEF Base, ExclInv
<1>2. req[h].rule # 0
  BY <1>1, Typed DEF Shape
<1> QED
  BY <1>1, <1>2 DEF Shape, Base, ExclInv, Alone, Busy, NoRequest

(* A step of g moves no rule but its own in or out of a set.               *)
AssocApart(g) ==
    \A d \in Devices : \A r : r # req[g].rule => (r \in assoc[d] <=> r \in assoc'[d])

LEMMA AssocKinds ==
    ASSUME NEW g \in Handlers, HandlerStep(g)
    PROVE  RemoveAssociation(g) \/ AddAssociation(g) \/ assoc' = assoc
  BY DEF HandlerStep, Post, Patch, Delete, Receive, Step, Write, InsertRule, SelectRule, ReadRule,
         WriteRule, Refresh, FetchRule, GetKeys, AssociationsRemoved, RefetchRule, LookupSchedule,
         CreateSchedule, UpdateSchedule, Unschedule, Schedule, RecordJob, ListSchedules,
         NextSchedule, TriggerRuleEvaluation, Remove, ListDoomed, RemoveJob, DeleteSchedule,
         DeleteRule, CallFails

LEMMA AssocFrame ==
    ASSUME TypeOK, NEW g \in Handlers, HandlerStep(g) PROVE AssocApart(g)
<1>1. assoc \in [Devices -> SUBSET Nat]
  BY DEF TypeOK
<1>2. CASE RemoveAssociation(g)
  BY <1>1, <1>2 DEF RemoveAssociation, AssocApart
<1>3. CASE AddAssociation(g)
  BY <1>1, <1>3 DEF AddAssociation, AssocApart
<1> QED
  BY <1>2, <1>3, AssocKinds DEF AssocApart

(* A rule stays unless its DELETE drops it.                                *)
LEMMA RowsStay ==
    ASSUME Base, NEW g \in Handlers, HandlerStep(g), NEW x \in rules
    PROVE  \/ \E y \in rules' : y.id = x.id
           \/ DeleteRule(g) /\ x.id = req[g].rule
<1>1. CASE InsertRule(g) \/ DeleteRule(g) \/ rules' = rules
  BY <1>1 DEF InsertRule, DeleteRule
<1>2. CASE WriteRule(g)
  BY <1>2, Rewrites DEF Base
<1> QED
  BY <1>1, <1>2, Kinds
  DEF Base, Post, Patch, Delete, Receive, SelectRule, ReadRule, Ends, Proceeds, tables

(* The handler that moves, then every step.                                *)
LEMMA SetsDoneOwn ==
    ASSUME Base, DangleInv, NEW g \in Handlers, HandlerStep(g) PROVE SetsDone(g)'
<1> USE DEF SetsDone, At, Goto
<1>0. /\ TypeOK /\ ~ CallFails(g) /\ SetsDone(g) /\ Shape(g)
      /\ assoc \in [Devices -> SUBSET Nat]
      /\ pc \in [Handlers -> Labels] /\ work \in [Handlers -> Work]
  BY NoFailure, Typed DEF Base, DangleInv, ExclInv, TypeOK
<1>1. CASE GetKeys(g)
  BY <1>0, <1>1 DEF GetKeys, Work
<1>2. CASE RemoveAssociation(g)
  BY <1>0, <1>2 DEF RemoveAssociation, Work
<1>3. CASE ListDoomed(g) \/ RemoveJob(g) \/ DeleteSchedule(g)
  BY <1>0, <1>3 DEF ListDoomed, RemoveJob, DeleteSchedule
<1>4. CASE AddAssociation(g)
  BY <1>0, <1>4 DEF AddAssociation
<1>5. CASE Done(g)
  BY <1>0, <1>5 DEF Done
<1>6. CASE RefetchRule(g) \/ LookupSchedule(g)
  BY <1>0, <1>6, Refetches, Lookups
<1>7. CASE ~ \/ GetKeys(g) \/ RemoveAssociation(g) \/ ListDoomed(g) \/ RemoveJob(g)
             \/ DeleteSchedule(g) \/ AddAssociation(g) \/ Done(g) \/ RefetchRule(g)
             \/ LookupSchedule(g)
  <2>1. pc'[g] \notin {"srem", "rmjob", "rmrow"}
    BY <1>0, <1>7
    DEF HandlerStep, Post, Patch, Delete, Receive, Step, Write, InsertRule, SelectRule, ReadRule,
        WriteRule, Refresh, FetchRule, AssociationsRemoved, CreateSchedule, UpdateSchedule,
        Unschedule, Schedule, RecordJob, ListSchedules, NextSchedule, TriggerRuleEvaluation,
        Remove, DeleteRule, NextCondition, Added
  <2> QED
    BY <2>1
<1> QED
  BY <1>1, <1>2, <1>3, <1>4, <1>5, <1>6, <1>7

LEMMA HandlerDangles ==
    ASSUME Base, DangleInv, NEW g \in Handlers, HandlerStep(g) PROVE DangleInv'
<1>0. TypeOK /\ Others(g) /\ AssocApart(g) /\ assoc \in [Devices -> SUBSET Nat]
  BY OthersStay, AssocFrame DEF Base, TypeOK
<1>1. AssocRows'
  <2> SUFFICES ASSUME NEW d \in Devices, NEW r \in assoc'[d] PROVE \E y \in rules' : y.id = r
    BY DEF AssocRows, RulesWithID
  <2>1. \E x \in rules : x.id = r
    <3>1. CASE r \in assoc[d]
      BY <3>1 DEF DangleInv, AssocRows, RulesWithID
    <3>2. CASE r \notin assoc[d]
      <4>1. AddAssociation(g) /\ r = req[g].rule
        BY <1>0, <3>2, AssocKinds DEF RemoveAssociation, AddAssociation
      <4>2. Knows(g) /\ Shape(g)
        BY DEF Base, ExclInv
      <4>3. req[g].op # "delete" /\ pc[g] = "sadd"
        BY <4>1, <4>2 DEF Shape, Busy, AddAssociation, At
      <4> QED
        BY <4>1, <4>2, <4>3 DEF Knows
    <3> QED
      BY <3>1, <3>2
  <2>2. PICK x \in rules : x.id = r
    BY <2>1
  <2>3. CASE DeleteRule(g) /\ x.id = req[g].rule
    <3>1. r \in assoc[d] /\ At(g, "rmjob")
      BY <2>3 DEF DeleteRule
    <3> QED
      BY <2>2, <2>3, <3>1 DEF DangleInv, SetsDone, At
  <2> QED
    BY <2>2, <2>3, RowsStay
<1>2. \A h \in Handlers : SetsDone(h)'
  <2> SUFFICES ASSUME NEW h \in Handlers, h # g PROVE SetsDone(h)'
    BY SetsDoneOwn
  <2>1. Same(h) /\ SetsDone(h)
    BY <1>0 DEF Others, DangleInv
  <2>2. CASE pc[h] \in {"srem", "rmjob", "rmrow"}
    <3>1. req[h].rule # req[g].rule
      BY <2>2, BusyApart DEF Busy, Creates
    <3> QED
      BY <1>0, <2>1, <3>1 DEF SetsDone, Same, At, AssocApart
  <2>3. CASE pc[h] \notin {"srem", "rmjob", "rmrow"}
    BY <2>1, <2>3 DEF SetsDone, Same, At
  <2> QED
    BY <2>2, <2>3
<1> QED
  BY <1>1, <1>2 DEF DangleInv

LEMMA NextDangles == Base /\ DangleInv /\ [Next]_vars => DangleInv'
<1> SUFFICES ASSUME Base, DangleInv, [Next]_vars PROVE DangleInv'
  OBVIOUS
<1>1. CASE UNCHANGED <<rules, assoc, pc, req, work>>
  BY <1>1 DEF DangleInv, AssocRows, RulesWithID, SetsDone, At
<1>2. CASE ClearAssociations \/ Associate
  <2>1. rules' = rules /\ pc' = pc /\ \A h \in Handlers : pc[h] = "idle"
    BY <1>2 DEF ClearAssociations, Associate, Base, StartInv, At, tables, handlers
  <2>2. \A d \in Devices : \A r \in assoc'[d] : \E x \in rules : x.id = r
    BY <1>2 DEF ClearAssociations, Associate
  <2>3. AssocRows'
    BY <2>1, <2>2 DEF AssocRows, RulesWithID
  <2> QED
    BY <2>1, <2>3 DEF DangleInv, SetsDone, At
<1>3. CASE Crash
  BY <1>3 DEF Crash, tables, DangleInv, AssocRows, RulesWithID, SetsDone, At
<1>4. ASSUME NEW g \in Handlers, HandlerStep(g) PROVE DangleInv'
  BY <1>4, HandlerDangles
<1>5. CASE LoadSchedules \/ SchedulesLoaded \/ StartWebServer \/ Fire \/ TakeEvaluation
             \/ UNCHANGED vars
  BY <1>1, <1>5
  DEF LoadSchedules, SchedulesLoaded, StartWebServer, Fire, TakeEvaluation, vars, tables, handlers
<1> QED
  BY <1>2, <1>3, <1>4, <1>5 DEF Next, Boot, HandlerStep

(* What the invariants say of a rule that is gone.                         *)
LEMMA NoneDangles == ASSUME Base, JobsKept, DangleInv PROVE NothingDangles
<1> SUFFICES ASSUME NEW r \in 1 .. (nextRule - 1), RulesWithID(r) = {}
             PROVE  /\ \A d \in Devices : r \notin assoc[d]
                    /\ \A j \in entries : j.rule # r
                    /\ SchedulesOf(r) = {}
  BY DEF NothingDangles
<1>1. \A s \in schedules : s.rule # r
  BY DEF Base, SchedInv, HasRule, RulesWithID
<1>2. \A j \in entries : j.rule # r
  BY <1>1 DEF JobsKept, Base, MatchInv, JobsRight, Right
<1> QED
  BY <1>1, <1>2 DEF DangleInv, AssocRows, SchedulesOf

(* A rule that DELETE has dropped leaves no set that names it, no          *)
(* schedule row and no job (automation.go:93-100, engine.go:281-300 and    *)
(* 338-360), even if the process dies on the way: the row goes last. A     *)
(* call that failed would leave the rule in a set, and DELETE goes on.     *)
THEOREM DeletedLeavesNothing ==
    ASSUME ~ Overlap, MaxFaults = 0 PROVE Spec => []NothingDangles
<1>1. Init => DangleInv
  BY DEF Init, DangleInv, AssocRows, SetsDone, At
<1>2. Base /\ DangleInv /\ [Next]_vars => DangleInv'
  BY NextDangles
<1>3. Spec => [](Base /\ JobsKept)
  BY BaseAndJobs
<1>4. Base /\ JobsKept /\ DangleInv => NothingDangles
  BY NoneDangles
<1> QED
  BY <1>1, <1>2, <1>3, <1>4, PTL DEF Spec

-----------------------------------------------------------------------------
(* Associations at rest.                                                   *)

(* The rule is in the set of each device that should have it evaluated,    *)
(* and in no other.                                                        *)
RightSets(x) == \A d \in Devices : x.id \in assoc[d] <=> Watches(x, d)

(* How far a request has got with the sets of its rule. A DELETE has its   *)
(* owner's row, and lists all its schedules.                               *)
SetsRight(h) ==
    /\ pc[h] \in {"read", "lookup", "create", "update", "list", "rows", "trigger"} \/ Adds(h) =>
          \A x \in RulesWithID(req[h].rule) : RightSets(x)
    /\ At(h, "sadd") =>
          /\ work[h].seen.enabled /\ work[h].seen.cond.parses
          /\ work[h].keys \subseteq work[h].seen.cond.devices
          /\ \A d \in Devices :
                req[h].rule \in assoc[d] <=> d \in work[h].seen.cond.devices \ work[h].keys
    /\ Busy(h) /\ req[h].op = "delete" =>
          \A x \in RulesWithID(req[h].rule) : x.owner = req[h].user
    /\ At(h, "rmjob") => SchedulesOf(req[h].rule) \subseteq work[h].rows
    /\ At(h, "rmrow") => SchedulesOf(req[h].rule) \subseteq work[h].rows \cup {adding[h]}

(* No handler has the row in hand.                                         *)
Unhandled(x) == \A h \in Handlers : ~ Handles(h, x)

(* Sets are right for every row that no handler has in hand, once the      *)
(* process serves.                                                         *)
RightInv ==
    /\ DangleInv
    /\ boot = "serving" => \A x \in rules : Unhandled(x) => RightSets(x)
    /\ \A h \in Handlers : SetsRight(h)

(* DELETE checks the owner only in its last statement                      *)
(* (automation.go:100), after the sets and the schedules have gone: sent   *)
(* by another user it leaves a row that nothing evaluates. OwnersDelete    *)
(* is the clients who do not.                                              *)
DeletesOwn ==
    \A h \in Handlers : At(h, "idle") /\ pc'[h] = "keys" =>
        \A x \in RulesWithID(req'[h].rule) : x.owner = req'[h].user

OwnersDelete == [][DeletesOwn]_vars

(* Where a row that was not there comes from.                              *)
LEMMA NewRows ==
    ASSUME Base, NEW g \in Handlers, HandlerStep(g), NEW x \in rules', x \notin rules
    PROVE  \/ /\ InsertRule(g) /\ x.id = nextRule
              /\ x.name = req[g].copy.name /\ x.owner = req[g].user
           \/ WriteRule(g) /\ x = req[g].copy /\ x.id = req[g].rule
<1>0. TypeOK /\ ExclInv /\ Shape(g)
  BY DEF Base, ExclInv
<1>1. InsertRule(g) \/ WriteRule(g)
  BY <1>0, Kinds
  DEF Post, Patch, Delete, Receive, SelectRule, ReadRule, DeleteRule, Ends, Proceeds, tables
<1>2. CASE InsertRule(g)
  <2>1. x = [req[g].copy EXCEPT !.id = nextRule] /\ req[g].copy.owner = req[g].user
    BY <1>0, <1>2 DEF InsertRule, Shape, Creates, At
  <2>2. req[g].copy \in RuleRow
    BY <1>0, Typed DEF Requests
  <2> QED
    BY <1>2, <2>1, <2>2 DEF RuleRow
<1>3. CASE WriteRule(g)
  BY <1>0, <1>3, Rewrites
<1> QED
  BY <1>1, <1>2, <1>3

(* A step of g changes no row of the rule of h.                            *)
LEMMA RowsFrame ==
    ASSUME Base, NEW g \in Handlers, HandlerStep(g), NEW h \in Handlers, h # g,
           Busy(h), ~ Creates(h)
    PROVE  RulesWithID(req[h].rule)' = RulesWithID(req[h].rule)
<1>1. req[h].rule # req[g].rule /\ req[h].rule < nextRule /\ TypeOK /\ Same(h)
  BY BusyApart, OthersStay DEF Base, ExclInv, Shape, Others
<1>2. ASSUME NEW x \in rules', x.id = req[h].rule PROVE x \in rules
  BY <1>1, <1>2, NewRows, Typed
<1>3. ASSUME NEW x \in rules, x.id = req[h].rule PROVE x \in rules'
  <2>1. CASE InsertRule(g) \/ DeleteRule(g) \/ rules' = rules
    BY <1>1, <1>3, <2>1 DEF InsertRule, DeleteRule
  <2>2. CASE WriteRule(g)
    BY <1>1, <1>3, <2>2, Rewrites DEF Base
  <2> QED
    BY <1>1, <2>1, <2>2, Kinds
    DEF Base, Post, Patch, Delete, Receive, SelectRule, ReadRule, Ends, Proceeds, tables
<1> QED
  BY <1>1, <1>2, <1>3 DEF RulesWithID, Same

(* The row that a POST will find stays the one it will find.               *)
LEMMA OwnRowStays ==
    ASSUME Base, ExclInv', NEW g \in Handlers, HandlerStep(g), NEW h \in Handlers, h # g,
           NEW x \in rules, OwnRow(h, x), x \in rules'
    PROVE  OwnRow(h, x)'
<1>0. TypeOK /\ ExclInv /\ Same(h)
  BY OthersStay DEF Base, Others
<1>1. PICK w \in rules : Kept(h, w)
  BY <1>0 DEF ExclInv, OwnKept, OwnRow
<1>2. w = x
  <2>1. w.id <= x.id /\ x.id <= w.id
    BY <1>1 DEF Kept, OwnRow
  <2> QED
    BY <1>0, <2>1, Typed DEF ExclInv, RuleIDs
<1>3. At(h, "select")'
  BY <1>0 DEF OwnRow, Same, At
<1>4. ASSUME NEW y \in rules', y.name = x.name, y.owner = x.owner PROVE y.id <= x.id
  <2>1. CASE y \in rules
    BY <1>4, <2>1 DEF OwnRow
  <2>2. CASE InsertRule(g) /\ y.name = req[g].copy.name /\ y.owner = req[g].user
    BY <1>0, <1>4, <2>2 DEF OwnRow, ExclInv, OneCreator, Creates, InsertRule, At
  <2>3. CASE WriteRule(g) /\ y = req[g].copy /\ y.id = req[g].rule
    <3>1. y.owner = req[g].user
      BY <1>0, <2>3, Rewrites
    <3>2. Renames(g, x.name, x.owner)
      BY <1>4, <2>3, <3>1 DEF Renames, WriteRule, At
    <3>3. req[g].rule < x.id
      BY <1>1, <1>2, <3>2 DEF Kept
    <3> QED
      BY <1>0, <2>3, <3>3, Typed
  <2> QED
    BY <2>1, <2>2, <2>3, NewRows
<1> QED
  BY <1>0, <1>3, <1>4 DEF OwnRow, Same

(* Only the end of its request sets a row free.                            *)
LEMMA Released ==
    ASSUME Base, ExclInv', MaxFaults = 0, NEW g \in Handlers, HandlerStep(g),
           NEW x \in rules', Unhandled(x)'
    PROVE  /\ x \in rules
           /\ \/ Unhandled(x)
              \/ Busy(g) /\ ~ Creates(g) /\ pc'[g] = "idle" /\ x.id = req[g].rule
<1>0. /\ TypeOK /\ ExclInv /\ Others(g) /\ ~ CallFails(g) /\ Shape(g)
      /\ nextRule \in Nat /\ \A y \in rules : y.id \in Nat
  BY OthersStay, NoFailure, Typed DEF Base, ExclInv
<1>1. x \in rules
  <2> SUFFICES ASSUME x \notin rules PROVE FALSE
    OBVIOUS
  <2>1. CASE InsertRule(g) /\ x.id = nextRule /\ x.name = req[g].copy.name /\ x.owner = req[g].user
    <3>1. PICK w : rules' = rules \cup {w} /\ w.id = nextRule
      <4>1. req[g].copy \in RuleRow
        BY <1>0, Typed DEF Requests
      <4> QED
        BY <2>1, <4>1 DEF InsertRule, RuleRow
    <3>2. w = x
      BY <3>1
    <3>3. \A y \in rules' : y.id <= x.id
      BY <1>0, <3>1, <3>2 DEF ExclInv, RuleIDs
    <3>4. pc'[g] = "select" /\ req' = req
      BY <1>0, <2>1, Typed DEF InsertRule, Goto
    <3>5. OwnRow(g, x)'
      BY <2>1, <3>3, <3>4 DEF OwnRow, At
    <3> QED
      BY <3>5 DEF Unhandled, Handles
  <2>2. CASE WriteRule(g) /\ x = req[g].copy /\ x.id = req[g].rule
    <3>1. pc'[g] = "fetch" /\ req' = req
      BY <1>0, <2>2, Typed DEF WriteRule, Goto
    <3> QED
      BY <2>2, <3>1 DEF Unhandled, Handles, Busy
  <2> QED
    BY <2>1, <2>2, NewRows
<1>2. ASSUME NEW h \in Handlers, h # g PROVE ~ Handles(h, x)
  <2>1. Same(h)
    BY <1>0, <1>2 DEF Others
  <2>2. ~ (Busy(h) /\ req[h].rule = x.id)
    BY <2>1 DEF Unhandled, Handles, Same, Busy
  <2>3. ~ OwnRow(h, x)
    BY <1>1, <1>2, OwnRowStays DEF Unhandled, Handles
  <2> QED
    BY <2>2, <2>3 DEF Handles
<1>3. ~ OwnRow(g, x)
  <2> SUFFICES ASSUME OwnRow(g, x) PROVE FALSE
    OBVIOUS
  <2>1. SelectRule(g)
    BY <1>0, Kinds
    DEF OwnRow, Post, Patch, Delete, Receive, InsertRule, ReadRule, WriteRule, DeleteRule, At,
        Step, Write, Refresh, FetchRule, GetKeys, RemoveAssociation, AssociationsRemoved,
        AddAssociation, RefetchRule, LookupSchedule, CreateSchedule, UpdateSchedule, Unschedule,
        Schedule, RecordJob, ListSchedules, NextSchedule, TriggerRuleEvaluation, Refreshed,
        Remove, ListDoomed, RemoveJob, DeleteSchedule, HandlerStep
  <2>2. PICK w \in rules : /\ Kept(g, w) /\ pc'[g] = "fetch"
                           /\ req'[g] = [req[g] EXCEPT !.copy = w, !.rule = w.id]
    BY <1>0, <2>1, FindsOwn
  <2>3. w = x
    <3>1. w.id <= x.id /\ x.id <= w.id
      BY <2>2 DEF Kept, OwnRow
    <3> QED
      BY <1>0, <1>1, <3>1 DEF ExclInv, RuleIDs
  <2>4. req'[g].rule = x.id
    BY <1>0, <2>2, <2>3, Typed DEF Requests
  <2> QED
    BY <2>2, <2>4 DEF Unhandled, Handles, Busy
<1>4. CASE Busy(g) /\ req[g].rule = x.id
  <2>1. x.id # 0
    BY <1>1, <1>0 DEF ExclInv, RuleIDs
  <2>2. ~ Creates(g)
    BY <1>0, <1>4, <2>1 DEF Shape
  <2>3. pc'[g] = "idle" \/ req'[g].rule = req[g].rule
    BY <1>0, <1>4, <2>2, Kinds, Typed
    DEF Post, Patch, Delete, Receive, InsertRule, SelectRule, ReadRule, WriteRule, DeleteRule, At,
        Busy, Creates, Done, Goto, Ends, Proceeds, Requests
  <2> QED
    BY <1>1, <1>4, <2>2, <2>3 DEF Unhandled, Handles, Busy
<1> QED
  BY <1>1, <1>2, <1>3, <1>4 DEF Unhandled, Handles

(* How a request on a known rule ends.                                     *)
LEMMA Finishes ==
    ASSUME Base, MaxFaults = 0, NEW g \in Handlers, HandlerStep(g), Busy(g), ~ Creates(g),
           pc'[g] = "idle"
    PROVE  /\ UNCHANGED <<assoc, schedules, schedulerVars>>
           /\ \/ At(g, "read") /\ rules' = rules
              \/ At(g, "fetch") /\ RulesWithID(req[g].rule) = {} /\ rules' = rules
              \/ /\ At(g, "srem") /\ work[g].keys = {} /\ req[g].op # "delete"
                 /\ work[g].seen.enabled /\ ~ work[g].seen.cond.parses /\ rules' = rules
              \/ Refreshed(g) /\ rules' = rules
              \/ DeleteRule(g)
<1> USE DEF Busy, Creates, At, Goto
<1>0. TypeOK /\ ~ CallFails(g) /\ pc \in [Handlers -> Labels]
  BY NoFailure, Typed DEF Base
<1>1. CASE ReadRule(g) \/ FetchRule(g) \/ AssociationsRemoved(g) \/ TriggerRuleEvaluation(g)
             \/ DeleteRule(g)
  BY <1>0, <1>1 DEF ReadRule, FetchRule, AssociationsRemoved, TriggerRuleEvaluation, DeleteRule, tables
<1>2. CASE RefetchRule(g) \/ LookupSchedule(g)
  BY <1>0, <1>2, Refetches, Lookups
<1>3. CASE ~ \/ ReadRule(g) \/ FetchRule(g) \/ AssociationsRemoved(g) \/ TriggerRuleEvaluation(g)
             \/ DeleteRule(g) \/ RefetchRule(g) \/ LookupSchedule(g)
  <2>1. pc'[g] # "idle"
    BY <1>0, <1>3
    DEF HandlerStep, Post, Patch, Delete, Receive, Step, Write, InsertRule, SelectRule, WriteRule,
        Refresh, GetKeys, RemoveAssociation, AddAssociation, CreateSchedule, UpdateSchedule,
        Unschedule, Schedule, RecordJob, ListSchedules, NextSchedule, Remove, ListDoomed, RemoveJob,
        DeleteSchedule, NextCondition, Added
  <2> QED
    BY <2>1
<1> QED
  BY <1>1, <1>2, <1>3

(* The row that a handler has read is the one row of its rule.             *)
LEMMA SeenRow ==
    ASSUME Base, NEW h \in Handlers, pc[h] \notin Early, req[h].op # "delete",
           NEW x \in RulesWithID(req[h].rule)
    PROVE  x = work[h].seen
<1>1. work[h].seen \in rules /\ work[h].seen.id = req[h].rule
  BY DEF Base, ExclInv, Knows, Early
<1> QED
  BY <1>1 DEF RulesWithID, Base, ExclInv, RuleIDs

(* In the loops over schedules neither the row nor the sets change.        *)
LEMMA LoopSteps ==
    ASSUME Base, NEW g \in Handlers,
           \/ LookupSchedule(g) \/ CreateSchedule(g) \/ UpdateSchedule(g)
           \/ Unschedule(g) \/ Schedule(g) \/ RecordJob(g) \/ ListSchedules(g) \/ NextSchedule(g)
    PROVE  /\ UNCHANGED <<rules, assoc, req>> /\ work'[g].seen = work[g].seen
           /\ pc[g] \in {"lookup", "create", "update", "list", "rows"} \/ Adds(g)
           /\ pc'[g] \in {"lookup", "create", "update", "list", "rows"} \/ Adds(g)'
           /\ req[g].op # "delete"
<1> USE DEF Goto, At, Adds
<1>0. /\ TypeOK /\ Shape(g) /\ pc \in [Handlers -> Labels] /\ work \in [Handlers -> Work]
  BY Typed DEF Base, ExclInv
<1>1. CASE LookupSchedule(g)
  <2>1. /\ pc'[g] \in {"create", "update"} /\ work'[g].seen = work[g].seen
    BY <1>0, <1>1, Lookups DEF Work
  <2> QED
    BY <1>0, <1>1, <2>1 DEF LookupSchedule, tables, Shape, Busy
<1>2. CASE CreateSchedule(g) \/ UpdateSchedule(g)
  BY <1>0, <1>2 DEF CreateSchedule, UpdateSchedule, Shape, Busy, NextCondition
<1>3. CASE Unschedule(g) \/ Schedule(g) \/ RecordJob(g)
  BY <1>0, <1>3 DEF Unschedule, Schedule, RecordJob, tables, Shape, Busy, NextCondition, Added
<1>4. CASE ListSchedules(g) \/ NextSchedule(g)
  BY <1>0, <1>4 DEF ListSchedules, NextSchedule, tables, Shape, Busy, Work
<1> QED
  BY <1>1, <1>2, <1>3, <1>4

(* What SetsRight says of the handler that moves.                          *)
LEMMA ArrivesRight ==
    ASSUME Base, ~ Overlap, RightInv, DeletesOwn, NEW g \in Handlers, Post(g) \/ Patch(g) \/ Delete(g)
    PROVE  SetsRight(g)'
<1> USE DEF At, Adds, SetsRight
<1>0. TypeOK /\ RuleIDs /\ \A h \in Handlers : Shape(h)
  BY DEF Base, ExclInv
<1>1. CASE Post(g)
  <2>1. pc'[g] = "insert" /\ req'[g].op = "post"
    BY <1>0, <1>1, Typed DEF Post, Receive, Goto
  <2> QED
    BY <2>1
<1>2. CASE Patch(g)
  <2>1. PICK r \in 1 .. (nextRule - 1) :
            /\ Untouched(r) /\ pc'[g] = "read" /\ req'[g].rule = r /\ req'[g].op = "patch"
            /\ boot = "serving" /\ UNCHANGED <<rules, assoc>>
    BY <1>0, <1>2, Typed DEF Patch, Receive, Goto, tables
  <2>2. ASSUME NEW x \in rules, x.id = r PROVE RightSets(x)
    <3>1. ASSUME NEW h \in Handlers, Handles(h, x) PROVE FALSE
      <4>1. CASE Busy(h) /\ req[h].rule = x.id
        BY <2>1, <2>2, <4>1 DEF Untouched, Busy
      <4>2. CASE OwnRow(h, x)
        <5>1. Touches(h, x)
          BY <4>2, CreatorIsSeen DEF OwnRow, Creates, Base
        <5> QED
          BY <2>1, <2>2, <5>1 DEF Untouched, RulesWithID
      <4> QED
        BY <3>1, <4>1, <4>2 DEF Handles
    <3> QED
      BY <2>1, <3>1 DEF RightInv, Unhandled
  <2> QED
    BY <2>1, <2>2 DEF RulesWithID, RightSets
<1>3. CASE Delete(g)
  <2>1. /\ pc[g] = "idle" /\ pc'[g] = "keys" /\ req'[g].op = "delete" /\ rules' = rules
    BY <1>0, <1>3, Typed DEF Delete, Receive, Goto, tables
  <2>2. \A x \in RulesWithID(req'[g].rule) : x.owner = req'[g].user
    BY <2>1 DEF DeletesOwn
  <2> QED
    BY <2>1, <2>2 DEF RulesWithID
<1> QED
  BY <1>1, <1>2, <1>3

LEMMA SetsRightOwn ==
    ASSUME Base, ~ Overlap, RightInv, DeletesOwn, NEW g \in Handlers, HandlerStep(g)
    PROVE  SetsRight(g)'
<1> USE DEF At, Adds, SetsRight, Goto
<1>0. /\ TypeOK /\ ~ CallFails(g) /\ SetsRight(g) /\ SetsDone(g) /\ Shape(g) /\ Knows(g)
      /\ pc \in [Handlers -> Labels] /\ work \in [Handlers -> Work] /\ req \in [Handlers -> Requests]
      /\ adding \in [Handlers -> ScheduleRow] /\ assoc \in [Devices -> SUBSET Nat]
      /\ req[g].rule \in Nat
  BY NoFailure, Typed DEF Base, DangleInv, RightInv, ExclInv, TypeOK
<1>1. CASE Done(g)
  BY <1>0, <1>1 DEF Done, Busy
<1>2. CASE Post(g) \/ Patch(g) \/ Delete(g)
  BY <1>2, ArrivesRight
<1>3. CASE Write(g) /\ ~ Done(g)
  <2>1. pc'[g] \in {"select", "fetch", "write"}
    BY <1>0, <1>3 DEF Write, InsertRule, SelectRule, ReadRule, WriteRule
  <2>2. req[g].op # "delete"
    BY <1>0, <1>3 DEF Write, InsertRule, SelectRule, ReadRule, WriteRule, Shape, Busy, Creates
  <2>3. CASE InsertRule(g) \/ WriteRule(g)
    BY <2>1, <2>2, <2>3 DEF InsertRule, WriteRule
  <2>4. CASE SelectRule(g)
    <3>0. PICK x \in rules : req'[g] = [req[g] EXCEPT !.copy = x, !.rule = x.id]
      BY <1>0, <2>4, FindsOwn DEF Base
    <3>1. req'[g].op = req[g].op
      BY <1>0, <3>0 DEF Requests
    <3> QED
      BY <2>1, <2>2, <3>1
  <2>5. CASE ReadRule(g)
    <3>1. req'[g].op = req[g].op
      BY <1>0, <1>3, <2>5 DEF ReadRule, Requests
    <3> QED
      BY <2>1, <2>2, <3>1
  <2> QED
    BY <1>3, <2>3, <2>4, <2>5 DEF Write
<1>4. CASE FetchRule(g) /\ ~ Done(g)
  BY <1>0, <1>4 DEF FetchRule, Shape, Busy
<1>5. CASE GetKeys(g)
  <2>1. pc[g] = "keys" /\ pc'[g] = "srem" /\ req' = req /\ rules' = rules
    BY <1>0, <1>5 DEF GetKeys, tables
  <2> QED
    BY <1>0, <2>1 DEF Busy, RulesWithID
<1>6. CASE RemoveAssociation(g)
  <2>1. pc[g] = "srem" /\ pc'[g] = "srem" /\ req' = req /\ rules' = rules
    BY <1>0, <1>6 DEF RemoveAssociation, tables
  <2> QED
    BY <1>0, <2>1 DEF Busy, RulesWithID
<1>7. CASE AssociationsRemoved(g) /\ ~ Done(g)
  <2>1. /\ pc[g] = "srem" /\ req' = req /\ rules' = rules /\ assoc' = assoc
        /\ req[g].op # "delete" /\ work[g].keys = {} /\ work'[g].seen = work[g].seen
    BY <1>0, <1>7 DEF AssociationsRemoved, tables, Work
  <2>2. \A d \in Devices : req[g].rule \notin assoc[d]
    BY <1>0, <2>1 DEF SetsDone
  <2>3. CASE ~ work[g].seen.enabled /\ pc'[g] = "trigger"
    <3>1. \A x \in RulesWithID(req[g].rule) : x.id = req[g].rule /\ ~ x.enabled
      BY <2>1, <2>3, SeenRow DEF Early, RulesWithID
    <3> QED
      BY <2>1, <2>2, <2>3, <3>1 DEF RightSets, Watches, RulesWithID
  <2>4. CASE /\ work[g].seen.enabled /\ work[g].seen.cond.parses
             /\ work'[g].keys = work[g].seen.cond.devices /\ pc'[g] = "sadd"
    BY <2>1, <2>2, <2>4
  <2> QED
    BY <1>0, <1>7, <2>3, <2>4 DEF AssociationsRemoved, Work
<1>8. CASE AddAssociation(g)
  <2>1. PICK d \in work[g].keys : /\ assoc' = [assoc EXCEPT ![d] = @ \cup {req[g].rule}]
                                  /\ work' = [work EXCEPT ![g].keys = @ \ {d}]
    BY <1>8 DEF AddAssociation
  <2>2. /\ pc[g] = "sadd" /\ pc'[g] = "sadd" /\ req' = req /\ rules' = rules
        /\ work'[g].seen = work[g].seen /\ work'[g].keys = work[g].keys \ {d} /\ d \in Devices
        /\ req[g].op # "delete"
    BY <1>0, <1>8, <2>1 DEF AddAssociation, tables, Work, Shape, Busy
  <2>3. d \in work[g].seen.cond.devices
    BY <1>0, <2>1, <2>2
  <2>4. \A e \in Devices : req[g].rule \in assoc'[e] <=> e = d \/ req[g].rule \in assoc[e]
    BY <1>0, <2>1, <2>2
  <2>5. \A e \in Devices :
            req[g].rule \in assoc'[e] <=> e \in work'[g].seen.cond.devices \ work'[g].keys
    BY <1>0, <2>1, <2>2, <2>3, <2>4
  <2> QED
    BY <1>0, <2>2, <2>5
<1>9. CASE RefetchRule(g)
  <2>1. /\ pc[g] = "sadd" /\ work[g].keys = {} /\ req' = req /\ rules' = rules /\ assoc' = assoc
        /\ pc'[g] \in {"trigger", "list", "lookup"} /\ req[g].op # "delete"
    BY <1>0, <1>9, Refetches DEF Shape, Busy
  <2>2. \A x \in RulesWithID(req[g].rule) : x.id = req[g].rule /\ x = work[g].seen
    BY <2>1, SeenRow DEF Early, RulesWithID
  <2>3. \A x \in RulesWithID(req[g].rule) : RightSets(x)
    BY <1>0, <2>1, <2>2 DEF RightSets, Watches
  <2> QED
    BY <2>1, <2>3 DEF RulesWithID, RightSets, Watches
<1>10. CASE \/ LookupSchedule(g) \/ CreateSchedule(g) \/ UpdateSchedule(g)
            \/ Unschedule(g) \/ Schedule(g) \/ RecordJob(g) \/ ListSchedules(g) \/ NextSchedule(g)
  <2>1. /\ UNCHANGED <<rules, assoc, req>> /\ req[g].op # "delete"
        /\ pc[g] \in {"lookup", "create", "update", "list", "rows"} \/ Adds(g)
        /\ pc'[g] \in {"lookup", "create", "update", "list", "rows"} \/ Adds(g)'
    BY <1>10, LoopSteps
  <2> QED
    BY <1>0, <2>1 DEF RulesWithID, RightSets, Watches
<1>11. CASE TriggerRuleEvaluation(g) \/ DeleteRule(g)
  BY <1>1, <1>11 DEF TriggerRuleEvaluation, DeleteRule
<1>12. CASE ListDoomed(g)
  <2>1. /\ pc[g] = "srem" /\ pc'[g] = "rmjob" /\ req' = req /\ rules' = rules /\ schedules' = schedules
        /\ work'[g].rows = SchedulesOf(req[g].rule)
    BY <1>0, <1>12 DEF ListDoomed, tables, Work
  <2> QED
    BY <1>0, <2>1 DEF Busy, RulesWithID, SchedulesOf
<1>13. CASE RemoveJob(g)
  <2>1. PICK s \in work[g].rows : /\ adding' = [adding EXCEPT ![g] = s]
                                  /\ work' = [work EXCEPT ![g].rows = @ \ {s}]
    BY <1>13 DEF RemoveJob
  <2>2. /\ pc[g] = "rmjob" /\ pc'[g] = "rmrow" /\ req' = req /\ rules' = rules /\ schedules' = schedules
        /\ work'[g].rows = work[g].rows \ {s} /\ adding'[g] = s
    BY <1>0, <1>13, <2>1 DEF RemoveJob, tables, Work
  <2> QED
    BY <1>0, <2>2 DEF Busy, RulesWithID, SchedulesOf
<1>14. CASE DeleteSchedule(g)
  <2>1. /\ pc[g] = "rmrow" /\ pc'[g] = "rmjob" /\ req' = req /\ rules' = rules /\ work' = work
        /\ schedules' = schedules \ {adding[g]}
    BY <1>0, <1>14, DeletesRow DEF DeleteSchedule
  <2> QED
    BY <1>0, <2>1 DEF Busy, RulesWithID, SchedulesOf
<1> QED
  BY <1>0, <1>1, <1>2, <1>3, <1>4, <1>5, <1>6, <1>7, <1>8, <1>9, <1>10, <1>11, <1>12, <1>13, <1>14
  DEF HandlerStep, Step, Refresh, Remove

(* What it says of the others.                                             *)
LEMMA SetsRightOthers ==
    ASSUME Base, RightInv, NEW g \in Handlers, HandlerStep(g), NEW h \in Handlers, h # g
    PROVE  SetsRight(h)'
<1>1. /\ Same(h) /\ SetsRight(h) /\ TypeOK /\ AssocApart(g) /\ SchedApart(g) /\ Shape(h)
  BY OthersStay, AssocFrame, SchedFrame DEF Base, Others, RightInv, ExclInv
<1>2. CASE Busy(h) /\ ~ Creates(h)
  <2>1. req[h].rule # req[g].rule /\ RulesWithID(req[h].rule)' = RulesWithID(req[h].rule)
    BY <1>2, BusyApart, RowsFrame
  <2>2. \A x \in RulesWithID(req[h].rule) : RightSets(x) => RightSets(x)'
    BY <1>1, <2>1 DEF RightSets, AssocApart, RulesWithID, Watches
  <2>3. SchedulesOf(req[h].rule)' = SchedulesOf(req[h].rule)
    BY <1>1, <2>1 DEF SchedApart, SchedulesOf, Same
  <2> QED
    BY <1>1, <2>1, <2>2, <2>3 DEF SetsRight, Same, At, Adds, Busy, AssocApart
<1>3. CASE ~ (Busy(h) /\ ~ Creates(h))
  BY <1>1, <1>3 DEF SetsRight, Same, At, Adds, Busy, Creates, Shape
<1> QED
  BY <1>2, <1>3

(* A row set free is right: the request that had it has ended.             *)
LEMMA FreeRight ==
    ASSUME Base, Base', RightInv, NEW g \in Handlers, HandlerStep(g), boot = "serving",
           NEW x \in rules', Unhandled(x)'
    PROVE  RightSets(x)'
<1>0. /\ TypeOK /\ ExclInv' /\ MaxFaults = 0 /\ AssocApart(g) /\ Shape(g) /\ SetsRight(g) /\ SetsDone(g)
  BY AssocFrame DEF Base, RightInv, DangleInv, ExclInv
<1>1. x \in rules
  BY <1>0, Released
<1>2. CASE Unhandled(x)
  <2>1. x.id # req[g].rule
    BY <1>0, <1>1, <1>2, Typed DEF Unhandled, Handles, Busy, Shape, NoRequest, Base, ExclInv, RuleIDs
  <2> QED
    BY <1>0, <1>1, <1>2, <2>1 DEF RightInv, RightSets, AssocApart, Watches
<1>3. CASE Busy(g) /\ ~ Creates(g) /\ pc'[g] = "idle" /\ x.id = req[g].rule
  <2>1. assoc' = assoc /\ x \in RulesWithID(req[g].rule)
    BY <1>0, <1>1, <1>3, Finishes DEF RulesWithID
  <2>2. RightSets(x) => RightSets(x)'
    BY <2>1 DEF RightSets, Watches
  <2>3. CASE At(g, "read") \/ Refreshed(g)
    BY <1>0, <2>1, <2>2, <2>3 DEF SetsRight, At, Refreshed
  <2>4. CASE /\ At(g, "srem") /\ work[g].keys = {} /\ req[g].op # "delete"
             /\ work[g].seen.enabled /\ ~ work[g].seen.cond.parses
    <3>1. x = work[g].seen
      BY <2>1, <2>4, SeenRow DEF At, Early
    <3> QED
      BY <1>0, <1>3, <2>2, <2>4, <3>1 DEF SetsDone, RightSets, Watches
  <2>5. CASE DeleteRule(g)
    <3>1. x.owner = req[g].user /\ SchedulesOf(req[g].rule) = {}
      BY <1>0, <2>1, <2>5 DEF SetsRight, DeleteRule, At, Shape, Busy
    <3> QED
      BY <1>3, <2>5, <3>1 DEF DeleteRule
  <2> QED
    BY <1>0, <1>3, <2>1, <2>3, <2>4, <2>5, Finishes
<1> QED
  BY <1>0, <1>2, <1>3, Released

(* Every step keeps RightInv.                                              *)
LEMMA NextRight ==
    Base /\ Base' /\ ~ Overlap /\ RightInv /\ [Next]_vars /\ [DeletesOwn]_vars => RightInv'
<1> SUFFICES ASSUME Base, Base', ~ Overlap, RightInv, [Next]_vars, [DeletesOwn]_vars PROVE RightInv'
  OBVIOUS
<1>1. DangleInv'
  BY NextDangles DEF RightInv
<1>2. CASE UNCHANGED <<rules, assoc, schedules, pc, req, work, adding, boot>>
  BY <1>1, <1>2
  DEF RightInv, SetsRight, RightSets, Watches, Unhandled, Handles, OwnRow, RulesWithID, SchedulesOf,
      At, Adds, Busy
<1>3. CASE StartWebServer
  <2>1. UNCHANGED <<rules, assoc, schedules, pc, req, work, adding>>
    BY <1>3 DEF StartWebServer, tables, handlers
  <2>2. \A x \in rules : RightSets(x)
    BY <1>3 DEF StartWebServer, Base, StartInv, RightSets, ExclInv, RuleIDs
  <2>3. \A x \in rules' : RightSets(x)'
    BY <2>1, <2>2 DEF RightSets, Watches
  <2>4. \A h \in Handlers : SetsRight(h)'
    BY <2>1 DEF RightInv, SetsRight, RightSets, Watches, RulesWithID, SchedulesOf, At, Adds, Busy
  <2> QED
    BY <1>1, <2>3, <2>4 DEF RightInv
<1>4. CASE LoadSchedules \/ SchedulesLoaded \/ ClearAssociations \/ Associate \/ Crash
  <2>1. \A h \in Handlers : pc'[h] = "idle"
    BY <1>4
    DEF LoadSchedules, SchedulesLoaded, ClearAssociations, Associate, Crash, handlers, Base, StartInv, At
  <2>2. boot' # "serving"
    BY <1>4 DEF LoadSchedules, SchedulesLoaded, ClearAssociations, Associate, Crash
  <2> QED
    BY <1>1, <2>1, <2>2 DEF RightInv, SetsRight, At, Adds, Busy
<1>5. ASSUME NEW g \in Handlers, HandlerStep(g) PROVE RightInv'
  <2>1. DeletesOwn \/ UNCHANGED vars
    OBVIOUS
  <2>2. CASE UNCHANGED vars
    BY <1>2, <2>2 DEF vars, tables, handlers
  <2>3. CASE DeletesOwn
    <3>1. \A h \in Handlers : SetsRight(h)'
      BY <1>5, <2>3, SetsRightOwn, SetsRightOthers
    <3>2. boot' = boot
      BY <1>5, OthersStay DEF Base
    <3>3. boot' = "serving" => \A x \in rules' : Unhandled(x)' => RightSets(x)'
      BY <1>5, <3>2, FreeRight
    <3> QED
      BY <1>1, <3>1, <3>3 DEF RightInv
  <2> QED
    BY <2>1, <2>2, <2>3
<1>6. CASE Fire \/ TakeEvaluation \/ UNCHANGED vars
  BY <1>2, <1>6 DEF Fire, TakeEvaluation, vars, tables, handlers
<1> QED
  BY <1>3, <1>4, <1>5, <1>6 DEF Next, Boot, HandlerStep

(* A row at rest is handled by nobody.                                     *)
LEMMA RestsUnhandled == ASSUME Base, NEW x \in rules, AtRest(x.id) PROVE Unhandled(x)
<1> SUFFICES ASSUME NEW h \in Handlers, Handles(h, x) PROVE FALSE
  BY DEF Unhandled
<1>1. CASE OwnRow(h, x)
  <2>1. Touches(h, x)
    BY <1>1, CreatorIsSeen DEF OwnRow, Creates, At, Base
  <2> QED
    BY <2>1 DEF AtRest, Untouched, RulesWithID
<1>2. CASE Busy(h) /\ req[h].rule = x.id
  BY <1>2 DEF AtRest, Untouched, Busy
<1> QED
  BY <1>1, <1>2 DEF Handles

(* Where there is one user nobody deletes another one's rule.              *)
THEOREM OneUserDeletesOwn ==
    ASSUME \A u, v \in Users : u = v PROVE Spec => OwnersDelete
<1>1. TypeOK /\ TypeOK' => DeletesOwn
  <2> SUFFICES ASSUME TypeOK, TypeOK', NEW h \in Handlers, NEW x \in RulesWithID(req'[h].rule)
               PROVE  x.owner = req'[h].user
    BY DEF DeletesOwn
  <2>1. x.owner \in Users
    BY DEF TypeOK, RuleRow, RulesWithID
  <2>2. req'[h].user \in Users
    BY DEF TypeOK, Requests
  <2> QED
    BY <2>1, <2>2
<1> QED
  BY <1>1, TypeCorrect, PTL DEF OwnersDelete

(* A rule that no request works on is in the set of each device its        *)
(* condition names, when it is enabled, and in no other                    *)
(* (engine.go:188-226, automation.go:73 and 151): after any requests and   *)
(* any deaths of the process, for a start associates every rule. Clients   *)
(* wait for answers, calls succeed, and DELETE is sent by owners.          *)
THEOREM AssociationsRight ==
    ASSUME ~ Overlap, MaxFaults = 0 PROVE Spec /\ OwnersDelete => []AssociationsAtRest
<1>1. Init => Base /\ RightInv
  <2>1. Init => RightInv
    BY DEF Init, RightInv, DangleInv, AssocRows, SetsDone, SetsRight, At, Adds, Busy
  <2> QED
    BY <2>1, InitBase
<1>2. Base /\ RightInv /\ [Next]_vars /\ [DeletesOwn]_vars => (Base /\ RightInv)'
  BY NextBase, NextRight
<1>3. Base /\ RightInv => AssociationsAtRest
  BY RestsUnhandled DEF RightInv, AssociationsAtRest, AtRest, RightSets
<1> QED
  BY <1>1, <1>2, <1>3, PTL DEF Spec, OwnersDelete

-----------------------------------------------------------------------------
(* Times at rest.                                                          *)

(* A schedule for the time c is there and enabled; every time of the rule  *)
(* has one, with its job.                                                  *)
HasTime(r, c) == \E s \in SchedulesOf(r) : s.cron = c /\ s.enabled

Ready(x) ==
    x.enabled /\ x.cond.parses =>
        \A c \in x.cond.crons : \E s \in SchedulesOf(x.id) : s.cron = c /\ s.enabled /\ LiveJob(s)

(* The loops of refreshSchedulesForRule, over times and over schedules     *)
(* (engine.go:247-277 and 328-332).                                        *)
Loops(h) == pc[h] \in {"lookup", "create", "update", "list", "rows"} \/ Adds(h)

(* How far the loops have got: times not yet asked for, schedules not yet  *)
(* given to the scheduler.                                                 *)
TimesDone(h) ==
    /\ At(h, "read") => \A x \in RulesWithID(req[h].rule) : Ready(x)
    /\ At(h, "sadd") \/ Loops(h) => work[h].seen.enabled /\ work[h].seen.cond.parses
    /\ At(h, "trigger") => ~ work[h].seen.enabled
    /\ pc[h] \in {"create", "update"} => adding[h].enabled
    /\ Loops(h) =>
          \A c \in work[h].seen.cond.crons :
              \/ c \in work[h].crons \/ HasTime(req[h].rule, c)
              \/ pc[h] \in {"create", "update"} /\ adding[h].cron = c
    /\ At(h, "list") \/ work[h].listed => work[h].crons = {}
    /\ At(h, "rows") => work[h].listed
    /\ work[h].listed =>
          \A s \in SchedulesOf(req[h].rule) : s.enabled =>
              s \in work[h].rows \/ LiveJob(s) \/ (Adds(h) /\ s = adding[h])

(* Each time of a rule that no handler has in hand has its schedule and    *)
(* its job.                                                                *)
TimesInv ==
    /\ MaxCrashes = 0
    /\ RightInv
    /\ boot # "serving" => rules = {}
    /\ \A x \in rules : Unhandled(x) => Ready(x)
    /\ \A h \in Handlers : TimesDone(h)

(* RemoveSchedule stops no other schedule's job.                           *)
LEMMA LiveRemains ==
    ASSUME Base, NEW sid, RemoveSchedule(sid), NEW s \in schedules, LiveJob(s), s.id # sid
    PROVE  LiveJob(s)'
<1>1. PICK j \in entries : j.id = jobMap[s.id] /\ j.rule = s.rule /\ j.cron = s.cron
  BY DEF LiveJob
<1>2. s.id \in DOMAIN jobMap'  /\ jobMap'[s.id] = jobMap[s.id]
  BY DEF LiveJob, RemoveSchedule
<1>3. sid \in DOMAIN jobMap => jobMap[sid] # jobMap[s.id]
  BY JobMapInjective DEF Base, JobsInv, LiveJob
<1>4. j \in entries'
  BY <1>1, <1>3 DEF RemoveSchedule
<1> QED
  BY <1>1, <1>2, <1>4 DEF LiveJob

(* What g does to its own jobs stops no job of another row.                *)
LEMMA LiveStays ==
    ASSUME Base, NEW g \in Handlers, HandlerStep(g), NEW s \in schedules, LiveJob(s),
           Adds(g) => s # adding[g], At(g, "rmjob") => s \notin work[g].rows
    PROVE  LiveJob(s)'
<1>0. TypeOK /\ Current(g) /\ \A t \in schedules : t.id = s.id => t = s
  BY DEF Base, SchedInv, MatchInv, RowsDiffer
<1>1. Adds(g) => adding[g].id # s.id
  BY <1>0 DEF Current
<1>2. CASE Unschedule(g)
  BY <1>1, <1>2, LiveRemains DEF Unschedule, Adds, At
<1>3. CASE Schedule(g)
  BY <1>3 DEF Schedule, AddJob, LiveJob
<1>4. CASE RecordJob(g)
  BY <1>1, <1>4 DEF RecordJob, MapJob, WithJob, LiveJob, Adds, At
<1>5. CASE RemoveJob(g)
  <2>1. PICK t \in work[g].rows : RemoveSchedule(t.id)
    BY <1>5 DEF RemoveJob
  <2>2. t \in schedules /\ t # s
    BY <1>0, <1>5, <2>1 DEF Current, RemoveJob
  <2> QED
    BY <1>0, <2>1, <2>2, LiveRemains
<1>6. CASE UNCHANGED schedulerVars
  BY <1>6 DEF LiveJob, schedulerVars
<1> QED
  BY <1>0, <1>2, <1>3, <1>4, <1>5, <1>6, JobKinds

(* What g does to its schedules, no other rule's schedule notices.         *)
LEMMA LiveFrame ==
    ASSUME Base, NEW g \in Handlers, HandlerStep(g), NEW r, r # req[g].rule
    PROVE  /\ SchedulesOf(r)' = SchedulesOf(r)
           /\ \A s \in SchedulesOf(r) : LiveJob(s) => LiveJob(s)'
<1>1. SchedApart(g) /\ Current(g)
  BY SchedFrame DEF Base, SchedInv
<1>2. SchedulesOf(r)' = SchedulesOf(r)
  BY <1>1 DEF SchedApart, SchedulesOf
<1>3. ASSUME NEW s \in SchedulesOf(r), LiveJob(s) PROVE LiveJob(s)'
  <2>1. s \in schedules /\ s.rule # req[g].rule
    BY DEF SchedulesOf
  <2> QED
    BY <1>1, <1>3, <2>1, LiveStays DEF Current
<1> QED
  BY <1>2, <1>3

(* A step of g leaves the other rules' times and the other handlers'       *)
(* progress as they were.                                                  *)
LEMMA ReadyStays ==
    ASSUME Base, NEW g \in Handlers, HandlerStep(g), NEW x, x.id # req[g].rule, Ready(x)
    PROVE  Ready(x)'
  BY LiveFrame DEF Ready

LEMMA TimesOthers ==
    ASSUME Base, TimesInv, NEW g \in Handlers, HandlerStep(g), NEW h \in Handlers, h # g
    PROVE  TimesDone(h)'
<1>1. Same(h) /\ TimesDone(h) /\ TypeOK /\ Shape(h) /\ Current(h)
  BY OthersStay DEF Base, Others, TimesInv, ExclInv, SchedInv
<1>2. CASE Busy(h) /\ ~ Creates(h)
  <2>1. req[h].rule # req[g].rule /\ RulesWithID(req[h].rule)' = RulesWithID(req[h].rule)
    BY <1>2, BusyApart, RowsFrame
  <2>2. /\ SchedulesOf(req[h].rule)' = SchedulesOf(req[h].rule)
        /\ \A s \in SchedulesOf(req[h].rule) : LiveJob(s) => LiveJob(s)'
    <3>1. \A r : r # req[g].rule =>
             /\ SchedulesOf(r)' = SchedulesOf(r)
             /\ \A s \in SchedulesOf(r) : LiveJob(s) => LiveJob(s)'
      BY LiveFrame
    <3> QED
      BY <1>1, <2>1, <3>1 DEF Same, SchedulesOf
  <2>3. \A x \in RulesWithID(req[h].rule) : Ready(x) => Ready(x)'
    BY <2>1, ReadyStays DEF RulesWithID
  <2>4. \A c : HasTime(req[h].rule, c) <=> HasTime(req[h].rule, c)'
    BY <2>2 DEF HasTime
  <2> QED
    BY <1>1, <2>1, <2>2, <2>3, <2>4 DEF TimesDone, Same, At, Adds, Loops
<1>3. CASE ~ (Busy(h) /\ ~ Creates(h))
  BY <1>1, <1>3 DEF TimesDone, Same, At, Adds, Loops, Busy, Creates, Current
<1> QED
  BY <1>2, <1>3

(* Outside the loops, TimesDone says little.                               *)
LEMMA TimesIdle ==
    ASSUME NEW h \in Handlers, Current(h)',
           pc'[h] \in {"idle", "insert", "select", "write", "fetch", "keys", "srem", "rmjob", "rmrow"}
    PROVE  TimesDone(h)'
<1>1. ~ work'[h].listed
  BY DEF Current, Adds, At
<1> QED
  BY <1>1 DEF TimesDone, Loops, Adds, At

(* What TimesDone says of the handler that moves, call by call: arrivals,  *)
LEMMA TimesArrive ==
    ASSUME Base, Base', ~ Overlap, TimesInv, NEW g \in Handlers, Post(g) \/ Patch(g) \/ Delete(g)
    PROVE  TimesDone(g)'
<1> USE DEF At, Goto
<1>0. TypeOK /\ Current(g)' /\ RuleIDs /\ \A h \in Handlers : Shape(h)
  BY DEF Base, SchedInv, ExclInv
<1>1. CASE Post(g) \/ Delete(g)
  <2>1. pc'[g] \in {"insert", "keys"}
    BY <1>0, <1>1, Typed DEF Post, Delete, Receive
  <2> QED
    BY <1>0, <2>1, TimesIdle
<1>2. CASE Patch(g)
  <2>1. PICK r \in 1 .. (nextRule - 1) :
            /\ Untouched(r) /\ pc'[g] = "read" /\ req'[g].rule = r /\ req'[g].op = "patch"
            /\ boot = "serving" /\ UNCHANGED <<rules, schedules, entries, jobMap>>
    BY <1>0, <1>2, Typed DEF Patch, Receive, tables, schedulerVars
  <2>2. \A x \in RulesWithID(r) : Unhandled(x)
    BY <2>1, RestsUnhandled DEF AtRest, RulesWithID, Base
  <2>3. \A x \in RulesWithID(r) : Ready(x)
    BY <2>2 DEF TimesInv, RulesWithID
  <2>4. \A x \in RulesWithID(r) : Ready(x)'
    BY <2>1, <2>3 DEF Ready, LiveJob, SchedulesOf
  <2>5. ~ work'[g].listed
    BY <1>0, <2>1 DEF Current, Adds
  <2> QED
    BY <2>1, <2>4, <2>5 DEF TimesDone, Loops, Adds, RulesWithID
<1> QED
  BY <1>1, <1>2

(* calls on rows and sets,                                                 *)
LEMMA TimesWrite ==
    ASSUME Base, Base', TimesInv, NEW g \in Handlers, HandlerStep(g),
           \/ Write(g) \/ FetchRule(g) \/ GetKeys(g) \/ RemoveAssociation(g)
           \/ TriggerRuleEvaluation(g) \/ Remove(g)
    PROVE  TimesDone(g)'
<1>0. TypeOK /\ Current(g)' /\ pc \in [Handlers -> Labels]
  BY Typed DEF Base, SchedInv
<1>1. pc'[g] \in {"idle", "insert", "select", "write", "fetch", "keys", "srem", "rmjob", "rmrow"}
  BY <1>0
  DEF Write, InsertRule, SelectRule, ReadRule, WriteRule, FetchRule, GetKeys, RemoveAssociation,
      TriggerRuleEvaluation, Remove, ListDoomed, RemoveJob, DeleteSchedule, DeleteRule, Done, Goto, At
<1> QED
  BY <1>0, <1>1, TimesIdle

(* the start of the loop over times,                                       *)
LEMMA TimesAssociate ==
    ASSUME Base, Base', TimesInv, NEW g \in Handlers, HandlerStep(g),
           AssociationsRemoved(g) \/ AddAssociation(g) \/ RefetchRule(g)
    PROVE  TimesDone(g)'
<1> USE DEF At, Goto
<1>0. /\ TypeOK /\ Current(g)' /\ pc \in [Handlers -> Labels] /\ work \in [Handlers -> Work]
      /\ TimesDone(g) /\ Shape(g) /\ Knows(g)
  BY Typed DEF Base, SchedInv, TimesInv, ExclInv
<1>1. ASSUME pc'[g] \in {"sadd", "trigger", "list", "lookup"} PROVE ~ work'[g].listed
  BY <1>0, <1>1 DEF Current, Adds
<1>2. CASE AssociationsRemoved(g)
  <2>1. CASE pc'[g] = "idle"
    BY <1>0, <2>1, TimesIdle
  <2>2. CASE pc'[g] = "trigger" /\ ~ work[g].seen.enabled /\ work' = work
    BY <1>1, <2>2 DEF TimesDone, Loops, Adds
  <2>3. CASE pc'[g] = "sadd" /\ work[g].seen.enabled /\ work[g].seen.cond.parses
             /\ work'[g].seen = work[g].seen
    BY <1>1, <2>3 DEF TimesDone, Loops, Adds
  <2> QED
    BY <1>0, <1>2, <2>1, <2>2, <2>3 DEF AssociationsRemoved, Done, Work
<1>3. CASE AddAssociation(g)
  <2>1. pc[g] = "sadd" /\ pc'[g] = "sadd" /\ work'[g].seen = work[g].seen
    BY <1>0, <1>3 DEF AddAssociation, Work
  <2> QED
    BY <1>0, <1>1, <2>1 DEF TimesDone, Loops, Adds
<1>4. CASE RefetchRule(g)
  <2>1. pc[g] = "sadd" /\ req[g].op # "delete"
    BY <1>0, <1>4 DEF RefetchRule, Shape, Busy
  <2>2. work[g].seen \in RulesWithID(req[g].rule)
    BY <1>0, <2>1 DEF Knows, RulesWithID
  <2>3. PICK x \in RulesWithID(req[g].rule) :
            /\ work'[g].seen = x /\ work'[g].crons = IF x.cond.parses THEN x.cond.crons ELSE {}
            /\ pc'[g] = IF work'[g].crons = {} THEN "list" ELSE "lookup"
    BY <1>0, <1>4, <2>2, Refetches
  <2>4. x = work[g].seen /\ x.enabled /\ x.cond.parses
    BY <1>0, <2>1, SeenRow DEF Early, TimesDone
  <2> QED
    BY <1>1, <2>3, <2>4 DEF TimesDone, Loops, Adds
<1> QED
  BY <1>2, <1>3, <1>4

(* its lookups, INSERTs and UPDATEs,                                       *)
LEMMA TimesRows ==
    ASSUME Base, Base', TimesInv, NEW g \in Handlers, HandlerStep(g),
           LookupSchedule(g) \/ CreateSchedule(g) \/ UpdateSchedule(g)
    PROVE  TimesDone(g)'
<1> USE DEF At, Goto
<1>0. /\ TypeOK /\ TypeOK' /\ Current(g) /\ Current(g)' /\ TimesDone(g) /\ Shape(g) /\ Knows(g)
      /\ pc \in [Handlers -> Labels]
  BY Typed DEF Base, SchedInv, TimesInv, ExclInv
<1>1. CASE LookupSchedule(g)
  <2>1. PICK c \in work[g].crons :
            /\ work'[g].seen = work[g].seen /\ work'[g].listed = work[g].listed
            /\ work'[g].crons = work[g].crons \ {c}
            /\ req' = req /\ schedules' = schedules /\ pc[g] = "lookup"
            /\ adding'[g].cron = c /\ adding'[g].enabled = work[g].seen.enabled
            /\ pc'[g] \in {"create", "update"}
    BY <1>0, <1>1, LooksUp
  <2>2. ~ work[g].listed
    BY <1>0, <2>1 DEF Current, Adds
  <2> QED
    BY <1>0, <2>1, <2>2 DEF TimesDone, Loops, Adds, HasTime, SchedulesOf
<1>2. CASE CreateSchedule(g) \/ UpdateSchedule(g)
  <2>1. /\ pc[g] \in {"create", "update"} /\ work' = work /\ req' = req /\ ~ work[g].listed
        /\ req[g].op # "delete"
    BY <1>0, <1>2 DEF CreateSchedule, UpdateSchedule, Current, Adds, Shape, Busy
  <2>2. RulesWithID(req[g].rule) # {}
    BY <1>0, <2>1 DEF Knows, RulesWithID
  <2>3. /\ pc'[g] = "unschedule"
        /\ \A c : c = adding[g].cron \/ HasTime(req[g].rule, c) => HasTime(req[g].rule, c)'
    <3>1. CASE CreateSchedule(g)
      <4>1. PICK s : /\ s.rule = req[g].rule /\ s.cron = adding[g].cron
                     /\ s.enabled = adding[g].enabled
                     /\ schedules' = schedules \cup {s} /\ adding'[g] = s /\ pc'[g] = "unschedule"
        BY <2>2, <3>1, CreatesRow
      <4>2. adding[g].enabled
        BY <1>0, <2>1 DEF TimesDone
      <4> QED
        BY <2>1, <4>1, <4>2 DEF HasTime, SchedulesOf
    <3>2. CASE UpdateSchedule(g)
      <4>1. PICK s \in schedules :
                /\ s.rule = req[g].rule /\ s.cron = adding[g].cron /\ adding[g].rule = req[g].rule
                /\ schedules' = (schedules \ {s}) \cup {adding[g]}
                /\ pc'[g] = "unschedule" /\ adding' = adding
        BY <3>2, UpdatesRow
      <4>2. adding[g].enabled
        BY <1>0, <2>1 DEF TimesDone
      <4> QED
        BY <2>1, <4>1, <4>2 DEF HasTime, SchedulesOf
    <3> QED
      BY <1>2, <3>1, <3>2
  <2>4. \A c \in work[g].seen.cond.crons : c \in work[g].crons \/ HasTime(req[g].rule, c)'
    BY <1>0, <2>1, <2>3 DEF TimesDone, Loops
  <2> QED
    BY <1>0, <2>1, <2>3, <2>4 DEF TimesDone, Loops, Adds
<1> QED
  BY <1>1, <1>2

(* The job that RecordJob records fires what the schedule's row names.     *)
LEMMA RecordsLive ==
    ASSUME Base, NEW g \in Handlers, RecordJob(g)
    PROVE  \A s \in schedules : s = adding[g] => LiveJob(s)'
<1> SUFFICES ASSUME NEW s \in schedules, s = adding[g] PROVE LiveJob(s)'
  OBVIOUS
<1>1. PICK j \in entries : j.id = entry[g] /\ j.sched = s.id
  BY DEF Base, JobsInv, PendingLive, RecordJob
<1>2. j.rule = s.rule /\ j.cron = s.cron
  BY <1>1 DEF Base, MatchInv, JobsRight, Right
<1>3. s.id \in DOMAIN jobMap' /\ jobMap'[s.id] = entry[g] /\ entries' = entries
  BY DEF RecordJob, MapJob, WithJob
<1> QED
  BY <1>1, <1>2, <1>3 DEF LiveJob

(* the scheduler's calls,                                                  *)
LEMMA TimesJobs ==
    ASSUME Base, Base', TimesInv, NEW g \in Handlers, HandlerStep(g),
           Unschedule(g) \/ Schedule(g) \/ RecordJob(g)
    PROVE  TimesDone(g)'
<1> USE DEF At, Goto, Adds
<1>0. /\ TypeOK /\ Current(g) /\ TimesDone(g) /\ pc \in [Handlers -> Labels]
      /\ adding \in [Handlers -> ScheduleRow]
  BY Typed DEF Base, SchedInv, TimesInv
<1>1. /\ work' = work /\ req' = req /\ schedules' = schedules /\ Adds(g) /\ ~ At(g, "rmjob")
      /\ \/ pc'[g] \in {"addjob", "mapjob"} /\ adding' = adding
         \/ pc'[g] = Added(g)
  BY <1>0 DEF Unschedule, Schedule, RecordJob, tables
<1>2. ASSUME work[g].listed, NEW s \in SchedulesOf(req[g].rule), s.enabled
      PROVE  s \in work[g].rows \/ LiveJob(s)' \/ (Adds(g)' /\ s = adding'[g])
  <2>1. CASE s \in work[g].rows
    BY <2>1
  <2>2. CASE s # adding[g] /\ LiveJob(s)
    BY <1>1, <2>2, LiveStays DEF SchedulesOf
  <2>3. CASE s = adding[g]
    <3>1. CASE Unschedule(g) \/ Schedule(g)
      BY <1>0, <1>2, <2>3, <3>1 DEF Unschedule, Schedule
    <3>2. CASE RecordJob(g)
      BY <2>3, <3>2, RecordsLive DEF SchedulesOf
    <3> QED
      BY <3>1, <3>2
  <2> QED
    BY <1>0, <1>2, <2>1, <2>2, <2>3 DEF TimesDone
<1>3. \A c \in work[g].seen.cond.crons : c \in work[g].crons \/ HasTime(req[g].rule, c)
  BY <1>0, <1>1 DEF TimesDone, Loops
<1>4. \A c : HasTime(req[g].rule, c) <=> HasTime(req[g].rule, c)'
  BY <1>1 DEF HasTime, SchedulesOf
<1>5. work[g].seen.enabled /\ work[g].seen.cond.parses
  BY <1>0, <1>1 DEF TimesDone, Loops
<1>6. pc'[g] \in {"addjob", "mapjob", "rows", "list", "lookup"}
  BY <1>1 DEF Added, NextCondition
<1>7. /\ pc'[g] = "rows" => work[g].listed
      /\ pc'[g] = "list" \/ work[g].listed => work[g].crons = {}
  BY <1>0, <1>1 DEF Added, NextCondition, TimesDone
<1> QED
  BY <1>1, <1>2, <1>3, <1>4, <1>5, <1>6, <1>7 DEF TimesDone, Loops, SchedulesOf

(* and the loop over the schedules listed.                                 *)
LEMMA TimesList ==
    ASSUME Base, Base', TimesInv, NEW g \in Handlers, HandlerStep(g),
           ListSchedules(g) \/ NextSchedule(g)
    PROVE  TimesDone(g)'
<1> USE DEF At, Goto, Adds
<1>0. /\ TypeOK /\ Current(g) /\ TimesDone(g) /\ pc \in [Handlers -> Labels]
      /\ work \in [Handlers -> Work] /\ adding \in [Handlers -> ScheduleRow]
  BY Typed DEF Base, SchedInv, TimesInv
<1>1. /\ req' = req /\ schedules' = schedules /\ UNCHANGED schedulerVars
      /\ work'[g].seen = work[g].seen /\ work'[g].crons = work[g].crons
      /\ pc[g] \in {"list", "rows"}
  BY <1>0 DEF ListSchedules, NextSchedule, tables, Work
<1>2. /\ \A c \in work[g].seen.cond.crons : HasTime(req[g].rule, c)'
      /\ work[g].seen.enabled /\ work[g].seen.cond.parses /\ work[g].crons = {}
  BY <1>0, <1>1 DEF TimesDone, Loops, HasTime, SchedulesOf
<1>3. CASE ListSchedules(g)
  <2>1. work'[g].rows = SchedulesOf(req[g].rule) /\ work'[g].listed /\ pc'[g] = "rows"
    BY <1>0, <1>3 DEF ListSchedules, Work
  <2> QED
    BY <1>1, <1>2, <2>1 DEF TimesDone, Loops, SchedulesOf
<1>4. CASE NextSchedule(g)
  <2>1. PICK s \in work[g].rows : /\ adding' = [adding EXCEPT ![g] = s]
                                  /\ work' = [work EXCEPT ![g].rows = @ \ {s}]
    BY <1>4 DEF NextSchedule
  <2>2. /\ adding'[g] = s /\ work'[g].rows = work[g].rows \ {s} /\ work'[g].listed = work[g].listed
        /\ pc'[g] = "unschedule" /\ pc[g] = "rows"
    BY <1>0, <1>4, <2>1 DEF NextSchedule, Work
  <2>3. work[g].listed /\ \A t \in SchedulesOf(req[g].rule) :
                              t.enabled => t \in work[g].rows \/ LiveJob(t)
    BY <1>0, <2>2 DEF TimesDone
  <2>4. \A t : LiveJob(t) <=> LiveJob(t)'
    BY <1>1 DEF LiveJob, schedulerVars
  <2> QED
    BY <1>1, <1>2, <2>2, <2>3, <2>4 DEF TimesDone, Loops, SchedulesOf
<1> QED
  BY <1>3, <1>4

(* Together.                                                               *)
LEMMA TimesOwn ==
    ASSUME Base, Base', ~ Overlap, TimesInv, NEW g \in Handlers, HandlerStep(g)
    PROVE  TimesDone(g)'
<1>1. ~ CallFails(g)
  BY NoFailure DEF Base, TimesInv, RightInv, DangleInv
<1> QED
  BY <1>1, TimesArrive, TimesWrite, TimesAssociate, TimesRows, TimesJobs, TimesList
  DEF HandlerStep, Step, Refresh

(* A row set free has its times: the refresh that had it has ended.        *)
LEMMA FreeReady ==
    ASSUME Base, Base', TimesInv, NEW g \in Handlers, HandlerStep(g), NEW x \in rules', Unhandled(x)'
    PROVE  Ready(x)'
<1>0. /\ TypeOK /\ ExclInv' /\ MaxFaults = 0 /\ Shape(g) /\ SetsRight(g) /\ TimesDone(g)
  BY DEF Base, TimesInv, RightInv, DangleInv, ExclInv
<1>1. x \in rules
  BY <1>0, Released
<1>2. CASE Unhandled(x)
  <2>1. x.id # req[g].rule
    BY <1>0, <1>1, <1>2, Typed DEF Unhandled, Handles, Busy, Shape, NoRequest, Base, ExclInv, RuleIDs
  <2> QED
    BY <1>1, <1>2, <2>1, ReadyStays DEF TimesInv
<1>3. CASE Busy(g) /\ ~ Creates(g) /\ pc'[g] = "idle" /\ x.id = req[g].rule
  <2>1. UNCHANGED <<schedules, schedulerVars>> /\ x \in RulesWithID(req[g].rule)
    BY <1>0, <1>1, <1>3, Finishes DEF RulesWithID
  <2>2. Ready(x) => Ready(x)'
    BY <2>1 DEF Ready, SchedulesOf, LiveJob, schedulerVars
  <2>3. CASE At(g, "read")
    BY <1>0, <2>1, <2>2, <2>3 DEF TimesDone
  <2>4. CASE /\ At(g, "srem") /\ work[g].keys = {} /\ req[g].op # "delete"
             /\ work[g].seen.enabled /\ ~ work[g].seen.cond.parses
    <3>1. x = work[g].seen
      BY <2>1, <2>4, SeenRow DEF At, Early
    <3> QED
      BY <2>2, <2>4, <3>1 DEF Ready
  <2>5. CASE Refreshed(g)
    <3>1. x = work[g].seen
      BY <1>0, <2>1, <2>5, SeenRow DEF Refreshed, At, Early, Shape, Busy
    <3>2. CASE At(g, "trigger")
      BY <1>0, <2>2, <3>1, <3>2 DEF TimesDone, Ready
    <3>3. CASE At(g, "rows") /\ work[g].rows = {}
      <4>1. \A c \in x.cond.crons : HasTime(x.id, c)
        BY <1>0, <1>3, <3>1, <3>3 DEF TimesDone, Loops, At
      <4>2. \A s \in SchedulesOf(x.id) : s.enabled => LiveJob(s)
        BY <1>0, <1>3, <3>3 DEF TimesDone, Adds, At
      <4> QED
        BY <2>2, <4>1, <4>2 DEF HasTime, Ready
    <3> QED
      BY <2>5, <3>2, <3>3 DEF Refreshed
  <2>6. CASE DeleteRule(g)
    <3>1. x.owner = req[g].user /\ SchedulesOf(req[g].rule) = {}
      BY <1>0, <2>1, <2>6 DEF SetsRight, DeleteRule, At, Shape, Busy
    <3> QED
      BY <1>3, <2>6, <3>1 DEF DeleteRule
  <2> QED
    BY <1>0, <1>3, <2>1, <2>3, <2>4, <2>5, <2>6, Finishes
<1> QED
  BY <1>0, <1>2, <1>3, Released

(* Every step keeps TimesInv.                                              *)
LEMMA NextTimes ==
    Base /\ Base' /\ ~ Overlap /\ TimesInv /\ [Next]_vars /\ [DeletesOwn]_vars => TimesInv'
<1> SUFFICES ASSUME Base, Base', ~ Overlap, TimesInv, [Next]_vars, [DeletesOwn]_vars PROVE TimesInv'
  OBVIOUS
<1>1. RightInv'
  BY NextRight DEF TimesInv
<1>2. CASE UNCHANGED <<rules, schedules, entries, jobMap, pc, req, work, adding, boot>>
  BY <1>1, <1>2
  DEF TimesInv, TimesDone, Ready, LiveJob, HasTime, Loops, Unhandled, Handles, OwnRow, RulesWithID,
      SchedulesOf, At, Adds, Busy
<1>3. CASE Boot
  <2>1. rules' = {} /\ pc' = pc /\ \A h \in Handlers : pc[h] = "idle"
    BY <1>3
    DEF Boot, LoadSchedules, SchedulesLoaded, ClearAssociations, Associate, StartWebServer, tables,
        handlers, TimesInv, Base, StartInv, At
  <2>2. \A h \in Handlers : Current(h)'
    BY DEF Base, SchedInv
  <2>3. \A h \in Handlers : TimesDone(h)'
    BY <2>1, <2>2, TimesIdle
  <2> QED
    BY <1>1, <2>1, <2>3 DEF TimesInv
<1>4. ~ Crash
  BY DEF Crash, TimesInv, Base, TypeOK
<1>5. ASSUME NEW g \in Handlers, HandlerStep(g) PROVE TimesInv'
  <2>1. boot' = boot /\ boot = "serving"
    <3>1. boot' = boot /\ (boot = "serving" \/ ~ At(g, "idle"))
      BY <1>5, HandlersWait DEF HandlerStep
    <3> QED
      BY <3>1 DEF Base, StartInv
  <2>2. \A h \in Handlers : TimesDone(h)'
    BY <1>5, TimesOwn, TimesOthers
  <2>3. \A x \in rules' : Unhandled(x)' => Ready(x)'
    BY <1>5, FreeReady
  <2> QED
    BY <1>1, <2>1, <2>2, <2>3 DEF TimesInv
<1>6. CASE Fire \/ TakeEvaluation \/ UNCHANGED vars
  BY <1>2, <1>6 DEF Fire, TakeEvaluation, vars, schedulerVars, tables, handlers
<1> QED
  BY <1>3, <1>4, <1>5, <1>6 DEF Next, HandlerStep

(* Each time in the condition of an enabled rule that no request works on  *)
(* has an enabled schedule, and cron a job for it (engine.go:237-278 and   *)
(* 304-335, scheduler.go:108-149). The process must not die: a start       *)
(* loads the rows there are (scheduler.go:59) and derives none from        *)
(* conditions, so what died between the UPDATE of a rule and its refresh   *)
(* is never scheduled.                                                     *)
THEOREM TimesRight ==
    ASSUME ~ Overlap, MaxFaults = 0, MaxCrashes = 0 PROVE Spec /\ OwnersDelete => []TimesAtRest
<1>1. Init => Base /\ TimesInv
  <2>1. Init => RightInv
    BY DEF Init, RightInv, DangleInv, AssocRows, SetsDone, SetsRight, At, Adds, Busy
  <2>2. Init => TimesInv
    BY <2>1 DEF Init, TimesInv, TimesDone, Loops, Adds, At, NoWork
  <2> QED
    BY <2>2, InitBase
<1>2. Base /\ TimesInv /\ [Next]_vars /\ [DeletesOwn]_vars => (Base /\ TimesInv)'
  BY NextBase, NextTimes
<1>3. Base /\ TimesInv => TimesAtRest
  <2> SUFFICES ASSUME Base, TimesInv, NEW x \in rules, AtRest(x.id), x.enabled, x.cond.parses
               PROVE  \A c \in x.cond.crons :
                          \E s \in SchedulesOf(x.id) : s.cron = c /\ s.enabled /\ LiveJob(s)
    BY DEF TimesAtRest
  <2>1. Ready(x)
    BY RestsUnhandled DEF TimesInv
  <2> QED
    BY <2>1 DEF Ready
<1> QED
  BY <1>1, <1>2, <1>3, PTL DEF Spec, OwnersDelete

=============================================================================
