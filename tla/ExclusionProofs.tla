----------------------------- MODULE ExclusionProofs -----------------------------
(***************************************************************************)
(* Proofs about RuleEngine when clients wait for each answer: requests on  *)
(* one rule, or on one name of one owner, are then kept apart from their   *)
(* arrival to their last call, so that what a handler has read, listed or  *)
(* is about to write is still true, and no schedule gets two jobs. Any     *)
(* number of handlers, users, rules, devices, crashes and failed calls.    *)
(***************************************************************************)
EXTENDS RuleEngineProofs

-----------------------------------------------------------------------------
(* Exclusion.                                                              *)

(* A handler at work on a request, and one whose POST has no row it knows  *)
(* of.                                                                     *)
Busy(h) == pc[h] # "idle"
Creates(h) == pc[h] \in {"insert", "select"}

(* The row that a POST at "select" has inserted, and will find.            *)
OwnRow(h, x) ==
    /\ At(h, "select") /\ x \in rules
    /\ x.name = req[h].copy.name /\ x.owner = req[h].user
    /\ \A y \in rules : y.name = x.name /\ y.owner = x.owner => y.id <= x.id

(* The rule rows a handler works on.                                       *)
Handles(h, x) == (Busy(h) /\ req[h].rule = x.id) \/ OwnRow(h, x)

(* IDs are those PostgreSQL's sequence has given out, one to a row.        *)
RuleIDs ==
    /\ nextRule >= 1
    /\ \A x \in rules : 1 <= x.id /\ x.id < nextRule
    /\ \A x, y \in rules : x.id = y.id => x = y

(* What a label says of the request: a POST knows no ID before its SELECT  *)
(* has found one, every other request names a rule that has existed, and   *)
(* a DELETE takes only the path of delete.                                 *)
Shape(h) ==
    /\ pc[h] = "idle" => req[h] = NoRequest /\ work[h] = NoWork /\ adding[h] = NoSchedule
    /\ Creates(h) => req[h].op = "post" /\ req[h].rule = 0 /\ req[h].copy.owner = req[h].user
    /\ Busy(h) /\ ~ Creates(h) => 1 <= req[h].rule /\ req[h].rule < nextRule
    /\ pc[h] \in {"read", "write"} => req[h].op = "patch"
    /\ pc[h] \in {"rmjob", "rmrow"} => req[h].op = "delete"
    /\ Busy(h) /\ req[h].op = "delete" => pc[h] \in {"keys", "srem", "rmjob", "rmrow"}

(* No two requests are on one rule, and no two POSTs on one name of one    *)
(* owner.                                                                  *)
Alone ==
    \A g, h \in Handlers :
        Busy(g) /\ Busy(h) /\ req[g].rule = req[h].rule /\ req[h].rule # 0 => g = h

OneCreator ==
    \A g, h \in Handlers :
        Creates(g) /\ Creates(h) /\ req[g].copy.name = req[h].copy.name /\ req[g].user = req[h].user
            => g = h

(* g is about to name a row as h has named its own.                        *)
Renames(g, n, u) ==
    /\ req[g].user = u
    /\ \/ At(g, "read") /\ "name" \in req[g].patch.fields /\ req[g].patch.name = n
       \/ At(g, "write") /\ req[g].copy.name = n

(* The row that h's POST has inserted is h's alone, and no other request   *)
(* may become the newest of its name and owner.                            *)
Kept(h, x) ==
    /\ OwnRow(h, x)
    /\ \A g \in Handlers : Busy(g) => req[g].rule # x.id
    /\ \A g \in Handlers : Renames(g, x.name, x.owner) => req[g].rule < x.id

OwnKept == \A h \in Handlers : At(h, "select") => \E x \in rules : Kept(h, x)

(* PATCH writes a copy of the row it has read, merged, which is still      *)
(* that row; the refresh works on the row that is there.                   *)
Knows(h) ==
    /\ At(h, "write") =>
          \E x \in rules : /\ x.id = req[h].rule /\ x.owner = req[h].user
                           /\ req[h].copy = Merge(x, req[h].patch)
    /\ At(h, "fetch") => RulesWithID(req[h].rule) # {}
    /\ pc[h] \notin {"idle", "insert", "select", "read", "write", "fetch"} /\ req[h].op # "delete" =>
          work[h].seen \in rules /\ work[h].seen.id = req[h].rule

(* Clients that wait for each answer keep the requests apart, from their   *)
(* arrival to their last call.                                             *)
ExclInv ==
    /\ RuleIDs /\ Alone /\ OneCreator /\ OwnKept
    /\ \A h \in Handlers : Shape(h) /\ Knows(h)

-----------------------------------------------------------------------------
(* Kinds of steps.                                                         *)

(* A step of handler g changes no variable of another handler.             *)
HandlerStep(g) == Post(g) \/ Patch(g) \/ Delete(g) \/ Step(g) \/ CallFails(g)

Same(h) ==
    /\ pc'[h] = pc[h] /\ req'[h] = req[h] /\ work'[h] = work[h]
    /\ adding'[h] = adding[h] /\ entry'[h] = entry[h]

Others(g) == \A h \in Handlers : h # g => Same(h)

(* The labels before a request has a row in hand.                          *)
Early == {"idle", "insert", "select", "read", "write", "fetch"}

(* The request ends before it has changed the rows.                        *)
Ends(g) == Busy(g) /\ Done(g) /\ UNCHANGED <<rules, nextRule>>

(* The refresh or the removal goes on.                                     *)
Proceeds(g) ==
    /\ UNCHANGED <<rules, nextRule, req>>
    /\ pc[g] \in {"fetch"} \cup (Labels \ Early) /\ pc'[g] \in Labels \ Early
    /\ req[g].op = "delete" => pc'[g] \in {"keys", "srem", "rmjob", "rmrow"}
    /\ pc'[g] \in {"rmjob", "rmrow"} => req[g].op = "delete"
    /\ \/ ~ At(g, "fetch") /\ work'[g].seen = work[g].seen
       \/ work'[g].seen \in rules /\ work'[g].seen.id = req[g].rule

(* The parts of TypeOK that the proofs below need again and again.         *)
LEMMA Typed ==
    ASSUME TypeOK
    PROVE  /\ pc \in [Handlers -> Labels] /\ req \in [Handlers -> Requests]
           /\ work \in [Handlers -> Work] /\ adding \in [Handlers -> ScheduleRow]
           /\ entry \in [Handlers -> Nat]
           /\ nextRule \in Nat /\ rules \subseteq RuleRow
           /\ \A x \in rules : x.id \in Nat
           /\ \A h \in Handlers : req[h].rule \in Nat
  BY DEF TypeOK, RuleRow, Requests

(* Every action of handler g leaves the other handlers where they are.     *)
LEMMA OthersStay == ASSUME TypeOK, NEW g \in Handlers, HandlerStep(g) PROVE Others(g) /\ boot' = boot
<1> USE Typed DEF Others, Same, Goto, handlers, tables, counters
<1>1. CASE Post(g) \/ Patch(g) \/ Delete(g)
  BY <1>1 DEF Post, Patch, Delete, Receive
<1>2. CASE Write(g)
  BY <1>2 DEF Write, InsertRule, SelectRule, ReadRule, WriteRule, Done
<1>3. CASE Refresh(g)
  <2>1. CASE FetchRule(g) \/ GetKeys(g) \/ RemoveAssociation(g) \/ AssociationsRemoved(g)
             \/ AddAssociation(g) \/ RefetchRule(g)
    BY <2>1 DEF FetchRule, GetKeys, RemoveAssociation, AssociationsRemoved, AddAssociation, RefetchRule, Done
  <2>2. CASE LookupSchedule(g) \/ CreateSchedule(g) \/ UpdateSchedule(g)
             \/ Unschedule(g) \/ Schedule(g) \/ RecordJob(g)
    BY <2>2 DEF LookupSchedule, CreateSchedule, UpdateSchedule, Unschedule, Schedule, RecordJob
  <2>3. CASE ListSchedules(g) \/ NextSchedule(g) \/ TriggerRuleEvaluation(g)
    BY <2>3 DEF ListSchedules, NextSchedule, TriggerRuleEvaluation, Done
  <2> QED
    BY <1>3, <2>1, <2>2, <2>3 DEF Refresh
<1>4. CASE Remove(g)
  BY <1>4 DEF Remove, ListDoomed, RemoveJob, DeleteSchedule, DeleteRule, Done
<1>5. CASE CallFails(g)
  BY <1>5 DEF CallFails, EndsRequest, SkipsAssociation, MisreadsLookup, SkipsRest, Done
<1> QED
  BY <1>1, <1>2, <1>3, <1>4, <1>5 DEF HandlerStep, Step

(* What a lookup finds.                                                    *)
LEMMA Lookups ==
    ASSUME TypeOK, NEW g \in Handlers, LookupSchedule(g)
    PROVE  \E c \in work[g].crons :
              /\ work' = [work EXCEPT ![g].crons = @ \ {c}]
              /\ adding'[g].rule = req[g].rule /\ adding'[g].cron = c
              /\ adding'[g].enabled = work[g].seen.enabled
              /\ \/ pc'[g] = "create" /\ \A s \in SchedulesOf(req[g].rule) : s.cron # c
                 \/ /\ pc'[g] = "update"
                    /\ \E s \in SchedulesOf(req[g].rule) : s.id = adding'[g].id /\ s.cron = c
<1> DEFINE wanted(c) == [NoSchedule EXCEPT !.rule = req[g].rule, !.cron = c,
                                           !.enabled = work[g].seen.enabled]
           found(c) == {s \in SchedulesOf(req[g].rule) : s.cron = c}
<1>1. PICK c \in work[g].crons :
          /\ work' = [work EXCEPT ![g].crons = @ \ {c}]
          /\ \/ /\ found(c) = {}
                /\ adding' = [adding EXCEPT ![g] = wanted(c)]
                /\ Goto(g, "create")
             \/ \E s \in found(c) :
                   /\ adding' = [adding EXCEPT ![g] = [wanted(c) EXCEPT !.id = s.id]]
                   /\ Goto(g, "update")
  BY DEF LookupSchedule
<1>2. /\ wanted(c).rule = req[g].rule /\ wanted(c).cron = c
      /\ wanted(c).enabled = work[g].seen.enabled
  BY DEF NoSchedule
<1>3. ASSUME NEW i
      PROVE  LET w == [wanted(c) EXCEPT !.id = i]
             IN  w.id = i /\ w.rule = req[g].rule /\ w.cron = c /\ w.enabled = work[g].seen.enabled
  BY DEF NoSchedule
<1>4. CASE found(c) = {} /\ adding' = [adding EXCEPT ![g] = wanted(c)] /\ Goto(g, "create")
  <2>1. adding'[g] = wanted(c) /\ pc'[g] = "create"
    BY <1>4, Typed DEF Goto
  <2> QED
    BY <1>1, <1>2, <1>4, <2>1
<1>5. ASSUME NEW s \in found(c), Goto(g, "update"),
             adding' = [adding EXCEPT ![g] = [wanted(c) EXCEPT !.id = s.id]]
      PROVE  /\ pc'[g] = "update" /\ s \in SchedulesOf(req[g].rule) /\ s.cron = c
             /\ adding'[g].id = s.id /\ adding'[g].rule = req[g].rule /\ adding'[g].cron = c
             /\ adding'[g].enabled = work[g].seen.enabled
  <2>1. adding'[g] = [wanted(c) EXCEPT !.id = s.id] /\ pc'[g] = "update"
    BY <1>5, Typed DEF Goto
  <2> QED
    BY <1>3, <2>1
<1> HIDE DEF wanted
<1>6. CASE \E s \in found(c) : /\ adding' = [adding EXCEPT ![g] = [wanted(c) EXCEPT !.id = s.id]]
                               /\ Goto(g, "update")
  BY <1>1, <1>5, <1>6
<1> QED
  BY <1>1, <1>4, <1>6

(* A step of a handler is an arrival, a call on the rule rows, the end of  *)
(* a request, or a call of the refresh or the removal.                     *)
LEMMA Kinds ==
    ASSUME TypeOK, ExclInv, NEW g \in Handlers, HandlerStep(g)
    PROVE  \/ Post(g) \/ Patch(g) \/ Delete(g)
           \/ InsertRule(g) \/ SelectRule(g) \/ ReadRule(g) \/ WriteRule(g) \/ DeleteRule(g)
           \/ Ends(g) \/ Proceeds(g)
<1> USE Typed DEF Goto, handlers, tables, counters, At, Proceeds, Ends, Busy, Early, Labels, Work
<1>0. Shape(g) /\ Knows(g)
  BY DEF ExclInv
<1>1. CASE Refresh(g)
  <2>1. CASE FetchRule(g)
    BY <1>0, <2>1 DEF FetchRule, Shape, RulesWithID
  <2>2. CASE GetKeys(g) \/ RemoveAssociation(g) \/ AddAssociation(g)
    BY <1>0, <2>2 DEF GetKeys, RemoveAssociation, AddAssociation, Shape
  <2>3. CASE AssociationsRemoved(g)
    BY <1>0, <2>3 DEF AssociationsRemoved, Shape
  <2>4. CASE RefetchRule(g)
    <3>1. CASE work' = work
      BY <1>0, <2>4, <3>1 DEF RefetchRule, Shape
    <3>2. ASSUME NEW x \in RulesWithID(req[g].rule), NEW c,
                 work' = [work EXCEPT ![g].seen = x, ![g].crons = c],
                 Goto(g, IF c = {} THEN "list" ELSE "lookup")
          PROVE  Proceeds(g)
      <4>1. work'[g].seen = x /\ pc'[g] \in {"list", "lookup"}
        BY <3>2
      <4>2. x \in rules /\ x.id = req[g].rule
        BY DEF RulesWithID
      <4> QED
        BY <1>0, <2>4, <4>1, <4>2 DEF RefetchRule, Shape
    <3> QED
      BY <2>4, <3>1, <3>2 DEF RefetchRule
  <2>5. CASE LookupSchedule(g)
    <3>1. pc'[g] \in {"create", "update"} /\ work'[g].seen = work[g].seen
      BY <2>5, Lookups
    <3> QED
      BY <1>0, <2>5, <3>1 DEF LookupSchedule, Shape
  <2>9. CASE CreateSchedule(g) \/ UpdateSchedule(g)
    BY <1>0, <2>9 DEF CreateSchedule, UpdateSchedule, Shape, NextCondition
  <2>6. CASE Unschedule(g) \/ Schedule(g) \/ RecordJob(g)
    BY <1>0, <2>6 DEF Unschedule, Schedule, RecordJob, Shape, NextCondition, Added
  <2>7. CASE ListSchedules(g) \/ NextSchedule(g)
    BY <1>0, <2>7 DEF ListSchedules, NextSchedule, Shape
  <2>8. CASE TriggerRuleEvaluation(g)
    BY <1>0, <2>8 DEF TriggerRuleEvaluation, Refreshed
  <2> QED
    BY <1>1, <2>1, <2>2, <2>3, <2>4, <2>5, <2>6, <2>7, <2>8, <2>9 DEF Refresh
<1>2. CASE ListDoomed(g) \/ RemoveJob(g) \/ DeleteSchedule(g)
  BY <1>0, <1>2 DEF ListDoomed, RemoveJob, DeleteSchedule, Shape
<1>3. CASE CallFails(g)
  <2>1. CASE EndsRequest(g)
    BY <1>3, <2>1 DEF CallFails, EndsRequest, Refreshed
  <2>2. CASE SkipsAssociation(g) \/ MisreadsLookup(g)
    BY <1>0, <1>3, <2>2 DEF CallFails, SkipsAssociation, MisreadsLookup, Shape
  <2>3. CASE SkipsRest(g)
    BY <1>0, <1>3, <2>3 DEF CallFails, SkipsRest, Shape, NextCondition
  <2> QED
    BY <1>3, <2>1, <2>2, <2>3 DEF CallFails
<1> QED
  BY <1>1, <1>2, <1>3 DEF HandlerStep, Step, Write, Remove

-----------------------------------------------------------------------------
(* Rows and requests of handlers other than g.                             *)

(* g changes no row of another rule.                                       *)
RowsApart(g) == \A x \in rules : x.id # req[g].rule => x \in rules'

(* What the invariant says of the other handlers stays true when g         *)
(* changes no row but its own rule's.                                      *)
LEMMA Bystanders ==
    ASSUME TypeOK, ExclInv, NEW g \in Handlers, Others(g), RowsApart(g), nextRule' \in Nat,
           nextRule <= nextRule', NEW h \in Handlers, h # g
    PROVE  Shape(h)' /\ Knows(h)'
<1>1. /\ Same(h) /\ Shape(h) /\ Knows(h) /\ Shape(g)
      /\ req[h].rule \in Nat /\ nextRule \in Nat
  BY Typed DEF Others, ExclInv
<1>2. Shape(h)'
  BY <1>1 DEF Shape, Same, Busy, Creates
<1>3. ASSUME NEW x \in rules, x.id = req[h].rule PROVE x \in rules'
  <2>1. x.id \in Nat /\ x.id # 0
    BY Typed DEF ExclInv, RuleIDs
  <2>2. Busy(h) => req[g].rule # x.id
    BY <1>1, <1>3, <2>1 DEF ExclInv, Alone, Shape, Busy, NoRequest
  <2>3. Busy(h)
    BY <1>1, <1>3, <2>1 DEF Shape, Busy, NoRequest
  <2> QED
    BY <2>2, <2>3 DEF RowsApart
<1>4. Knows(h)'
  <2>1. At(h, "write")' => \E x \in rules' : /\ x.id = req'[h].rule /\ x.owner = req'[h].user
                                          /\ req'[h].copy = Merge(x, req'[h].patch)
    BY <1>1, <1>3 DEF Knows, Same, At
  <2>2. At(h, "fetch")' => RulesWithID(req[h].rule)' # {}
    BY <1>1, <1>3 DEF Knows, Same, At, RulesWithID
  <2>3. RulesWithID(req[h].rule)' = {x \in rules' : x.id = req'[h].rule}
    BY <1>1 DEF RulesWithID, Same
  <2> QED
    BY <1>1, <1>3, <2>1, <2>2, <2>3 DEF Knows, Same, At, RulesWithID
<1> QED
  BY <1>2, <1>4

(* So does what is kept for a POST that is about to look for its row.      *)
LEMMA KeptStays ==
    ASSUME TypeOK, ExclInv, NEW g \in Handlers, Others(g), RowsApart(g),
           NEW h \in Handlers, h # g, NEW x \in rules, Kept(h, x),
           \A y \in rules' : y.name = x.name /\ y.owner = x.owner => y.id <= x.id,
           Busy(g)' => req'[g].rule # x.id,
           Renames(g, x.name, x.owner)' => req'[g].rule < x.id
    PROVE  x \in rules' /\ Kept(h, x)'
<1>1. Same(h) /\ Shape(g)
  BY DEF Others, ExclInv
<1>2. req[g].rule # x.id
  BY <1>1, Typed DEF Kept, Shape, Busy, NoRequest, ExclInv, RuleIDs
<1>3. x \in rules'
  BY <1>2 DEF RowsApart
<1>4. OwnRow(h, x)'
  BY <1>1, <1>3 DEF Kept, OwnRow, Same, At
<1>5. ASSUME NEW f \in Handlers, Busy(f)' PROVE req'[f].rule # x.id
  BY <1>5 DEF Kept, Others, Same, Busy
<1>6. ASSUME NEW f \in Handlers, Renames(f, x.name, x.owner)' PROVE req'[f].rule < x.id
  <2>1. CASE f = g
    BY <1>6, <2>1
  <2>2. CASE f # g
    BY <1>6, <2>2 DEF Kept, Others, Same, Renames, At
  <2> QED
    BY <2>1, <2>2
<1> QED
  BY <1>3, <1>4, <1>5, <1>6 DEF Kept

(* The parts of ExclInv' that speak of no one handler, for a step of g     *)
(* that neither gives it a new row nor makes it a creator.                 *)
LEMMA StaysAlone ==
    ASSUME TypeOK, ExclInv, NEW g \in Handlers, Others(g),
           Busy(g)' => req'[g].rule = req[g].rule /\ Busy(g)
    PROVE  Alone'
  BY DEF Alone, Others, Same, Busy, ExclInv

LEMMA StaysCreator ==
    ASSUME TypeOK, ExclInv, NEW g \in Handlers, Others(g),
           Creates(g)' => Creates(g) /\ req'[g] = req[g]
    PROVE  OneCreator'
  BY DEF OneCreator, Others, Same, Creates, ExclInv

LEMMA OthersOwn ==
    ASSUME TypeOK, ExclInv, NEW g \in Handlers, Others(g), rules' = rules,
           Busy(g)' => req'[g].rule = req[g].rule /\ Busy(g),
           \A n, u : Renames(g, n, u)' => Renames(g, n, u) /\ req'[g].rule = req[g].rule,
           ~ At(g, "select")'
    PROVE  OwnKept'
<1> SUFFICES ASSUME NEW h \in Handlers, At(h, "select")' PROVE \E x \in rules' : Kept(h, x)'
  BY DEF OwnKept
<1>1. h # g /\ At(h, "select")
  BY DEF Others, Same, At
<1>2. PICK x \in rules : Kept(h, x)
  BY <1>1 DEF ExclInv, OwnKept
<1>3. RowsApart(g)
  BY DEF RowsApart
<1>4. Kept(h, x)'
  BY <1>1, <1>2, <1>3, KeptStays DEF Kept, OwnRow
<1> QED
  BY <1>2, <1>4

-----------------------------------------------------------------------------
(* Each kind of step keeps ExclInv.                                        *)

LEMMA ExclParts ==
    ASSUME NEW g \in Handlers, RuleIDs', Alone', OneCreator', OwnKept', Shape(g)', Knows(g)',
           \A h \in Handlers : h # g => Shape(h)' /\ Knows(h)'
    PROVE  ExclInv'
  BY DEF ExclInv

(* The end of a request.                                                   *)
LEMMA EndsExcl ==
    ASSUME TypeOK, ExclInv, NEW g \in Handlers, Others(g), Ends(g) PROVE ExclInv'
<1>1. /\ pc'[g] = "idle" /\ req'[g] = NoRequest /\ work'[g] = NoWork /\ adding'[g] = NoSchedule
      /\ rules' = rules /\ nextRule' = nextRule /\ nextRule \in Nat
  BY Typed DEF Ends, Done, Goto
<1>2. RuleIDs'
  BY <1>1 DEF ExclInv, RuleIDs
<1>3. Alone' /\ OneCreator'
  BY <1>1, StaysAlone, StaysCreator DEF Busy, Creates
<1>4. OwnKept'
  BY <1>1, OthersOwn DEF Busy, Renames, At
<1>5. Shape(g)' /\ Knows(g)'
  BY <1>1 DEF Shape, Knows, Busy, Creates, At, NoRequest
<1>6. \A h \in Handlers : h # g => Shape(h)' /\ Knows(h)'
  BY <1>1, Bystanders DEF RowsApart
<1> QED
  BY <1>2, <1>3, <1>4, <1>5, <1>6, ExclParts

(* A call of the refresh or of the removal.                                *)
LEMMA ProceedsExcl ==
    ASSUME TypeOK, ExclInv, NEW g \in Handlers, Others(g), Proceeds(g) PROVE ExclInv'
<1>1. /\ req' = req /\ rules' = rules /\ nextRule' = nextRule /\ nextRule \in Nat
      /\ pc[g] \notin {"idle", "insert", "select", "read", "write"}
      /\ pc'[g] \notin {"idle", "insert", "select", "read", "write", "fetch"}
  BY Typed DEF Proceeds, Early
<1>2. RuleIDs'
  BY <1>1 DEF ExclInv, RuleIDs
<1>3. Alone' /\ OneCreator'
  BY <1>1, StaysAlone, StaysCreator DEF Busy, Creates
<1>4. OwnKept'
  BY <1>1, OthersOwn DEF Busy, Renames, At
<1>5. Shape(g)' /\ Knows(g)'
  <2>1. Shape(g) /\ Knows(g)
    BY DEF ExclInv
  <2>2. Shape(g)'
    BY <1>1, <2>1 DEF Shape, Busy, Creates, Proceeds
  <2>3. Knows(g)'
    BY <1>1, <2>1 DEF Knows, At, Proceeds
  <2> QED
    BY <2>2, <2>3
<1>6. \A h \in Handlers : h # g => Shape(h)' /\ Knows(h)'
  BY <1>1, Bystanders DEF RowsApart
<1> QED
  BY <1>2, <1>3, <1>4, <1>5, <1>6, ExclParts

(* PATCH reads the row (automation.go:121) and goes on to write it, or     *)
(* ends.                                                                   *)
LEMMA ReadExcl ==
    ASSUME TypeOK, ExclInv, NEW g \in Handlers, Others(g), ReadRule(g) PROVE ExclInv'
<1>1. CASE Done(g)
  BY <1>1, EndsExcl DEF ReadRule, Ends, Busy, At, tables
<1>2. CASE \E x \in RulesWithID(req[g].rule) :
             /\ x.owner = req[g].user
             /\ req' = [req EXCEPT ![g].copy = Merge(x, req[g].patch)]
             /\ Goto(g, "write")
  <2>1. PICK x \in RulesWithID(req[g].rule) :
             /\ x.owner = req[g].user
             /\ req' = [req EXCEPT ![g].copy = Merge(x, req[g].patch)]
             /\ Goto(g, "write")
    BY <1>2
  <2>2. /\ pc[g] = "read" /\ pc'[g] = "write" /\ x \in rules /\ x.id = req[g].rule
        /\ req'[g].op = req[g].op /\ req'[g].rule = req[g].rule /\ req'[g].user = req[g].user
        /\ req'[g].patch = req[g].patch /\ req'[g].copy = Merge(x, req[g].patch)
        /\ rules' = rules /\ nextRule' = nextRule /\ nextRule \in Nat
    BY <2>1, Typed DEF ReadRule, At, Goto, RulesWithID, tables, Requests
  <2>3. RuleIDs'
    BY <2>2 DEF ExclInv, RuleIDs
  <2>4. Alone' /\ OneCreator'
    BY <2>2, StaysAlone, StaysCreator DEF Busy, Creates
  <2>5. OwnKept'
    <3> SUFFICES ASSUME NEW h \in Handlers, At(h, "select")' PROVE \E y \in rules' : Kept(h, y)'
      BY DEF OwnKept
    <3>1. h # g /\ At(h, "select")
      BY <2>2 DEF Others, Same, At
    <3>2. PICK y \in rules : Kept(h, y)
      BY <3>1 DEF ExclInv, OwnKept
    <3>3. RowsApart(g)
      BY <2>2 DEF RowsApart
    <3>4. req[g].rule # y.id
      BY <2>2, <3>2 DEF Kept, Busy
    <3>5. ASSUME Renames(g, y.name, y.owner)' PROVE req'[g].rule < y.id
      <4>1. req[g].user = y.owner /\ Merge(x, req[g].patch).name = y.name
        BY <2>2, <3>5 DEF Renames, At
      <4>2. CASE "name" \in req[g].patch.fields
        <5>1. req[g].patch.name = y.name
          BY <4>1, <4>2, Typed, <2>2 DEF Merge, RuleRow
        <5> QED
          BY <2>2, <3>2, <4>1, <4>2, <5>1 DEF Kept, Renames, At
      <4>3. CASE "name" \notin req[g].patch.fields
        <5>1. x.name = y.name /\ x.owner = y.owner
          BY <2>1, <2>2, <4>1, <4>3, Typed DEF Merge, RuleRow
        <5>2. x.id <= y.id
          BY <2>2, <3>2, <5>1 DEF Kept, OwnRow
        <5> QED
          BY <2>2, <3>4, <5>2, Typed
      <4> QED
        BY <4>2, <4>3
    <3>6. Kept(h, y)'
      BY <2>2, <3>1, <3>2, <3>3, <3>4, <3>5, KeptStays DEF Kept, OwnRow
    <3> QED
      BY <2>2, <3>6
  <2>6. Shape(g)' /\ Knows(g)'
    <3>1. Shape(g)
      BY DEF ExclInv
    <3>2. Shape(g)'
      BY <2>2, <3>1 DEF Shape, Busy, Creates
    <3>3. Knows(g)'
      BY <2>1, <2>2 DEF Knows, At
    <3> QED
      BY <3>2, <3>3
  <2>7. \A h \in Handlers : h # g => Shape(h)' /\ Knows(h)'
    BY <2>2, Bystanders DEF RowsApart
  <2> QED
    BY <2>3, <2>4, <2>5, <2>6, <2>7, ExclParts
<1> QED
  BY <1>1, <1>2 DEF ReadRule

(* POST's INSERT (automation.go:55): the new row has the greatest ID.      *)
LEMMA InsertExcl ==
    ASSUME TypeOK, ExclInv, NEW g \in Handlers, Others(g), InsertRule(g) PROVE ExclInv'
<1>0. PICK x : x = [req[g].copy EXCEPT !.id = nextRule]
  OBVIOUS
<1>1. /\ pc[g] = "insert" /\ pc'[g] = "select" /\ req' = req /\ nextRule' = nextRule + 1
      /\ rules' = rules \cup {x} /\ nextRule \in Nat
  BY <1>0, Typed DEF InsertRule, At, Goto
<1>2. /\ x.id = nextRule /\ x.name = req[g].copy.name /\ x.owner = req[g].copy.owner
      /\ req[g].copy.owner = req[g].user /\ req[g].rule = 0 /\ req[g].op = "post"
  <2>1. Shape(g) /\ req[g].copy \in RuleRow
    BY Typed DEF ExclInv, Requests
  <2> QED
    BY <1>0, <1>1, <2>1 DEF Shape, Creates, RuleRow
<1>3. RuleIDs'
  BY <1>1, <1>2, Typed DEF ExclInv, RuleIDs
<1>4. Alone' /\ OneCreator'
  BY <1>1, StaysAlone, StaysCreator DEF Busy, Creates
<1>5. RowsApart(g)
  BY <1>1 DEF RowsApart
<1>6. ASSUME NEW h \in Handlers, Busy(h) PROVE req[h].rule < nextRule
  BY <1>6, Typed DEF ExclInv, Shape, RuleIDs
<1>7. \A h \in Handlers : Busy(h)' => req'[h].rule < nextRule
  BY <1>1, <1>6 DEF Others, Same, Busy
<1>8. OwnKept'
  <2> SUFFICES ASSUME NEW h \in Handlers, At(h, "select")' PROVE \E y \in rules' : Kept(h, y)'
    BY DEF OwnKept
  <2>1. CASE h = g
    <3>0. \A y \in rules' : y.id <= x.id
      BY <1>1, <1>2, Typed DEF ExclInv, RuleIDs
    <3>1. OwnRow(g, x)'
      BY <1>1, <1>2, <3>0 DEF OwnRow, At
    <3>2. \A f \in Handlers : Busy(f)' => req'[f].rule # x.id /\ req'[f].rule < x.id
      BY <1>1, <1>2, <1>7, Typed
    <3>3. \A f \in Handlers : Renames(f, x.name, x.owner)' => Busy(f)'
      BY DEF Renames, Busy, At
    <3>4. Kept(g, x)'
      BY <3>1, <3>2, <3>3 DEF Kept
    <3> QED
      BY <1>1, <2>1, <3>4
  <2>2. CASE h # g
    <3>1. At(h, "select") /\ Same(h)
      BY <2>2 DEF Others, Same, At
    <3>2. PICK y \in rules : Kept(h, y)
      BY <3>1 DEF ExclInv, OwnKept
    <3>3. ~ (x.name = y.name /\ x.owner = y.owner)
      BY <1>1, <1>2, <2>2, <3>1, <3>2 DEF ExclInv, OneCreator, Creates, Kept, OwnRow, At
    <3>4. \A z \in rules' : z.name = y.name /\ z.owner = y.owner => z.id <= y.id
      BY <1>1, <3>2, <3>3 DEF Kept, OwnRow
    <3>5. ~ Renames(g, y.name, y.owner)' /\ req'[g].rule # y.id
      BY <1>1, <1>2, <3>2 DEF Renames, At, ExclInv, RuleIDs
    <3> QED
      BY <1>1, <1>5, <2>2, <3>2, <3>4, <3>5, KeptStays
  <2> QED
    BY <2>1, <2>2
<1>9. Shape(g)' /\ Knows(g)'
  <2>1. Shape(g)
    BY DEF ExclInv
  <2> QED
    BY <1>1, <1>2, <2>1 DEF Shape, Knows, Busy, Creates, At
<1>10. \A h \in Handlers : h # g => Shape(h)' /\ Knows(h)'
  BY <1>1, <1>5, Bystanders
<1> QED
  BY <1>3, <1>4, <1>8, <1>9, <1>10, ExclParts

(* POST finds the row that it inserted, and nobody else works on it.       *)
LEMMA FindsOwn ==
    ASSUME TypeOK, ExclInv, NEW g \in Handlers, SelectRule(g)
    PROVE  \E x \in rules : /\ Kept(g, x) /\ pc'[g] = "fetch" /\ work' = work /\ adding' = adding
                           /\ req'[g] = [req[g] EXCEPT !.copy = x, !.rule = x.id]
<1>1. PICK x \in rules : Kept(g, x)
  BY DEF ExclInv, OwnKept, SelectRule
<1>2. \E y \in rules : /\ y.name = req[g].copy.name /\ y.owner = req[g].user
                      /\ \A z \in rules : z.name = req[g].copy.name /\ z.owner = req[g].user => z.id <= y.id
                      /\ req' = [req EXCEPT ![g].copy = y, ![g].rule = y.id]
                      /\ Goto(g, "fetch") /\ UNCHANGED <<work, adding>>
  BY <1>1 DEF SelectRule, Kept, OwnRow
<1>3. PICK y \in rules : /\ y.name = req[g].copy.name /\ y.owner = req[g].user
                      /\ \A z \in rules : z.name = req[g].copy.name /\ z.owner = req[g].user => z.id <= y.id
                      /\ req' = [req EXCEPT ![g].copy = y, ![g].rule = y.id]
                      /\ Goto(g, "fetch") /\ UNCHANGED <<work, adding>>
  BY <1>2
<1>4. x.id <= y.id /\ y.id <= x.id
  BY <1>1, <1>3 DEF Kept, OwnRow
<1>5. x = y
  BY <1>4, Typed DEF ExclInv, RuleIDs
<1> QED
  BY <1>1, <1>3, <1>5, Typed DEF Goto

(* POST's SELECT (automation.go:64): the handler now has its rule.         *)
LEMMA SelectExcl ==
    ASSUME TypeOK, ExclInv, NEW g \in Handlers, Others(g), SelectRule(g) PROVE ExclInv'
<1>1. PICK x \in rules :
          /\ Kept(g, x) /\ pc'[g] = "fetch" /\ work' = work /\ adding' = adding
          /\ req'[g] = [req[g] EXCEPT !.copy = x, !.rule = x.id]
  BY FindsOwn
<1>2. /\ pc[g] = "select" /\ rules' = rules /\ nextRule' = nextRule /\ nextRule \in Nat
      /\ req'[g].op = req[g].op /\ req'[g].rule = x.id
      /\ 1 <= x.id /\ x.id < nextRule
  BY <1>1, Typed DEF SelectRule, At, tables, ExclInv, RuleIDs, Requests
<1>3. RuleIDs'
  BY <1>2 DEF ExclInv, RuleIDs
<1>4. RowsApart(g)
  BY <1>2 DEF RowsApart
<1>5. Alone'
  <2>1. ASSUME NEW h \in Handlers, h # g, Busy(h)' PROVE req'[h].rule # x.id
    BY <1>1, <2>1 DEF Kept, Others, Same, Busy
  <2> QED
    BY <1>2, <2>1 DEF Alone, ExclInv, Others, Same, Busy
<1>6. OneCreator'
  BY <1>1, StaysCreator DEF Creates
<1>7. OwnKept'
  <2> SUFFICES ASSUME NEW h \in Handlers, At(h, "select")' PROVE \E y \in rules' : Kept(h, y)'
    BY DEF OwnKept
  <2>1. h # g /\ At(h, "select")
    BY <1>1 DEF Others, Same, At
  <2>2. PICK y \in rules : Kept(h, y)
    BY <2>1 DEF ExclInv, OwnKept
  <2>3. x.id # y.id
    <3>1. ~ (x.name = y.name /\ x.owner = y.owner)
      BY <1>1, <1>2, <2>1, <2>2 DEF ExclInv, OneCreator, Creates, Kept, OwnRow, At
    <3> QED
      BY <2>2, <3>1 DEF ExclInv, RuleIDs
  <2>4. ~ Renames(g, y.name, y.owner)'
    BY <1>1 DEF Renames, At
  <2> QED
    BY <1>2, <1>4, <2>1, <2>2, <2>3, <2>4, KeptStays DEF Kept, OwnRow
<1>8. Shape(g)' /\ Knows(g)'
  <2>1. Shape(g)
    BY DEF ExclInv
  <2>2. Shape(g)'
    BY <1>1, <1>2, <2>1 DEF Shape, Busy, Creates
  <2>3. Knows(g)'
    BY <1>1, <1>2 DEF Knows, At, RulesWithID
  <2> QED
    BY <2>2, <2>3
<1>9. \A h \in Handlers : h # g => Shape(h)' /\ Knows(h)'
  BY <1>2, <1>4, Bystanders
<1> QED
  BY <1>3, <1>5, <1>6, <1>7, <1>8, <1>9, ExclParts

(* PATCH replaces the row that it has read, in place.                      *)
LEMMA Rewrites ==
    ASSUME TypeOK, ExclInv, NEW g \in Handlers, WriteRule(g)
    PROVE  \E x \in rules :
              /\ x.id = req[g].rule /\ x.owner = req[g].user
              /\ req[g].copy = Merge(x, req[g].patch)
              /\ req[g].copy.id = x.id /\ req[g].copy.owner = x.owner
              /\ rules' = (rules \ {x}) \cup {req[g].copy}
<1>1. PICK x \in rules : /\ x.id = req[g].rule /\ x.owner = req[g].user
                         /\ req[g].copy = Merge(x, req[g].patch)
  BY DEF ExclInv, Knows, WriteRule
<1>2. req[g].copy.id = x.id /\ req[g].copy.owner = x.owner
  BY <1>1, Typed DEF Merge, RuleRow
<1>3. \A y \in rules : y.id = x.id => y = x
  BY DEF ExclInv, RuleIDs
<1>4. rules' = {IF y = x THEN req[g].copy ELSE y : y \in rules}
  BY <1>2, <1>3 DEF WriteRule
<1>5. rules' = (rules \ {x}) \cup {req[g].copy}
  BY <1>4
<1> QED
  BY <1>1, <1>2, <1>5

(* PATCH's UPDATE (automation.go:142).                                     *)
LEMMA WriteExcl ==
    ASSUME TypeOK, ExclInv, NEW g \in Handlers, Others(g), WriteRule(g) PROVE ExclInv'
<1>1. PICK x \in rules :
          /\ x.id = req[g].rule /\ x.owner = req[g].user
          /\ req[g].copy.id = x.id /\ req[g].copy.owner = x.owner
          /\ rules' = (rules \ {x}) \cup {req[g].copy}
  BY Rewrites
<1>2. /\ pc[g] = "write" /\ pc'[g] = "fetch" /\ req' = req /\ nextRule' = nextRule /\ nextRule \in Nat
  BY Typed DEF WriteRule, At, Goto
<1>3. RuleIDs'
  BY <1>1, <1>2 DEF ExclInv, RuleIDs
<1>4. RowsApart(g)
  BY <1>1 DEF RowsApart
<1>5. Alone' /\ OneCreator'
  BY <1>2, StaysAlone, StaysCreator DEF Busy, Creates
<1>6. OwnKept'
  <2> SUFFICES ASSUME NEW h \in Handlers, At(h, "select")' PROVE \E y \in rules' : Kept(h, y)'
    BY DEF OwnKept
  <2>1. h # g /\ At(h, "select")
    BY <1>2 DEF Others, Same, At
  <2>2. PICK y \in rules : Kept(h, y)
    BY <2>1 DEF ExclInv, OwnKept
  <2>3. req[g].copy.name = y.name /\ req[g].copy.owner = y.owner => req[g].copy.id <= y.id
    <3> SUFFICES ASSUME req[g].copy.name = y.name, req[g].copy.owner = y.owner
                 PROVE  x.id <= y.id
      BY <1>1
    <3>1. Renames(g, y.name, y.owner)
      BY <1>1, <1>2 DEF Renames, At
    <3>2. x.id < y.id
      BY <1>1, <2>2, <3>1 DEF Kept
    <3> QED
      BY <3>2, Typed
  <2>4. \A z \in rules' : z.name = y.name /\ z.owner = y.owner => z.id <= y.id
    BY <1>1, <2>2, <2>3 DEF Kept, OwnRow
  <2>5. ~ Renames(g, y.name, y.owner)' /\ req'[g].rule # y.id
    BY <1>2, <2>2 DEF Renames, At, Kept, Busy
  <2> QED
    BY <1>4, <2>1, <2>2, <2>4, <2>5, KeptStays
<1>7. Shape(g)' /\ Knows(g)'
  <2>1. Shape(g)
    BY DEF ExclInv
  <2>2. req[g].copy \in rules'
    BY <1>1
  <2>3. Shape(g)'
    BY <1>2, <2>1 DEF Shape, Busy, Creates
  <2>4. Knows(g)'
    BY <1>1, <1>2, <2>2 DEF Knows, At, RulesWithID
  <2> QED
    BY <2>3, <2>4
<1>8. \A h \in Handlers : h # g => Shape(h)' /\ Knows(h)'
  BY <1>2, <1>4, Bystanders
<1> QED
  BY <1>3, <1>5, <1>6, <1>7, <1>8, ExclParts

(* DELETE of the row (automation.go:100).                                  *)
LEMMA DeleteExcl ==
    ASSUME TypeOK, ExclInv, NEW g \in Handlers, Others(g), DeleteRule(g) PROVE ExclInv'
<1>1. /\ pc[g] = "rmjob" /\ pc'[g] = "idle" /\ req'[g] = NoRequest /\ work'[g] = NoWork
      /\ adding'[g] = NoSchedule /\ rules' \subseteq rules /\ nextRule' = nextRule /\ nextRule \in Nat
  BY Typed DEF DeleteRule, Done, At, Goto
<1>2. RowsApart(g)
  BY DEF RowsApart, DeleteRule
<1>3. RuleIDs'
  BY <1>1 DEF ExclInv, RuleIDs
<1>4. Alone' /\ OneCreator'
  BY <1>1, StaysAlone, StaysCreator DEF Busy, Creates
<1>5. OwnKept'
  <2> SUFFICES ASSUME NEW h \in Handlers, At(h, "select")' PROVE \E y \in rules' : Kept(h, y)'
    BY DEF OwnKept
  <2>1. h # g /\ At(h, "select")
    BY <1>1 DEF Others, Same, At
  <2>2. PICK y \in rules : Kept(h, y)
    BY <2>1 DEF ExclInv, OwnKept
  <2> QED
    BY <1>1, <1>2, <2>1, <2>2, KeptStays DEF Kept, OwnRow, Busy, Renames, At
<1>6. Shape(g)' /\ Knows(g)'
  BY <1>1 DEF Shape, Knows, Busy, Creates, At, NoRequest
<1>7. \A h \in Handlers : h # g => Shape(h)' /\ Knows(h)'
  BY <1>1, <1>2, Bystanders
<1> QED
  BY <1>3, <1>4, <1>5, <1>6, <1>7, ExclParts

(* A request arrives on no rule that another one works on.                 *)
LEMMA ArrivesExcl ==
    ASSUME TypeOK, ExclInv, NEW g \in Handlers, Others(g), ~ Busy(g), Busy(g)',
           rules' = rules, nextRule' = nextRule, ~ At(g, "select")', Shape(g)', Knows(g)',
           \A h \in Handlers : Busy(h) /\ req[h].rule = req'[g].rule => req[h].rule = 0,
           \A h \in Handlers : Creates(g)' /\ Creates(h) =>
               ~ (req[h].copy.name = req'[g].copy.name /\ req[h].user = req'[g].user),
           \A h \in Handlers, x \in rules : Kept(h, x) =>
               req'[g].rule # x.id /\ ~ Renames(g, x.name, x.owner)'
    PROVE  ExclInv'
<1>1. RuleIDs'
  BY DEF ExclInv, RuleIDs
<1>2. Alone'
  BY DEF ExclInv, Alone, Others, Same, Busy
<1>3. OneCreator'
  BY DEF ExclInv, OneCreator, Others, Same, Creates
<1>4. RowsApart(g) /\ nextRule \in Nat
  BY Typed DEF RowsApart
<1>5. OwnKept'
  <2> SUFFICES ASSUME NEW h \in Handlers, At(h, "select")' PROVE \E y \in rules' : Kept(h, y)'
    BY DEF OwnKept
  <2>1. h # g /\ At(h, "select")
    BY DEF Others, Same, At
  <2>2. PICK y \in rules : Kept(h, y)
    BY <2>1 DEF ExclInv, OwnKept
  <2> QED
    BY <1>4, <2>1, <2>2, KeptStays DEF Kept, OwnRow
<1>6. \A h \in Handlers : h # g => Shape(h)' /\ Knows(h)'
  BY <1>4, Bystanders
<1> QED
  BY <1>1, <1>2, <1>3, <1>5, <1>6, ExclParts

(* Who POSTs is known by name and owner until its row is found.            *)
LEMMA CreatorIsSeen ==
    ASSUME ExclInv, NEW h \in Handlers, Creates(h)
    PROVE  /\ Creating(req[h].user, req[h].copy.name)
           /\ \A x : x.name = req[h].copy.name /\ x.owner = req[h].user => Touches(h, x)
<1>1. /\ pc[h] # "idle" /\ req[h].op = "post" /\ req[h].rule = 0
      /\ req[h].copy.owner = req[h].user
  BY DEF ExclInv, Shape, Creates
<1> QED
  BY <1>1 DEF Creating, Touches

(* A POST arrives when nobody creates or renames to its name.              *)
LEMMA PostExcl ==
    ASSUME TypeOK, ExclInv, ~ Overlap, NEW g \in Handlers, Others(g), Post(g) PROVE ExclInv'
<1>1. PICK u \in Users, f \in Forms :
          /\ ~ Creating(u, f.name)
          /\ Receive(g, [op |-> "post", user |-> u, rule |-> 0, patch |-> NoPatch,
                         copy |-> [id |-> 0, name |-> f.name, owner |-> u,
                                   enabled |-> f.enabled, cond |-> f.cond]], "insert")
  BY DEF Post
<1>2. /\ pc[g] = "idle" /\ pc'[g] = "insert"
      /\ req'[g].op = "post" /\ req'[g].user = u /\ req'[g].rule = 0
      /\ req'[g].copy.name = f.name /\ req'[g].copy.owner = u
      /\ rules' = rules /\ nextRule' = nextRule
  BY <1>1, Typed DEF Receive, Goto, At, tables
<1>3. Shape(g)' /\ Knows(g)'
  BY <1>2 DEF Shape, Knows, Busy, Creates, At
<1>4. \A h \in Handlers : Creates(h) => ~ (req[h].copy.name = f.name /\ req[h].user = u)
  BY <1>1, CreatorIsSeen
<1>5. \A x \in rules : x.id # 0 /\ ~ Renames(g, x.name, x.owner)'
  BY <1>2, Typed DEF ExclInv, RuleIDs, Renames, At
<1> QED
  BY <1>2, <1>3, <1>4, <1>5, ArrivesExcl DEF Busy, At

(* A PATCH arrives on an untouched rule.                                   *)
LEMMA PatchExcl ==
    ASSUME TypeOK, ExclInv, ~ Overlap, NEW g \in Handlers, Others(g), Patch(g) PROVE ExclInv'
<1>1. PICK u \in Users, r \in 1 .. (nextRule - 1), p \in Patches :
          /\ Untouched(r) /\ ("name" \in p.fields => ~ Creating(u, p.name))
          /\ Receive(g, [op |-> "patch", user |-> u, rule |-> r, patch |-> p, copy |-> NoRule], "read")
  BY DEF Patch
<1>2. /\ pc[g] = "idle" /\ pc'[g] = "read"
      /\ req'[g].op = "patch" /\ req'[g].user = u /\ req'[g].rule = r /\ req'[g].patch = p
      /\ rules' = rules /\ nextRule' = nextRule /\ 1 <= r /\ r < nextRule
  BY <1>1, Typed DEF Receive, Goto, At, tables
<1>3. Shape(g)' /\ Knows(g)'
  BY <1>2 DEF Shape, Knows, Busy, Creates, At
<1>4. \A h \in Handlers : Busy(h) => req[h].rule # r
  BY <1>1 DEF Untouched, Busy
<1>5. ASSUME NEW h \in Handlers, NEW x \in rules, Kept(h, x)
      PROVE  r # x.id /\ ~ Renames(g, x.name, x.owner)'
  <2>1. Creates(h) /\ x.name = req[h].copy.name /\ x.owner = req[h].user
    BY <1>5 DEF Kept, OwnRow, Creates, At
  <2>2. Touches(h, x) /\ Creating(x.owner, x.name)
    BY <2>1, CreatorIsSeen
  <2> QED
    BY <1>1, <1>2, <2>2 DEF Untouched, RulesWithID, Renames, At
<1> QED
  BY <1>2, <1>3, <1>4, <1>5, ArrivesExcl DEF Busy, At, Creates

(* A DELETE arrives on an untouched rule.                                  *)
LEMMA RemovalExcl ==
    ASSUME TypeOK, ExclInv, ~ Overlap, NEW g \in Handlers, Others(g), Delete(g) PROVE ExclInv'
<1>1. PICK u \in Users, r \in 1 .. (nextRule - 1) :
          /\ Untouched(r)
          /\ Receive(g, [op |-> "delete", user |-> u, rule |-> r, patch |-> NoPatch, copy |-> NoRule], "keys")
  BY DEF Delete
<1>2. /\ pc[g] = "idle" /\ pc'[g] = "keys"
      /\ req'[g].op = "delete" /\ req'[g].user = u /\ req'[g].rule = r
      /\ rules' = rules /\ nextRule' = nextRule /\ 1 <= r /\ r < nextRule
  BY <1>1, Typed DEF Receive, Goto, At, tables
<1>3. Shape(g)' /\ Knows(g)'
  BY <1>2 DEF Shape, Knows, Busy, Creates, At
<1>4. \A h \in Handlers : Busy(h) => req[h].rule # r
  BY <1>1 DEF Untouched, Busy
<1>5. ASSUME NEW h \in Handlers, NEW x \in rules, Kept(h, x)
      PROVE  r # x.id /\ ~ Renames(g, x.name, x.owner)'
  <2>1. Creates(h) /\ x.name = req[h].copy.name /\ x.owner = req[h].user
    BY <1>5 DEF Kept, OwnRow, Creates, At
  <2>2. Touches(h, x)
    BY <2>1, CreatorIsSeen
  <2> QED
    BY <1>1, <1>2, <2>2 DEF Untouched, RulesWithID, Renames, At
<1> QED
  BY <1>2, <1>3, <1>4, <1>5, ArrivesExcl DEF Busy, At, Creates

(* The steps that leave requests and rows alone, and the process's death.  *)
Idly == UNCHANGED <<rules, nextRule, pc, req, work, adding>>

LEMMA IdlyExcl == ASSUME ExclInv, Idly PROVE ExclInv'
<1> USE DEF Idly
<1>1. RuleIDs' /\ Alone' /\ OneCreator'
  BY DEF ExclInv, RuleIDs, Alone, OneCreator, Busy, Creates
<1>2. OwnKept'
  BY DEF ExclInv, OwnKept, Kept, OwnRow, Renames, Busy, At
<1>3. \A h \in Handlers : Shape(h)' /\ Knows(h)'
  BY DEF ExclInv, Shape, Knows, Busy, Creates, At, RulesWithID
<1> QED
  BY <1>1, <1>2, <1>3 DEF ExclInv

LEMMA CrashExcl == ASSUME ExclInv, Crash PROVE ExclInv'
<1>1. /\ \A h \in Handlers : /\ pc'[h] = "idle" /\ req'[h] = NoRequest /\ work'[h] = NoWork
                             /\ adding'[h] = NoSchedule
      /\ rules' = rules /\ nextRule' = nextRule
  BY DEF Crash, tables
<1>2. RuleIDs' /\ Alone' /\ OneCreator' /\ OwnKept'
  BY <1>1 DEF ExclInv, RuleIDs, Alone, OneCreator, OwnKept, Busy, Creates, At
<1>3. \A h \in Handlers : Shape(h)' /\ Knows(h)'
  BY <1>1 DEF Shape, Knows, Busy, Creates, At, NoRequest
<1> QED
  BY <1>2, <1>3 DEF ExclInv

(* A start, a cron job and the evaluation of a rule touch no request and   *)
(* no rule.                                                                *)
LEMMA Elsewhere ==
    ASSUME Boot \/ Fire \/ TakeEvaluation \/ UNCHANGED vars PROVE Idly
  BY DEF Boot, LoadSchedules, SchedulesLoaded, ClearAssociations, Associate, StartWebServer,
         Fire, TakeEvaluation, vars, tables, handlers, Idly

(* Every step keeps the invariant, and it holds at the start.              *)
LEMMA NextExcl == TypeOK /\ ExclInv /\ ~ Overlap /\ [Next]_vars => ExclInv'
<1> SUFFICES ASSUME TypeOK, ExclInv, ~ Overlap, [Next]_vars PROVE ExclInv'
  OBVIOUS
<1>1. CASE Boot \/ Fire \/ TakeEvaluation \/ UNCHANGED vars
  BY <1>1, Elsewhere, IdlyExcl
<1>2. CASE Crash
  BY <1>2, CrashExcl
<1>3. ASSUME NEW g \in Handlers, HandlerStep(g) PROVE ExclInv'
  <2>1. Others(g)
    BY <1>3, OthersStay
  <2>2. \/ Post(g) \/ Patch(g) \/ Delete(g)
        \/ InsertRule(g) \/ SelectRule(g) \/ ReadRule(g) \/ WriteRule(g) \/ DeleteRule(g)
        \/ Ends(g) \/ Proceeds(g)
    BY <1>3, Kinds
  <2> QED
    BY <2>1, <2>2, PostExcl, PatchExcl, RemovalExcl, InsertExcl, SelectExcl, ReadExcl, WriteExcl,
       DeleteExcl, EndsExcl, ProceedsExcl
<1> QED
  BY <1>1, <1>2, <1>3 DEF Next, HandlerStep

LEMMA InitExcl == Init => ExclInv
<1> SUFFICES ASSUME Init PROVE ExclInv
  OBVIOUS
<1>1. /\ \A h \in Handlers : /\ pc[h] = "idle" /\ req[h] = NoRequest /\ work[h] = NoWork
                             /\ adding[h] = NoSchedule
      /\ rules = {} /\ nextRule = 1
  BY DEF Init
<1> QED
  BY <1>1 DEF ExclInv, RuleIDs, Alone, OneCreator, OwnKept, Shape, Knows, Busy, Creates, At

(* Clients that wait for each answer never meet in a rule: from the        *)
(* arrival of a request to its end no other handler has its rule, or its   *)
(* name and owner, in hand, whatever fails and however often the process   *)
(* dies. POST may then take the newest row of its name for its own         *)
(* (automation.go:55, 64) and PATCH may write a whole row it read long     *)
(* before (automation.go:121, 142).                                        *)
THEOREM RequestsApart == ASSUME ~ Overlap PROVE Spec => []ExclInv
<1>1. Init => TypeOK /\ ExclInv
  BY InitType, InitExcl
<1>2. TypeOK /\ ExclInv /\ [Next]_vars => (TypeOK /\ ExclInv)'
  BY NextType, NextExcl
<1> QED
  BY <1>1, <1>2, PTL DEF Spec

(* PATCH changes only what it was sent (automation.go:121-142): between    *)
(* the SELECT of the row and the UPDATE of all its columns nobody else     *)
(* writes it. With overlapping requests the run patch_lost_update shows    *)
(* the lost update.                                                        *)
THEOREM PatchKeepsFields == ASSUME ~ Overlap PROVE Spec => PatchOnlyProvided
<1>1. ASSUME TypeOK, ExclInv, [Next]_vars, NEW h \in Handlers, At(h, "write"), pc'[h] = "fetch",
             NEW x \in rules, NEW y \in rules', x.id = req[h].rule, y.id = x.id
      PROVE  KeepsField(x, y, req[h].patch)
  <2>1. WriteRule(h)
    <3>1. CASE Boot \/ Fire \/ TakeEvaluation \/ UNCHANGED vars \/ Crash
      BY <1>1, <3>1, Elsewhere DEF Idly, At, Crash
    <3>2. ASSUME NEW g \in Handlers, HandlerStep(g) PROVE WriteRule(h)
      <4>1. g = h
        BY <1>1, <3>2, OthersStay DEF Others, Same, At
      <4>2. \/ Post(g) \/ Patch(g) \/ Delete(g)
            \/ InsertRule(g) \/ SelectRule(g) \/ ReadRule(g) \/ WriteRule(g) \/ DeleteRule(g)
            \/ Ends(g) \/ Proceeds(g)
        BY <1>1, <3>2, Kinds
      <4>3. ~ (Ends(g) \/ Proceeds(g))
        BY <1>1, <4>1, Typed DEF Ends, Proceeds, Done, Goto, Early
      <4> QED
        BY <1>1, <4>1, <4>2, <4>3
        DEF Post, Patch, Delete, Receive, InsertRule, SelectRule, ReadRule, DeleteRule, At
    <3> QED
      BY <1>1, <3>1, <3>2 DEF Next, HandlerStep
  <2>2. PICK z \in rules : /\ z.id = req[h].rule /\ req[h].copy = Merge(z, req[h].patch)
                           /\ rules' = (rules \ {z}) \cup {req[h].copy}
    BY <1>1, <2>1, Rewrites
  <2>3. z = x /\ y = Merge(x, req[h].patch)
    BY <1>1, <2>2 DEF ExclInv, RuleIDs
  <2> QED
    BY <2>3, Typed, <1>1 DEF Merge, KeepsField, RuleRow
<1>2. TypeOK /\ ExclInv /\ [Next]_vars
        => [\A h \in Handlers : At(h, "write") /\ pc'[h] = "fetch" =>
              \A x \in rules, y \in rules' :
                  x.id = req[h].rule /\ y.id = x.id => KeepsField(x, y, req[h].patch)]_vars
  BY <1>1
<1>3. Spec => []TypeOK /\ []ExclInv
  BY TypeCorrect, RequestsApart
<1> QED
  BY <1>2, <1>3, PTL DEF Spec, PatchOnlyProvided

-----------------------------------------------------------------------------
(* Schedule rows.                                                          *)

(* The calls of AddOrUpdateSchedule around the row it has in hand.         *)
Adds(h) == pc[h] \in {"unschedule", "addjob", "mapjob"}

(* A schedule row has a rule: the foreign key (schema.sql:270).            *)
HasRule == \A s \in schedules : \E x \in rules : x.id = s.rule

(* What h has listed and what it is about to write are rows of its rule.   *)
Current(h) ==
    /\ \A s \in work[h].rows : s \in schedules /\ s.rule = req[h].rule
    /\ pc[h] \in {"create", "update"} => adding[h].rule = req[h].rule
    /\ At(h, "update") => \E s \in schedules : s = [adding[h] EXCEPT !.enabled = s.enabled]
    /\ Adds(h) \/ At(h, "rmrow") => adding[h] \in schedules /\ adding[h].rule = req[h].rule
    /\ At(h, "rmrow") => adding[h] \notin work[h].rows
    /\ work[h].listed => Adds(h) \/ At(h, "rows")
    /\ work[h].rows # {} => work[h].listed \/ pc[h] \in {"rmjob", "rmrow"}

SchedInv == HasRule /\ \A h \in Handlers : Current(h)

(* The invariant that every proof below starts from.                       *)
Base == TypeOK /\ ExclInv /\ JobsInv /\ MatchInv /\ StartInv /\ SchedInv

(* The schedule rows of h's rule are not those of g's.                     *)
LEMMA Foreign ==
    ASSUME TypeOK, ExclInv, HasRule, NEW g \in Handlers, NEW h \in Handlers, h # g,
           NEW s \in schedules, s.rule = req[h].rule
    PROVE  s.rule # req[g].rule
<1>1. s.rule # 0
  BY Typed DEF HasRule, ExclInv, RuleIDs
<1>2. \A f \in Handlers : pc[f] = "idle" => req[f].rule = 0
  BY DEF ExclInv, Shape, NoRequest
<1> QED
  BY <1>1, <1>2 DEF ExclInv, Alone, Busy

(* A step of g changes no schedule row but its own rule's.                 *)
SchedApart(g) ==
    \A s : s.rule # req[g].rule => (s \in schedules <=> s \in schedules')

(* What h has listed stays current when another handler moves.             *)
LEMMA CurrentStays ==
    ASSUME Base, NEW g \in Handlers, Others(g), SchedApart(g), NEW h \in Handlers, h # g
    PROVE  Current(h)'
<1>1. Same(h) /\ Current(h)
  BY DEF Others, Base, SchedInv
<1>2. \A s \in schedules : s.rule = req[h].rule => s \in schedules'
  BY Foreign DEF SchedApart, Base, SchedInv
<1>3. At(h, "update") => \E s \in schedules' : s = [adding[h] EXCEPT !.enabled = s.enabled]
  <2> SUFFICES ASSUME At(h, "update") PROVE \E s \in schedules' : s = [adding[h] EXCEPT !.enabled = s.enabled]
    OBVIOUS
  <2>1. PICK s \in schedules : s = [adding[h] EXCEPT !.enabled = s.enabled]
    BY <1>1 DEF Current
  <2>2. adding[h] \in ScheduleRow /\ adding[h].rule = req[h].rule
    BY <1>1, Typed DEF Current, At, Base
  <2>3. s.rule = req[h].rule
    BY <2>1, <2>2 DEF ScheduleRow
  <2> QED
    BY <1>2, <2>1, <2>3
<1> QED
  BY <1>1, <1>2, <1>3 DEF Current, Same, At, Adds

(* The row is not there, or the schedule is added with a new ID.           *)
LEMMA CreatesRow ==
    ASSUME Base, NEW g \in Handlers, CreateSchedule(g)
    PROVE  \/ /\ RulesWithID(req[g].rule) = {} /\ pc'[g] = NextCondition(g)
              /\ UNCHANGED <<schedules, adding>>
           \/ \E s : /\ s = [adding[g] EXCEPT !.id = nextSched]
                     /\ s.id = nextSched /\ s.rule = req[g].rule
                     /\ s.cron = adding[g].cron /\ s.enabled = adding[g].enabled
                     /\ RulesWithID(req[g].rule) # {}
                     /\ schedules' = schedules \cup {s} /\ adding'[g] = s /\ pc'[g] = "unschedule"
<1>1. PICK s : s = [adding[g] EXCEPT !.id = nextSched]
  OBVIOUS
<1>2. adding[g] \in ScheduleRow /\ adding[g].rule = req[g].rule
  BY Typed DEF Base, SchedInv, Current, CreateSchedule, At
<1>3. /\ s.id = nextSched /\ s.rule = req[g].rule
      /\ s.cron = adding[g].cron /\ s.enabled = adding[g].enabled
  BY <1>1, <1>2 DEF ScheduleRow
<1>4. pc \in [Handlers -> Labels] /\ adding \in [Handlers -> ScheduleRow]
  BY Typed DEF Base
<1>5. CASE RulesWithID(req[g].rule) = {}
  BY <1>4, <1>5 DEF CreateSchedule, Goto
<1>6. CASE RulesWithID(req[g].rule) # {}
  <2>1. adding' = [adding EXCEPT ![g].id = nextSched] /\ schedules' = schedules \cup {s}
        /\ pc'[g] = "unschedule"
    BY <1>1, <1>4, <1>6 DEF CreateSchedule, Goto
  <2>2. adding'[g] = s
    BY <1>1, <1>4, <2>1
  <2> QED
    BY <1>1, <1>3, <1>6, <2>1, <2>2
<1> QED
  BY <1>5, <1>6

(* The row found is replaced by the one with the wanted switch.            *)
LEMMA UpdatesRow ==
    ASSUME Base, NEW g \in Handlers, UpdateSchedule(g)
    PROVE  \E s \in schedules :
              /\ s.id = adding[g].id /\ s.rule = adding[g].rule /\ s.cron = adding[g].cron
              /\ adding[g].rule = req[g].rule
              /\ schedules' = (schedules \ {s}) \cup {adding[g]}
              /\ pc'[g] = "unschedule" /\ adding' = adding
<1>1. PICK s \in schedules : s = [adding[g] EXCEPT !.enabled = s.enabled]
  BY DEF Base, SchedInv, Current, UpdateSchedule
<1>2. /\ adding[g] \in ScheduleRow /\ adding[g].rule = req[g].rule /\ s \in ScheduleRow
      /\ pc \in [Handlers -> Labels] /\ schedules \subseteq ScheduleRow
  BY Typed, ScheduleTypes DEF Base, SchedInv, Current, UpdateSchedule, At
<1>3. s.id = adding[g].id /\ s.rule = adding[g].rule /\ s.cron = adding[g].cron
  BY <1>1, <1>2 DEF ScheduleRow
<1>4. \A t \in schedules : t.id = adding[g].id => t = s
  BY <1>3 DEF Base, MatchInv, RowsDiffer
<1>5. [s EXCEPT !.cron = adding[g].cron, !.enabled = adding[g].enabled] = adding[g]
  BY <1>2, <1>3 DEF ScheduleRow
<1>6. schedules' = {IF t = s THEN adding[g] ELSE t : t \in schedules}
  <2> DEFINE written(t) == IF t.id = adding[g].id
                           THEN [t EXCEPT !.cron = adding[g].cron, !.enabled = adding[g].enabled]
                           ELSE t
  <2>1. \A t \in schedules : written(t) = IF t = s THEN adding[g] ELSE t
    BY <1>3, <1>4, <1>5
  <2>2. schedules' = {written(t) : t \in schedules}
    BY DEF UpdateSchedule
  <2> HIDE DEF written
  <2> QED
    BY <2>1, <2>2
<1>7. schedules' = (schedules \ {s}) \cup {adding[g]}
  BY <1>6
<1> QED
  BY <1>2, <1>3, <1>7 DEF UpdateSchedule, Goto

(* The row that RemoveJob has taken goes, and no other.                    *)
LEMMA DeletesRow ==
    ASSUME Base, NEW g \in Handlers, DeleteSchedule(g)
    PROVE  /\ adding[g] \in schedules /\ adding[g].rule = req[g].rule
           /\ schedules' = schedules \ {adding[g]} /\ pc'[g] = "rmjob" /\ adding' = adding
<1>1. adding[g] \in schedules /\ adding[g].rule = req[g].rule
  BY DEF Base, SchedInv, Current, DeleteSchedule
<1>2. \A s \in schedules : s.id = adding[g].id <=> s = adding[g]
  BY <1>1 DEF Base, MatchInv, RowsDiffer
<1>3. schedules' = schedules \ {adding[g]}
  BY <1>2 DEF DeleteSchedule
<1> QED
  BY <1>1, <1>3, Typed DEF DeleteSchedule, Goto, Base

(* Only three calls of a handler on a live rule write schedule rows.       *)
LEMMA SchedKinds ==
    ASSUME NEW g \in Handlers, HandlerStep(g)
    PROVE  \/ CreateSchedule(g) \/ UpdateSchedule(g) \/ DeleteSchedule(g)
           \/ schedules' = schedules
  BY DEF HandlerStep, Post, Patch, Delete, Receive, Step, Write, InsertRule, SelectRule, ReadRule,
         WriteRule, Refresh, FetchRule, GetKeys, RemoveAssociation, AssociationsRemoved,
         AddAssociation, RefetchRule, LookupSchedule, Unschedule, Schedule, RecordJob,
         ListSchedules, NextSchedule, TriggerRuleEvaluation, Remove, ListDoomed, RemoveJob,
         DeleteRule, CallFails, tables

(* They write only those of the handler's own rule.                        *)
LEMMA SchedFrame ==
    ASSUME Base, NEW g \in Handlers, HandlerStep(g) PROVE SchedApart(g)
<1>1. CASE CreateSchedule(g)
  BY <1>1, CreatesRow DEF SchedApart
<1>2. CASE UpdateSchedule(g)
  BY <1>2, UpdatesRow DEF SchedApart
<1>3. CASE DeleteSchedule(g)
  BY <1>3, DeletesRow DEF SchedApart
<1> QED
  BY <1>1, <1>2, <1>3, SchedKinds DEF SchedApart

(* No call leaves a schedule row without its rule.                         *)
LEMMA RulesStay ==
    ASSUME Base, NEW g \in Handlers, HandlerStep(g) PROVE HasRule'
<1>1. \A x \in rules : SchedulesOf(x.id) # {} => \E y \in rules' : y.id = x.id
  <2>1. CASE rules' = rules
    BY <2>1
  <2>2. CASE InsertRule(g) \/ DeleteRule(g)
    BY <2>2 DEF InsertRule, DeleteRule
  <2>3. CASE WriteRule(g)
    BY <2>3, Rewrites DEF Base
  <2> QED
    BY <2>1, <2>2, <2>3, Kinds
    DEF Base, Post, Patch, Delete, Receive, SelectRule, ReadRule, Ends, Proceeds, tables
<1>2. \A s \in schedules : \E y \in rules' : y.id = s.rule
  BY <1>1 DEF Base, SchedInv, HasRule, SchedulesOf
<1>3. CASE CreateSchedule(g)
  <2>1. rules' = rules
    BY <1>3 DEF CreateSchedule
  <2> QED
    BY <1>2, <1>3, <2>1, CreatesRow DEF HasRule, RulesWithID
<1>4. CASE UpdateSchedule(g)
  BY <1>2, <1>4, UpdatesRow DEF HasRule
<1>5. CASE DeleteSchedule(g)
  BY <1>2, <1>5, DeletesRow DEF HasRule
<1> QED
  BY <1>2, <1>3, <1>4, <1>5, SchedKinds DEF HasRule

(* What a lookup puts into the handler's hand, for the schedules it may    *)
(* find.                                                                   *)
LEMMA LooksUp ==
    ASSUME TypeOK, TypeOK', NEW g \in Handlers, LookupSchedule(g)
    PROVE  \E c \in work[g].crons :
              /\ work'[g].seen = work[g].seen /\ work'[g].rows = work[g].rows
              /\ work'[g].listed = work[g].listed /\ work'[g].crons = work[g].crons \ {c}
              /\ req' = req /\ schedules' = schedules /\ pc[g] = "lookup"
              /\ adding'[g] \in ScheduleRow
              /\ adding'[g].rule = req[g].rule /\ adding'[g].cron = c
              /\ adding'[g].enabled = work[g].seen.enabled
              /\ \/ pc'[g] = "create" /\ \A s \in SchedulesOf(req[g].rule) : s.cron # c
                 \/ /\ pc'[g] = "update"
                    /\ \E s \in schedules : s = [adding'[g] EXCEPT !.enabled = s.enabled]
<1>1. PICK c \in work[g].crons :
          /\ work' = [work EXCEPT ![g].crons = @ \ {c}]
          /\ adding'[g].rule = req[g].rule /\ adding'[g].cron = c
          /\ adding'[g].enabled = work[g].seen.enabled
          /\ \/ pc'[g] = "create" /\ \A s \in SchedulesOf(req[g].rule) : s.cron # c
             \/ /\ pc'[g] = "update"
                /\ \E s \in SchedulesOf(req[g].rule) : s.id = adding'[g].id /\ s.cron = c
  BY Lookups
<1>2. /\ work'[g].seen = work[g].seen /\ work'[g].rows = work[g].rows
      /\ work'[g].listed = work[g].listed /\ work'[g].crons = work[g].crons \ {c}
  BY <1>1, Typed DEF Work
<1>3. adding'[g] \in ScheduleRow
  BY DEF TypeOK
<1>4. req' = req /\ schedules' = schedules /\ pc[g] = "lookup"
  BY DEF LookupSchedule, At, tables
<1>5. ASSUME NEW s \in SchedulesOf(req[g].rule), s.id = adding'[g].id, s.cron = c
      PROVE  s \in schedules /\ s = [adding'[g] EXCEPT !.enabled = s.enabled]
  BY <1>1, <1>3, <1>5, ScheduleTypes DEF SchedulesOf, ScheduleRow
<1> QED
  BY <1>1, <1>2, <1>3, <1>4, <1>5

(* What the second SELECT of the rule (engine.go:308) starts.              *)
LEMMA Refetches ==
    ASSUME TypeOK, NEW g \in Handlers, RefetchRule(g)
    PROVE  /\ pc[g] = "sadd" /\ work[g].keys = {}
           /\ req' = req /\ schedules' = schedules /\ rules' = rules /\ adding' = adding
           /\ assoc' = assoc /\ UNCHANGED schedulerVars
           /\ \/ RulesWithID(req[g].rule) = {} /\ pc'[g] = "trigger" /\ work' = work
              \/ \E x \in RulesWithID(req[g].rule) :
                    /\ work'[g].seen = x
                    /\ work'[g].crons = IF x.cond.parses THEN x.cond.crons ELSE {}
                    /\ work'[g].rows = work[g].rows /\ work'[g].listed = work[g].listed
                    /\ pc'[g] = IF work'[g].crons = {} THEN "list" ELSE "lookup"
<1>1. CASE RulesWithID(req[g].rule) = {} /\ Goto(g, "trigger") /\ UNCHANGED work
  BY <1>1, Typed DEF RefetchRule, At, Goto, tables
<1>2. ASSUME NEW x \in RulesWithID(req[g].rule), NEW c,
             c = IF x.cond.parses THEN x.cond.crons ELSE {},
             work' = [work EXCEPT ![g].seen = x, ![g].crons = c],
             Goto(g, IF c = {} THEN "list" ELSE "lookup")
      PROVE  /\ work'[g].seen = x /\ work'[g].crons = c
             /\ work'[g].rows = work[g].rows /\ work'[g].listed = work[g].listed
             /\ pc'[g] = IF c = {} THEN "list" ELSE "lookup"
  BY <1>2, Typed DEF Goto, Work
<1>3. CASE \E x \in RulesWithID(req[g].rule) :
             LET crons == IF x.cond.parses THEN x.cond.crons ELSE {}
             IN  /\ work' = [work EXCEPT ![g].seen = x, ![g].crons = crons]
                 /\ Goto(g, IF crons = {} THEN "list" ELSE "lookup")
  <2>1. PICK x \in RulesWithID(req[g].rule) :
             LET crons == IF x.cond.parses THEN x.cond.crons ELSE {}
             IN  /\ work' = [work EXCEPT ![g].seen = x, ![g].crons = crons]
                 /\ Goto(g, IF crons = {} THEN "list" ELSE "lookup")
    BY <1>3
  <2>2. PICK c : c = IF x.cond.parses THEN x.cond.crons ELSE {}
    OBVIOUS
  <2>3. /\ work'[g].seen = x /\ work'[g].crons = c
        /\ work'[g].rows = work[g].rows /\ work'[g].listed = work[g].listed
        /\ pc'[g] = IF c = {} THEN "list" ELSE "lookup"
    BY <1>2, <2>1, <2>2
  <2>4. /\ pc[g] = "sadd" /\ work[g].keys = {}
        /\ req' = req /\ schedules' = schedules /\ rules' = rules /\ adding' = adding
        /\ assoc' = assoc /\ UNCHANGED schedulerVars
    BY DEF RefetchRule, At, tables
  <2> QED
    BY <2>2, <2>3, <2>4
<1> QED
  BY <1>1, <1>3 DEF RefetchRule

(* What h has in hand is current after its own step.                       *)
LEMMA CurrentOwn ==
    ASSUME Base, TypeOK', NEW g \in Handlers, HandlerStep(g) PROVE Current(g)'
<1> USE Typed DEF Goto, handlers, tables, counters, At, Adds, Current
<1>0. Shape(g) /\ Current(g) /\ TypeOK /\ HasRule
  BY DEF Base, ExclInv, SchedInv
<1>1. CASE Done(g)
  BY <1>0, <1>1 DEF Done, NoWork
<1>2. ASSUME work'[g].rows = work[g].rows, work'[g].listed = work[g].listed,
             req'[g].rule = req[g].rule \/ work[g].rows = {}, schedules' = schedules,
             ~ At(g, "rows"), ~ Adds(g), pc[g] \notin {"rmjob", "rmrow"},
             pc'[g] \notin {"create", "update", "rmrow"}, ~ Adds(g)'
      PROVE  Current(g)'
  BY <1>0, <1>2
<1>3. CASE Post(g) \/ Patch(g) \/ Delete(g)
  <2>1. work' = work /\ schedules' = schedules /\ pc[g] = "idle" /\ pc'[g] \in {"insert", "read", "keys"}
    BY <1>0, <1>3 DEF Post, Patch, Delete, Receive
  <2>2. work[g].rows = {}
    BY <1>0, <2>1
  <2> QED
    BY <1>2, <2>1, <2>2
<1>4. CASE Write(g) /\ ~ Done(g)
  <2>1. /\ work' = work /\ schedules' = schedules
        /\ pc[g] \in {"insert", "select", "read", "write"} /\ pc'[g] \in {"select", "fetch", "write"}
    BY <1>0, <1>4 DEF Write, InsertRule, SelectRule, ReadRule, WriteRule
  <2>2. work[g].rows = {}
    BY <1>0, <2>1
  <2> QED
    BY <1>2, <2>1, <2>2
<1>5. CASE FetchRule(g) \/ GetKeys(g) \/ RemoveAssociation(g)
        \/ AddAssociation(g) \/ AssociationsRemoved(g)
  <2>1. CASE ~ Done(g)
    <3>1. /\ work'[g].rows = work[g].rows /\ work'[g].listed = work[g].listed /\ req' = req
          /\ schedules' = schedules
          /\ pc[g] \in {"fetch", "keys", "srem", "sadd"}
          /\ pc'[g] \in {"keys", "srem", "trigger", "sadd", "list", "lookup"}
      BY <1>0, <1>5, <2>1
      DEF FetchRule, GetKeys, RemoveAssociation, AddAssociation, AssociationsRemoved, Work
    <3> QED
      BY <1>2, <3>1
  <2> QED
    BY <1>1, <2>1
<1>20. CASE RefetchRule(g)
  BY <1>0, <1>2, <1>20, Refetches
<1>6. CASE LookupSchedule(g)
  BY <1>0, <1>6, LooksUp
<1>7. CASE CreateSchedule(g)
  <2>1. work' = work /\ req' = req /\ pc[g] = "create" /\ work[g].rows = {} /\ ~ work[g].listed
    BY <1>0, <1>7 DEF CreateSchedule
  <2> QED
    BY <1>0, <1>7, <2>1, CreatesRow DEF NextCondition
<1>8. CASE UpdateSchedule(g)
  <2>1. work' = work /\ req' = req /\ pc[g] = "update" /\ work[g].rows = {} /\ ~ work[g].listed
    BY <1>0, <1>8 DEF UpdateSchedule
  <2> QED
    BY <1>0, <1>8, <2>1, UpdatesRow
<1>9. CASE Unschedule(g)
  BY <1>0, <1>9 DEF Unschedule, Added, NextCondition
<1>10. CASE Schedule(g)
  BY <1>0, <1>10 DEF Schedule
<1>11. CASE RecordJob(g)
  BY <1>0, <1>11 DEF RecordJob, Added, NextCondition
<1>12. CASE ListSchedules(g)
  BY <1>0, <1>12 DEF ListSchedules, SchedulesOf, Work
<1>13. CASE NextSchedule(g)
  BY <1>0, <1>13 DEF NextSchedule, Work
<1>14. CASE TriggerRuleEvaluation(g)
  BY <1>1, <1>14 DEF TriggerRuleEvaluation
<1>15. CASE ListDoomed(g)
  BY <1>0, <1>15 DEF ListDoomed, SchedulesOf, Work
<1>16. CASE RemoveJob(g)
  BY <1>0, <1>16 DEF RemoveJob, Work
<1>17. CASE DeleteSchedule(g)
  <2>1. work' = work /\ req' = req /\ pc[g] = "rmrow" /\ adding[g] \notin work[g].rows
    BY <1>0, <1>17 DEF DeleteSchedule
  <2> QED
    BY <1>0, <1>17, <2>1, DeletesRow
<1>18. CASE DeleteRule(g)
  BY <1>1, <1>18 DEF DeleteRule
<1>19. CASE CallFails(g)
  <2>1. CASE EndsRequest(g)
    BY <1>1, <2>1 DEF EndsRequest
  <2>2. CASE SkipsAssociation(g)
    BY <1>0, <1>19, <2>2 DEF CallFails, SkipsAssociation, Work
  <2>3. CASE MisreadsLookup(g)
    BY <1>0, <1>19, <2>3 DEF CallFails, MisreadsLookup, Work
  <2>4. CASE SkipsRest(g)
    BY <1>0, <1>19, <2>4 DEF CallFails, SkipsRest, NextCondition
  <2> QED
    BY <1>19, <2>1, <2>2, <2>3, <2>4 DEF CallFails
<1> QED
  BY <1>1, <1>3, <1>4, <1>5, <1>6, <1>7, <1>8, <1>9, <1>10, <1>11, <1>12, <1>13, <1>14, <1>15,
     <1>16, <1>17, <1>18, <1>19, <1>20
  DEF HandlerStep, Step, Refresh, Remove

(* The schedule rows at the start, at a crash, and through the steps that  *)
(* concern no handler.                                                     *)
LEMMA InitSched == Init => SchedInv
<1> SUFFICES ASSUME Init PROVE SchedInv
  OBVIOUS
<1> QED
  BY DEF Init, SchedInv, HasRule, Current, Adds, At, NoWork

LEMMA IdlySched == ASSUME SchedInv, Idly, schedules' = schedules PROVE SchedInv'
  BY DEF SchedInv, Idly, HasRule, Current, Adds, At

LEMMA CrashSched == ASSUME SchedInv, Crash PROVE SchedInv'
  BY DEF SchedInv, Crash, tables, HasRule, Current, Adds, At, NoWork

LEMMA ElsewhereSched ==
    ASSUME Boot \/ Fire \/ TakeEvaluation \/ UNCHANGED vars
    PROVE  UNCHANGED <<schedules, nextSched, counters>>
  BY DEF Boot, LoadSchedules, SchedulesLoaded, ClearAssociations, Associate, StartWebServer,
         Fire, TakeEvaluation, vars, tables

(* Every step keeps the invariant of the schedule rows.                    *)
LEMMA NextSched == Base /\ TypeOK' /\ [Next]_vars => SchedInv'
<1> SUFFICES ASSUME Base, TypeOK', [Next]_vars PROVE SchedInv'
  OBVIOUS
<1>1. CASE Boot \/ Fire \/ TakeEvaluation \/ UNCHANGED vars
  BY <1>1, Elsewhere, ElsewhereSched, IdlySched DEF Base
<1>2. CASE Crash
  BY <1>2, CrashSched DEF Base
<1>3. ASSUME NEW g \in Handlers, HandlerStep(g) PROVE SchedInv'
  <2>1. Others(g) /\ SchedApart(g)
    BY <1>3, OthersStay, SchedFrame DEF Base
  <2>2. \A h \in Handlers : h # g => Current(h)'
    BY <2>1, CurrentStays
  <2> QED
    BY <1>3, <2>2, CurrentOwn, RulesStay DEF SchedInv
<1> QED
  BY <1>1, <1>2, <1>3 DEF Next, HandlerStep

(* The whole of Base is inductive when requests are kept apart.            *)
LEMMA InitBase == Init => Base
<1>1. Init => StartInv
  BY DEF Init, NewScheduler, StartInv, At
<1> QED
  BY <1>1, InitType, InitExcl, InitJobs, MatchInit, InitSched DEF Base

LEMMA NextBase == Base /\ ~ Overlap /\ [Next]_vars => Base'
<1> SUFFICES ASSUME Base, ~ Overlap, [Next]_vars PROVE Base'
  OBVIOUS
<1>1. TypeOK' /\ JobsInv'
  BY NextType, NextJobs DEF Base
<1>2. ExclInv' /\ MatchInv' /\ StartInv'
  BY NextExcl, MatchStep, StartStep DEF Base
<1>3. SchedInv'
  BY <1>1, NextSched
<1> QED
  BY <1>1, <1>2, <1>3 DEF Base

-----------------------------------------------------------------------------
(* Cron jobs.                                                              *)

(* A job that jobMap knows, or that RecordJob is about to map.             *)
Mapped(j) ==
    \/ j.sched \in DOMAIN jobMap /\ jobMap[j.sched] = j.id
    \/ \E h \in Handlers : At(h, "mapjob") /\ entry[h] = j.id

(* Cron runs no job that the scheduler has lost, and none without a row:   *)
(* what an orphan is.                                                      *)
JobsKept ==
    /\ \A j \in entries : Mapped(j) /\ \E s \in schedules : s.id = j.sched
    /\ \A h \in Handlers :
          pc[h] \in {"addjob", "mapjob", "rmrow"} => adding[h].id \notin DOMAIN jobMap

(* A step that touches neither cron nor the scheduler, nor the labels      *)
(* around its calls, and drops no schedule.                                *)
LEMMA JobsStay ==
    ASSUME JobsKept, UNCHANGED <<entries, jobMap>>,
           \A s \in schedules : \E t \in schedules' : t.id = s.id,
           \A h \in Handlers : At(h, "mapjob") => At(h, "mapjob")' /\ entry'[h] = entry[h],
           \A h \in Handlers : pc'[h] \in {"addjob", "mapjob", "rmrow"} =>
               pc'[h] = pc[h] /\ adding'[h] = adding[h]
    PROVE  JobsKept'
  BY DEF JobsKept, Mapped, At

(* RemoveSchedule (scheduler.go:109) drops the job and its mapping.        *)
LEMMA UnschedulesJobs ==
    ASSUME Base, JobsKept, NEW g \in Handlers, Others(g), schedules' = schedules,
           NEW sid, RemoveSchedule(sid), ~ At(g, "mapjob"), ~ At(g, "mapjob")',
           pc'[g] \in {"addjob", "rmrow"} => adding'[g].id = sid
    PROVE  JobsKept'
<1>1. /\ entries' \subseteq entries /\ DOMAIN jobMap' = DOMAIN jobMap \ {sid}
      /\ \A t \in DOMAIN jobMap \ {sid} : jobMap'[t] = jobMap[t]
      /\ \A j \in entries' : ~ (sid \in DOMAIN jobMap /\ j.id = jobMap[sid])
  BY DEF RemoveSchedule
<1>2. \A j \in entries' : Mapped(j)'
  BY <1>1 DEF JobsKept, Mapped, Others, Same, At
<1>3. \A h \in Handlers :
          pc'[h] \in {"addjob", "mapjob", "rmrow"} => adding'[h].id \notin DOMAIN jobMap'
  BY <1>1 DEF JobsKept, Others, Same, At
<1> QED
  BY <1>1, <1>2, <1>3 DEF JobsKept

(* AddJob (scheduler.go:131): the new job waits for its mapping.           *)
LEMMA SchedulesJob ==
    ASSUME Base, JobsKept, NEW g \in Handlers, Others(g), Schedule(g) PROVE JobsKept'
<1>1. /\ entries' = entries \cup {Job(nextEntry, adding[g])} /\ jobMap' = jobMap
      /\ Job(nextEntry, adding[g]).id = nextEntry
      /\ Job(nextEntry, adding[g]).sched = adding[g].id
      /\ pc[g] = "addjob" /\ pc'[g] = "mapjob" /\ entry'[g] = nextEntry
      /\ adding' = adding /\ schedules' = schedules
  BY Typed DEF Schedule, AddJob, Job, At, Goto, tables, Base
<1>2. adding[g] \in schedules
  BY <1>1 DEF Base, SchedInv, Current, Adds
<1>3. \A j \in entries' : Mapped(j)'
  BY <1>1 DEF JobsKept, Mapped, Others, Same, At
<1>4. \A h \in Handlers :
          pc'[h] \in {"addjob", "mapjob", "rmrow"} => adding'[h].id \notin DOMAIN jobMap'
  BY <1>1 DEF JobsKept, Others, Same, At
<1> QED
  BY <1>1, <1>2, <1>3, <1>4 DEF JobsKept

(* Two handlers in AddOrUpdateSchedule or in the loop of DELETE have       *)
(* different schedules in hand.                                            *)
LEMMA AddsApart ==
    ASSUME Base, NEW g \in Handlers, NEW h \in Handlers, h # g,
           Adds(g) \/ At(g, "rmrow"), Adds(h) \/ At(h, "rmrow")
    PROVE  adding[g].id # adding[h].id
<1>1. /\ adding[g] \in schedules /\ adding[g].rule = req[g].rule
      /\ adding[h] \in schedules /\ adding[h].rule = req[h].rule
  BY DEF Base, SchedInv, Current
<1>2. adding[h].rule # req[g].rule
  BY <1>1, Foreign DEF Base, SchedInv
<1> QED
  BY <1>1, <1>2 DEF Base, MatchInv, RowsDiffer

(* The mapping is written (scheduler.go:144): no other job of the          *)
(* schedule is there to be lost.                                           *)
LEMMA RecordsJob ==
    ASSUME Base, JobsKept, NEW g \in Handlers, Others(g), RecordJob(g) PROVE JobsKept'
<1>1. /\ At(g, "mapjob") /\ entries' = entries /\ schedules' = schedules
      /\ DOMAIN jobMap' = DOMAIN jobMap \cup {adding[g].id} /\ jobMap'[adding[g].id] = entry[g]
      /\ \A s \in DOMAIN jobMap \ {adding[g].id} : jobMap'[s] = jobMap[s]
      /\ pc'[g] \in {"rows", "list", "lookup"}
  BY Typed DEF RecordJob, MapJob, WithJob, Goto, Added, NextCondition, tables, Base
<1>2. adding[g].id \notin DOMAIN jobMap
  BY <1>1 DEF JobsKept, At
<1>3. ASSUME NEW j \in entries, j.id = entry[g] PROVE j.sched = adding[g].id
  BY <1>1, <1>3 DEF Base, JobsInv, JobsFresh, PendingLive
<1>4. \A j \in entries' : Mapped(j)'
  <2> SUFFICES ASSUME NEW j \in entries PROVE Mapped(j)'
    BY <1>1
  <2>1. CASE j.id = entry[g]
    BY <1>1, <1>3, <2>1 DEF Mapped
  <2>2. CASE j.id # entry[g]
    BY <1>1, <1>2, <2>2 DEF JobsKept, Mapped, Others, Same, At
  <2> QED
    BY <2>1, <2>2
<1>5. ASSUME NEW h \in Handlers, pc'[h] \in {"addjob", "mapjob", "rmrow"}
      PROVE  adding'[h].id \notin DOMAIN jobMap'
  <2>1. h # g /\ Same(h)
    BY <1>1, <1>5 DEF Others
  <2>2. adding[h].id # adding[g].id
    BY <1>1, <1>5, <2>1, AddsApart DEF Same, Adds, At
  <2> QED
    BY <1>1, <1>5, <2>1, <2>2 DEF JobsKept, Same
<1> QED
  BY <1>1, <1>4, <1>5 DEF JobsKept

(* The DELETE of a schedule row comes after its job has gone.              *)
LEMMA DeletesJobless ==
    ASSUME Base, JobsKept, NEW g \in Handlers, Others(g), DeleteSchedule(g) PROVE JobsKept'
<1>1. /\ At(g, "rmrow") /\ ~ At(g, "mapjob")' /\ pc'[g] = "rmjob" /\ UNCHANGED <<entries, jobMap>>
      /\ schedules' = schedules \ {adding[g]} /\ adding[g] \in schedules
  BY DeletesRow DEF DeleteSchedule, schedulerVars, At
<1>2. adding[g].id \notin DOMAIN jobMap
  BY <1>1 DEF JobsKept, At
<1>3. ASSUME NEW j \in entries PROVE j.sched # adding[g].id
  <2>1. ASSUME NEW h \in Handlers, At(h, "mapjob"), entry[h] = j.id PROVE j.sched = adding[h].id
    BY <2>1 DEF Base, JobsInv, JobsFresh, PendingLive
  <2>2. \A h \in Handlers : At(h, "mapjob") => adding[h].id # adding[g].id
    BY <1>1, AddsApart DEF Adds, At
  <2> QED
    BY <1>2, <2>1, <2>2 DEF JobsKept, Mapped
<1>4. \A j \in entries : \E s \in schedules' : s.id = j.sched
  BY <1>1, <1>3 DEF JobsKept
<1>5. \A j \in entries : Mapped(j)'
  BY <1>1 DEF JobsKept, Mapped, Others, Same, At
<1>6. \A h \in Handlers :
          pc'[h] \in {"addjob", "mapjob", "rmrow"} => adding'[h].id \notin DOMAIN jobMap'
  BY <1>1 DEF JobsKept, Others, Same
<1> QED
  BY <1>1, <1>4, <1>5, <1>6 DEF JobsKept

(* LoadSchedules (scheduler.go:59) starts with no jobs at all.             *)
LEMMA LoadsJob == ASSUME Base, JobsKept, LoadSchedules PROVE JobsKept'
<1>1. PICK s \in schedules : s.id \notin DOMAIN jobMap /\ LoadSchedule(s)
  BY DEF LoadSchedules
<1>2. /\ entries' = entries \cup {Job(nextEntry, s)}
      /\ Job(nextEntry, s).id = nextEntry /\ Job(nextEntry, s).sched = s.id
      /\ DOMAIN jobMap' = DOMAIN jobMap \cup {s.id} /\ jobMap'[s.id] = nextEntry
      /\ \A t \in DOMAIN jobMap : jobMap'[t] = jobMap[t]
      /\ schedules' = schedules /\ pc' = pc
  BY <1>1 DEF LoadSchedule, LoadSchedules, WithJob, Job, tables, handlers
<1>3. \A h \in Handlers : pc[h] = "idle"
  BY DEF Base, StartInv, LoadSchedules, At
<1> QED
  BY <1>2, <1>3 DEF JobsKept, Mapped, At

(* Every other step of a handler.                                          *)
LEMMA JobKinds ==
    ASSUME TypeOK, NEW g \in Handlers, HandlerStep(g)
    PROVE  \/ Unschedule(g) \/ Schedule(g) \/ RecordJob(g) \/ RemoveJob(g)
           \/ /\ UNCHANGED schedulerVars
              /\ pc[g] \notin {"unschedule", "addjob", "mapjob"}
              /\ pc'[g] \notin {"addjob", "mapjob", "rmrow"}
<1> USE Typed DEF Goto, At
<1>1. CASE Done(g) /\ UNCHANGED schedulerVars /\ pc[g] \notin {"unschedule", "addjob", "mapjob"}
  BY <1>1 DEF Done
<1>2. CASE Post(g) \/ Patch(g) \/ Delete(g)
  BY <1>2 DEF Post, Patch, Delete, Receive
<1>3. CASE Write(g)
  BY <1>1, <1>3 DEF Write, InsertRule, SelectRule, ReadRule, WriteRule
<1>4. CASE FetchRule(g) \/ GetKeys(g) \/ RemoveAssociation(g) \/ AddAssociation(g)
        \/ AssociationsRemoved(g)
  BY <1>1, <1>4 DEF FetchRule, GetKeys, RemoveAssociation, AddAssociation, AssociationsRemoved
<1>5. CASE RefetchRule(g)
  BY <1>5, Refetches
<1>6. CASE LookupSchedule(g)
  <2>1. pc[g] = "lookup" /\ pc'[g] \in {"create", "update"} /\ UNCHANGED schedulerVars
    BY <1>6, Lookups DEF LookupSchedule
  <2> QED
    BY <2>1
<1>7. CASE CreateSchedule(g) \/ UpdateSchedule(g)
  BY <1>7 DEF CreateSchedule, UpdateSchedule, NextCondition
<1>8. CASE ListSchedules(g) \/ NextSchedule(g) \/ ListDoomed(g) \/ DeleteSchedule(g)
  BY <1>8 DEF ListSchedules, NextSchedule, ListDoomed, DeleteSchedule
<1>9. CASE TriggerRuleEvaluation(g) \/ DeleteRule(g)
  BY <1>1, <1>9 DEF TriggerRuleEvaluation, Refreshed, DeleteRule
<1>10. CASE CallFails(g)
  BY <1>1, <1>10
  DEF CallFails, EndsRequest, Refreshed, SkipsAssociation, MisreadsLookup, SkipsRest, NextCondition
<1> QED
  BY <1>2, <1>3, <1>4, <1>5, <1>6, <1>7, <1>8, <1>9, <1>10
  DEF HandlerStep, Step, Refresh, Remove

(* Every step keeps JobsKept.                                              *)
LEMMA HandlerJobs ==
    ASSUME Base, JobsKept, NEW g \in Handlers, HandlerStep(g) PROVE JobsKept'
<1>0. Others(g) /\ TypeOK
  BY OthersStay DEF Base
<1>1. CASE Unschedule(g)
  <2>1. /\ RemoveSchedule(adding[g].id) /\ adding' = adding /\ schedules' = schedules
        /\ ~ At(g, "mapjob") /\ ~ At(g, "mapjob")'
    BY <1>0, <1>1, Typed DEF Unschedule, At, Goto, Added, NextCondition, tables
  <2> QED
    BY <1>0, <2>1, UnschedulesJobs
<1>2. CASE RemoveJob(g)
  <2>1. PICK s \in work[g].rows : RemoveSchedule(s.id) /\ adding' = [adding EXCEPT ![g] = s]
    BY <1>2 DEF RemoveJob
  <2>2. adding'[g] = s /\ schedules' = schedules /\ ~ At(g, "mapjob") /\ ~ At(g, "mapjob")'
    BY <1>0, <1>2, <2>1, Typed DEF RemoveJob, At, Goto, tables
  <2> QED
    BY <1>0, <2>1, <2>2, UnschedulesJobs
<1>3. CASE Schedule(g) \/ RecordJob(g) \/ DeleteSchedule(g)
  BY <1>0, <1>3, SchedulesJob, RecordsJob, DeletesJobless
<1>4. CASE /\ UNCHANGED schedulerVars /\ ~ DeleteSchedule(g)
           /\ pc[g] \notin {"unschedule", "addjob", "mapjob"}
           /\ pc'[g] \notin {"addjob", "mapjob", "rmrow"}
  <2>1. \A s \in schedules : \E t \in schedules' : t.id = s.id
    <3>1. CASE CreateSchedule(g)
      BY <3>1, CreatesRow
    <3>2. CASE UpdateSchedule(g)
      BY <3>2, UpdatesRow
    <3> QED
      BY <1>4, <3>1, <3>2, SchedKinds
  <2> QED
    BY <1>0, <1>4, <2>1, JobsStay DEF Others, Same, At, schedulerVars
<1> QED
  BY <1>0, <1>1, <1>2, <1>3, <1>4, JobKinds

LEMMA NextJobsKept == Base /\ JobsKept /\ [Next]_vars => JobsKept'
<1> SUFFICES ASSUME Base, JobsKept, [Next]_vars PROVE JobsKept'
  OBVIOUS
<1>1. CASE LoadSchedules
  BY <1>1, LoadsJob
<1>2. CASE SchedulesLoaded \/ ClearAssociations \/ Associate \/ StartWebServer
             \/ Fire \/ TakeEvaluation \/ UNCHANGED vars
  <2>1. UNCHANGED <<entries, jobMap, schedules, handlers>>
    BY <1>2 DEF SchedulesLoaded, ClearAssociations, Associate, StartWebServer, Fire, TakeEvaluation,
                vars, schedulerVars, tables
  <2> QED
    BY <2>1, JobsStay DEF handlers, At
<1>3. CASE Crash
  BY <1>3 DEF Crash, RestartScheduler, JobsKept
<1>4. ASSUME NEW g \in Handlers, HandlerStep(g) PROVE JobsKept'
  BY <1>4, HandlerJobs
<1> QED
  BY <1>1, <1>2, <1>3, <1>4 DEF Next, Boot, HandlerStep

LEMMA InitJobsKept == Init => JobsKept
  BY DEF Init, NewScheduler, JobsKept

(* Both invariants, for any number of crashes and failed calls.            *)
LEMMA BaseAndJobs == ASSUME ~ Overlap PROVE Spec => [](Base /\ JobsKept)
<1>1. Init => Base /\ JobsKept
  BY InitBase, InitJobsKept
<1>2. Base /\ JobsKept /\ [Next]_vars => (Base /\ JobsKept)'
  BY NextBase, NextJobsKept
<1> QED
  BY <1>1, <1>2, PTL DEF Spec

(* A pending job is that of the schedule its handler is adding.            *)
LEMMA PendingOwn ==
    ASSUME Base, NEW h \in Handlers, At(h, "mapjob"), NEW j \in entries, j.id = entry[h],
           NEW s \in schedules, s.id = j.sched
    PROVE  s = adding[h] /\ s.rule = req[h].rule
<1>1. j.sched = adding[h].id
  BY DEF Base, JobsInv, JobsFresh, PendingLive
<1>2. adding[h] \in schedules /\ adding[h].rule = req[h].rule
  BY DEF Base, SchedInv, Current, Adds, At
<1> QED
  BY <1>1, <1>2 DEF Base, MatchInv, RowsDiffer

(* Cron's jobs for a schedule have one ID, the one that jobMap holds for   *)
(* it.                                                                     *)
LEMMA OneJob == ASSUME Base, JobsKept PROVE OneJobPerSchedule
<1> SUFFICES ASSUME NEW x \in rules, AtRest(x.id), NEW s \in SchedulesOf(x.id)
             PROVE  Cardinality(JobsOf(s)) <= 1
  BY DEF OneJobPerSchedule
<1>1. s \in schedules /\ s.rule = x.id
  BY DEF SchedulesOf
<1>2. ASSUME NEW j \in JobsOf(s) PROVE j.id = jobMap[s.id]
  <2>1. j \in entries /\ j.sched = s.id
    BY DEF JobsOf
  <2>2. \A h \in Handlers : ~ (At(h, "mapjob") /\ entry[h] = j.id)
    BY <1>1, <2>1, PendingOwn DEF AtRest, Untouched, At
  <2> QED
    BY <2>1, <2>2 DEF JobsKept, Mapped
<1>3. \A j, k \in JobsOf(s) : j = k
  BY <1>2 DEF Base, JobsInv, JobsFresh, JobsOf
<1>4. ASSUME JobsOf(s) = {} PROVE Cardinality(JobsOf(s)) = 0
  BY <1>4, FS_EmptySet
<1>5. ASSUME NEW j, JobsOf(s) = {j} PROVE Cardinality(JobsOf(s)) = 1
  BY <1>5, FS_Singleton, Zenon
<1>6. JobsOf(s) # {} => \E j : JobsOf(s) = {j}
  BY <1>3
<1> QED
  BY <1>4, <1>5, <1>6

(* Cron runs one job for each schedule of a rule at rest                   *)
(* (scheduler.go:108-149), for any number of users, crashes and failed     *)
(* calls, when clients wait for their answers. Two refreshes of one rule   *)
(* would both remove the old job and both add a new one: the run           *)
(* orphan_job.                                                             *)
THEOREM OneJobEach == ASSUME ~ Overlap PROVE Spec => []OneJobPerSchedule
  BY BaseAndJobs, OneJob, PTL

=============================================================================
