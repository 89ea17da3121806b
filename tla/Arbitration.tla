----------------------------- MODULE Arbitration -----------------------------
(***************************************************************************)
(* internal/taskqueue/tasks.go: what a worker does with an evaluate_rule   *)
(* task.  If the rule's conditions hold, the worker does not simply send   *)
(* the rule's commands: it looks for the other rules whose conditions hold *)
(* and that set the same attribute of the same device, and for each        *)
(* attribute the rule with the lowest ID decides.                          *)
(*                                                                         *)
(* Each call on PostgreSQL, Redis or MQTT is a step, and so is each turn   *)
(* of resolveConflicts' loop; between two steps other workers step, rules  *)
(* are enabled and disabled, and device states change the truth of their   *)
(* conditions.                                                             *)
(*                                                                         *)
(* Rule IDs are strings in the code: the decimal digits of an identity     *)
(* column, compared byte by byte.                                          *)
(***************************************************************************)
EXTENDS Naturals, Sequences

CONSTANTS
    Workers,    \* goroutines of the asynq server
    Rules,      \* rule IDs
    Digits,     \* the digits of each rule ID
    Devices, Keys, Values,
    NoDevice,   \* device_id left out: an action that is not on a device
    Plans,      \* what the actions columns of the rules may hold
    MaxTasks,   \* bound: tasks taken from the queue
    MaxChanges  \* bound: times a rule is switched, or its conditions turn

(* The attributes an action sets; "readable" is whether they parse.        *)
Params == UNION {[K -> Values] : K \in SUBSET Keys}
Action == [device: Devices \cup {NoDevice}, readable: BOOLEAN, params: Params]

ASSUME DigitsAssumption == Rules \subseteq Nat /\ Rules # {} /\ Digits \in [Rules -> Seq(Nat)]
(* Two IDs are not written alike.                                          *)
ASSUME NumeralsAssumption == \A r, s \in Rules : Digits[r] = Digits[s] => r = s
ASSUME PlansAssumption ==
    \A p \in Plans : \A r \in Rules : \A n \in DOMAIN p[r] : n \in Nat /\ p[r][n] \in Action
ASSUME BoundsAssumption == MaxTasks \in Nat /\ MaxChanges \in Nat /\ NoDevice \notin Devices

VARIABLES
    actions,  \* column rules.actions, a list for each rule
    enabled,  \* column rules.enabled
    holds,    \* what EvaluateConditions would return for each rule
    pc,       \* the call each worker makes next
    rule,     \* the rule of its task
    targets,  \* affectedTargets: the attributes the rule's own actions set
    todo,     \* rows of allRules it has not looked at
    pending,  \* allPendingActions
    chosen,   \* conflictMap: <<device, key>> -> [rule, value]
    unsent,   \* devices of resolvedActions it has not sent a command to
    told,     \* the last [rule, value] sent for each <<device, key>>
    tasks, changes,              \* counters for the two bounds
    found, still, wasOn, wasTrue \* history: see the properties

world  == <<actions, enabled, holds>>
task   == <<rule, targets, todo, pending, chosen, unsent, found>>
past   == <<still, wasOn, wasTrue>>
vars   == <<world, pc, task, told, tasks, changes, past>>

-----------------------------------------------------------------------------
(* Go's < on strings.                                                      *)
LexLess(s, t) ==
    \E k \in 0 .. Len(s) :
        /\ k <= Len(t)
        /\ \A i \in 1 .. k : s[i] = t[i]
        /\ k < Len(t) /\ (k < Len(s) => s[k + 1] < t[k + 1])

Precedes(r, s) == LexLess(Digits[r], Digits[s])

(* collectPendingActions.  It keeps the list's order, which n stands for.  *)
Pending == [rule: Rules, n: Nat, device: Devices, params: Params]

(* Mutant: actions without a device are not skipped.                       *)
AllPendingActions(r) ==
    {[rule |-> r, n |-> n, device |-> actions[r][n].device, params |-> actions[r][n].params] :
       n \in {m \in DOMAIN actions[r] : actions[r][m].readable}}

PendingActions(r) ==
    {[rule |-> r, n |-> n, device |-> actions[r][n].device, params |-> actions[r][n].params] :
       n \in {m \in DOMAIN actions[r] : actions[r][m].device # NoDevice /\ actions[r][m].readable}}

Targets == Devices \X Keys
Sets(a, t) == a.device = t[1] /\ t[2] \in DOMAIN a.params

(* extractActionTargets *)
ActionTargets(r) == {t \in Targets : \E a \in PendingActions(r) : Sets(a, t)}

(* The filter on other rules' actions.                                     *)
Affects(a, T) == \E t \in T : Sets(a, t)

NothingChosen == [t \in {} |-> 0]

(* One turn of resolveConflicts' outer loop: action a against conflictMap; *)
(* in the mutants, the later of two rules wins, or the later of all.       *)
DecideLast(c, a) ==
    [t \in DOMAIN c \cup {u \in Targets : Sets(a, u)} |->
        IF Sets(a, t) /\ (t \in DOMAIN c => ~ Precedes(a.rule, c[t].rule))
        THEN [rule |-> a.rule, value |-> a.params[t[2]]]
        ELSE c[t]]

DecideKeepsOrder(c, a) ==
    [t \in DOMAIN c \cup {u \in Targets : Sets(a, u)} |->
        IF t \in DOMAIN c THEN c[t] ELSE [rule |-> a.rule, value |-> a.params[t[2]]]]

Decide(c, a) ==
    [t \in DOMAIN c \cup {u \in Targets : Sets(a, u)} |->
        IF Sets(a, t) /\ (t \in DOMAIN c => Precedes(a.rule, c[t].rule))
        THEN [rule |-> a.rule, value |-> a.params[t[2]]]
        ELSE c[t]]

-----------------------------------------------------------------------------
NoRule == CHOOSE r \in Rules : TRUE  \* a worker without a task

At(w, l) == pc[w] = l
Goto(w, l) == pc' = [pc EXCEPT ![w] = l]

(* The task returns; its local variables are gone.                         *)
Return(w) ==
    /\ Goto(w, "idle")
    /\ targets' = [targets EXCEPT ![w] = {}]
    /\ todo' = [todo EXCEPT ![w] = {}]
    /\ pending' = [pending EXCEPT ![w] = {}]
    /\ chosen' = [chosen EXCEPT ![w] = NothingChosen]
    /\ unsent' = [unsent EXCEPT ![w] = {}]
    /\ found' = [found EXCEPT ![w] = {}]
    /\ rule' = [rule EXCEPT ![w] = NoRule]

(* asynq hands the worker a task: on any rule, as any device or schedule   *)
(* may have asked for one.                                                 *)
TakeTask(w) ==
    /\ At(w, "idle") /\ tasks < MaxTasks
    /\ tasks' = tasks + 1
    /\ \E r \in Rules : rule' = [rule EXCEPT ![w] = r]
    /\ still' = [still EXCEPT ![w] = TRUE]
    /\ Goto(w, "fetch")
    /\ UNCHANGED <<world, targets, todo, pending, chosen, unsent, found, told, changes,
                   wasOn, wasTrue>>

(* Mutant: a disabled rule is not left alone.                              *)
FetchRuleAnyway(w) ==
    /\ At(w, "fetch")
    /\ \/ actions[rule[w]] # <<>> /\ Goto(w, "evaluate") /\ UNCHANGED task
       \/ actions[rule[w]] = <<>> /\ Return(w)
    /\ UNCHANGED <<world, told, tasks, changes, past>>

(* Beside disabled rules, areAllActionsRedundant stops those without any   *)
(* action; for another it would have to find the key device:<id>:state,    *)
(* which nothing writes.                                                   *)
FetchRule(w) ==
    /\ At(w, "fetch")
    /\ \/ enabled[rule[w]] /\ actions[rule[w]] # <<>> /\ Goto(w, "evaluate") /\ UNCHANGED task
       \/ ~ (enabled[rule[w]] /\ actions[rule[w]] # <<>>) /\ Return(w)
    /\ UNCHANGED <<world, told, tasks, changes, past>>

Evaluate(w) ==
    /\ At(w, "evaluate")
    /\ \/ ~ holds[rule[w]] /\ Return(w)
       \/ /\ holds[rule[w]]
          /\ targets' = [targets EXCEPT ![w] = ActionTargets(rule[w])]
          /\ found' = [found EXCEPT ![w] = {rule[w]}]
          /\ Goto(w, "fetchall")
          /\ UNCHANGED <<rule, todo, pending, chosen, unsent>>
    /\ UNCHANGED <<world, told, tasks, changes, past>>

FetchAllRules(w) ==
    /\ At(w, "fetchall")
    /\ todo' = [todo EXCEPT ![w] = {r \in Rules : enabled[r] /\ r # rule[w]}]
    /\ Goto(w, "consider")
    /\ UNCHANGED <<world, rule, targets, pending, chosen, unsent, found, told, tasks, changes, past>>

(* The query has no ORDER BY: the rules come in any order.                 *)
Consider(w) ==
    /\ At(w, "consider")
    /\ \E r \in todo[w] :
          /\ todo' = [todo EXCEPT ![w] = @ \ {r}]
          /\ IF holds[r]
             THEN /\ pending' = [pending EXCEPT ![w] =
                                   @ \cup {a \in PendingActions(r) : Affects(a, targets[w])}]
                  /\ found' = [found EXCEPT ![w] = @ \cup {r}]
             ELSE UNCHANGED <<pending, found>>
    /\ UNCHANGED <<world, pc, rule, targets, chosen, unsent, told, tasks, changes, past>>

AddOwnActions(w) ==
    /\ At(w, "consider") /\ todo[w] = {}
    /\ pending' = [pending EXCEPT ![w] = @ \cup PendingActions(rule[w])]
    /\ Goto(w, "resolve")
    /\ UNCHANGED <<world, rule, targets, todo, chosen, unsent, found, told, tasks, changes, past>>

(* Actions of one rule come in the order of its list.                      *)
Resolve(w) ==
    /\ At(w, "resolve")
    /\ \E a \in pending[w] :
          /\ \A b \in pending[w] : b.rule = a.rule => a.n <= b.n
          /\ pending' = [pending EXCEPT ![w] = @ \ {a}]
          /\ chosen' = [chosen EXCEPT ![w] = Decide(@, a)]
    /\ UNCHANGED <<world, pc, rule, targets, todo, unsent, found, told, tasks, changes, past>>

Resolved(w) ==
    /\ At(w, "resolve") /\ pending[w] = {}
    /\ unsent' = [unsent EXCEPT ![w] = {t[1] : t \in DOMAIN chosen[w]}]
    /\ Goto(w, "send")
    /\ UNCHANGED <<world, rule, targets, todo, pending, chosen, found, told, tasks, changes, past>>

(* ExecuteResolvedActions: one message for each device, in any order.      *)
Publish(w) ==
    /\ At(w, "send")
    /\ \E d \in unsent[w] :
          LET sent == {t \in DOMAIN chosen[w] : t[1] = d}
          IN  /\ unsent' = [unsent EXCEPT ![w] = @ \ {d}]
              /\ told' = [t \in DOMAIN told \cup sent |->
                             IF t \in sent THEN chosen[w][t] ELSE told[t]]
    /\ UNCHANGED <<world, pc, rule, targets, todo, pending, chosen, found, tasks, changes, past>>

Finish(w) ==
    /\ At(w, "send") /\ unsent[w] = {}
    /\ Return(w)
    /\ UNCHANGED <<world, told, tasks, changes, past>>

(* PostgreSQL does not answer, or the rule is gone: the task returns an    *)
(* error, and asynq may hand it out again.                                 *)
QueryFails(w) ==
    /\ pc[w] \in {"fetch", "fetchall"}
    /\ Return(w)
    /\ UNCHANGED <<world, told, tasks, changes, past>>

(* Outside the worker: a rule is switched, or its conditions turn.         *)
Switch ==
    /\ changes < MaxChanges
    /\ changes' = changes + 1
    /\ \E r \in Rules :
          /\ enabled' = [enabled EXCEPT ![r] = ~ @]
          /\ wasOn' = wasOn \cup {r}
    /\ still' = [w \in Workers |-> FALSE]
    /\ UNCHANGED <<actions, holds, pc, task, told, tasks, wasTrue>>

Turn ==
    /\ changes < MaxChanges
    /\ changes' = changes + 1
    /\ \E r \in Rules :
          /\ holds' = [holds EXCEPT ![r] = ~ @]
          /\ wasTrue' = wasTrue \cup {r}
    /\ still' = [w \in Workers |-> FALSE]
    /\ UNCHANGED <<actions, enabled, pc, task, told, tasks, wasOn>>

Step(w) ==
    \/ FetchRule(w) \/ Evaluate(w) \/ FetchAllRules(w) \/ Consider(w) \/ AddOwnActions(w)
    \/ Resolve(w) \/ Resolved(w) \/ Publish(w) \/ Finish(w)

Init ==
    /\ actions \in Plans
    /\ enabled \in [Rules -> BOOLEAN] /\ holds \in [Rules -> BOOLEAN]
    /\ pc = [w \in Workers |-> "idle"]
    /\ rule = [w \in Workers |-> NoRule]
    /\ targets = [w \in Workers |-> {}] /\ todo = [w \in Workers |-> {}]
    /\ pending = [w \in Workers |-> {}] /\ unsent = [w \in Workers |-> {}]
    /\ chosen = [w \in Workers |-> NothingChosen]
    /\ found = [w \in Workers |-> {}]
    /\ told = NothingChosen
    /\ tasks = 0 /\ changes = 0
    /\ still = [w \in Workers |-> FALSE]
    /\ wasOn = {r \in Rules : enabled[r]} /\ wasTrue = {r \in Rules : holds[r]}

Next == Switch \/ Turn \/ \E w \in Workers : TakeTask(w) \/ Step(w) \/ QueryFails(w)

Spec == Init /\ [][Next]_vars

-----------------------------------------------------------------------------
(* Properties.                                                             *)

Decision == [rule: Rules, value: Values]
Decisions == UNION {[T -> Decision] : T \in SUBSET Targets}

(* Every variable has its type (tasks.go:41-50 and 195-252).               *)
TypeOK ==
    /\ actions \in Plans /\ enabled \in [Rules -> BOOLEAN] /\ holds \in [Rules -> BOOLEAN]
    /\ pc \in [Workers -> {"idle", "fetch", "evaluate", "fetchall", "consider", "resolve", "send"}]
    /\ rule \in [Workers -> Rules]
    /\ targets \in [Workers -> SUBSET Targets] /\ todo \in [Workers -> SUBSET Rules]
    /\ pending \in [Workers -> SUBSET Pending] /\ unsent \in [Workers -> SUBSET Devices]
    /\ chosen \in [Workers -> Decisions] /\ told \in Decisions
    /\ tasks \in Nat /\ changes \in Nat
    /\ found \in [Workers -> SUBSET Rules] /\ still \in [Workers -> BOOLEAN]
    /\ wasOn \subseteq Rules /\ wasTrue \subseteq Rules

RuleSets(r, t) == \E a \in PendingActions(r) : Sets(a, t)

(* When commands go out, each attribute the rule's actions set has a       *)
(* value, and none of the rules the worker found true that set it comes    *)
(* before the rule that decides: the filter that drops actions before the  *)
(* comparison drops none that would have won (tasks.go:282-324, 195-252).  *)
(* found holds those rules.                                                *)
LeastRuleWins ==
    \A w \in Workers : At(w, "send") =>
        \A t \in targets[w] :
            /\ t \in DOMAIN chosen[w]
            /\ \A r \in found[w] : RuleSets(r, t) => ~ Precedes(r, chosen[w][t].rule)

(* Two workers whose tasks set the same attribute send the same value for  *)
(* it, in whatever order they meet the rules and whichever rule each task  *)
(* is on, if nothing changed since the first of them began (tasks.go:      *)
(* 285-325).  still is whether anything changed since the task began.      *)
AgreeOnTargets ==
    \A v, w \in Workers :
        At(v, "send") /\ At(w, "send") /\ still[v] /\ still[w] =>
            \A t \in targets[v] \cap targets[w] : chosen[v][t] = chosen[w][t]

(* A rule drives a device only if it was enabled at some time and its      *)
(* conditions held at some time (tasks.go:266-276 and 295-301): the rules  *)
(* in wasOn and in wasTrue.                                                *)
DrivenByActive == \A t \in DOMAIN told : told[t].rule \in wasOn \cap wasTrue

=============================================================================
