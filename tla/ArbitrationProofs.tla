-------------------------- MODULE ArbitrationProofs --------------------------
(***************************************************************************)
(* Proofs about Arbitration for any rules, digits, devices, attributes,    *)
(* actions and workers: every variable keeps its type; no rule that the    *)
(* worker found true loses an attribute of the task's targets to a rule    *)
(* that comes after it; devices are told only what rules that were on and  *)
(* true ask for; and workers that see the same world tell a device the     *)
(* same.                                                                   *)
(***************************************************************************)
EXTENDS Arbitration, TLAPS, WellFoundedInduction

-----------------------------------------------------------------------------
(* The order of rule IDs.                                                  *)

(* No string comes before itself.                                          *)
LEMMA LexIrreflexive == ASSUME NEW s \in Seq(Nat) PROVE ~ LexLess(s, s)
<1> SUFFICES ASSUME LexLess(s, s) PROVE FALSE
  OBVIOUS
<1>1. PICK k \in 0 .. Len(s) : k < Len(s) /\ (k < Len(s) => s[k + 1] < s[k + 1])
  BY DEF LexLess
<1>2. k + 1 \in 1 .. Len(s) /\ Len(s) \in Nat
  BY <1>1
<1>3. s[k + 1] \in Nat
  BY <1>2
<1> QED
  BY <1>1, <1>3

(* If s comes before t and t before u, s comes before u.                   *)
LEMMA LexTransitive ==
    ASSUME NEW s \in Seq(Nat), NEW t \in Seq(Nat), NEW u \in Seq(Nat),
           LexLess(s, t), LexLess(t, u)
    PROVE  LexLess(s, u)
<1>0. /\ Len(s) \in Nat /\ Len(t) \in Nat /\ Len(u) \in Nat
      /\ \A i \in 1 .. Len(s) : s[i] \in Nat
      /\ \A i \in 1 .. Len(t) : t[i] \in Nat
      /\ \A i \in 1 .. Len(u) : u[i] \in Nat
  OBVIOUS
<1>1. PICK k \in 0 .. Len(s) : /\ k <= Len(t) /\ \A i \in 1 .. k : s[i] = t[i]
                               /\ k < Len(t) /\ (k < Len(s) => s[k + 1] < t[k + 1])
  BY DEF LexLess
<1>2. PICK m \in 0 .. Len(t) : /\ m <= Len(u) /\ \A i \in 1 .. m : t[i] = u[i]
                               /\ m < Len(u) /\ (m < Len(t) => t[m + 1] < u[m + 1])
  BY DEF LexLess
<1>3. CASE k <= m
  <2>1. \A i \in 1 .. k : s[i] = u[i]
    BY <1>1, <1>2, <1>3
  <2>2. k < Len(s) => s[k + 1] < u[k + 1]
    <3>1. CASE k = m
      BY <1>0, <1>1, <1>2, <3>1
    <3>2. CASE k < m
      <4>1. k + 1 \in 1 .. m
        BY <1>1, <1>2, <3>2
      <4> QED
        BY <1>0, <1>1, <1>2, <4>1
    <3> QED
      BY <1>1, <1>2, <1>3, <3>1, <3>2
  <2>3. k \in 0 .. Len(s) /\ k <= Len(u) /\ k < Len(u)
    BY <1>0, <1>1, <1>2, <1>3
  <2> QED
    BY <2>1, <2>2, <2>3 DEF LexLess
<1>4. CASE m < k
  <2>1. m \in 0 .. Len(s) /\ \A i \in 1 .. m : s[i] = u[i]
    BY <1>0, <1>1, <1>2, <1>4
  <2>2. m + 1 \in 1 .. k
    BY <1>1, <1>2, <1>4
  <2>3. s[m + 1] < u[m + 1]
    BY <1>0, <1>1, <1>2, <1>4, <2>2
  <2> QED
    BY <1>2, <2>1, <2>3 DEF LexLess
<1> QED
  BY <1>0, <1>1, <1>2, <1>3, <1>4

(* So the order the code compares rule IDs by is a strict order.           *)
LEMMA PrecedesStrict ==
    /\ \A r \in Rules : ~ Precedes(r, r)
    /\ \A q, r, s \in Rules : Precedes(q, r) /\ Precedes(r, s) => Precedes(q, s)
  BY LexIrreflexive, LexTransitive, DigitsAssumption DEF Precedes

-----------------------------------------------------------------------------
(* Type correctness.                                                       *)

LEMMA PendingType == ASSUME actions \in Plans, NEW r \in Rules PROVE PendingActions(r) \subseteq Pending
  BY PlansAssumption DEF PendingActions, Pending, Action

LEMMA NothingType == NothingChosen \in Decisions
<1>1. NothingChosen \in [{} -> Decision]
  BY DEF NothingChosen
<1> QED
  BY <1>1 DEF Decisions

LEMMA DomainType == ASSUME NEW c \in Decisions PROVE DOMAIN c \in SUBSET Targets /\ \A t \in DOMAIN c : c[t] \in Decision
  BY DEF Decisions

(* A turn of resolveConflicts' loop keeps the type of conflictMap; it adds *)
(* the attributes of the action, and an entry it does not replace stays.   *)
LEMMA DecideType == ASSUME NEW c \in Decisions, NEW a \in Pending PROVE Decide(c, a) \in Decisions
<1> DEFINE T == DOMAIN c \cup {u \in Targets : Sets(a, u)}
<1>1. T \in SUBSET Targets
  BY DomainType
<1>2. ASSUME NEW t \in T, Sets(a, t) PROVE a.rule \in Rules /\ a.params[t[2]] \in Values
  BY <1>2 DEF Pending, Params, Sets
<1>3. Decide(c, a) \in [T -> Decision]
  BY <1>2, DomainType DEF Decide, Decision
<1> QED
  BY <1>1, <1>3 DEF Decisions

LEMMA ReturnType == ASSUME TypeOK, NEW w \in Workers, Return(w),
                           UNCHANGED <<world, told, tasks, changes, past>>
                    PROVE  TypeOK'
<1>1. NoRule \in Rules
  BY DigitsAssumption DEF NoRule
<1> QED
  BY <1>1, NothingType DEF TypeOK, Return, Goto, world, past

LEMMA InitType == Init => TypeOK
<1>1. NoRule \in Rules
  BY DigitsAssumption DEF NoRule
<1> QED
  BY <1>1, NothingType DEF Init, TypeOK

LEMMA StepType == ASSUME TypeOK, NEW w \in Workers, Step(w) PROVE TypeOK'
<1> USE DEF world, past, task
<1>1. CASE Return(w) /\ (FetchRule(w) \/ Evaluate(w) \/ Finish(w))
  <2>1. UNCHANGED <<world, told, tasks, changes, past>>
    BY <1>1 DEF FetchRule, Evaluate, Finish
  <2> QED
    BY <1>1, <2>1, ReturnType
<1>2. CASE ~ Return(w) /\ FetchRule(w)
  BY <1>2 DEF FetchRule, TypeOK, Goto
<1>3. CASE ~ Return(w) /\ Evaluate(w)
  <2>1. ActionTargets(rule[w]) \subseteq Targets
    BY DEF ActionTargets
  <2> QED
    BY <1>3, <2>1 DEF Evaluate, TypeOK, Goto
<1>4. CASE FetchAllRules(w)
  BY <1>4 DEF FetchAllRules, TypeOK, Goto
<1>5. CASE Consider(w)
  <2>1. PICK r \in todo[w] :
          /\ todo' = [todo EXCEPT ![w] = @ \ {r}]
          /\ IF holds[r]
             THEN /\ pending' = [pending EXCEPT ![w] =
                                   @ \cup {a \in PendingActions(r) : Affects(a, targets[w])}]
                  /\ found' = [found EXCEPT ![w] = @ \cup {r}]
             ELSE UNCHANGED <<pending, found>>
    BY <1>5 DEF Consider
  <2>2. r \in Rules /\ PendingActions(r) \subseteq Pending
    BY PendingType DEF TypeOK
  <2>3. /\ todo' \in [Workers -> SUBSET Rules] /\ pending' \in [Workers -> SUBSET Pending]
        /\ found' \in [Workers -> SUBSET Rules]
    BY <2>1, <2>2 DEF TypeOK
  <2> QED
    BY <1>5, <2>3 DEF Consider, TypeOK
<1>6. CASE AddOwnActions(w)
  <2>1. PendingActions(rule[w]) \subseteq Pending
    BY PendingType DEF TypeOK
  <2> QED
    BY <1>6, <2>1 DEF AddOwnActions, TypeOK, Goto
<1>7. CASE Resolve(w)
  <2>1. PICK a \in pending[w] : /\ pending' = [pending EXCEPT ![w] = @ \ {a}]
                                /\ chosen' = [chosen EXCEPT ![w] = Decide(@, a)]
    BY <1>7 DEF Resolve
  <2>2. Decide(chosen[w], a) \in Decisions
    BY DecideType DEF TypeOK
  <2>3. pending' \in [Workers -> SUBSET Pending] /\ chosen' \in [Workers -> Decisions]
    BY <2>1, <2>2 DEF TypeOK
  <2> QED
    BY <1>7, <2>3 DEF Resolve, TypeOK
<1>8. CASE Resolved(w)
  <2>1. {t[1] : t \in DOMAIN chosen[w]} \subseteq Devices
    BY DomainType DEF TypeOK, Targets
  <2> QED
    BY <1>8, <2>1 DEF Resolved, TypeOK, Goto
<1>9. CASE Publish(w)
  <2>1. PICK d \in unsent[w] :
          LET sent == {t \in DOMAIN chosen[w] : t[1] = d}
          IN  /\ unsent' = [unsent EXCEPT ![w] = @ \ {d}]
              /\ told' = [t \in DOMAIN told \cup sent |->
                             IF t \in sent THEN chosen[w][t] ELSE told[t]]
    BY <1>9 DEF Publish
  <2> DEFINE sent == {t \in DOMAIN chosen[w] : t[1] = d}
  <2>2. DOMAIN told \cup sent \in SUBSET Targets
    BY DomainType DEF TypeOK
  <2>3. told' \in [DOMAIN told \cup sent -> Decision]
    BY <2>1, DomainType DEF TypeOK
  <2>4. told' \in Decisions
    BY <2>2, <2>3 DEF Decisions
  <2> QED
    BY <1>9, <2>1, <2>4 DEF Publish, TypeOK
<1>10. CASE ~ Return(w) /\ Finish(w)
  BY <1>10 DEF Finish
<1> QED
  BY <1>1, <1>2, <1>3, <1>4, <1>5, <1>6, <1>7, <1>8, <1>9, <1>10 DEF Step

LEMMA NextType == TypeOK /\ [Next]_vars => TypeOK'
<1> SUFFICES ASSUME TypeOK, [Next]_vars PROVE TypeOK'
  OBVIOUS
<1>0. ASSUME NEW f \in [Rules -> BOOLEAN], NEW r \in Rules
      PROVE  [f EXCEPT ![r] = ~ f[r]] \in [Rules -> BOOLEAN]
  <2>1. (~ f[r]) \in BOOLEAN
    OBVIOUS
  <2> QED
    BY <2>1
<1>1. CASE Switch
  <2>1. PICK r \in Rules : enabled' = [enabled EXCEPT ![r] = ~ enabled[r]] /\ wasOn' = wasOn \cup {r}
    BY <1>1 DEF Switch
  <2>2. enabled' \in [Rules -> BOOLEAN]
    BY <1>0, <2>1 DEF TypeOK
  <2> QED
    BY <1>1, <2>1, <2>2 DEF Switch, TypeOK, task
<1>5. CASE Turn
  <2>1. PICK r \in Rules : holds' = [holds EXCEPT ![r] = ~ holds[r]] /\ wasTrue' = wasTrue \cup {r}
    BY <1>5 DEF Turn
  <2>2. holds' \in [Rules -> BOOLEAN]
    BY <1>0, <2>1 DEF TypeOK
  <2> QED
    BY <1>5, <2>1, <2>2 DEF Turn, TypeOK, task
<1>2. ASSUME NEW w \in Workers, TakeTask(w) PROVE TypeOK'
  BY <1>2 DEF TakeTask, TypeOK, Goto, world
<1>3. ASSUME NEW w \in Workers, QueryFails(w) PROVE TypeOK'
  BY <1>3, ReturnType DEF QueryFails
<1>4. CASE UNCHANGED vars
  BY <1>4 DEF TypeOK, vars, world, task, past
<1> QED
  BY <1>1, <1>5, <1>2, <1>3, <1>4, StepType DEF Next

(* Every variable has its type in every state of every behaviour.          *)
THEOREM TypeCorrect == Spec => []TypeOK
  BY InitType, NextType, PTL DEF Spec

-----------------------------------------------------------------------------
(* LeastRuleWins.  The invariant follows each action that sets a target    *)
(* from the moment its rule is found true: it is still pending, or its     *)
(* rule does not come before the one chosen so far.  The rule's own        *)
(* actions join the pending ones last.                                     *)

Settled(w, t, r) == t \in DOMAIN chosen[w] /\ ~ Precedes(r, chosen[w][t].rule)

Tracked(w) ==
    /\ pc[w] \in {"fetchall", "consider", "resolve", "send"} =>
          rule[w] \in found[w] /\ targets[w] = ActionTargets(rule[w])
    /\ At(w, "fetchall") => found[w] = {rule[w]}
    /\ At(w, "send") => pending[w] = {}
    /\ pc[w] \in {"consider", "resolve", "send"} =>
          \A r \in found[w] : \A t \in targets[w] : \A a \in PendingActions(r) :
              Sets(a, t) => \/ At(w, "consider") /\ r = rule[w]
                            \/ a \in pending[w]
                            \/ Settled(w, t, r)

ArbInv == TypeOK /\ \A w \in Workers : Tracked(w)

LEMMA TargetsAreTargets == ASSUME NEW r PROVE ActionTargets(r) \subseteq Targets
  BY DEF ActionTargets

LEMMA SameActions ==
    ASSUME actions' = actions
    PROVE  \A r : PendingActions(r)' = PendingActions(r) /\ ActionTargets(r)' = ActionTargets(r)
  BY DEF PendingActions, ActionTargets

(* A turn of the loop settles the attributes of its action, and keeps      *)
(* settled what was.                                                       *)
LEMMA DecideSettles ==
    ASSUME NEW c \in Decisions, NEW a \in Pending, NEW t \in Targets
    PROVE  /\ Sets(a, t) => t \in DOMAIN Decide(c, a) /\ ~ Precedes(a.rule, Decide(c, a)[t].rule)
           /\ \A r \in Rules : t \in DOMAIN c /\ ~ Precedes(r, c[t].rule) =>
                 t \in DOMAIN Decide(c, a) /\ ~ Precedes(r, Decide(c, a)[t].rule)
<1>0. a.rule \in Rules /\ (t \in DOMAIN c => c[t].rule \in Rules)
  BY DomainType DEF Pending, Decision
<1>1. t \in DOMAIN c \/ Sets(a, t) => t \in DOMAIN Decide(c, a)
  BY DEF Decide
<1>2. CASE Sets(a, t) /\ (t \in DOMAIN c => Precedes(a.rule, c[t].rule))
  <2>1. Decide(c, a)[t].rule = a.rule
    BY <1>2 DEF Decide
  <2> QED
    BY <1>0, <1>1, <1>2, <2>1, PrecedesStrict
<1>3. CASE t \in DOMAIN c /\ ~ (Sets(a, t) /\ Precedes(a.rule, c[t].rule))
  <2>1. Decide(c, a)[t] = c[t]
    BY <1>3 DEF Decide
  <2> QED
    BY <1>1, <1>3, <2>1
<1>4. CASE t \notin DOMAIN c /\ ~ Sets(a, t)
  BY <1>4
<1> QED
  BY <1>2, <1>3, <1>4

(* A worker whose own variables do not change stays tracked.               *)
LEMMA OthersTracked ==
    ASSUME NEW v \in Workers, Tracked(v), actions' = actions,
           pc'[v] = pc[v], rule'[v] = rule[v], targets'[v] = targets[v],
           pending'[v] = pending[v], chosen'[v] = chosen[v], found'[v] = found[v]
    PROVE  Tracked(v)'
  BY SameActions DEF Tracked, Settled, At, Precedes

(* So does one whose task returns or begins.                               *)
LEMMA IdleTracked ==
    ASSUME NEW w \in Workers, pc'[w] \in {"idle", "fetch", "evaluate"} PROVE Tracked(w)'
  BY DEF Tracked, At

LEMMA StepTracked == ASSUME ArbInv, NEW w \in Workers, Step(w) PROVE Tracked(w)'
<1>0. TypeOK /\ Tracked(w) /\ actions' = actions
  BY DEF ArbInv, Step, FetchRule, Evaluate, FetchAllRules, Consider, AddOwnActions, Resolve,
         Resolved, Publish, Finish, world
<1>a. \A r : PendingActions(r)' = PendingActions(r) /\ ActionTargets(r)' = ActionTargets(r)
  BY <1>0, SameActions
<1>1. CASE Return(w) \/ FetchRule(w)
  <2>1. pc'[w] \in {"idle", "evaluate"}
    BY <1>0, <1>1 DEF Return, FetchRule, Goto, TypeOK
  <2> QED
    BY <2>1, IdleTracked
<1>2. CASE ~ Return(w) /\ Evaluate(w)
  <2>1. /\ pc'[w] = "fetchall" /\ found'[w] = {rule[w]} /\ rule'[w] = rule[w]
        /\ targets'[w] = ActionTargets(rule[w])
    BY <1>0, <1>2 DEF Evaluate, Goto, TypeOK
  <2> QED
    BY <1>a, <2>1 DEF Tracked, At
<1>3. CASE FetchAllRules(w)
  <2>1. pc[w] = "fetchall" /\ pc'[w] = "consider" /\ UNCHANGED <<found, rule, targets>>
    BY <1>0, <1>3 DEF FetchAllRules, Goto, At, TypeOK
  <2> QED
    BY <1>0, <1>a, <2>1 DEF Tracked, At
<1>4. CASE Consider(w)
  <2>1. PICK r \in todo[w] :
             IF holds[r]
             THEN /\ pending' = [pending EXCEPT ![w] =
                                   @ \cup {a \in PendingActions(r) : Affects(a, targets[w])}]
                  /\ found' = [found EXCEPT ![w] = @ \cup {r}]
             ELSE UNCHANGED <<pending, found>>
    BY <1>4 DEF Consider
  <2>2. pc[w] = "consider" /\ UNCHANGED <<pc, rule, targets, chosen>>
    BY <1>4 DEF Consider, At
  <2>3. CASE UNCHANGED <<pending, found>>
    BY <1>0, <2>2, <2>3, OthersTracked
  <2>4. CASE holds[r]
    <3>1. /\ pending'[w] = pending[w] \cup {a \in PendingActions(r) : Affects(a, targets[w])}
          /\ found'[w] = found[w] \cup {r}
      BY <1>0, <2>1, <2>4 DEF TypeOK
    <3>2. ASSUME NEW q \in found'[w], NEW t \in targets[w], NEW a \in PendingActions(q), Sets(a, t),
                 q # rule[w]
          PROVE  a \in pending'[w] \/ Settled(w, t, q)
      <4>1. CASE q \in found[w]
        BY <1>0, <2>2, <3>1, <3>2, <4>1 DEF Tracked, At
      <4>2. CASE q = r
        BY <3>1, <3>2, <4>2 DEF Affects
      <4> QED
        BY <3>1, <4>1, <4>2
    <3>3. \A t, q : Settled(w, t, q)' <=> Settled(w, t, q)
      BY <2>2 DEF Settled, Precedes
    <3> QED
      BY <1>0, <1>a, <2>2, <3>1, <3>2, <3>3 DEF Tracked, At
  <2> QED
    BY <2>1, <2>3, <2>4
<1>5. CASE AddOwnActions(w)
  <2>1. /\ pc[w] = "consider" /\ pc'[w] = "resolve" /\ UNCHANGED <<rule, targets, chosen, found>>
        /\ pending'[w] = pending[w] \cup PendingActions(rule[w])
    BY <1>0, <1>5 DEF AddOwnActions, Goto, At, TypeOK
  <2>2. \A t, q : Settled(w, t, q)' <=> Settled(w, t, q)
    BY <2>1 DEF Settled, Precedes
  <2> QED
    BY <1>0, <1>a, <2>1, <2>2 DEF Tracked, At
<1>6. CASE Resolve(w)
  <2>1. PICK b \in pending[w] : /\ pending' = [pending EXCEPT ![w] = @ \ {b}]
                                /\ chosen' = [chosen EXCEPT ![w] = Decide(@, b)]
    BY <1>6 DEF Resolve
  <2>2. /\ pc[w] = "resolve" /\ UNCHANGED <<pc, rule, targets, found>>
        /\ pending'[w] = pending[w] \ {b} /\ chosen'[w] = Decide(chosen[w], b)
    BY <1>0, <1>6, <2>1 DEF Resolve, At, TypeOK
  <2>3. ASSUME NEW r \in found[w], NEW t \in targets[w], NEW a \in PendingActions(r), Sets(a, t)
        PROVE  a \in pending'[w] \/ Settled(w, t, r)'
    <3>1. a \in pending[w] \/ Settled(w, t, r)
      BY <1>0, <2>2, <2>3 DEF Tracked, At
    <3>2. b \in Pending /\ chosen[w] \in Decisions /\ t \in Targets /\ r \in Rules
      BY <1>0 DEF TypeOK
    <3>3. CASE a = b
      <4>1. a.rule = r
        BY DEF PendingActions
      <4> QED
        BY <2>2, <2>3, <3>2, <3>3, <4>1, DecideSettles DEF Settled, Precedes
    <3>4. CASE a # b /\ a \in pending[w]
      BY <2>2, <3>4
    <3>5. CASE Settled(w, t, r)
      BY <2>2, <3>2, <3>5, DecideSettles DEF Settled, Precedes
    <3> QED
      BY <3>1, <3>3, <3>4, <3>5
  <2> QED
    BY <1>0, <1>a, <2>2, <2>3 DEF Tracked, At
<1>7. CASE Resolved(w)
  <2>1. /\ pc[w] = "resolve" /\ pc'[w] = "send" /\ pending[w] = {}
        /\ UNCHANGED <<rule, targets, pending, chosen, found>>
    BY <1>0, <1>7 DEF Resolved, Goto, At, TypeOK
  <2>2. \A t, q : Settled(w, t, q)' <=> Settled(w, t, q)
    BY <2>1 DEF Settled, Precedes
  <2> QED
    BY <1>0, <1>a, <2>1, <2>2 DEF Tracked, At
<1>8. CASE Publish(w)
  BY <1>0, <1>8, OthersTracked DEF Publish
<1>9. CASE Finish(w)
  BY <1>1, <1>9 DEF Finish
<1> QED
  BY <1>1, <1>2, <1>3, <1>4, <1>5, <1>6, <1>7, <1>8, <1>9 DEF Step

LEMMA NextTracked == ArbInv /\ [Next]_vars => ArbInv'
<1> SUFFICES ASSUME ArbInv, [Next]_vars PROVE ArbInv'
  OBVIOUS
<1>0. TypeOK /\ TypeOK'
  BY NextType DEF ArbInv
<1>1. CASE Switch \/ Turn \/ UNCHANGED vars
  <2>1. actions' = actions /\ UNCHANGED <<pc, rule, targets, pending, chosen, found>>
    BY <1>1 DEF Switch, Turn, vars, world, task
  <2> QED
    BY <1>0, <2>1, OthersTracked DEF ArbInv
<1>2. ASSUME NEW w \in Workers, TakeTask(w) \/ Step(w) \/ QueryFails(w) PROVE ArbInv'
  <2>1. ASSUME NEW v \in Workers, v # w PROVE Tracked(v)'
    <3>1. /\ actions' = actions
          /\ pc'[v] = pc[v] /\ rule'[v] = rule[v] /\ targets'[v] = targets[v]
          /\ pending'[v] = pending[v] /\ chosen'[v] = chosen[v] /\ found'[v] = found[v]
      BY <1>0, <1>2, <2>1
      DEF TakeTask, Step, QueryFails, FetchRule, Evaluate, FetchAllRules, Consider, AddOwnActions,
          Resolve, Resolved, Publish, Finish, Return, Goto, world, task, TypeOK
    <3> QED
      BY <3>1, OthersTracked DEF ArbInv
  <2>2. Tracked(w)'
    <3>1. CASE Step(w)
      BY <3>1, StepTracked
    <3>2. CASE TakeTask(w) \/ QueryFails(w)
      <4>1. pc'[w] \in {"idle", "fetch"}
        BY <1>0, <3>2 DEF TakeTask, QueryFails, Return, Goto, TypeOK
      <4> QED
        BY <4>1, IdleTracked
    <3> QED
      BY <1>2, <3>1, <3>2
  <2> QED
    BY <1>0, <2>1, <2>2 DEF ArbInv
<1> QED
  BY <1>1, <1>2 DEF Next

LEMMA InitTracked == Init => ArbInv
<1> SUFFICES ASSUME Init PROVE ArbInv
  OBVIOUS
<1>1. \A w \in Workers : pc[w] = "idle"
  BY DEF Init
<1> QED
  BY <1>1, InitType DEF ArbInv, Tracked, At

LEMMA TrackedWins == ArbInv => LeastRuleWins
<1> SUFFICES ASSUME ArbInv, NEW w \in Workers, At(w, "send"), NEW t \in targets[w]
             PROVE  /\ t \in DOMAIN chosen[w]
                    /\ \A r \in found[w] : RuleSets(r, t) => ~ Precedes(r, chosen[w][t].rule)
  BY DEF LeastRuleWins
<1>1. \A r \in found[w] : RuleSets(r, t) => Settled(w, t, r)
  BY DEF ArbInv, Tracked, At, RuleSets
<1>2. rule[w] \in found[w] /\ RuleSets(rule[w], t)
  BY DEF ArbInv, Tracked, At, ActionTargets, RuleSets
<1> QED
  BY <1>1, <1>2 DEF Settled

(* No rule that the worker found true loses one of the task's targets to   *)
(* a rule that comes after it (tasks.go:195-252 and 282-324).              *)
THEOREM LeastRuleAlwaysWins == Spec => []LeastRuleWins
<1>1. Spec => []ArbInv
  BY InitTracked, NextTracked, PTL DEF Spec
<1> QED
  BY <1>1, TrackedWins, PTL

-----------------------------------------------------------------------------
(* DrivenByActive.  A worker's rule was enabled when it was fetched and    *)
(* true when it was evaluated, the other rules enabled when they were      *)
(* fetched and true when their actions joined the pending ones; nothing    *)
(* adds the actions of any other.                                          *)

Active == wasOn \cap wasTrue

ActsForActive(w) ==
    /\ pc[w] \in {"evaluate", "fetchall", "consider", "resolve", "send"} => rule[w] \in wasOn
    /\ pc[w] \in {"fetchall", "consider", "resolve", "send"} => rule[w] \in wasTrue
    /\ todo[w] \subseteq wasOn
    /\ \A a \in pending[w] : a.rule \in Active
    /\ \A t \in DOMAIN chosen[w] : chosen[w][t].rule \in Active

ActiveInv ==
    /\ \A r \in Rules : (enabled[r] => r \in wasOn) /\ (holds[r] => r \in wasTrue)
    /\ \A w \in Workers : ActsForActive(w)
    /\ DrivenByActive

LEMMA OthersActive ==
    ASSUME NEW v \in Workers, ActsForActive(v), wasOn \subseteq wasOn', wasTrue \subseteq wasTrue',
           pc'[v] = pc[v], rule'[v] = rule[v], todo'[v] = todo[v], pending'[v] = pending[v],
           chosen'[v] = chosen[v]
    PROVE  ActsForActive(v)'
  BY DEF ActsForActive, Active

LEMMA StepActive ==
    ASSUME TypeOK, ActiveInv, NEW w \in Workers, TakeTask(w) \/ Step(w) \/ QueryFails(w)
    PROVE  ActsForActive(w)'
<1> USE DEF At, Goto
<1>1. /\ pc \in [Workers -> {"idle", "fetch", "evaluate", "fetchall", "consider", "resolve", "send"}]
      /\ rule \in [Workers -> Rules] /\ todo \in [Workers -> SUBSET Rules]
      /\ pending \in [Workers -> SUBSET Pending] /\ chosen \in [Workers -> Decisions]
  BY DEF TypeOK
<1>2. UNCHANGED <<wasOn, wasTrue>> /\ ActsForActive(w)
  BY DEF ActiveInv, TakeTask, Step, QueryFails, FetchRule, Evaluate, FetchAllRules, Consider,
     AddOwnActions, Resolve, Resolved, Publish, Finish, past
<1>3. \A r : \A a \in PendingActions(r) : a.rule = r
  BY DEF PendingActions
<1>4. CASE Return(w)
  BY <1>1, <1>2, <1>4 DEF Return, ActsForActive, NothingChosen
<1>5. CASE Resolve(w)
  <2>1. PICK a \in pending[w] : /\ pending' = [pending EXCEPT ![w] = @ \ {a}]
                                /\ chosen' = [chosen EXCEPT ![w] = Decide(@, a)]
    BY <1>5 DEF Resolve
  <2>2. /\ chosen'[w] = Decide(chosen[w], a) /\ pending'[w] = pending[w] \ {a}
        /\ UNCHANGED <<pc, rule, todo>>
    BY <1>1, <1>5, <2>1 DEF Resolve
  <2>3. \A t \in DOMAIN Decide(chosen[w], a) :
           \/ Decide(chosen[w], a)[t].rule = a.rule
           \/ t \in DOMAIN chosen[w] /\ Decide(chosen[w], a)[t] = chosen[w][t]
    BY DEF Decide
  <2>4. \A t \in DOMAIN chosen'[w] : chosen'[w][t].rule \in Active
    BY <1>2, <2>2, <2>3 DEF ActsForActive
  <2> QED
    BY <1>2, <2>2, <2>4 DEF ActsForActive, Active
<1>6. CASE Consider(w)
  <2>1. PICK r \in todo[w] :
           /\ todo' = [todo EXCEPT ![w] = @ \ {r}]
           /\ \/ holds[r] /\ pending' = [pending EXCEPT ![w] =
                                            @ \cup {a \in PendingActions(r) : Affects(a, targets[w])}]
              \/ pending' = pending
    BY <1>6 DEF Consider
  <2>2. holds[r] => r \in Active
    BY <1>1, <1>2 DEF ActiveInv, ActsForActive, Active
  <2>3. \A a \in pending'[w] : a.rule \in Active
    BY <1>1, <1>2, <1>3, <2>1, <2>2 DEF ActsForActive
  <2>4. /\ todo'[w] \subseteq wasOn /\ UNCHANGED <<pc, rule, chosen>>
    BY <1>1, <1>2, <1>6, <2>1 DEF ActsForActive, Consider
  <2> QED
    BY <1>2, <2>3, <2>4 DEF ActsForActive, Active
<1>7. CASE AddOwnActions(w)
  <2>1. /\ pending'[w] = pending[w] \cup PendingActions(rule[w])
        /\ pc[w] = "consider" /\ pc'[w] = "resolve" /\ UNCHANGED <<rule, todo, chosen>>
    BY <1>1, <1>7 DEF AddOwnActions
  <2>2. \A a \in pending'[w] : a.rule \in Active
    BY <1>2, <1>3, <2>1 DEF ActsForActive, Active
  <2> QED
    BY <1>2, <2>1, <2>2 DEF ActsForActive, Active
<1>8. CASE FetchAllRules(w)
  BY <1>1, <1>2, <1>8 DEF FetchAllRules, ActsForActive, Active, ActiveInv
<1>9. CASE ~ Return(w) /\ (TakeTask(w) \/ FetchRule(w) \/ Evaluate(w) \/ Resolved(w) \/ Publish(w))
  <2>1. UNCHANGED <<todo, pending, chosen>>
    BY <1>9 DEF TakeTask, FetchRule, Evaluate, Resolved, Publish, task
  <2>2. CASE TakeTask(w)
    BY <1>1, <1>2, <2>1, <2>2 DEF TakeTask, ActsForActive, Active
  <2>3. CASE FetchRule(w) \/ Evaluate(w) \/ Resolved(w) \/ Publish(w)
    <3>1. /\ rule' = rule
          /\ \/ pc[w] = "fetch" /\ pc'[w] = "evaluate" /\ enabled[rule[w]]
             \/ pc[w] = "evaluate" /\ pc'[w] = "fetchall" /\ holds[rule[w]]
             \/ pc[w] = "resolve" /\ pc'[w] = "send"
             \/ pc'[w] = pc[w]
      BY <1>1, <1>9, <2>3 DEF FetchRule, Evaluate, Resolved, Publish, task
    <3> QED
      BY <1>1, <1>2, <2>1, <3>1 DEF ActsForActive, Active, ActiveInv
  <2> QED
    BY <1>9, <2>2, <2>3
<1> QED
  BY <1>4, <1>5, <1>6, <1>7, <1>8, <1>9 DEF Step, Finish, QueryFails

LEMMA StepTells ==
    ASSUME ActiveInv, NEW w \in Workers, TakeTask(w) \/ Step(w) \/ QueryFails(w)
    PROVE  DrivenByActive'
<1>1. UNCHANGED <<wasOn, wasTrue>>
  BY DEF TakeTask, Step, QueryFails, FetchRule, Evaluate, FetchAllRules, Consider, AddOwnActions,
     Resolve, Resolved, Publish, Finish, past
<1>2. CASE Publish(w)
  <2>1. PICK d \in unsent[w] :
           told' = [t \in DOMAIN told \cup {u \in DOMAIN chosen[w] : u[1] = d} |->
                      IF t \in {u \in DOMAIN chosen[w] : u[1] = d} THEN chosen[w][t] ELSE told[t]]
    BY <1>2 DEF Publish
  <2> QED
    BY <1>1, <2>1 DEF DrivenByActive, ActiveInv, ActsForActive, Active
<1>3. CASE ~ Publish(w)
  <2>1. told' = told
    BY <1>3 DEF TakeTask, Step, QueryFails, FetchRule, Evaluate, FetchAllRules, Consider,
       AddOwnActions, Resolve, Resolved, Finish
  <2> QED
    BY <1>1, <2>1 DEF DrivenByActive, ActiveInv
<1> QED
  BY <1>2, <1>3

LEMMA NextActive == ASSUME TypeOK, ActiveInv, [Next]_vars PROVE ActiveInv'
<1>1. CASE Switch \/ Turn \/ UNCHANGED vars
  <2>1. /\ wasOn \subseteq wasOn' /\ wasTrue \subseteq wasTrue'
        /\ UNCHANGED <<pc, rule, todo, pending, chosen, told>>
    BY <1>1 DEF Switch, Turn, vars, task, past
  <2>2. \A r \in Rules : (enabled'[r] => r \in wasOn') /\ (holds'[r] => r \in wasTrue')
    BY <1>1 DEF Switch, Turn, vars, world, past, TypeOK, ActiveInv
  <2> QED
    BY <2>1, <2>2, OthersActive DEF ActiveInv, DrivenByActive
<1>2. ASSUME NEW w \in Workers, TakeTask(w) \/ Step(w) \/ QueryFails(w) PROVE ActiveInv'
  <2>1. UNCHANGED <<enabled, holds, wasOn, wasTrue>>
    BY <1>2 DEF TakeTask, Step, QueryFails, FetchRule, Evaluate, FetchAllRules, Consider,
       AddOwnActions, Resolve, Resolved, Publish, Finish, world, past
  <2>2. ASSUME NEW v \in Workers, v # w PROVE ActsForActive(v)'
    <3>1. /\ pc'[v] = pc[v] /\ rule'[v] = rule[v] /\ todo'[v] = todo[v]
          /\ pending'[v] = pending[v] /\ chosen'[v] = chosen[v]
      BY <1>2, <2>2
      DEF TakeTask, Step, QueryFails, FetchRule, Evaluate, FetchAllRules, Consider, AddOwnActions,
          Resolve, Resolved, Publish, Finish, Return, Goto, task, TypeOK
    <3> QED
      BY <2>1, <3>1, OthersActive DEF ActiveInv
  <2> QED
    BY <1>2, <2>1, <2>2, StepActive, StepTells DEF ActiveInv
<1> QED
  BY <1>1, <1>2 DEF Next

(* No device is told anything that is not the action of a rule that had    *)
(* been enabled and true (tasks.go:266-276 and 295-301).                   *)
THEOREM OnlyActiveDrive == Spec => []DrivenByActive
<1>1. Init => ActiveInv
  BY DEF Init, ActiveInv, ActsForActive, DrivenByActive, NothingChosen
<1> QED
  BY <1>1, InitType, NextType, NextActive, PTL DEF Spec, ActiveInv

-----------------------------------------------------------------------------
(* AgreeOnTargets.  It needs an order that is total: two workers that know *)
(* the same rules could else end with different ones.                      *)

LEMMA LeastNatural == ASSUME NEW S \in SUBSET Nat, S # {} PROVE \E m \in S : \A k \in S : m <= k
<1> DEFINE R == OpToRel(<, Nat)
<1>1. IsWellFoundedOn(R, Nat)
  BY NatLessThanWellFounded
<1>2. \A x, y \in Nat : x < y => <<x, y>> \in R
  BY DEF OpToRel
<1> HIDE DEF R
<1>3. PICK m \in S : \A y \in S : ~ (<<y, m>> \in R)
  BY <1>1, WFMin
<1>4. \A k \in S : ~ (k < m)
  BY <1>2, <1>3
<1>5. \A k \in S : m <= k
  BY <1>4
<1> QED
  BY <1>5

(* Of two different strings one comes before the other: they differ first  *)
(* at some place, or one ends first.                                       *)
LEMMA LexTotal == ASSUME NEW s \in Seq(Nat), NEW t \in Seq(Nat), s # t PROVE LexLess(s, t) \/ LexLess(t, s)
<1>0. /\ Len(s) \in Nat /\ Len(t) \in Nat
      /\ \A i \in 1 .. Len(s) : s[i] \in Nat
      /\ \A i \in 1 .. Len(t) : t[i] \in Nat
  OBVIOUS
<1> DEFINE D == {i \in Nat : i >= 1 /\ (i > Len(s) \/ i > Len(t) \/ s[i] # t[i])}
<1>1. Len(s) + 1 \in D
  BY <1>0
<1>2. PICK m \in D : \A k \in D : m <= k
  BY <1>1, LeastNatural
<1>3. m \in Nat /\ m >= 1 /\ m <= Len(s) + 1
  BY <1>0, <1>1, <1>2
<1> DEFINE k == m - 1
<1>4. ASSUME NEW i \in 1 .. k PROVE i <= Len(s) /\ i <= Len(t) /\ s[i] = t[i]
  <2>1. i \in Nat /\ i >= 1 /\ ~ (m <= i)
    BY <1>3
  <2>2. i \notin D
    BY <1>2, <2>1
  <2> QED
    BY <1>0, <2>1, <2>2
<1>5. k \in Nat /\ k + 1 = m /\ k <= Len(s) /\ k <= Len(t)
  <2>1. CASE k = 0
    BY <1>0, <1>3, <2>1
  <2>2. CASE k # 0
    <3>1. k \in 1 .. k
      BY <1>3, <2>2
    <3> QED
      BY <1>3, <1>4, <3>1
  <2> QED
    BY <2>1, <2>2
<1>6. CASE k < Len(s) /\ k < Len(t)
  <2>1. s[k + 1] # t[k + 1] /\ s[k + 1] \in Nat /\ t[k + 1] \in Nat
    BY <1>0, <1>2, <1>5, <1>6
  <2>2. CASE s[k + 1] < t[k + 1]
    BY <1>0, <1>4, <1>5, <1>6, <2>2 DEF LexLess
  <2>3. CASE t[k + 1] < s[k + 1]
    BY <1>0, <1>4, <1>5, <1>6, <2>3 DEF LexLess
  <2> QED
    BY <2>1, <2>2, <2>3
<1>7. CASE k = Len(s) /\ k < Len(t)
  BY <1>0, <1>4, <1>5, <1>7 DEF LexLess
<1>8. CASE k = Len(t) /\ k < Len(s)
  <2>1. k \in 0 .. Len(t) /\ k <= Len(s) /\ ~ (k < Len(t))
    BY <1>0, <1>5, <1>8
  <2>2. \A i \in 1 .. k : t[i] = s[i]
    BY <1>4
  <2> HIDE DEF k
  <2> QED
    BY <1>8, <2>1, <2>2 DEF LexLess
<1>9. CASE k = Len(s) /\ k = Len(t)
  <2>1. Len(s) = Len(t) /\ \A i \in 1 .. Len(s) : s[i] = t[i]
    BY <1>4, <1>9
  <2> QED
    BY <1>0, <2>1
<1>10. k < Len(s) \/ k = Len(s)
  BY <1>0, <1>5
<1>11. k < Len(t) \/ k = Len(t)
  BY <1>0, <1>5
<1> QED
  BY <1>6, <1>7, <1>8, <1>9, <1>10, <1>11

LEMMA PrecedesTotal == \A r, s \in Rules : r = s \/ Precedes(r, s) \/ Precedes(s, r)
  BY LexTotal, DigitsAssumption, NumeralsAssumption DEF Precedes

(* What decides an attribute is the first action that sets it in the list  *)
(* of a rule the worker found true: Tracked says which rule, and a later   *)
(* action of that rule meets an attribute that is settled.                 *)

First(a, t) ==
    /\ a \in PendingActions(a.rule) /\ Sets(a, t)
    /\ \A b \in PendingActions(a.rule) : Sets(b, t) => a.n <= b.n

Decided(w) ==
    /\ pc[w] \in {"idle", "fetch", "evaluate", "fetchall"} =>
          pending[w] = {} /\ DOMAIN chosen[w] = {}
    /\ \A a \in pending[w] : a.rule \in found[w] /\ a \in PendingActions(a.rule)
    /\ \A t \in DOMAIN chosen[w] \cap targets[w] :
          \E a : /\ First(a, t) /\ a.rule \in found[w]
                 /\ chosen[w][t] = [rule |-> a.rule, value |-> a.params[t[2]]]

(* While nothing changes, the rules a worker finds true are all there are. *)
OnAndTrue(r) == enabled[r] /\ holds[r]

KnowsAll(w) ==
    still[w] =>
        /\ At(w, "evaluate") => enabled[rule[w]]
        /\ At(w, "fetchall") => OnAndTrue(rule[w])
        /\ At(w, "consider") =>
              \A r \in Rules : OnAndTrue(r) <=> r \in found[w] \/ (r \in todo[w] /\ holds[r])
        /\ pc[w] \in {"resolve", "send"} => \A r \in Rules : OnAndTrue(r) <=> r \in found[w]

AgreeInv == \A w \in Workers : Decided(w) /\ KnowsAll(w)

LEMMA FirstStays ==
    ASSUME actions' = actions
    PROVE  /\ \A r : PendingActions(r)' = PendingActions(r)
           /\ \A a, t : First(a, t) => First(a, t)'
<1>1. \A r : PendingActions(r)' = PendingActions(r)
  BY SameActions
<1> QED
  BY <1>1 DEF First, Sets

LEMMA OthersDecided ==
    ASSUME NEW v \in Workers, Decided(v), actions' = actions,
           pc'[v] = pc[v], targets'[v] = targets[v], pending'[v] = pending[v],
           chosen'[v] = chosen[v], found'[v] = found[v]
    PROVE  Decided(v)'
  BY FirstStays DEF Decided

LEMMA OthersKnow ==
    ASSUME NEW v \in Workers, KnowsAll(v), UNCHANGED <<enabled, holds>>, still'[v] = still[v],
           pc'[v] = pc[v], rule'[v] = rule[v], todo'[v] = todo[v], found'[v] = found[v]
    PROVE  KnowsAll(v)'
  BY DEF KnowsAll, OnAndTrue, At

LEMMA StepKnows ==
    ASSUME TypeOK, ArbInv, AgreeInv, NEW w \in Workers, TakeTask(w) \/ Step(w) \/ QueryFails(w)
    PROVE  KnowsAll(w)'
<1> USE DEF At, Goto
<1>1. /\ pc \in [Workers -> {"idle", "fetch", "evaluate", "fetchall", "consider", "resolve", "send"}]
      /\ rule \in [Workers -> Rules] /\ todo \in [Workers -> SUBSET Rules]
      /\ found \in [Workers -> SUBSET Rules]
  BY DEF TypeOK
<1>2. UNCHANGED <<enabled, holds>> /\ KnowsAll(w) /\ Tracked(w)
  BY DEF ArbInv, AgreeInv, TakeTask, Step, QueryFails, FetchRule, Evaluate, FetchAllRules, Consider,
     AddOwnActions, Resolve, Resolved, Publish, Finish, world
<1>3. CASE Return(w) \/ TakeTask(w)
  BY <1>1, <1>3 DEF Return, TakeTask, KnowsAll
<1>4. still' = still \/ Return(w) \/ TakeTask(w)
  BY DEF Step, QueryFails, FetchRule, Evaluate, FetchAllRules, Consider, AddOwnActions, Resolve,
     Resolved, Publish, Finish, past
<1>5. CASE ~ Return(w) /\ still' = still /\ (FetchRule(w) \/ Evaluate(w))
  <2>1. /\ rule' = rule
        /\ \/ pc[w] = "fetch" /\ pc'[w] = "evaluate" /\ enabled[rule[w]]
           \/ pc[w] = "evaluate" /\ pc'[w] = "fetchall" /\ holds[rule[w]]
    BY <1>1, <1>5 DEF FetchRule, Evaluate, task
  <2> QED
    BY <1>2, <1>5, <2>1 DEF KnowsAll, OnAndTrue
<1>6. CASE FetchAllRules(w) /\ still' = still
  <2>1. /\ todo'[w] = {r \in Rules : enabled[r] /\ r # rule[w]} /\ found' = found
        /\ pc[w] = "fetchall" /\ pc'[w] = "consider"
    BY <1>1, <1>6 DEF FetchAllRules
  <2>2. found[w] = {rule[w]}
    BY <1>2, <2>1 DEF Tracked
  <2> QED
    BY <1>2, <1>6, <2>1, <2>2 DEF KnowsAll, OnAndTrue
<1>7. CASE Consider(w) /\ still' = still
  <2>1. PICK r \in todo[w] :
           /\ todo' = [todo EXCEPT ![w] = @ \ {r}]
           /\ \/ holds[r] /\ found' = [found EXCEPT ![w] = @ \cup {r}]
              \/ ~ holds[r] /\ found' = found
    BY <1>7 DEF Consider
  <2>2. /\ todo'[w] = todo[w] \ {r} /\ pc[w] = "consider" /\ UNCHANGED <<pc, rule>>
        /\ \/ holds[r] /\ found'[w] = found[w] \cup {r}
           \/ ~ holds[r] /\ found'[w] = found[w]
    BY <1>1, <1>7, <2>1 DEF Consider
  <2> QED
    BY <1>2, <1>7, <2>2 DEF KnowsAll, OnAndTrue
<1>8. CASE AddOwnActions(w) /\ still' = still
  <2>1. todo[w] = {} /\ pc[w] = "consider" /\ pc'[w] = "resolve" /\ found' = found
    BY <1>1, <1>8 DEF AddOwnActions
  <2> QED
    BY <1>2, <1>8, <2>1 DEF KnowsAll, OnAndTrue
<1>9. CASE (Resolve(w) \/ Resolved(w) \/ Publish(w)) /\ still' = still
  <2>1. /\ pc[w] \in {"resolve", "send"} /\ pc'[w] \in {"resolve", "send"} /\ found' = found
    BY <1>1, <1>9 DEF Resolve, Resolved, Publish
  <2> QED
    BY <1>2, <1>9, <2>1 DEF KnowsAll, OnAndTrue
<1> QED
  BY <1>3, <1>4, <1>5, <1>6, <1>7, <1>8, <1>9 DEF Step, Finish, QueryFails

LEMMA ResolveDecides ==
    ASSUME TypeOK, ArbInv, AgreeInv, NEW w \in Workers, Resolve(w) PROVE Decided(w)'
<1>1. /\ pending \in [Workers -> SUBSET Pending] /\ chosen \in [Workers -> Decisions]
      /\ found[w] \in SUBSET Rules /\ targets[w] \in SUBSET Targets
  BY DEF TypeOK
<1>2. /\ pc[w] = "resolve" /\ UNCHANGED <<actions, pc, rule, targets, found>>
      /\ Decided(w) /\ Tracked(w)
  BY DEF Resolve, At, world, AgreeInv, ArbInv
<1>3. PICK a \in pending[w] : /\ \A b \in pending[w] : b.rule = a.rule => a.n <= b.n
                              /\ pending' = [pending EXCEPT ![w] = @ \ {a}]
                              /\ chosen' = [chosen EXCEPT ![w] = Decide(@, a)]
  BY DEF Resolve
<1>4. pending'[w] = pending[w] \ {a} /\ chosen'[w] = Decide(chosen[w], a)
  BY <1>1, <1>3
<1>5. a.rule \in found[w] /\ a \in PendingActions(a.rule) /\ a.rule \in Rules
  BY <1>1, <1>2 DEF Decided
<1>6. ASSUME NEW t \in targets[w], t \in DOMAIN chosen'[w]
      PROVE  \E b : /\ First(b, t) /\ b.rule \in found[w]
                    /\ chosen'[w][t] = [rule |-> b.rule, value |-> b.params[t[2]]]
  <2>1. CASE Sets(a, t) /\ (t \in DOMAIN chosen[w] => Precedes(a.rule, chosen[w][t].rule))
    <3>1. chosen'[w][t] = [rule |-> a.rule, value |-> a.params[t[2]]]
      BY <1>4, <1>6, <2>1 DEF Decide
    <3>2. ASSUME NEW b \in PendingActions(a.rule), Sets(b, t) PROVE a.n <= b.n
      <4>1. b \in pending[w] \/ Settled(w, t, a.rule)
        BY <1>2, <1>5, <3>2 DEF Tracked, At
      <4>2. b.rule = a.rule
        BY DEF PendingActions
      <4> QED
        BY <1>3, <2>1, <4>1, <4>2 DEF Settled
    <3> QED
      BY <1>5, <2>1, <3>1, <3>2 DEF First
  <2>2. CASE ~ (Sets(a, t) /\ (t \in DOMAIN chosen[w] => Precedes(a.rule, chosen[w][t].rule)))
    <3>1. t \in DOMAIN chosen[w] /\ chosen'[w][t] = chosen[w][t]
      BY <1>1, <1>4, <1>6, <2>2 DEF Decide
    <3> QED
      BY <1>2, <3>1 DEF Decided
  <2> QED
    BY <2>1, <2>2
<1>7. \A b \in pending'[w] : b.rule \in found[w] /\ b \in PendingActions(b.rule)
  BY <1>2, <1>4 DEF Decided
<1>8. \A b \in pending'[w] : b.rule \in found'[w] /\ b \in PendingActions(b.rule)'
  BY <1>2, <1>7, FirstStays
<1>9. \A t \in DOMAIN chosen'[w] \cap targets'[w] :
         \E b : /\ First(b, t)' /\ b.rule \in found'[w]
                /\ chosen'[w][t] = [rule |-> b.rule, value |-> b.params[t[2]]]
  BY <1>2, <1>6, FirstStays
<1>10. pc'[w] \notin {"idle", "fetch", "evaluate", "fetchall"}
  BY <1>2
<1> QED
  BY <1>8, <1>9, <1>10 DEF Decided

LEMMA StepDecides ==
    ASSUME TypeOK, ArbInv, AgreeInv, NEW w \in Workers, TakeTask(w) \/ Step(w) \/ QueryFails(w)
    PROVE  Decided(w)'
<1> USE DEF At, Goto
<1>1. /\ pc \in [Workers -> {"idle", "fetch", "evaluate", "fetchall", "consider", "resolve", "send"}]
      /\ pending \in [Workers -> SUBSET Pending] /\ chosen \in [Workers -> Decisions]
      /\ found \in [Workers -> SUBSET Rules] /\ targets \in [Workers -> SUBSET Targets]
  BY DEF TypeOK
<1>2. actions' = actions /\ Decided(w) /\ Tracked(w)
  BY DEF ArbInv, AgreeInv, TakeTask, Step, QueryFails, FetchRule, Evaluate, FetchAllRules, Consider,
     AddOwnActions, Resolve, Resolved, Publish, Finish, world
<1>3. \A r : PendingActions(r)' = PendingActions(r) /\ \A a \in PendingActions(r) : a.rule = r
  BY <1>2, SameActions DEF PendingActions
<1>4. CASE Return(w)
  BY <1>1, <1>4 DEF Return, Decided, NothingChosen
<1>5. CASE Resolve(w)
  BY <1>5, ResolveDecides
<1>6. CASE Evaluate(w) /\ ~ Return(w)
  <2>1. /\ pc[w] = "evaluate" /\ UNCHANGED <<pending, chosen>>
    BY <1>6 DEF Evaluate
  <2> QED
    BY <1>2, <2>1 DEF Decided
<1>7. CASE Consider(w) \/ AddOwnActions(w)
  <2>1. PICK r : /\ UNCHANGED <<targets, chosen>> /\ found[w] \subseteq found'[w]
                 /\ pc'[w] \in {"consider", "resolve"}
                 /\ \/ pending'[w] = pending[w]
                    \/ pending'[w] \subseteq pending[w] \cup PendingActions(r) /\ r \in found'[w]
    <3>1. CASE Consider(w)
      <4>1. PICK r \in todo[w] :
               \/ /\ pending' = [pending EXCEPT ![w] =
                                    @ \cup {a \in PendingActions(r) : Affects(a, targets[w])}]
                  /\ found' = [found EXCEPT ![w] = @ \cup {r}]
               \/ pending' = pending /\ found' = found
        BY <3>1 DEF Consider
      <4> QED
        BY <1>1, <3>1, <4>1 DEF Consider
    <3>2. CASE AddOwnActions(w)
      <4>1. rule[w] \in found[w]
        BY <1>2, <3>2 DEF AddOwnActions, Tracked
      <4> QED
        BY <1>1, <3>2, <4>1 DEF AddOwnActions
    <3> QED
      BY <1>7, <3>1, <3>2
  <2>2. \A a \in pending'[w] : a.rule \in found'[w] /\ a \in PendingActions(a.rule)
    BY <1>2, <1>3, <2>1 DEF Decided
  <2>3. \A t \in DOMAIN chosen[w] \cap targets[w] :
           \E a : /\ First(a, t) /\ a.rule \in found'[w]
                  /\ chosen[w][t] = [rule |-> a.rule, value |-> a.params[t[2]]]
    BY <1>2, <2>1 DEF Decided
  <2>4. \A a \in pending'[w] : a.rule \in found'[w] /\ a \in PendingActions(a.rule)'
    BY <1>3, <2>2
  <2>5. \A t \in DOMAIN chosen'[w] \cap targets'[w] :
           \E a : /\ First(a, t)' /\ a.rule \in found'[w]
                  /\ chosen'[w][t] = [rule |-> a.rule, value |-> a.params[t[2]]]
    BY <1>2, <2>1, <2>3, FirstStays
  <2> QED
    BY <2>1, <2>4, <2>5 DEF Decided
<1>8. CASE /\ ~ Return(w)
           /\ TakeTask(w) \/ FetchRule(w) \/ FetchAllRules(w) \/ Resolved(w) \/ Publish(w)
  <2>1. /\ UNCHANGED <<pending, chosen, found, targets>>
        /\ \/ pc[w] \in {"idle", "fetch", "evaluate", "fetchall"}
           \/ pc'[w] \in {"resolve", "send"}
    BY <1>1, <1>8 DEF TakeTask, FetchRule, FetchAllRules, Resolved, Publish, task
  <2> QED
    BY <1>2, <2>1, FirstStays DEF Decided
<1> QED
  BY <1>4, <1>5, <1>6, <1>7, <1>8 DEF Step, Finish, QueryFails

LEMMA NextAgree == ASSUME ArbInv, AgreeInv, [Next]_vars PROVE AgreeInv'
<1>0. TypeOK
  BY DEF ArbInv
<1>1. CASE Switch \/ Turn
  <2>1. /\ actions' = actions /\ UNCHANGED <<pc, targets, pending, chosen, found>>
        /\ \A w \in Workers : ~ still'[w]
    BY <1>1 DEF Switch, Turn, task
  <2> QED
    BY <2>1, OthersDecided DEF AgreeInv, KnowsAll
<1>2. CASE UNCHANGED vars
  BY <1>2, OthersDecided, OthersKnow DEF AgreeInv, vars, world, task, past
<1>3. ASSUME NEW w \in Workers, TakeTask(w) \/ Step(w) \/ QueryFails(w) PROVE AgreeInv'
  <2>1. UNCHANGED world
    BY <1>3 DEF TakeTask, Step, QueryFails, FetchRule, Evaluate, FetchAllRules, Consider,
       AddOwnActions, Resolve, Resolved, Publish, Finish
  <2>2. ASSUME NEW v \in Workers, v # w PROVE Decided(v)' /\ KnowsAll(v)'
    <3>1. /\ pc'[v] = pc[v] /\ rule'[v] = rule[v] /\ todo'[v] = todo[v] /\ targets'[v] = targets[v]
          /\ pending'[v] = pending[v] /\ chosen'[v] = chosen[v] /\ found'[v] = found[v]
          /\ still'[v] = still[v]
      BY <1>0, <1>3, <2>2
      DEF TakeTask, Step, QueryFails, FetchRule, Evaluate, FetchAllRules, Consider, AddOwnActions,
          Resolve, Resolved, Publish, Finish, Return, Goto, task, past, TypeOK
    <3> QED
      BY <2>1, <3>1, OthersDecided, OthersKnow DEF AgreeInv, world
  <2> QED
    BY <1>0, <1>3, <2>2, StepDecides, StepKnows DEF AgreeInv
<1> QED
  BY <1>1, <1>2, <1>3 DEF Next

LEMMA DecidedAgree == ASSUME ArbInv, AgreeInv PROVE AgreeOnTargets
<1> SUFFICES ASSUME NEW v \in Workers, NEW w \in Workers, At(v, "send"), At(w, "send"),
                    still[v], still[w], NEW t \in targets[v] \cap targets[w]
             PROVE  chosen[v][t] = chosen[w][t]
  BY DEF AgreeOnTargets
<1>1. found[v] \in SUBSET Rules /\ found[w] \in SUBSET Rules
  BY DEF ArbInv, TypeOK
<1>2. found[v] = found[w]
  BY <1>1 DEF AgreeInv, KnowsAll, At
<1>3. LeastRuleWins
  BY TrackedWins
<1>4. /\ t \in DOMAIN chosen[v] /\ t \in DOMAIN chosen[w]
      /\ \A r \in found[v] : RuleSets(r, t) => ~ Precedes(r, chosen[v][t].rule)
      /\ \A r \in found[w] : RuleSets(r, t) => ~ Precedes(r, chosen[w][t].rule)
  BY <1>3 DEF LeastRuleWins
<1>5. PICK a : /\ First(a, t) /\ a.rule \in found[v]
               /\ chosen[v][t] = [rule |-> a.rule, value |-> a.params[t[2]]]
  BY <1>4 DEF AgreeInv, Decided
<1>6. PICK b : /\ First(b, t) /\ b.rule \in found[w]
               /\ chosen[w][t] = [rule |-> b.rule, value |-> b.params[t[2]]]
  BY <1>4 DEF AgreeInv, Decided
<1>7. RuleSets(a.rule, t) /\ RuleSets(b.rule, t)
  BY <1>5, <1>6 DEF First, RuleSets
<1>8. a.rule = b.rule
  BY <1>1, <1>2, <1>4, <1>5, <1>6, <1>7, PrecedesTotal
<1>9. a.n <= b.n /\ b.n <= a.n /\ a.n \in Nat /\ b.n \in Nat
  <2>1. PendingActions(a.rule) \subseteq Pending
    BY <1>1, <1>5, PendingType DEF ArbInv, TypeOK
  <2> QED
    BY <1>5, <1>6, <1>8, <2>1 DEF First, Pending
<1>10. a.n = b.n
  BY <1>9
<1>11. a.params = b.params
  BY <1>5, <1>6, <1>8, <1>10 DEF First, PendingActions
<1> QED
  BY <1>5, <1>6, <1>8, <1>11

(* Two workers that end while nothing has changed since the first of them  *)
(* began tell a device the same, whichever rules their tasks are on and in *)
(* whatever order they meet the others (tasks.go:195-252 and 285-325).     *)
THEOREM WorkersAgree == Spec => []AgreeOnTargets
<1>1. Init => AgreeInv
  BY DEF Init, AgreeInv, Decided, KnowsAll, NothingChosen, At
<1> QED
  BY <1>1, InitTracked, NextTracked, NextAgree, DecidedAgree, PTL DEF Spec

=============================================================================
