----------------------------- MODULE Conditions -----------------------------
(***************************************************************************)
(* The conditions of one rule: how they are evaluated (internal/automation *)
(* /evaluator.go), and what finds the moments at which they have to be,    *)
(* the devices (internal/engine/engine.go) and the times of day            *)
(* (time_extractor.go) a rule's tree of conditions names.                  *)
(*                                                                         *)
(* A tree is a sequence of nodes in preorder, children by their positions. *)
(* Evaluation reads Redis leaf by leaf, while devices report, their states *)
(* expire, the clock goes on, and other workers evaluate the same rule and *)
(* share its cached time results.                                          *)
(*                                                                         *)
(* The clock counts minutes; Redis expires a cached result 60 s after SET, *)
(* which is some time in the next minute.                                  *)
(***************************************************************************)
EXTENDS Naturals, Sequences, FiniteSets

CONSTANTS
    Trees,      \* the rule's conditions, one of these
    Devices,
    Keys,       \* the attributes of devices
    Payloads,   \* the states each device reports: functions from some Keys to values
    Day,        \* minutes in a day
    Workers,    \* goroutines of the asynq server
    MaxTicks, MaxReports, \* bounds: minutes that pass, states that change
    MaxFaults   \* bound: reads of Redis that fail

(* A value of JSON, or the clock: only the kinds of string that matter,    *)
(* "time" ("18:05"), "loose" ("18:5", which Sscanf reads and time.Parse    *)
(* does not) and "text" (neither).                                         *)
Strings == {"time", "loose", "text"}
Value == [kind : {"number", "bool"} \cup Strings, n : Nat]
Missing == [kind |-> "none", n |-> 0]
Clock(m) == [kind |-> "clock", n |-> m]

Node == [operator : STRING, type : STRING, dev : Devices \cup {""}, key : Keys \cup {""},
         op : STRING, value : Value \cup {Missing}, children : Seq(Nat \ {0})]

ASSUME TreesAssumption ==
    \A t \in Trees :
        /\ t \in Seq(Node) /\ t # <<>>
        /\ \A i \in DOMAIN t : \A j \in DOMAIN t[i].children :
              t[i].children[j] \in (i + 1) .. Len(t)
        /\ \A k \in 2 .. Len(t) : \E i \in DOMAIN t : \E j \in DOMAIN t[i].children :
              t[i].children[j] = k
ASSUME DevicesAssumption == "" \notin Devices \cup Keys
ASSUME PayloadsAssumption ==
    \A d \in Devices : \A p \in Payloads[d] :
        DOMAIN p \subseteq Keys /\ \A k \in DOMAIN p : p[k] \in Value
ASSUME BoundsAssumption ==
    Day \in Nat \ {0} /\ MaxTicks \in Nat /\ MaxReports \in Nat /\ MaxFaults \in Nat

With(f, x, v) == [y \in DOMAIN f \cup {x} |-> IF y = x THEN v ELSE f[y]]
Nothing == [x \in {} |-> x]
NoResult == [holds |-> FALSE, of |-> Day, at |-> Day]

VARIABLES
    tree,
    state,    \* Redis device:<id>
    now,      \* the minute of the day
    cache,    \* Redis time:<op>:<value>: the result, the minute it is of, and that of the SET
    queued,   \* evaluate_rule tasks of the rule
    read,     \* the leaves each worker has read, with their results
    computed, \* the time result each worker has found and not yet stored
    pc,
    ticks, reports, faults,              \* counters for the bounds
    noticed, excused, misled, undisturbed \* history: see the properties

world == <<tree, state, now, ticks, reports>>
tasks == <<queued, read, computed, pc>>
vars  == <<world, cache, tasks, faults, noticed, excused, misled, undisturbed>>

-----------------------------------------------------------------------------
(* utils.Compare: what it cannot compare is false, whatever the operator.  *)

Ordered(a, op, b) ==
    \/ op = ">" /\ a > b
    \/ op = "<" /\ a < b
    \/ op = "==" /\ a = b
    \/ op = "!=" /\ a # b

Compare(actual, op, expected) ==
    \/ actual.kind = "number" /\ expected.kind = "number" /\ Ordered(actual.n, op, expected.n)
    \/ actual.kind = "clock" /\ expected.kind = "time" /\ Ordered(actual.n, op, expected.n)
    \/ /\ \/ actual.kind \in Strings /\ expected.kind \in Strings
          \/ actual.kind = "bool" /\ expected.kind = "bool"
       /\ (op = "==" /\ actual = expected) \/ (op = "!=" /\ actual # expected)

(* The attribute a leaf is about, absent if the state or the key is.       *)
Attribute(s, c) ==
    IF c.dev \in DOMAIN s /\ c.key \in DOMAIN s[c.dev] THEN s[c.dev][c.key] ELSE Missing

IsLeaf(c) == c.operator = ""
OnDevice(c) == c.type \in {"sensor", "device"}

(* evaluateCondition as far as the leaves in known have been read: TRUE or *)
(* FALSE, or the leaf it reads next.                                       *)
NextLeaf(i) == [open |-> TRUE, leaf |-> i, holds |-> FALSE]
Ended(b) == [open |-> FALSE, leaf |-> 0, holds |-> b]

(* A child that decides, and one that is still open, end the loop over the *)
(* children, of which "of" says what each comes to.                        *)
Stops(c, of) ==
    {j \in DOMAIN c.children :
        \/ of[c.children[j]].open
        \/ c.operator = "AND" /\ ~ of[c.children[j]].holds
        \/ c.operator = "OR" /\ of[c.children[j]].holds}
First(S) == CHOOSE j \in S : \A k \in S : j <= k

Evaluated(t, known, of, i) ==
    LET c == t[i]
        stops == Stops(c, of)
    IN  IF IsLeaf(c)
        THEN IF i \in DOMAIN known THEN Ended(known[i]) ELSE NextLeaf(i)
        ELSE IF stops = {} THEN Ended(c.operator = "AND")
        ELSE of[c.children[First(stops)]]

Outcome(t, known) ==
    LET of[i \in DOMAIN t] == Evaluated(t, known, of, i) IN of[1]

(* ExtractTimeConditions: the times at which the scheduler runs the rule.  *)
(* An operator the node has, and whether it is a leaf, do not matter; a    *)
(* time that does not parse ends the search below its node.                *)
IsTimed(c) == c.type = "time" /\ c.op \in {"==", "<", ">"}
Names(v, m) == v.kind \in {"time", "loose"} /\ v.n = m
Parses(c) == \E m \in 0 .. Day - 1 : Names(c.value, m)

TimesBelow(c, below) ==
    IF IsTimed(c) /\ ~ Parses(c) THEN {}
    ELSE (IF IsTimed(c) THEN {c.value.n} ELSE {})
             \cup UNION {below[c.children[j]] : j \in DOMAIN c.children}

ExtractTimes(t) ==
    LET below[i \in DOMAIN t] == TimesBelow(t[i], below) IN below[1]

(* Mutant: the children's children are forgotten.                          *)
ExtractDevicesShallow(t) ==
    {t[i].dev : i \in {1} \cup {t[1].children[j] : j \in DOMAIN t[1].children}} \ {""}

(* extractDeviceIDsFromConditionTree.                                      *)
DevicesBelow(c, below) ==
    {c.dev} \cup UNION {below[c.children[j]] : j \in DOMAIN c.children}

ExtractDevices(t) ==
    LET below[i \in DOMAIN t] == DevicesBelow(t[i], below) IN below[1] \ {""}

(* Mutant: the operator left out of the key.                               *)
CacheKeyByValue(c) == <<"", c.value>>

CacheKey(c) == <<c.op, c.value>>

-----------------------------------------------------------------------------
(* What the conditions mean: the reference the evaluator is held against.  *)
LeafTruth(c, s, m) ==
    \/ OnDevice(c) /\ Compare(Attribute(s, c), c.op, c.value)
    \/ c.type = "time" /\ Compare(Clock(m), c.op, c.value)

NodeTruth(c, b, of) ==
    LET kids == {of[c.children[j]] : j \in DOMAIN c.children}
    IN  \/ IsLeaf(c) /\ b
        \/ c.operator = "AND" /\ FALSE \notin kids
        \/ c.operator = "OR" /\ TRUE \in kids

Truth(t, s, m) ==
    LET of[i \in DOMAIN t] == NodeTruth(t[i], LeafTruth(t[i], s, m), of) IN of[1]

Holds == Truth(tree, state, now)

Turn(w) == Outcome(tree, read[w])
Leaf(w) == tree[Turn(w).leaf]

(* A worker has read the clock, and the answer is another in minute m.     *)
Outdated(w, m) ==
    \/ \E i \in DOMAIN read[w] :
          tree[i].type = "time" /\ read[w][i] # LeafTruth(tree[i], state, m)
    \/ pc[w] = "store" /\ computed[w].holds # LeafTruth(Leaf(w), state, m)

(* What a change of the world does to the history; "excuse": it turned the *)
(* conditions true unseen.                                                 *)
Turned(excuse) ==
    /\ noticed' = (noticed /\ Holds')
    /\ excused' = (Holds' /\ (excused \/ (~ Holds /\ excuse)))
    /\ undisturbed' = [w \in Workers |-> FALSE]

-----------------------------------------------------------------------------
(* The device's report is stored, and the rules that name it are queued.   *)
Report(d, s) ==
    /\ reports < MaxReports /\ reports' = reports + 1
    /\ state' = [state EXCEPT ![d] = s]
    /\ queued' = IF d \in ExtractDevices(tree) THEN queued + 1 ELSE queued
    /\ UNCHANGED <<tree, now, cache, read, computed, pc, ticks, faults, misled>>
    /\ Turned(FALSE)

(* Redis forgets a state an hour after the report; nobody is told.         *)
Forget(d) ==
    /\ reports < MaxReports /\ reports' = reports + 1
    /\ state[d] # Nothing /\ state' = [state EXCEPT ![d] = Nothing]
    /\ UNCHANGED <<tree, now, cache, tasks, ticks, faults, misled>>
    /\ Turned(FALSE)

(* The next minute, and the jobs of the scheduler that are set for it.     *)
Tick ==
    /\ ticks < MaxTicks /\ ticks' = ticks + 1
    /\ \A k \in DOMAIN cache : cache[k].at = now
    /\ now' = (now + 1) % Day
    /\ queued' = IF now' \in ExtractTimes(tree) THEN queued + 1 ELSE queued
    /\ misled' = [w \in Workers |-> misled[w] \/ Outdated(w, now')]
    /\ UNCHANGED <<tree, state, cache, read, computed, pc, reports, faults>>
    /\ Turned(\A i \in DOMAIN tree :
                  tree[i].type = "time" /\ tree[i].op = "==" => ~ Names(tree[i].value, now'))

Expire(k) ==
    /\ k \in DOMAIN cache /\ cache[k].at # now
    /\ cache' = [j \in DOMAIN cache \ {k} |-> cache[j]]
    /\ UNCHANGED <<world, tasks, faults, noticed, excused, misled, undisturbed>>

-----------------------------------------------------------------------------
(* A worker takes the task and reads the rule.                             *)
Take(w) ==
    /\ pc[w] = "idle" /\ queued > 0
    /\ queued' = queued - 1
    /\ pc' = [pc EXCEPT ![w] = "evaluate"]
    /\ undisturbed' = [undisturbed EXCEPT ![w] = TRUE]
    /\ misled' = [misled EXCEPT ![w] = FALSE]
    /\ UNCHANGED <<world, cache, read, computed, faults, noticed, excused>>

(* The leaf's value is found to be b.                                      *)
Learn(w, b) == read' = [read EXCEPT ![w] = With(@, Turn(w).leaf, b)]

(* The step reads a leaf of the given kind.                                *)
Asks(w, isKind) == pc[w] = "evaluate" /\ Turn(w).open /\ isKind

ReadDevice(w) ==
    /\ Asks(w, OnDevice(Leaf(w)))
    /\ Learn(w, LeafTruth(Leaf(w), state, now))
    /\ UNCHANGED <<world, cache, queued, computed, pc, faults, noticed, excused, misled,
                   undisturbed>>

(* Get's error is dropped, and the state taken for absent.                 *)
ReadDeviceFails(w) ==
    /\ Asks(w, OnDevice(Leaf(w)))
    /\ faults < MaxFaults /\ faults' = faults + 1
    /\ Learn(w, FALSE)
    /\ misled' = [misled EXCEPT ![w] = @ \/ LeafTruth(Leaf(w), state, now)]
    /\ UNCHANGED <<world, cache, queued, computed, pc, noticed, excused, undisturbed>>

ReadOther(w) ==
    /\ Asks(w, ~ OnDevice(Leaf(w)) /\ Leaf(w).type # "time")
    /\ Learn(w, FALSE)
    /\ UNCHANGED <<world, cache, queued, computed, pc, faults, noticed, excused, misled,
                   undisturbed>>

ReadCached(w) ==
    /\ Asks(w, Leaf(w).type = "time" /\ CacheKey(Leaf(w)) \in DOMAIN cache)
    /\ LET answer == cache[CacheKey(Leaf(w))].holds
       IN  /\ Learn(w, answer)
           /\ misled' = [misled EXCEPT ![w] = @ \/ cache[CacheKey(Leaf(w))].of # now]
    /\ UNCHANGED <<world, cache, queued, computed, pc, faults, noticed, excused, undisturbed>>

(* Nothing cached, or the Get failed; a leaf without a value is not cached. *)
Compute(w) ==
    /\ Asks(w, Leaf(w).type = "time")
    /\ \/ CacheKey(Leaf(w)) \notin DOMAIN cache /\ UNCHANGED faults
       \/ faults < MaxFaults /\ faults' = faults + 1
    /\ LET answer == LeafTruth(Leaf(w), state, now)
       IN  \/ /\ Leaf(w).value # Missing
              /\ computed' = [computed EXCEPT ![w] = [holds |-> answer, of |-> now, at |-> now]]
              /\ pc' = [pc EXCEPT ![w] = "store"]
              /\ UNCHANGED read
           \/ /\ Leaf(w).value = Missing
              /\ Learn(w, answer)
              /\ UNCHANGED <<computed, pc>>
    /\ UNCHANGED <<world, cache, queued, noticed, excused, misled, undisturbed>>

(* The SET, whose error is dropped; it replaces what others have stored.   *)
Store(w) ==
    /\ pc[w] = "store"
    /\ \/ /\ cache' = With(cache, CacheKey(Leaf(w)), [computed[w] EXCEPT !.at = now])
          /\ UNCHANGED faults
       \/ /\ faults < MaxFaults /\ faults' = faults + 1
          /\ UNCHANGED cache
    /\ Learn(w, computed[w].holds)
    /\ pc' = [pc EXCEPT ![w] = "evaluate"]
    /\ computed' = [computed EXCEPT ![w] = NoResult]
    /\ UNCHANGED <<world, queued, noticed, excused, misled, undisturbed>>

(* The evaluation has its result; the actions are the subject of           *)
(* Arbitration.                                                            *)
Finish(w) ==
    /\ pc[w] = "evaluate" /\ ~ Turn(w).open
    /\ pc' = [pc EXCEPT ![w] = "idle"]
    /\ read' = [read EXCEPT ![w] = Nothing]
    /\ noticed' = (noticed \/ (Turn(w).holds /\ Holds))
    /\ excused' = (excused \/ (~ Turn(w).holds /\ misled[w] /\ Holds))
    /\ UNCHANGED <<world, cache, queued, computed, faults, misled, undisturbed>>

-----------------------------------------------------------------------------
States == {s \in [Devices -> (UNION {Payloads[d] : d \in Devices}) \cup {Nothing}] :
               \A d \in Devices : s[d] \in Payloads[d] \cup {Nothing}}

Init ==
    /\ tree \in Trees
    /\ state \in States
    /\ now \in 0 .. Day - 1
    /\ cache = Nothing /\ queued = 0
    /\ read = [w \in Workers |-> Nothing]
    /\ computed = [w \in Workers |-> NoResult]
    /\ pc = [w \in Workers |-> "idle"]
    /\ ticks = 0 /\ reports = 0 /\ faults = 0
    /\ noticed = Holds /\ excused = FALSE
    /\ misled = [w \in Workers |-> FALSE]
    /\ undisturbed = [w \in Workers |-> FALSE]

EvaluateConditions(w) ==
    \/ Take(w) \/ ReadDevice(w) \/ ReadDeviceFails(w) \/ ReadOther(w)
    \/ ReadCached(w) \/ Compute(w) \/ Store(w) \/ Finish(w)

Next ==
    \/ Tick
    \/ \E d \in Devices : Forget(d) \/ \E s \in Payloads[d] : Report(d, s)
    \/ \E k \in DOMAIN cache : Expire(k)
    \/ \E w \in Workers : EvaluateConditions(w)

Spec == Init /\ [][Next]_vars

-----------------------------------------------------------------------------
(* Properties.                                                             *)

Result == [holds : BOOLEAN, of : 0 .. Day - 1, at : 0 .. Day - 1]
Keyed == {<<tree[i].op, tree[i].value>> : i \in {j \in DOMAIN tree : tree[j].type = "time"}}

(* Every variable has its type, and only this rule's time results that     *)
(* Redis has not yet had to expire are cached (evaluator.go:29-82).        *)
TypeOK ==
    /\ tree \in Trees /\ state \in States
    /\ now \in 0 .. Day - 1
    /\ DOMAIN cache \subseteq Keyed
    /\ \A k \in DOMAIN cache : cache[k] \in Result /\ now \in {cache[k].at, (cache[k].at + 1) % Day}
    /\ queued \in 0 .. MaxReports + MaxTicks
    /\ \A w \in Workers : DOMAIN read[w] \subseteq DOMAIN tree
                          /\ \A i \in DOMAIN read[w] : read[w][i] \in BOOLEAN /\ IsLeaf(tree[i])
    /\ computed \in [Workers -> Result \cup {NoResult}]
    /\ pc \in [Workers -> {"idle", "evaluate", "store"}]
    /\ ticks \in 0 .. MaxTicks /\ reports \in 0 .. MaxReports /\ faults \in 0 .. MaxFaults
    /\ noticed \in BOOLEAN /\ excused \in BOOLEAN
    /\ misled \in [Workers -> BOOLEAN] /\ undisturbed \in [Workers -> BOOLEAN]

(* The evaluator, which stops at the first child that decides, takes       *)
(* cached results for the clock, shares them between workers and leaves,   *)
(* and compares values of any kinds, comes to what the conditions mean:    *)
(* all children of an AND, one of an OR.  The only exceptions are          *)
(* evaluations during which a state or the minute changed, and those that  *)
(* were given a result of another minute, or an error for a state          *)
(* (evaluator.go:34-100, helpers.go:29-90).                                *)
EvaluationIsRight ==
    \A w \in Workers :
        pc[w] = "evaluate" /\ ~ Turn(w).open /\ undisturbed[w] /\ ~ misled[w]
            => Turn(w).holds = Holds

(* When nothing is left to do and the conditions hold, the rule has been   *)
(* found true since they turned true: between them, the devices and the    *)
(* times taken out of the tree cover every way it can turn true, and no    *)
(* later report, expired state, tick or other worker takes the evaluation  *)
(* away.  The exceptions: the clock turned them true in a minute no "=="   *)
(* names (a "<" or ">" has its job at the boundary, where it does not yet  *)
(* hold), or an evaluation ended false after it was misled by a cached     *)
(* result or an error (engine.go:134-186, time_extractor.go:32-86,         *)
(* evaluator.go:39-81).                                                    *)
RunsWhenTrue ==
    queued = 0 /\ (\A w \in Workers : pc[w] = "idle") /\ Holds => noticed \/ excused

=============================================================================
