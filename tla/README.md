# A specification of the smart home backend

TLA+ modules that describe the automation backend in `src/`, configurations with
which TLC checks them on small instances, and proofs about them for TLAPS.
`PROJECT.json` lists the components, the runs, the lines of code behind each
definition, the hazards and the theorems.

    tlc -workers 2 -config engine_restart.cfg MCRuleEngine.tla   # one run
    tlapm RuleEngineProofs.tla                                   # one proof module

## 1. The system

The backend is one Go process beside PostgreSQL, Redis, an MQTT broker and the
task queue asynq, which keeps its queue in Redis. A second program,
`cmd/remote_server`, runs on a public host so that clients can reach a home
server behind a router.

| Component (source) | State | Operations |
| --- | --- | --- |
| rules API (`internal/web/api/automation.go`) | table `rules` | POST, PATCH, DELETE |
| engine (`internal/engine/engine.go`) | Redis sets `device:<id>:rules` | `Start`, `RefreshRuleAssociations`, `RemoveRuleAssociations`, `TriggerRuleEvaluation`, `onDeviceUpdate` |
| scheduler (`internal/scheduler/scheduler.go`) | table `schedules`, the cron's entries, `jobMap` | `LoadSchedules`, `AddOrUpdateSchedule`, `RemoveSchedule` |
| task queue and workers (`internal/taskqueue`) | asynq's queue and retries | enqueue, `processDeviceUpdateTask`, `evaluateAndExecuteTask`, `resolveConflicts` |
| device updates (`internal/automation/updater.go`) | table `devices`, Redis `device:<id>` | `ProcessDeviceUpdate` |
| conditions (`internal/automation/evaluator.go`, `time_extractor.go`, `internal/utils`) | a 60 s cache of time conditions | `EvaluateConditions`, the extraction of devices and times |
| executor (`internal/automation/executor.go`) | none; MQTT messages | `ExecuteResolvedActions` |
| remote access (`cmd/remote_server`, `internal/internet_bridge`) | maps `agents` and `pending.m`, sockets | register, request, response, timeout, dial |
| devices API (`internal/web/api/devices.go`) | table `devices` | accept, delete, set owner, command, name |
| authentication (`auth`, `internal/web/api/auth.go`, `internal/web/middleware`) | table `users`, tokens, Redis sessions | register, log in, validate, log out, change a password |
| configuration (`internal/config`) | `.env` | `LoadConfig`, generated secrets |
| start and shutdown (`cmd/engine/main.go`) | goroutines | start order, signal handling |

How they meet:

- A request on a rule writes its row, then calls the engine, which rewrites the
  association sets and, through the scheduler, schedule rows and cron jobs; it
  ends by queueing an `evaluate_rule` task.
- A device's report comes by MQTT, is queued as a `device_update` task, changes
  the state in Redis, and queues an `evaluate_rule` task for each rule in the
  device's association set. A cron job queues the same kind of task.
- A worker that evaluates a rule reads rules and states again, arbitrates with
  the other rules that want the same attributes, and publishes commands.

Nothing in either program uses a database transaction, and the only locks are those
around `jobMap`, `agents`, `pending.m` and the write to an agent's socket. So what is
hard is this:

- each handler is a sequence of calls on three stores, and any other handler,
  the workers or a crash may come between two of them;
- PostgreSQL, the association sets and the cron jobs say the same thing three
  times, and no two of them change together;
- most errors in loops are logged or dropped and the loop goes on;
- ten workers take reports of one device, and evaluations of one rule, at once;
- the public server holds a mutex while it waits for a goroutine that may be gone.

What would make each part correct:

- *rules, engine, scheduler*: a rule nobody is editing is in exactly the sets,
  and has exactly the jobs, that its row asks for; a deleted rule leaves
  nothing; a crash at any point is repaired by the start; an edited rule is
  evaluated again; a PATCH leaves the fields it was not sent alone.
- *arbitration*: who decides an attribute depends on the rules and not on the
  order they are met in or on which worker's task it is.
- *device updates*: an enabled rule is evaluated on the last state of each
  device it watches; reports of devices nobody accepted reach no rule.
- *remote access*: a request is carried out at most once, by the server it
  names, its client gets that answer or none, and always comes to an end.
- *conditions*: an evaluation comes to what the tree of conditions means, and a
  rule is evaluated, and found true, whenever its conditions turn true.
- *devices, authentication, configuration*: only a device's owner acts on it; a user
  name has one row; who has logged out stays so; secrets and settings survive
  restarts, and with them every token and the home's ID.

## 2. The modules

    CronScheduler ---- RuleEngine ---- MCRuleEngine
                            \--------- RuleEngineProofs
                                         \--- ExclusionProofs --- RestProofs
    Arbitration ------ MCArbitration
            \--------- ArbitrationProofs
    Pipeline --------- MCPipeline
            \--------- PipelineProofs
    Conditions ------- MCConditions
            \--------- ConditionsProofs
    EnvFile, Accounts, DeviceApi ---- HomeServer ---- MCHomeServer
                                             \------- HomeServerProofs
    RequestReply <==== RemoteBridge ---- MCRemoteBridge     (<==== implements)
                                \------- RemoteBridgeProofs

**CronScheduler** is the state of the scheduler (`entries`, `nextEntry`,
`jobMap`) and one operator for each piece of `AddOrUpdateSchedule`,
`RemoveSchedule` and `LoadSchedules` that runs under one lock. It has no
next-state relation of its own: RuleEngine composes the pieces into steps, with
anything in between that the locks allow.

**RuleEngine** composes the rules API, the engine, the scheduler, the tables
`rules` and `schedules`, and the start of the process. Each handler is a
goroutine with a program counter `pc[h]`; a label is the next call on
PostgreSQL, Redis, cron or the queue, and a step is that call with the
computation up to the next.

| Label | Code |
| --- | --- |
| `insert`, `select` | POST's INSERT, and the lookup by name and owner |
| `read`, `write` | PATCH's SELECT with its owner check and merge; its UPDATE |
| `fetch`, `keys`, `srem`, `sadd` | `RefreshRuleAssociations`: row, KEYS, SREM of each, SADD of each |
| `lookup`, `create`, `update` | `createSchedulesFromTimeConditions` for each time |
| `unschedule`, `addjob`, `mapjob` | `AddOrUpdateSchedule`: three separate locked pieces |
| `list`, `rows` | the rest of `refreshSchedulesForRule` |
| `trigger` | `TriggerRuleEvaluation` |
| `rmjob`, `rmrow` | DELETE's loop over schedules, then the DELETE itself |

`boot` is how far `Start` has come; `Crash` clears what lives in memory (jobs,
`jobMap`, goroutines) and leaves rows, sets and queue. `CallFails` is every error
branch: the request ends, or the loop goes on. A condition tree is
reduced to the devices and cron expressions extracted from it and to whether its
JSON parses. Tasks on one rule are one member of `evals`, as each reads the row
when it is taken.

**Arbitration** is `evaluateAndExecuteTask` with `collectPendingActions`,
`resolveConflicts` and `ExecuteResolvedActions`: a step for each query, for each
rule considered, for each turn of the outer loop and for each message. Rows and
map entries come in any order. Rule IDs are compared as the strings of digits
they are. `Switch` and `Turn` change a rule's row and the truth of its conditions
between any two steps. What the conditions say is an input (`holds`).

**Pipeline** is the way from a report to an evaluation, and the life of the process
around it: `onDeviceUpdate`, the queue, `ProcessDeviceUpdate`, `EnqueueEvaluation` of
each member of the set, errors, retries and archived tasks, while a PATCH takes a rule
out of the sets and puts it back and devices are accepted and deleted. `boot` is how
far `main` has come: the workers' goroutine sets `asynqClient` at any time after
`Launch`, reports arrive as soon as the engine has subscribed (with no client yet,
the process panics), the sets are cleared and then filled pair by pair, and only
then requests are served. `Crash` may come at any step; asynq keeps the tasks the
workers had, and gives them out again as retries (`Recover`). A report is a
number, and a state is the number of the report it came from. asynq's queue, in
order, and its retries, in any order, are modelled from how the code uses them.

**Conditions** is the inside of one evaluation. A tree is a sequence of nodes
in preorder. `Outcome(tree, read[w])` is `evaluateCondition` as far as worker `w`
has read: a result, or the leaf it reads next; each read of Redis and each SET of
the cache is a step, so that reports, expired states, ticks of the clock and
other workers come between two leaves. `ExtractDevices` and `ExtractTimes` are what
the engine and the scheduler make of the same tree, and decide which reports and
which minutes queue an evaluation. `Truth` is what the tree means, written without
regard to order. `Compare` follows `utils.Compare` by kinds of value; "18:5" is
a kind of its own, as the extractor reads it and the comparison does not.

**EnvFile**, **Accounts** and **DeviceApi** are the configuration, the
authentication and the devices API, and share variables: `cfg` (the secrets) and
`request[h]` (what a handler has still to do). **HomeServer** composes them: `Start` is
`LoadConfig` with its save in two halves, requests are served while the process
is up, `ServeDevices` has `RequireAuth` in front of the handlers, and `Crash` loses
the secrets in memory and the requests. A made-up secret is a new number. A device
command, rename or deletion is two steps, `CheckOwner` and `Act`; `createUser`,
`ValidateTokenSession` and `ChangePassword` are two or three.

**RequestReply** is what remote access promises a client, in five actions and
three variables. **RemoteBridge** is the code: a reader for each socket, a
goroutine for each client, an agent loop for each home server, sockets that break
at any time with messages under way. It carries `RequestReply`'s variables
as history and implements it under the identity mapping (`Promise == INSTANCE
RequestReply WITH ...`, checked as `KeepsPromise`).

Operators with a name like `HandOverKeeps` or `GetKeysOfRule`, commented *Mutant*,
are not part of a specification: each is the form the following definition would
have with a plausible bug, and `PROJECT.json` ("mutants") says which property
finds it.

## 3. The runs

Numbers are distinct states. Every passing run explores its whole state space.

| Run | Instance | What it shows |
| --- | --- | --- |
| `engine_requests` | 2 handlers, 3 requests, 1 user, clients that wait for each answer on a rule (128 000, symmetric) | sets, schedules, jobs and rows agree at rest; jobs and schedule rows are not doubled; DELETE leaves nothing; PATCH writes only what it was sent |
| `engine_restart` | 2 handlers, 2 requests that overlap freely, 2 users, 1 crash, 1 failed call (1.3 million, symmetric) | the start repairs sets and jobs whatever the crash left; `jobMap` and jobs stay right throughout |
| `engine_triggers` | 2 handlers, 2 requests that overlap (211 000) | a rule written enabled is queued for evaluation |
| `arbitration` | 2 workers, 2 tasks, rules 2, 9 and 10, three sets of actions, 1 change (1.0 million) | the least rule decides; workers agree; only rules that were on and true drive a device |
| `pipeline` | 1 rule on 2 devices, 2 workers, 2 reports, 1 retry, and any 2 of: edit, acceptance or deletion, failed call, end of the process (3.4 million, symmetric) | no wake-up is lost but those the code drops; strangers are not heard; accepted rows stay |
| `conditions` | 7 trees, 2 workers, a day of 3 minutes, 2 ticks, 2 changes of states, 1 failed read (514 000, symmetric) | evaluations are right; a rule that turned true has been found true |
| `accounts` | 2 handlers, 3 requests, 2 names, 2 passwords, 1 device, 1 crash, 1 failed save (1.4 million, symmetric) | secrets and settings survive; tokens stay good; sessions stay ended; names are unique; owners act |
| `bridge` | 2 servers, 2 clients, 2 requests, 2 sockets (385 000) | the promise; the two maps; nothing but a late response holds a client up |
| `patch_lost_update` | as `engine_restart`, 3 requests, no faults | *violated*: a PATCH undoes another's |
| `orphan_job` | as above, 2 requests | *violated*: two jobs for one schedule |
| `same_name_post` | 2 POSTs of rules without times | *violated*: a rule without associations |
| `bridge_wedge` | as `bridge` | *violated*: a late response stops the server |

**Why the bounds suffice.** The faults the properties are about need two actors
and the one thing that comes between them. Two handlers, workers or clients are
the least that interleave; a third would run the same code against the same
shared state. Three requests are POST, PATCH and another PATCH or DELETE on one
rule, or two rules; bodies are chosen so that a rule can gain and lose a
device, a time, its name and its flag, and become one that does not parse. One
crash and one failed call may fall at any step; two crashes in a row meet the same
code again, as the start reads nothing but the stores. Two sockets let
one agent dial again while the server still holds its first, or two agents be up
at once. Rules 2, 9 and 10 are three whose order as strings and as
numbers differ, with a pair (2, 9) that agrees; the plans share attributes in pairs and
all three, give one rule two actions on one attribute, and include an
empty list, an action without a device and one that does not parse. In
`pipeline` one retry stands for asynq's three: the second of two faults of one task
meets the last retry, as the fourth would with three. Two events let a crash
meet an edit, a failed call, a deletion or another crash; one rule on two devices
is the least that a start can have half added. In `conditions` the trees nest
groups both ways, use one value under two operators, name a device where
nothing reads it, compare kinds that do not compare, and have groups without
children or with an operator that is neither AND nor OR; three minutes are before,
at and after a boundary, and two ticks let a cached result outlive its minute. In
`accounts` the process starts up to twice on each of four files, with and without
a secret in the environment, and a home may have run before: three requests
suffice to log in, take a device over and act on it.

**Deadlock** is not checked: with the counters at their bounds the system
is still, in every run.

**Symmetry** is used for handlers and workers in the runs without temporal
properties only. `engine_requests` and `pipeline` check `[][A]_vars` properties,
which compare two states and do not tell handlers apart.

**Overlap.** The server does not keep two requests on one rule apart.
`AssociationsAtRest`, `TimesAtRest`, `OneJobPerSchedule`, `UniqueSchedules`,
`NothingDangles` and `PatchOnlyProvided` are what the code gives clients that
wait for each answer (`Overlap = FALSE`); three of the violated runs show what
is lost without that. With waiting clients requests on *different* rules
still interleave, and share Redis sets, the cron and `jobMap`. These properties
are also checked without failed calls and with one user: the hazards at
`engine.go:252` and `automation.go:93` say what a failed lookup or a request on
another user's rule leaves behind. All of them are proved for any numbers under the
hypotheses each one needs (ExclusionProofs and RestProofs, section 6).

## 4. Fairness

Only `engine_triggers`, `patch_lost_update`, `bridge` and `bridge_wedge` run
under `FairSpec`. Its weak fairness says that a goroutine that can take a step
does: `WF(Step(h))` for each handler and `WF(Boot)` for the start; one `WF` for each
agent, each socket's reader and each client. Go's scheduler is preemptive and the
loops are finite. `ClientStep` includes the timer of `time.After`. `Lock` and
`Enlist` wait for `pending.mux`; weak fairness suffices because a property that
needs more, that a mutex had again and again is had by everyone, does not arise
with so few requests (Go's mutex in its starvation mode would give it). Nothing is
assumed of clients sending, devices reporting, jobs firing, agents dialing,
sockets breaking or staying up, or failures.

## 5. What was found

- `patch_lost_update`: `automation.go:121-147` reads a row, merges, and writes all
  columns. Of two overlapping PATCHes the second restores what it read.
- `orphan_job`: `scheduler.go:120-149` is three steps. Two overlapping refreshes
  of one schedule both find nothing to remove and both add. The job `jobMap` does
  not hold fires until the process ends.
- `same_name_post`: `automation.go:64` finds the row it inserted by name and owner,
  newest first. Two POSTs of one name both refresh the newer rule.
- `bridge_wedge`: `cmd/remote_server/main.go:93-104` sends on an unbuffered channel
  with `pending.mux` locked. If the client has timed out, the reader and all later
  requests of all home servers block for good, before their own timeouts start.

What the properties name as exceptions is behaviour of the code too: a cached time
result hides the minute a rule turns true (`evaluator.go:80`), a `>` or `<` has its
job at a minute when it does not hold yet (`time_extractor.go:76`), a report during
a start wakes nobody (`engine.go:103`) or ends the process (`engine.go:83`),
overlapping registrations create a name twice (`auth.go:41`), and a crash while
`.env` is rewritten loses it (`config.go:215`). `tasks.go:224` compares IDs as
strings, so that rule 10 comes before rule 2. Other behaviour met while modelling is
in the hazards list, each at its line; those without a property say why.

## 6. The proofs

`ASSUME`s state only what the constants are: bodies and plans of the right shape,
names, users, conditions and times not empty, bounds natural numbers, and no two
rule IDs with the same digits. TLC evaluates them in every run. No theorem bounds
the number of handlers, workers, rules, devices or requests, and none but those of
RestProofs the crashes or faults; `Overlap` may be either except in ExclusionProofs
and RestProofs, whose theorems state it as a hypothesis.

**RuleEngineProofs.** `TypeCorrect` (`Spec => []TypeOK`) goes by lemmas on the
kinds of steps, with the scheduler's operators taken apart once. `JobMapStaysLive`
(`Spec => []JobMapLive`): a binding of `jobMap` is to a live job of its own
schedule, so that no request can stop another rule's job. The property is not
inductive: `AddOrUpdateSchedule` holds an ID that is not yet in the map while
others remove jobs. `JobsInv` adds

- `JobsFresh`: job IDs are below `nextEntry`, and two jobs do not share one;
- `PendingLive`: the job a handler is about to record is alive and of the schedule
  it holds;
- `PendingUnmapped`: no binding is to that job, so that no Remove finds it;
- `PendingDistinct`: two handlers do not hold one job.

The fourth part is needed because two handlers may both be about to record: the
first one's write would otherwise be of a job the other holds. The lemma for
`RemoveSchedule` rests on `JobMapInjective`, which follows from the first two.

`JobsAlwaysMatchRows` (`Spec => []JobsMatchRows`): what a handler has read of a
schedule may be old when it is used, but of a row's ID, rule and time none ever
changes. IDs are not given out twice, and `UpdateSchedule` writes the time the row
was looked up by. `MatchInv` says that whatever names a schedule (a job, the
argument of a call, a row of a list) is `Right` about the row with that ID, if
there still is one. `StartsRepair` (`Spec => []RestartRepairs`): no handler runs
before the web server does, so that `StartInv` can follow the start alone: up to
then every job is the one `jobMap` has for an enabled row, and after the loading
every enabled row has one. It uses `JobsInv` (a new job's ID is new) and
`MatchInv` (a job is of its row's rule and time).

**ExclusionProofs** and **RestProofs** are about clients that wait for each answer
(`~ Overlap`). The model says so of arrivals only: a request does not arrive while
another one on its rule is under way. `RequestsApart` (`Spec => []ExclInv`) carries
that to every later step, through crashes and failed calls. The hard case is a POST,
which inserts its row, and only then looks for the newest one of its name and
owner: until it has found it, nobody may know the row (`Kept`: no other request is on
its ID, and a PATCH that gives its row the same name is on an older one).
`Knows` says that what a handler holds is still true: the copy a PATCH is about to
write is the row of now with its changes, the row a refresh works on is there.

- `PatchKeepsFields` (`Spec => PatchOnlyProvided`) follows at once.
- `OneJobEach` (`Spec => []OneJobPerSchedule`), with any faults and crashes:
  `SchedInv` (the rows a handler has listed and the schedule it adds are of its own
  rule, and current) and `JobsKept` (each job has its row, and is the one `jobMap` has
  for it or the one a handler is about to record; a handler that is going to add
  a job has removed the old one).
- `SchedulesStayUnique` and `DeletedLeavesNothing` also need calls that succeed
  (`MaxFaults = 0`). A failed lookup is taken for one that found nothing
  (`engine.go:255`), and adds the schedule again; after a failed KEYS or SREM, DELETE
  goes on. The invariants: at CREATE no schedule has the time (`UniqueInv`); a set names
  only rules that are there, and SREM has all the sets its rule is in (`DangleInv`).
  The process may die at any step.
- `AssociationsRight` and `TimesRight` say what a rule has when no request works
  on it. `RightInv` and `TimesInv` give each label what the handler has done so far
  for its row, and `Unhandled` rows everything. Both need one more hypothesis
  about the clients, `OwnersDelete`: DELETE checks the owner in its last statement
  (`automation.go:100`), so that another user's request takes a rule's sets and
  schedules away and leaves the rule. `OneUserDeletesOwn` shows that it holds with one
  user, as in the run. `TimesRight` also needs a process that does not die: the start
  loads the schedules there are (`scheduler.go:59`) and derives none, and a rule
  whose process died between its UPDATE and its refresh stays without.

The run `engine_requests` satisfies all these hypotheses.

**ArbitrationProofs.** `TypeCorrect`, and `LeastRuleAlwaysWins` (`Spec =>
[]LeastRuleWins`). `LexIrreflexive` and `LexTransitive` show that Go's order on
strings is strict; `PrecedesStrict` carries it to rule IDs. The inductive part,
`Tracked`, says for each worker past its evaluation: each rule it found true, each
of the task's targets the rule sets, is either still to come (its own actions are
not added yet, or the action is pending) or *settled*: decided by a rule that the
found rule does not precede. `DecideSettles` is one turn of the loop: it settles
its own action's attributes, and by transitivity settles no rule again the other
way.

`OnlyActiveDrive` (`Spec => []DrivenByActive`) follows what a worker holds, from
the rule it fetched to the attributes it has decided: `ActiveInv`. `WorkersAgree`
(`Spec => []AgreeOnTargets`) has two parts. `Decided`: what decides an attribute
is the *first* action that sets it, in the list of a rule the worker found true.
`KnowsAll`: while nothing changes, the rules found true are all that are on and
true. Two workers that end in the same world thus have the same candidates, and
`LeastRuleAlwaysWins` with the order being total (`LexTotal`, and the assumption
that no two IDs are written alike) leaves one.

**PipelineProofs.** `TypeCorrect`; `NoStrangerIsHeard` (`Spec =>
[]StrangersUnheard`), whose invariant adds that a worker past the lookup has seen
the device accepted; `AcceptanceLasts` (`Spec => AcceptedStays`), an action
property. `NothingIsForgotten` (`Spec => []NoLostWakeup`) needs to know where a
wake-up is while it is under way. `WakeInv`: for an enabled rule that is not
evaluated on the last states, and whose wake-up no fault dropped, a task that will
wake it is queued or waits for its retry, or a worker is at a call from which it
goes on to the rule (`AtWork`: with the members of the set still to be read, or
read with the rule among them, or evaluating it on states that nothing has changed
since), or an edit of the rule will queue an evaluation at its end. A report finds
its rules in the association sets, so that the proof rests on `SetsInv`: outside
edits and starts an enabled rule is in the set of each device it watches, and
during them the missing ones are still to be added.

**ConditionsProofs.** For every tree, any devices, workers, minutes, changes of
states and failed reads: `TypeCorrect`, `RightResult` (`Spec =>
[]EvaluationIsRight`) and `TurningTrueIsSeen` (`Spec => []RunsWhenTrue`). The
functions that recurse over a tree are defined by positions, children after their
node; the lemma `Recursion` shows that such a function exists, by taking a least
position without a value, where an induction theorem cannot be used. From it each of
`Outcome`, `Truth`, `ExtractTimes` and `ExtractDevices` is what its definition says at
every node. `FindsTrue` and `FindsFalse` hold the evaluator against the reference: it
may stop early, but one that has read no true leaf as false (`AtLeast`) finds a true
tree true, and one that has read no false leaf as true (`AtMost`) a false tree
false. `RightInv` says that cached and computed results are right for the minute they
are of, and an undisturbed evaluation's readings for the present one. `RunsInv`
says that conditions that hold and have not been found to have a task queued, or a
`Hopeful` worker: one that has been misled (which excuses it), or has read no
true leaf as false. A report keeps that because `DevicesCovered` finds every device a
node names, a tick because `TimesCovered` finds every "==", and a state that Redis
forgets because AND and OR are monotone (`TruthGrows`) and nothing compares with
a missing value.

`TurningTrueIsSeen` has the hypothesis `TimedLeavesOnly`: no node that is itself
a time that does not parse has children. The search for times returns at such a node
(`time_extractor.go:37-52`), and a "==" below it gets no job; the evaluator, which
ignores the type of a group, would evaluate it. The trees of the run satisfy it.

**HomeServerProofs**, about EnvFile, Accounts and DeviceApi put together.
`TypeCorrect`; `LoggedOutForGood`; `NamesUnique` (each of two overlapping
registrations is noted while both run); `OnlyOwnersAct` (`OwnersInv`: every row
and every lookup a request holds is among what users have had); `SettingsKept` and
`LoginsOutliveRestarts` from `SecretsInv`, which has a part for each phase of the
process. Its key is that nobody has a token while the file is being written: had
there been one, no secret would have been missing.

**RemoteBridgeProofs.** `TypeCorrect`; `RequestsGoToReadSockets` (with `Undialed`,
`OwnLinks`: an agent's socket is one it dialed itself); `ChannelsAreAwaited` (with
`ClientsDiffer`, `Unanswered`); and `BridgeKeepsPromise` (`Spec => KeepsPromise`),
the refinement: initial states map to initial states of RequestReply, and each
step to a step of it or a stutter. The steps that handle a request or answer a
client need `FlightInv`: a request about to be written, on a socket or with an
agent is in that one place only, on its way to the server it names, and has not
been carried out; a response is what came of its request.

**Only model-checked.** The liveness properties (`Reevaluated`,
`AnsweredUnlessWedged`), which need `ENABLED`. Every invariant and action property of a
passing run is stated by a theorem.

## 7. What is left out

- **Conditions** are inputs to RuleEngine, Arbitration and Pipeline; Conditions itself
  leaves out `min_change`, which no code looks at, the branches for a nil Redis
  client, and the redundancy of actions, which Arbitration has. Its evaluations
  do not fail or end early; those of Pipeline do.
- **Time.** A minute is the unit of the clock, and 60 s end in the next one.
  Time zones, clock changes and a scheduler that is late are left out. Sessions
  are fresh, old or gone. In RemoteBridge a timeout may come at any moment of
  the wait.
- **Shutdown.** Every end of the process is abrupt. `Stop`, `StopWorkers`, and asynq's
  own signal handler (it ends the workers and leaves the process, see the hazard at
  `main.go:71`) are not modelled. A task that outlives its 10 s timeout
  while its handler still runs is not either. In RuleEngine the queue survives a
  crash and calls during the start do not fail.
- **Schedules** across the life of the process are in RuleEngine, associations in
  both RuleEngine (with overlapping requests) and Pipeline (with reports); Pipeline's
  clients wait for each answer on a rule.
- **Accounts**: hashing, signing, and tokens that have expired. Failing queries
  end a request before it changed anything, which a request may do here anyway by
  not being sent. The environment of the process is the same at each start.
- **Settings** other than the two secrets: constants with defaults
  (`config.go:73-102`), read once.
- `RefreshAllRuleAssociations`, `ReloadAllSchedules`, `ReloadSchedules`,
  `ExecuteActions` and several queries are called by nothing. GET handlers and
  `GetScheduledJobCount` read only.
- The goroutine that copies a state into `devices.state`, a column only GET reads.
- The `actions` column does not change in RuleEngine; the engine does not look at it.
- In RemoteBridge: the bodies and headers; `reqId` (nanoseconds) is taken to be
  unique; `Config.LocalURL` is taken to be a URL, as `agent.go:16` says, though
  `cmd/engine/main.go:73` passes none, so that the first request ends the
  process.
- Web views, route registration, mDNS, MQTT and Redis connections: no state of
  their own.

## 8. Plan

Done: modules of section 2. Left:

1. A task that outlives its timeout, in Pipeline: the handler of the first try and
   that of the second run at once.
2. Conditions inside Arbitration: two rules that read one state at different times.
3. Shutdown: the two signal handlers, and what a `Stop` in their order leaves.
4. Proofs: the properties at rest with failed calls and crashes, weakened to what
   the code then still gives (which rows can be double, which rules without a
   schedule); an abstract specification of a rule's life that RuleEngine implements.
