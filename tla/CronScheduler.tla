---------------------------- MODULE CronScheduler ----------------------------
(***************************************************************************)
(* internal/scheduler/scheduler.go: the map from schedule rows to cron     *)
(* jobs.  robfig/cron, which keeps the jobs, is external: it gives every   *)
(* job a fresh entry ID, counting from 1, and forgets a job only when      *)
(* Remove is called with that ID.  Each operator is one step that no other *)
(* goroutine can interrupt: a call into cron, which locks itself, or a     *)
(* section under jobMapMux.  AddOrUpdateSchedule is three of them, and     *)
(* holds no lock from one to the next.                                     *)
(***************************************************************************)
EXTENDS Naturals

VARIABLES
    entries,    \* the jobs cron holds, each [id, sched, rule, cron]
    nextEntry,  \* the entry ID cron gives next
    jobMap      \* Scheduler.jobMap: schedule ID -> entry ID

schedulerVars == <<entries, nextEntry, jobMap>>

NoEntry == 0  \* cron's IDs start at 1, so 0 is no entry

(* The job's closure captures the schedule's ID and its rule's ID. *)
Job(id, s) == [id |-> id, sched |-> s.id, rule |-> s.rule, cron |-> s.cron]

NewScheduler ==
    /\ entries = {}
    /\ nextEntry = 1
    /\ jobMap = [s \in {} |-> NoEntry]

(* The same in a process that starts again: cron keeps nothing on disk. *)
RestartScheduler ==
    /\ entries' = {}
    /\ nextEntry' = 1
    /\ jobMap' = [s \in {} |-> NoEntry]

-----------------------------------------------------------------------------

(* Mutants: the job keeps running, or its binding stays in jobMap.         *)
RemoveScheduleKeepsJob(sid) ==
    /\ entries' = entries
    /\ jobMap' = [s \in DOMAIN jobMap \ {sid} |-> jobMap[s]]
    /\ UNCHANGED nextEntry

RemoveScheduleKeepsBinding(sid) ==
    /\ entries' = {j \in entries : ~ (sid \in DOMAIN jobMap /\ j.id = jobMap[sid])}
    /\ UNCHANGED <<nextEntry, jobMap>>

(* RemoveSchedule: jobMapMux covers both the lookup and cron.Remove.       *)
RemoveSchedule(sid) ==
    /\ entries' = {j \in entries : ~ (sid \in DOMAIN jobMap /\ j.id = jobMap[sid])}
    /\ jobMap' = [s \in DOMAIN jobMap \ {sid} |-> jobMap[s]]
    /\ UNCHANGED nextEntry

(* cron.AddFunc.  The entry ID is the caller's until it writes jobMap.  The *)
(* expressions ConvertToCronExpression prints always parse, so AddFunc does *)
(* not fail on them.                                                        *)
AddJob(s) ==
    /\ entries' = entries \cup {Job(nextEntry, s)}
    /\ nextEntry' = nextEntry + 1
    /\ UNCHANGED jobMap

WithJob(sid, id) ==
    [s \in DOMAIN jobMap \cup {sid} |-> IF s = sid THEN id ELSE jobMap[s]]

(* jobMap[scheduleID] = entryID *)
MapJob(sid, id) ==
    /\ jobMap' = WithJob(sid, id)
    /\ UNCHANGED <<entries, nextEntry>>

(* Mutant: the job's closure takes the schedule's ID for the rule's.       *)
LoadScheduleMixesIDs(s) ==
    /\ entries' = entries \cup {[Job(nextEntry, s) EXCEPT !.rule = s.id]}
    /\ nextEntry' = nextEntry + 1
    /\ jobMap' = WithJob(s.id, nextEntry)

(* One turn of LoadSchedules' loop.  Its two halves are one step: it runs  *)
(* before the web server accepts the requests that could come between.     *)
LoadSchedule(s) ==
    /\ entries' = entries \cup {Job(nextEntry, s)}
    /\ nextEntry' = nextEntry + 1
    /\ jobMap' = WithJob(s.id, nextEntry)

=============================================================================
