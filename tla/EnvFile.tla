------------------------------ MODULE EnvFile -------------------------------
(***************************************************************************)
(* internal/config/config.go: the start of the engine reads .env and the   *)
(* environment, makes up the two secrets that are missing (the key that    *)
(* signs tokens, and the ID under which the public server knows this home) *)
(* and writes them into .env: it reads the lines there are, truncates the  *)
(* file and writes all of them again.                                      *)
(*                                                                         *)
(* A file is a function from the names it has to numbers; "SETTINGS"       *)
(* stands for the lines the operator wrote.  A number made up is a new     *)
(* one.  Comments, which a save drops, and the other settings' values are  *)
(* left out.                                                               *)
(***************************************************************************)
EXTENDS Naturals

CONSTANTS
    MaxCrashes, \* bound: ends of the process
    MaxFailures \* bound: calls on the file that fail

VARIABLES
    outside, \* the environment the process is started with
    file,    \* .env
    cfg,     \* the secrets the process has
    phase,   \* how far the start has come
    saving,  \* the lines the save is going to write
    made,    \* the last number made up
    crashes, failures, \* counters for the bounds
    spoiled, \* history: a save has failed or been cut short
    original \* history: .env at the first start

envVars == <<outside, file, cfg, phase, saving, made, crashes, failures, spoiled,
             original>>

Secrets == {"JWT_SECRET", "AGENT_ID"}
Unset == [k \in Secrets |-> 0]
NoLines == [k \in {} |-> 0]

(* godotenv leaves alone what the environment has; getEnv's default is "". *)
Get(k) ==
    IF k \in DOMAIN outside THEN outside[k] ELSE IF k \in DOMAIN file THEN file[k] ELSE 0

(* Mutant: an ID that was made up does not count as modified.              *)
LoadConfigUnsaved ==
    /\ phase = "off"
    /\ cfg' = [k \in Secrets |->
                  IF Get(k) # 0 THEN Get(k) ELSE made + (IF k = "JWT_SECRET" THEN 1 ELSE 2)]
    /\ made' = made + 2
    /\ phase' = IF Get("JWT_SECRET") = 0 THEN "save" ELSE "up"
    /\ UNCHANGED <<outside, file, saving, crashes, failures, spoiled, original>>

(* LoadConfig, to the first access of the save, if there has to be one.    *)
LoadConfig ==
    /\ phase = "off"
    /\ cfg' = [k \in Secrets |->
                  IF Get(k) # 0 THEN Get(k) ELSE made + (IF k = "JWT_SECRET" THEN 1 ELSE 2)]
    /\ made' = made + 2
    /\ phase' = IF \E k \in Secrets : Get(k) = 0 THEN "save" ELSE "up"
    /\ UNCHANGED <<outside, file, saving, crashes, failures, spoiled, original>>

(* Mutant: the lines there are, are not read first.                        *)
TruncateUnread ==
    /\ phase = "save"
    /\ saving' = cfg
    /\ file' = NoLines
    /\ phase' = "write"
    /\ UNCHANGED <<outside, cfg, made, crashes, failures, spoiled, original>>

(* saveToEnvFile's first half: the lines are read, os.Create truncates.    *)
Truncate ==
    /\ phase = "save"
    /\ saving' = [k \in DOMAIN file \cup Secrets |-> IF k \in Secrets THEN cfg[k] ELSE file[k]]
    /\ file' = NoLines
    /\ phase' = "write"
    /\ UNCHANGED <<outside, cfg, made, crashes, failures, spoiled, original>>

(* Nothing reaches the file before Flush.                                  *)
Flush ==
    /\ phase = "write"
    /\ file' = saving
    /\ saving' = NoLines
    /\ phase' = "up"
    /\ UNCHANGED <<outside, cfg, made, crashes, failures, spoiled, original>>

(* os.Create or Flush fails: a warning, and the start goes on.             *)
SaveFails ==
    /\ phase \in {"save", "write"}
    /\ failures < MaxFailures /\ failures' = failures + 1
    /\ saving' = NoLines
    /\ phase' = "up"
    /\ spoiled' = TRUE
    /\ UNCHANGED <<outside, file, cfg, made, crashes, original>>

(* The process ends, at any moment.                                        *)
Crash ==
    /\ phase # "off"
    /\ crashes < MaxCrashes /\ crashes' = crashes + 1
    /\ phase' = "off"
    /\ cfg' = Unset
    /\ saving' = NoLines
    /\ spoiled' = (spoiled \/ phase = "write")
    /\ UNCHANGED <<outside, file, made, failures, original>>

-----------------------------------------------------------------------------
(* A fresh directory, the operator's file, and what earlier starts left.   *)
Init ==
    /\ \E K \in {{}, {"SETTINGS"}, {"SETTINGS", "JWT_SECRET"}, {"SETTINGS"} \cup Secrets} :
          file = [k \in K |-> CASE k = "SETTINGS" -> 1 [] k = "JWT_SECRET" -> 2 [] OTHER -> 3]
    /\ \E K \in {{}, {"JWT_SECRET"}} : outside = [k \in K |-> 4]
    /\ cfg = Unset /\ phase = "off" /\ saving = NoLines
    /\ made = 4 /\ crashes = 0 /\ failures = 0 /\ spoiled = FALSE
    /\ original = file

Next == LoadConfig \/ Truncate \/ Flush \/ SaveFails \/ Crash

Spec == Init /\ [][Next]_envVars

-----------------------------------------------------------------------------
(* Properties.                                                             *)

TypeOK ==
    /\ \A k \in DOMAIN file : k \in Secrets \cup {"SETTINGS"} /\ file[k] \in Nat
    /\ \A k \in DOMAIN saving : k \in Secrets \cup {"SETTINGS"} /\ saving[k] \in Nat
    /\ cfg \in [Secrets -> Nat] /\ (phase # "off" => \A k \in Secrets : cfg[k] # 0)
    /\ phase \in {"off", "save", "write", "up"}
    /\ crashes \in 0 .. MaxCrashes /\ failures \in 0 .. MaxFailures /\ spoiled \in BOOLEAN

(* The lines the operator's .env had are there after any number of starts, *)
(* with their values, but for a secret the environment overrides, and what *)
(* the next start would read is what the running one has: only a save that *)
(* failed, or that the end of the process cut short, breaks either         *)
(* (config.go:140-234).                                                    *)
FileKept ==
    phase # "write" /\ ~ spoiled =>
        /\ \A k \in DOMAIN original :
              k \in DOMAIN file /\ (k \in DOMAIN outside \/ file[k] = original[k])
        /\ phase = "up" => \A k \in Secrets : Get(k) = cfg[k]

=============================================================================
