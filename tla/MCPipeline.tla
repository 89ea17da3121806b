----------------------------- MODULE MCPipeline -----------------------------
(***************************************************************************)
(* Pipeline with two workers and a rule that watches two devices: what one *)
(* rule's wake-up goes through does not depend on other rules.             *)
(***************************************************************************)
EXTENDS Pipeline, TLC

CONSTANTS motion, door, alarm, w1, w2

MCWatched == alarm :> {motion, door}

(* Workers run the same code, so their names do not matter.                *)
WorkerSymmetry == Permutations(Workers)

=============================================================================
