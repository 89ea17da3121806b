---------------------------- MODULE MCRuleEngine ----------------------------
(***************************************************************************)
(* RuleEngine with a handful of rules: one or two devices, one or two      *)
(* times of day, and bodies chosen so that a rule can gain and lose a      *)
(* device, a time, its name and its enabled flag, and can become one whose *)
(* conditions do not parse.                                                *)
(***************************************************************************)
EXTENDS RuleEngine, TLC

CONSTANTS d1, d2, t1, t2, n1, n2, u1, u2, h1, h2

Cond(devs, times) == [parses |-> TRUE, devices |-> devs, crons |-> times]
Garbled == [parses |-> FALSE, devices |-> {}, crons |-> {}]

Both  == Cond({d1}, {t1})
Moved == Cond({d2}, {t2})
Timed == Cond({}, {t1, t2})
Plain == Cond({d1}, {})

MCConds == {Both, Moved, Timed, Plain, Garbled}

MCForms == {[name |-> n1, cond |-> Both, enabled |-> TRUE],
            [name |-> n1, cond |-> Timed, enabled |-> FALSE]}

Change(f, c, e) == [fields |-> f, name |-> n2, cond |-> c, enabled |-> e]

MCPatches == {Change({"name", "cond"}, Moved, FALSE), Change({"cond"}, Garbled, FALSE),
              Change({"enabled"}, Both, FALSE), Change({"enabled"}, Both, TRUE)}

(* Fewer bodies, for the runs in which requests overlap.                   *)
FewForms == {[name |-> n1, cond |-> Both, enabled |-> TRUE]}

FewPatches == {Change({"cond"}, Moved, FALSE), Change({"enabled"}, Both, FALSE),
               Change({"enabled"}, Both, TRUE)}

(* A rule without times has no schedules, and DELETE always removes its row. *)
Untimed == {[name |-> n1, cond |-> Plain, enabled |-> TRUE]}
NoPatches == {}

(* Handlers run the same code, so their names do not matter.               *)
HandlerSymmetry == Permutations(Handlers)

=============================================================================
