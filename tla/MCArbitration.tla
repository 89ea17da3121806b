---------------------------- MODULE MCArbitration ----------------------------
(***************************************************************************)
(* Arbitration with rules 2, 9 and 10, whose order as strings is 10, 2, 9. *)
(* They share attributes in pairs and all three, one has two actions on    *)
(* one attribute, and some actions are on no device or do not parse.       *)
(***************************************************************************)
EXTENDS Arbitration, TLC

CONSTANTS lamp, fan, on, dim, x, y, z, w1, w2, none

MCRules == {2, 9, 10}
MCDigits == [r \in MCRules |-> IF r < 10 THEN <<r>> ELSE <<r \div 10, r % 10>>]

Act(d, p) == [device |-> d, readable |-> TRUE, params |-> p]
Broken == [device |-> lamp, readable |-> FALSE, params |-> <<>>]

Crossing == (2 :> <<Act(lamp, on :> x), Act(none, on :> x)>>)
         @@ (9 :> <<Act(lamp, on :> y @@ dim :> y), Act(lamp, on :> x), Act(fan, on :> y)>>)
         @@ (10 :> <<Act(lamp, dim :> z), Broken>>)

Shared == (2 :> <<Act(lamp, on :> x)>>)
       @@ (9 :> <<Act(lamp, on :> y)>>)
       @@ (10 :> <<Act(lamp, on :> z), Act(lamp, on :> x @@ dim :> x)>>)

Idle == (2 :> <<>>)
     @@ (9 :> <<Act(fan, on :> y), Act(lamp, on :> x)>>)
     @@ (10 :> <<Act(lamp, on :> z)>>)

MCPlans == {Crossing, Shared, Idle}

=============================================================================
