---------------------------- MODULE MCConditions ----------------------------
(***************************************************************************)
(* Conditions with a day of three minutes, two devices, and trees that nest,*)
(* use a value under two operators, name a device where it is read by      *)
(* nobody, compare what cannot be compared, and have no children.          *)
(***************************************************************************)
EXTENDS Conditions, TLC

CONSTANTS lamp, meter, w1, w2

Num(n) == [kind |-> "number", n |-> n]
On == [kind |-> "bool", n |-> 1]
Off == [kind |-> "bool", n |-> 0]
Time(n) == [kind |-> "time", n |-> n]
Loose(n) == [kind |-> "loose", n |-> n]

OnState(d, op, v) ==
    [operator |-> "", type |-> "device", dev |-> d, key |-> "v", op |-> op, value |-> v,
     children |-> <<>>]
At(op, v) ==
    [operator |-> "", type |-> "time", dev |-> "", key |-> "", op |-> op, value |-> v,
     children |-> <<>>]
Group(operator, d, children) ==
    [operator |-> operator, type |-> "", dev |-> d, key |-> "", op |-> "", value |-> Missing,
     children |-> children]

Weather == [OnState(lamp, "==", On) EXCEPT !.type = "weather"]

MCTrees ==
    {<<Group("AND", "", <<2, 3>>), OnState(lamp, "==", On),
       Group("OR", "", <<4, 5>>), At(">", Time(1)), At("==", Time(1))>>,
     <<Group("OR", "", <<2, 5>>), Group("AND", "", <<3, 4>>), At(">", Time(1)),
       OnState(lamp, "!=", On), At("==", Time(1))>>,
     <<Group("AND", "", <<2, 4>>), Group("OR", "", <<3>>), OnState(meter, ">", Num(1)),
       OnState(lamp, "!=", Off)>>,
     <<Group("AND", meter, <<2>>), At("<", Time(2))>>,
     <<Group("OR", "", <<2, 3, 4>>), Group("OR", "", <<>>), At("==", Loose(1)),
       OnState(lamp, "<", Num(2))>>,
     <<Group("OR", "", <<2, 3, 4>>), Group("NOT", "", <<>>), At("==", Missing), Weather>>,
     <<Group("AND", "", <<2, 3>>), Group("AND", "", <<>>), At("!=", Time(0))>>}

MCPayloads == (lamp :> {"v" :> On, "v" :> Off}) @@ (meter :> {"v" :> Num(2)})

(* Workers run the same code, so their names do not matter.                *)
WorkerSymmetry == Permutations(Workers)

=============================================================================
