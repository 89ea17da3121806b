-------------------------- MODULE ConditionsProofs --------------------------
(***************************************************************************)
(* Proofs about Conditions, for every tree, any number of devices, workers *)
(* and minutes, and any failed reads: evaluation comes to what the tree    *)
(* means (RightResult), and a rule whose conditions turn true is found to  *)
(* be true (TurningTrueIsSeen).                                            *)
(*                                                                         *)
(* Outcome, Truth, ExtractTimes and ExtractDevices recurse over the tree.  *)
(* Recursion shows that such functions exist, by the least position of     *)
(* which it is not yet known, in place of an induction theorem; Downward   *)
(* and Upward carry a fact from the children to their node and from a node *)
(* to its children.                                                        *)
(***************************************************************************)
EXTENDS Conditions, TLAPS, NaturalsInduction, WellFoundedInduction

-----------------------------------------------------------------------------
(* Positions in a tree.                                                    *)

(* A set of natural numbers has a least element.                           *)
LEMMA LeastNatural == ASSUME NEW S \in SUBSET Nat, S # {} PROVE \E m \in S : \A k \in S : m <= k
<1> DEFINE R == OpToRel(<, Nat)
<1>1. IsWellFoundedOn(R, Nat)
  BY NatLessThanWellFounded
<1>2. \A x, y \in Nat : x < y => <<x, y>> \in R
  BY DEF OpToRel
<1> HIDE DEF R
<1>3. PICK m \in S : \A y \in S : ~ (<<y, m>> \in R)
  BY <1>1, WFMin
<1>4. \A k \in S : ~ (k < m)
  BY <1>2, <1>3
<1> QED
  BY <1>3, <1>4

(* First finds it.                                                         *)
LEMMA FirstIsFirst ==
    ASSUME NEW S \in SUBSET Nat, S # {}
    PROVE  First(S) \in S /\ \A k \in S : First(S) <= k
  BY LeastNatural DEF First

(* What every position has that all later ones have, all have.             *)
LEMMA Downward ==
    ASSUME NEW n \in Nat, NEW S,
           \A i \in 1 .. n : (\A j \in (i + 1) .. n : j \in S) => i \in S
    PROVE  1 .. n \subseteq S
<1> DEFINE Out == {k \in 0 .. n : k < n /\ n - k \notin S}
<1> SUFFICES ASSUME Out # {} PROVE FALSE
  <2>1. ASSUME NEW i \in 1 .. n, i \notin S PROVE n - i \in Out
    <3>1. n - (n - i) = i /\ n - i \in 0 .. n /\ n - i < n
      OBVIOUS
    <3> QED
      BY <2>1, <3>1
  <2> QED
    BY <2>1
<1>0. Out \in SUBSET Nat
  OBVIOUS
<1>1. PICK k \in Out : \A l \in Out : k <= l
  <2> HIDE DEF Out
  <2> QED
    BY <1>0, LeastNatural
<1>2. k \in 0 .. n /\ n - k \in 1 .. n /\ n - k \notin S
  BY <1>1
<1>3. ASSUME NEW j \in (n - k + 1) .. n PROVE j \in S
  <2>1. n - j \in 0 .. n /\ n - j < k /\ n - (n - j) = j
    BY <1>2
  <2>2. n - j \notin Out
    BY <1>1, <1>2, <2>1
  <2> QED
    BY <1>2, <2>1, <2>2
<1> QED
  BY <1>2, <1>3

(* What every position has that an earlier one hands it, all have.         *)
LEMMA Upward ==
    ASSUME NEW n \in Nat, NEW S,
           \A i \in 1 .. n : (\A j \in 1 .. (i - 1) : j \in S) => i \in S
    PROVE  1 .. n \subseteq S
<1> DEFINE Out == {k \in 1 .. n : k \notin S}
<1> SUFFICES ASSUME Out # {} PROVE FALSE
  OBVIOUS
<1>0. Out \in SUBSET Nat
  OBVIOUS
<1>1. PICK k \in Out : \A l \in Out : k <= l
  <2> HIDE DEF Out
  <2> QED
    BY <1>0, LeastNatural
<1>2. ASSUME NEW j \in 1 .. (k - 1) PROVE j \in S
  BY <1>1
<1> QED
  BY <1>1, <1>2

(* A function whose value at each position depends on those at later ones  *)
(* only is defined by them.                                                *)
Depends(n, V, F) ==
    /\ \A i \in 1 .. n : \A f \in [1 .. n -> V] : F[i][f] \in V
    /\ \A i \in 1 .. n : \A f, g \in [1 .. n -> V] :
          (\A j \in (i + 1) .. n : f[j] = g[j]) => F[i][f] = F[i][g]

(* Depends says so; there is then a function that is what F says.          *)
LEMMA Recursion ==
    \A n \in Nat : \A V, F : V # {} /\ Depends(n, V, F) =>
        \E f \in [1 .. n -> V] : \A i \in 1 .. n : f[i] = F[i][f]
<1> TAKE n \in Nat
<1> TAKE V, F
<1> HAVE V # {} /\ Depends(n, V, F)
<1> DEFINE Upto(k) == \E f \in [1 .. n -> V] : \A i \in 1 .. n : i >= k => f[i] = F[i][f]
           S == {k \in 1 .. n : Upto(k)}
<1>1. Upto(n + 1)
  <2>0. PICK v \in V : TRUE
    OBVIOUS
  <2>1. [i \in 1 .. n |-> v] \in [1 .. n -> V]
    BY <2>0
  <2>2. \A i \in 1 .. n : ~ (i >= n + 1)
    OBVIOUS
  <2> QED
    BY <2>1, <2>2, Zenon
<1>2. ASSUME NEW i \in 1 .. n, Upto(i + 1) PROVE Upto(i)
  <2>1. PICK f \in [1 .. n -> V] : \A j \in 1 .. n : j >= i + 1 => f[j] = F[j][f]
    BY <1>2
  <2> DEFINE g == [f EXCEPT ![i] = F[i][f]]
  <2>0. F[i][f] \in V
    BY DEF Depends
  <2>2. g \in [1 .. n -> V] /\ g[i] = F[i][f] /\ \A j \in 1 .. n : j # i => g[j] = f[j]
    BY <2>0
  <2> HIDE DEF g
  <2>3. ASSUME NEW j \in 1 .. n, j >= i PROVE F[j][g] = F[j][f]
    <3>1. \A k \in (j + 1) .. n : g[k] = f[k]
      BY <2>2, <2>3
    <3> QED
      BY <2>2, <3>1 DEF Depends
  <2>4. ASSUME NEW j \in 1 .. n, j >= i PROVE g[j] = F[j][g]
    BY <2>1, <2>2, <2>3, <2>4
  <2> QED
    BY <2>2, <2>4
<1>3. ASSUME NEW i \in 1 .. n, \A j \in (i + 1) .. n : j \in S PROVE i \in S
  <2> HIDE DEF Upto
  <2>1. i = n \/ i + 1 \in S
    BY <1>3
  <2>2. Upto(i + 1)
    BY <1>1, <2>1 DEF S
  <2> QED
    BY <1>2, <2>2 DEF S
<1>4. 1 .. n \subseteq S
  <2> HIDE DEF S
  <2> QED
    BY <1>3, Downward
<1>5. Upto(1)
  <2>1. n + 1 = 1 \/ 1 \in S
    <3> HIDE DEF S
    <3> QED
      BY <1>4
  <2> HIDE DEF Upto
  <2> QED
    BY <1>1, <2>1 DEF S
<1> QED
  BY <1>5

-----------------------------------------------------------------------------
(* Trees.  Each recursive function over a tree exists, for the children of *)
(* a node come after it, and so is what its definition says.               *)

(* The shape of a tree: children come after their node.                    *)
LEMMA InTree ==
    ASSUME NEW t \in Trees
    PROVE  /\ Len(t) \in Nat /\ 1 \in 1 .. Len(t) /\ DOMAIN t = 1 .. Len(t)
           /\ \A i \in 1 .. Len(t) :
                 /\ t[i] \in Node /\ DOMAIN t[i].children \in SUBSET Nat
                 /\ \A j \in DOMAIN t[i].children :
                       t[i].children[j] \in (i + 1) .. Len(t) /\ t[i].children[j] \in 1 .. Len(t)
<1>1. t \in Seq(Node) /\ t # <<>>
  BY TreesAssumption
<1>2. /\ Len(t) \in Nat /\ Len(t) # 0 /\ DOMAIN t = 1 .. Len(t)
      /\ \A i \in 1 .. Len(t) : t[i] \in Node
  BY <1>1
<1>3. ASSUME NEW i \in 1 .. Len(t) PROVE DOMAIN t[i].children \in SUBSET Nat
  <2>1. t[i].children \in Seq(Nat \ {0})
    BY <1>2 DEF Node
  <2> QED
    BY <2>1
<1>4. ASSUME NEW i \in 1 .. Len(t), NEW j \in DOMAIN t[i].children
      PROVE  t[i].children[j] \in (i + 1) .. Len(t) /\ t[i].children[j] \in 1 .. Len(t)
  <2>1. t[i].children[j] \in (i + 1) .. Len(t)
    BY <1>2, TreesAssumption
  <2> QED
    BY <2>1
<1> QED
  BY <1>2, <1>3, <1>4

(* What a node comes to depends on its children only.                      *)
LEMMA SameChildren ==
    ASSUME NEW t \in Trees, NEW i \in 1 .. Len(t), NEW f, NEW g,
           \A j \in (i + 1) .. Len(t) : f[j] = g[j]
    PROVE  /\ \A known : Evaluated(t, known, f, i) = Evaluated(t, known, g, i)
           /\ TimesBelow(t[i], f) = TimesBelow(t[i], g)
           /\ DevicesBelow(t[i], f) = DevicesBelow(t[i], g)
<1> DEFINE c == t[i]
<1>1. /\ \A j \in DOMAIN c.children : f[c.children[j]] = g[c.children[j]]
      /\ DOMAIN c.children \in SUBSET Nat
  BY InTree
<1> HIDE DEF c
<1>2. Stops(c, f) = Stops(c, g) /\ Stops(c, g) \in SUBSET DOMAIN c.children
  BY <1>1 DEF Stops
<1>3. Stops(c, g) # {} => First(Stops(c, g)) \in DOMAIN c.children
  <2>1. Stops(c, g) \in SUBSET Nat
    BY <1>1, <1>2
  <2> QED
    BY <1>2, <2>1, FirstIsFirst
<1>4. ASSUME NEW known PROVE Evaluated(t, known, f, i) = Evaluated(t, known, g, i)
  BY <1>1, <1>2, <1>3 DEF Evaluated, c
<1>5. {f[c.children[j]] : j \in DOMAIN c.children} = {g[c.children[j]] : j \in DOMAIN c.children}
  BY <1>1
<1>6. TimesBelow(c, f) = TimesBelow(c, g) /\ DevicesBelow(c, f) = DevicesBelow(c, g)
  BY <1>5 DEF TimesBelow, DevicesBelow
<1> QED
  BY <1>4, <1>6 DEF c

(* The same in the form Depends asks for, function by function.            *)
LEMMA SameOutcome ==
    \A t \in Trees : \A i \in 1 .. Len(t) : \A f, g :
        (\A j \in (i + 1) .. Len(t) : f[j] = g[j]) =>
            \A known : Evaluated(t, known, f, i) = Evaluated(t, known, g, i)
  BY SameChildren, Zenon

LEMMA SameTimes ==
    \A t \in Trees : \A i \in 1 .. Len(t) : \A f, g :
        (\A j \in (i + 1) .. Len(t) : f[j] = g[j]) => TimesBelow(t[i], f) = TimesBelow(t[i], g)
  BY SameChildren

LEMMA SameDevices ==
    \A t \in Trees : \A i \in 1 .. Len(t) : \A f, g :
        (\A j \in (i + 1) .. Len(t) : f[j] = g[j]) => DevicesBelow(t[i], f) = DevicesBelow(t[i], g)
  BY SameChildren

LEMMA SameTruth ==
    \A t \in Trees : \A i \in 1 .. Len(t) : \A f, g :
        (\A j \in (i + 1) .. Len(t) : f[j] = g[j]) =>
            \A b : NodeTruth(t[i], b, f) = NodeTruth(t[i], b, g)
<1> TAKE t \in Trees
<1> TAKE i \in 1 .. Len(t)
<1> TAKE f, g
<1> HAVE \A j \in (i + 1) .. Len(t) : f[j] = g[j]
<1>1. {f[t[i].children[j]] : j \in DOMAIN t[i].children} =
          {g[t[i].children[j]] : j \in DOMAIN t[i].children}
  BY InTree
<1> QED
  BY <1>1 DEF NodeTruth

(* The functions whose first values Outcome, Truth, ExtractTimes and       *)
(* ExtractDevices are.                                                     *)
Outcomes(t, known) == CHOOSE of : of = [i \in DOMAIN t |-> Evaluated(t, known, of, i)]
Truths(t, s, m) == CHOOSE of : of = [i \in DOMAIN t |-> NodeTruth(t[i], LeafTruth(t[i], s, m), of)]
Times(t) == CHOOSE of : of = [i \in DOMAIN t |-> TimesBelow(t[i], of)]
Named(t) == CHOOSE of : of = [i \in DOMAIN t |-> DevicesBelow(t[i], of)]

LEMMA Roots ==
    /\ \A t, known : Outcome(t, known) = Outcomes(t, known)[1]
    /\ \A t, s, m : Truth(t, s, m) = Truths(t, s, m)[1]
    /\ \A t : ExtractTimes(t) = Times(t)[1]
    /\ \A t : ExtractDevices(t) = Named(t)[1] \ {""}
  BY DEF Outcome, Outcomes, Truth, Truths, ExtractTimes, Times, ExtractDevices, Named

(* The values the functions take.                                          *)
Partial == [open : BOOLEAN, leaf : Nat, holds : BOOLEAN]
AllRead(known) == \A i \in DOMAIN known : known[i] \in BOOLEAN

LEMMA EvaluatedType ==
    ASSUME NEW t \in Trees, NEW i \in 1 .. Len(t), NEW known, AllRead(known),
           NEW f, \A j \in (i + 1) .. Len(t) : f[j] \in Partial
    PROVE  Evaluated(t, known, f, i) \in Partial
<1> DEFINE c == t[i]
<1>1. /\ \A j \in DOMAIN c.children : f[c.children[j]] \in Partial
      /\ DOMAIN c.children \in SUBSET Nat
  BY InTree
<1> HIDE DEF c
<1>2. Stops(c, f) \in SUBSET Nat /\ Stops(c, f) \in SUBSET DOMAIN c.children
  BY <1>1 DEF Stops
<1>3. Stops(c, f) # {} => First(Stops(c, f)) \in DOMAIN c.children
  BY <1>2, FirstIsFirst
<1>4. i \in Nat
  BY InTree
<1>5. \A b \in BOOLEAN : Ended(b) \in Partial
  BY DEF Ended, Partial
<1>6. NextLeaf(i) \in Partial
  BY <1>4 DEF NextLeaf, Partial
<1> HIDE DEF Partial
<1> QED
  BY <1>1, <1>3, <1>5, <1>6 DEF Evaluated, AllRead, c

LEMMA TimesBelowType ==
    ASSUME NEW t \in Trees, NEW i \in 1 .. Len(t),
           NEW f, \A j \in (i + 1) .. Len(t) : f[j] \in SUBSET (0 .. Day - 1)
    PROVE  TimesBelow(t[i], f) \in SUBSET (0 .. Day - 1)
  BY InTree DEF TimesBelow, Parses, Names

LEMMA DevicesBelowType ==
    ASSUME NEW t \in Trees, NEW i \in 1 .. Len(t),
           NEW f, \A j \in (i + 1) .. Len(t) : f[j] \in SUBSET (Devices \cup {""})
    PROVE  DevicesBelow(t[i], f) \in SUBSET (Devices \cup {""})
<1>1. t[i].dev \in Devices \cup {""}
  BY InTree DEF Node
<1> QED
  BY <1>1, InTree DEF DevicesBelow

(* The functions are what their definitions say: for one that is exists,   *)
(* and CHOOSE takes such a one.                                            *)
LEMMA OutcomesAre ==
    ASSUME NEW t \in Trees, NEW known, AllRead(known)
    PROVE  \A i \in 1 .. Len(t) :
               Outcomes(t, known)[i] = Evaluated(t, known, Outcomes(t, known), i)
<1> DEFINE F == [i \in 1 .. Len(t) |->
                    [f \in [1 .. Len(t) -> Partial] |-> Evaluated(t, known, f, i)]]
<1>1. Len(t) \in Nat /\ DOMAIN t = 1 .. Len(t)
  BY InTree
<1>2. Partial # {}
  <2>1. Ended(TRUE) \in Partial
    BY DEF Ended, Partial
  <2> QED
    BY <2>1
<1>3. \A i \in 1 .. Len(t) : \A f \in [1 .. Len(t) -> Partial] : F[i][f] \in Partial
  <2>1. ASSUME NEW i \in 1 .. Len(t), NEW f \in [1 .. Len(t) -> Partial]
        PROVE  Evaluated(t, known, f, i) \in Partial
    <3>1. \A j \in (i + 1) .. Len(t) : f[j] \in Partial
      BY <1>1
    <3> QED
      BY <3>1, EvaluatedType
  <2> QED
    BY <2>1
<1>4. \A i \in 1 .. Len(t) : \A f, g \in [1 .. Len(t) -> Partial] :
          (\A j \in (i + 1) .. Len(t) : f[j] = g[j]) => F[i][f] = F[i][g]
  <2> SUFFICES ASSUME NEW i \in 1 .. Len(t),
                      NEW f \in [1 .. Len(t) -> Partial], NEW g \in [1 .. Len(t) -> Partial],
                      \A j \in (i + 1) .. Len(t) : f[j] = g[j]
               PROVE  F[i][f] = F[i][g]
    OBVIOUS
  <2>1. \A j \in (i + 1) .. Len(t) : f[j] = g[j]
    OBVIOUS
  <2>2. Evaluated(t, known, f, i) = Evaluated(t, known, g, i)
    <3> HIDE DEF F
    <3> QED
      BY <2>1, SameOutcome
  <2> QED
    BY <2>2
<1>5. PICK f \in [1 .. Len(t) -> Partial] : \A i \in 1 .. Len(t) : f[i] = F[i][f]
  <2>1. Depends(Len(t), Partial, F)
    <3> HIDE DEF F
    <3> QED
      BY <1>3, <1>4 DEF Depends
  <2> HIDE DEF F
  <2> QED
    BY <1>1, <1>2, <2>1, Recursion
<1>6. f = [i \in DOMAIN t |-> Evaluated(t, known, f, i)]
  BY <1>1, <1>5
<1>7. Outcomes(t, known) = [i \in DOMAIN t |-> Evaluated(t, known, Outcomes(t, known), i)]
  BY <1>6 DEF Outcomes
<1> QED
  BY <1>1, <1>7

LEMMA TruthsAre ==
    ASSUME NEW t \in Trees, NEW s, NEW m
    PROVE  \A i \in 1 .. Len(t) :
               Truths(t, s, m)[i] = NodeTruth(t[i], LeafTruth(t[i], s, m), Truths(t, s, m))
<1> DEFINE F == [i \in 1 .. Len(t) |->
                    [f \in [1 .. Len(t) -> BOOLEAN] |-> NodeTruth(t[i], LeafTruth(t[i], s, m), f)]]
<1>1. Len(t) \in Nat /\ DOMAIN t = 1 .. Len(t)
  BY InTree
<1>2. \A c, b, f : NodeTruth(c, b, f) \in BOOLEAN
  BY DEF NodeTruth
<1>3. \A i \in 1 .. Len(t) : \A f \in [1 .. Len(t) -> BOOLEAN] : F[i][f] \in BOOLEAN
  BY <1>2
<1>4. \A i \in 1 .. Len(t) : \A f, g \in [1 .. Len(t) -> BOOLEAN] :
          (\A j \in (i + 1) .. Len(t) : f[j] = g[j]) => F[i][f] = F[i][g]
  <2> SUFFICES ASSUME NEW i \in 1 .. Len(t),
                      NEW f \in [1 .. Len(t) -> BOOLEAN], NEW g \in [1 .. Len(t) -> BOOLEAN],
                      \A j \in (i + 1) .. Len(t) : f[j] = g[j]
               PROVE  F[i][f] = F[i][g]
    OBVIOUS
  <2>1. \A j \in (i + 1) .. Len(t) : f[j] = g[j]
    OBVIOUS
  <2>2. \A b : NodeTruth(t[i], b, f) = NodeTruth(t[i], b, g)
    <3> HIDE DEF F
    <3> QED
      BY <2>1, SameTruth
  <2> QED
    BY <2>2
<1>5. PICK f \in [1 .. Len(t) -> BOOLEAN] : \A i \in 1 .. Len(t) : f[i] = F[i][f]
  <2>1. Depends(Len(t), BOOLEAN, F)
    <3> HIDE DEF F
    <3> QED
      BY <1>3, <1>4 DEF Depends
  <2> HIDE DEF F
  <2> QED
    BY <1>1, <2>1, BOOLEAN # {}, Recursion
<1>6. f = [i \in DOMAIN t |-> NodeTruth(t[i], LeafTruth(t[i], s, m), f)]
  BY <1>1, <1>5
<1>7. Truths(t, s, m) = [i \in DOMAIN t |-> NodeTruth(t[i], LeafTruth(t[i], s, m), Truths(t, s, m))]
  BY <1>6 DEF Truths
<1> QED
  BY <1>1, <1>7

LEMMA TimesAre ==
    ASSUME NEW t \in Trees
    PROVE  \A i \in 1 .. Len(t) : Times(t)[i] = TimesBelow(t[i], Times(t))
<1> DEFINE V == SUBSET (0 .. Day - 1)
           F == [i \in 1 .. Len(t) |-> [f \in [1 .. Len(t) -> V] |-> TimesBelow(t[i], f)]]
<1>1. Len(t) \in Nat /\ DOMAIN t = 1 .. Len(t) /\ V # {}
  BY InTree
<1>3. \A i \in 1 .. Len(t) : \A f \in [1 .. Len(t) -> V] : F[i][f] \in V
  <2>1. ASSUME NEW i \in 1 .. Len(t), NEW f \in [1 .. Len(t) -> V] PROVE TimesBelow(t[i], f) \in V
    <3>1. \A j \in (i + 1) .. Len(t) : f[j] \in V
      <4> HIDE DEF V
      <4> QED
        BY <1>1
    <3> QED
      BY <3>1, TimesBelowType
  <2> QED
    BY <2>1
<1>4. \A i \in 1 .. Len(t) : \A f, g \in [1 .. Len(t) -> V] :
          (\A j \in (i + 1) .. Len(t) : f[j] = g[j]) => F[i][f] = F[i][g]
  <2> SUFFICES ASSUME NEW i \in 1 .. Len(t),
                      NEW f \in [1 .. Len(t) -> V], NEW g \in [1 .. Len(t) -> V],
                      \A j \in (i + 1) .. Len(t) : f[j] = g[j]
               PROVE  F[i][f] = F[i][g]
    OBVIOUS
  <2>1. \A j \in (i + 1) .. Len(t) : f[j] = g[j]
    OBVIOUS
  <2>2. TimesBelow(t[i], f) = TimesBelow(t[i], g)
    <3> HIDE DEF F
    <3> QED
      BY <2>1, SameTimes
  <2> QED
    BY <2>2
<1>5. PICK f \in [1 .. Len(t) -> V] : \A i \in 1 .. Len(t) : f[i] = F[i][f]
  <2>1. Depends(Len(t), V, F)
    <3> HIDE DEF F, V
    <3> QED
      BY <1>3, <1>4 DEF Depends
  <2> HIDE DEF F, V
  <2> QED
    BY <1>1, <2>1, Recursion
<1>6. f = [i \in DOMAIN t |-> TimesBelow(t[i], f)]
  BY <1>1, <1>5
<1>7. Times(t) = [i \in DOMAIN t |-> TimesBelow(t[i], Times(t))]
  BY <1>6 DEF Times
<1> QED
  BY <1>1, <1>7

LEMMA NamedAre ==
    ASSUME NEW t \in Trees
    PROVE  \A i \in 1 .. Len(t) : Named(t)[i] = DevicesBelow(t[i], Named(t))
<1> DEFINE V == SUBSET (Devices \cup {""})
           F == [i \in 1 .. Len(t) |-> [f \in [1 .. Len(t) -> V] |-> DevicesBelow(t[i], f)]]
<1>1. Len(t) \in Nat /\ DOMAIN t = 1 .. Len(t) /\ V # {}
  BY InTree
<1>3. \A i \in 1 .. Len(t) : \A f \in [1 .. Len(t) -> V] : F[i][f] \in V
  <2>1. ASSUME NEW i \in 1 .. Len(t), NEW f \in [1 .. Len(t) -> V] PROVE DevicesBelow(t[i], f) \in V
    <3>1. \A j \in (i + 1) .. Len(t) : f[j] \in V
      <4> HIDE DEF V
      <4> QED
        BY <1>1
    <3> QED
      BY <3>1, DevicesBelowType
  <2> QED
    BY <2>1
<1>4. \A i \in 1 .. Len(t) : \A f, g \in [1 .. Len(t) -> V] :
          (\A j \in (i + 1) .. Len(t) : f[j] = g[j]) => F[i][f] = F[i][g]
  <2> SUFFICES ASSUME NEW i \in 1 .. Len(t),
                      NEW f \in [1 .. Len(t) -> V], NEW g \in [1 .. Len(t) -> V],
                      \A j \in (i + 1) .. Len(t) : f[j] = g[j]
               PROVE  F[i][f] = F[i][g]
    OBVIOUS
  <2>1. \A j \in (i + 1) .. Len(t) : f[j] = g[j]
    OBVIOUS
  <2>2. DevicesBelow(t[i], f) = DevicesBelow(t[i], g)
    <3> HIDE DEF F, V
    <3> QED
      BY <2>1, SameDevices
  <2> QED
    BY <2>2
<1>5. PICK f \in [1 .. Len(t) -> V] : \A i \in 1 .. Len(t) : f[i] = F[i][f]
  <2>1. Depends(Len(t), V, F)
    <3> HIDE DEF F, V
    <3> QED
      BY <1>3, <1>4 DEF Depends
  <2> HIDE DEF F, V
  <2> QED
    BY <1>1, <2>1, Recursion
<1>6. f = [i \in DOMAIN t |-> DevicesBelow(t[i], f)]
  BY <1>1, <1>5
<1>7. Named(t) = [i \in DOMAIN t |-> DevicesBelow(t[i], Named(t))]
  BY <1>6 DEF Named
<1> QED
  BY <1>1, <1>7

-----------------------------------------------------------------------------
(* What the evaluation of a tree comes to.                                 *)

(* What it reads next is a leaf that it has not read.                      *)
LEMMA OpensLeaf ==
    ASSUME NEW t \in Trees, NEW known, AllRead(known)
    PROVE  /\ Outcome(t, known) \in Partial
           /\ Outcome(t, known).open =>
                 /\ Outcome(t, known).leaf \in 1 .. Len(t)
                 /\ IsLeaf(t[Outcome(t, known).leaf])
                 /\ Outcome(t, known).leaf \notin DOMAIN known
<1> DEFINE of == Outcomes(t, known)
           Good(o) == /\ o \in Partial
                      /\ o.open => /\ o.leaf \in 1 .. Len(t) /\ IsLeaf(t[o.leaf])
                                   /\ o.leaf \notin DOMAIN known
           S == {i \in 1 .. Len(t) : Good(of[i])}
<1>1. ASSUME NEW i \in 1 .. Len(t), \A j \in (i + 1) .. Len(t) : j \in S PROVE i \in S
  <2>1. of[i] = Evaluated(t, known, of, i)
    BY OutcomesAre
  <2> HIDE DEF of
  <2>2. of[i] \in Partial
    BY <1>1, <2>1, EvaluatedType
  <2> DEFINE c == t[i]
  <2>3. /\ \A j \in DOMAIN c.children : c.children[j] \in (i + 1) .. Len(t)
        /\ DOMAIN c.children \in SUBSET Nat
    BY InTree
  <2>4. CASE IsLeaf(c)
    <3>1. of[i] = (IF i \in DOMAIN known THEN Ended(known[i]) ELSE NextLeaf(i))
      BY <2>1, <2>4 DEF Evaluated
    <3> QED
      BY <2>2, <2>4, <3>1 DEF Ended, NextLeaf
  <2>5. CASE ~ IsLeaf(c) /\ Stops(c, of) = {}
    <3>1. of[i] = Ended(c.operator = "AND")
      BY <2>1, <2>5 DEF Evaluated
    <3> QED
      BY <2>2, <3>1 DEF Ended
  <2>6. CASE ~ IsLeaf(c) /\ Stops(c, of) # {}
    <3>1. of[i] = of[c.children[First(Stops(c, of))]]
      BY <2>1, <2>6 DEF Evaluated
    <3>2. First(Stops(c, of)) \in DOMAIN c.children
      BY <2>3, <2>6, FirstIsFirst DEF Stops
    <3>3. c.children[First(Stops(c, of))] \in S
      BY <1>1, <2>3, <3>2
    <3> QED
      BY <3>1, <3>3
  <2> QED
    BY <2>4, <2>5, <2>6
<1>2. 1 \in S
  <2>1. Len(t) \in Nat /\ 1 \in 1 .. Len(t)
    BY InTree
  <2>2. 1 .. Len(t) \subseteq S
    <3> HIDE DEF S
    <3> QED
      BY <1>1, <2>1, Downward
  <2> QED
    BY <2>1, <2>2
<1> QED
  BY <1>2, Roots

(* The loop over the children runs to its end, or ends at a child.         *)
EndsRule(c, of, v) ==
    \/ /\ \A j \in DOMAIN c.children : j \notin Stops(c, of)
       /\ v = Ended(c.operator = "AND")
    \/ \E j \in DOMAIN c.children : j \in Stops(c, of) /\ v = of[c.children[j]]

(* A node that is no leaf comes to that.                                   *)
LEMMA EndsAt ==
    ASSUME NEW t \in Trees, NEW known, AllRead(known), NEW i \in 1 .. Len(t), ~ IsLeaf(t[i])
    PROVE  EndsRule(t[i], Outcomes(t, known), Outcomes(t, known)[i])
<1> DEFINE of == Outcomes(t, known)
           c == t[i]
<1>1. of[i] = Evaluated(t, known, of, i)
  BY OutcomesAre
<1> HIDE DEF of
<1>2. CASE Stops(c, of) = {}
  <2>1. of[i] = Ended(c.operator = "AND")
    BY <1>1, <1>2 DEF Evaluated
  <2> QED
    BY <1>2, <2>1 DEF EndsRule, of
<1>3. CASE Stops(c, of) # {}
  <2>1. of[i] = of[c.children[First(Stops(c, of))]]
    BY <1>1, <1>3 DEF Evaluated
  <2>2. Stops(c, of) \in SUBSET Nat /\ Stops(c, of) \in SUBSET DOMAIN c.children
    BY InTree DEF Stops
  <2>3. First(Stops(c, of)) \in DOMAIN c.children /\ First(Stops(c, of)) \in Stops(c, of)
    BY <1>3, <2>2, FirstIsFirst
  <2> QED
    BY <2>1, <2>3 DEF EndsRule, of
<1> QED
  BY <1>2, <1>3

(* Every node comes to a result or to a leaf to read.                      *)
LEMMA OutcomesTyped ==
    ASSUME NEW t \in Trees, NEW known, AllRead(known)
    PROVE  \A i \in 1 .. Len(t) : Outcomes(t, known)[i] \in Partial
<1> DEFINE of == Outcomes(t, known)
           S == {i \in 1 .. Len(t) : of[i] \in Partial}
<1>1. ASSUME NEW i \in 1 .. Len(t), \A j \in (i + 1) .. Len(t) : j \in S PROVE i \in S
  <2>1. of[i] = Evaluated(t, known, of, i)
    BY OutcomesAre
  <2> HIDE DEF of
  <2> QED
    BY <1>1, <2>1, EvaluatedType
<1>2. Len(t) \in Nat
  BY InTree
<1>3. 1 .. Len(t) \subseteq S
  <2> HIDE DEF S
  <2> QED
    BY <1>1, <1>2, Downward
<1> QED
  BY <1>3

(* What a node means, in terms of its children.                            *)
TruthRule(c, b, tr, v) ==
    /\ v \in BOOLEAN
    /\ IsLeaf(c) => v = b
    /\ ~ IsLeaf(c) /\ c.operator = "AND" => v = \A j \in DOMAIN c.children : tr[c.children[j]]
    /\ ~ IsLeaf(c) /\ c.operator = "OR" => v = \E j \in DOMAIN c.children : tr[c.children[j]]
    /\ ~ IsLeaf(c) /\ c.operator \notin {"AND", "OR"} => ~ v

LEMMA TruthAt ==
    ASSUME NEW t \in Trees, NEW s, NEW m, NEW i \in 1 .. Len(t)
    PROVE  TruthRule(t[i], LeafTruth(t[i], s, m), Truths(t, s, m), Truths(t, s, m)[i])
<1> DEFINE tr == Truths(t, s, m)
           c == t[i]
<1>1. \A j \in 1 .. Len(t) : tr[j] = NodeTruth(t[j], LeafTruth(t[j], s, m), tr)
  BY TruthsAre
<1>2. \A d, b, f : NodeTruth(d, b, f) \in BOOLEAN
  BY DEF NodeTruth
<1> HIDE DEF tr
<1>3. \A j \in 1 .. Len(t) : tr[j] \in BOOLEAN
  BY <1>1, <1>2
<1>4. \A j \in DOMAIN c.children : c.children[j] \in 1 .. Len(t)
  BY InTree
<1>5. \A j \in DOMAIN c.children : tr[c.children[j]] \in BOOLEAN
  BY <1>3, <1>4
<1>6. LeafTruth(c, s, m) \in BOOLEAN
  BY DEF LeafTruth
<1>7. IsLeaf(c) => tr[i] = LeafTruth(c, s, m)
  BY <1>1, <1>6 DEF NodeTruth, IsLeaf
<1>8. ~ IsLeaf(c) /\ c.operator = "AND" => tr[i] = \A j \in DOMAIN c.children : tr[c.children[j]]
  <2>1. ~ IsLeaf(c) /\ c.operator = "AND" =>
            tr[i] = (FALSE \notin {tr[c.children[j]] : j \in DOMAIN c.children})
    BY <1>1 DEF NodeTruth
  <2> QED
    BY <1>5, <2>1
<1>9. ~ IsLeaf(c) /\ c.operator = "OR" => tr[i] = \E j \in DOMAIN c.children : tr[c.children[j]]
  BY <1>1, <1>5 DEF NodeTruth
<1>10. ~ IsLeaf(c) /\ c.operator \notin {"AND", "OR"} => ~ tr[i]
  BY <1>1 DEF NodeTruth
<1> QED
  BY <1>3, <1>7, <1>8, <1>9, <1>10 DEF tr, TruthRule

(* A tree turns true only with a leaf: AND and OR are monotone.            *)
LEMMA TruthGrows ==
    ASSUME NEW t \in Trees, NEW s, NEW m, NEW s2, NEW m2, Truth(t, s, m),
           \A i \in 1 .. Len(t) :
               IsLeaf(t[i]) /\ LeafTruth(t[i], s, m) => LeafTruth(t[i], s2, m2)
    PROVE  Truth(t, s2, m2)
<1> DEFINE a == Truths(t, s, m)
           b == Truths(t, s2, m2)
           S == {i \in 1 .. Len(t) : a[i] => b[i]}
<1>1. ASSUME NEW i \in 1 .. Len(t), \A j \in (i + 1) .. Len(t) : j \in S PROVE i \in S
  <2> DEFINE c == t[i]
  <2>1. TruthRule(c, LeafTruth(c, s, m), a, a[i])
    BY TruthAt
  <2>2. TruthRule(c, LeafTruth(c, s2, m2), b, b[i])
    BY TruthAt
  <2>3. \A j \in DOMAIN c.children : a[c.children[j]] => b[c.children[j]]
    BY <1>1, InTree
  <2> HIDE DEF a, b
  <2>4. IsLeaf(c) => (a[i] => b[i])
    BY <2>1, <2>2 DEF TruthRule
  <2>5. ~ IsLeaf(c) => (a[i] => b[i])
    BY <2>1, <2>2, <2>3 DEF TruthRule
  <2> QED
    BY <2>4, <2>5
<1>2. Len(t) \in Nat /\ 1 \in 1 .. Len(t)
  BY InTree
<1>3. 1 .. Len(t) \subseteq S
  <2> HIDE DEF S
  <2> QED
    BY <1>1, <1>2, Downward
<1> QED
  BY <1>2, <1>3, Roots

(* An evaluation that has read no leaf as false that is true finds the     *)
(* tree true if it is; one that has read none as true that is false finds  *)
(* it false if it is.                                                      *)
AtLeast(t, known, s, m) == \A i \in DOMAIN known : LeafTruth(t[i], s, m) => known[i]
AtMost(t, known, s, m) == \A i \in DOMAIN known : known[i] => LeafTruth(t[i], s, m)

LEMMA FindsTrue ==
    ASSUME NEW t \in Trees, NEW known, AllRead(known), NEW s, NEW m, AtLeast(t, known, s, m),
           ~ Outcome(t, known).open, Truth(t, s, m)
    PROVE  Outcome(t, known).holds
<1> DEFINE of == Outcomes(t, known)
           tr == Truths(t, s, m)
           S == {i \in 1 .. Len(t) : ~ of[i].open /\ tr[i] => of[i].holds}
<1>1. ASSUME NEW i \in 1 .. Len(t), \A j \in (i + 1) .. Len(t) : j \in S PROVE i \in S
  <2> DEFINE c == t[i]
  <2>1. TruthRule(c, LeafTruth(c, s, m), tr, tr[i])
    BY TruthAt
  <2>2. of[i] = Evaluated(t, known, of, i)
    BY OutcomesAre
  <2>3. \A j \in DOMAIN c.children : /\ c.children[j] \in S /\ c.children[j] \in 1 .. Len(t)
                                     /\ of[c.children[j]].open \in BOOLEAN
                                     /\ of[c.children[j]].holds \in BOOLEAN
    <3>1. \A j \in DOMAIN c.children : /\ c.children[j] \in (i + 1) .. Len(t)
                                       /\ c.children[j] \in 1 .. Len(t)
      BY InTree
    <3>2. \A j \in DOMAIN c.children : of[c.children[j]] \in Partial
      BY <3>1, OutcomesTyped
    <3> HIDE DEF of, S
    <3> QED
      BY <1>1, <3>1, <3>2 DEF Partial
  <2>4. CASE IsLeaf(c)
    <3> HIDE DEF of, tr
    <3>1. of[i] = (IF i \in DOMAIN known THEN Ended(known[i]) ELSE NextLeaf(i))
      BY <2>2, <2>4 DEF Evaluated
    <3>2. tr[i] = LeafTruth(c, s, m)
      BY <2>1, <2>4 DEF TruthRule
    <3> QED
      BY <3>1, <3>2 DEF Ended, NextLeaf, AtLeast
  <2>5. CASE ~ IsLeaf(c)
    <3>1. EndsRule(c, of, of[i])
      BY <2>5, EndsAt
    <3> HIDE DEF of, tr
    <3>2. ASSUME \A j \in DOMAIN c.children : j \notin Stops(c, of),
                 of[i] = Ended(c.operator = "AND"), tr[i]
          PROVE  of[i].holds
      <4>1. of[i].holds <=> c.operator = "AND"
        <5>1. CASE c.operator = "AND"
          <6>1. of[i] = Ended(TRUE)
            BY <3>2, <5>1
          <6> QED
            BY <5>1, <6>1 DEF Ended
        <5>2. CASE c.operator # "AND"
          <6>1. of[i] = Ended(FALSE)
            BY <3>2, <5>2
          <6> QED
            BY <5>2, <6>1 DEF Ended
        <5> QED
          BY <5>1, <5>2
      <4>2. \A j \in DOMAIN c.children :
               /\ ~ of[c.children[j]].open
               /\ c.operator = "AND" => of[c.children[j]].holds
               /\ c.operator = "OR" => ~ of[c.children[j]].holds
        BY <3>2 DEF Stops
      <4>3. \A j \in DOMAIN c.children :
               /\ c.operator = "OR" => ~ tr[c.children[j]]
        BY <2>3, <4>2
      <4> QED
        BY <2>1, <2>5, <3>2, <4>1, <4>3 DEF TruthRule
    <3>3. ASSUME NEW j \in DOMAIN c.children, j \in Stops(c, of), of[i] = of[c.children[j]],
                 ~ of[i].open, tr[i]
          PROVE  of[i].holds
      BY <2>1, <2>3, <2>5, <3>3 DEF Stops, TruthRule
    <3> QED
      BY <3>1, <3>2, <3>3 DEF EndsRule
  <2> QED
    BY <2>4, <2>5
<1>2. Len(t) \in Nat /\ 1 \in 1 .. Len(t)
  BY InTree
<1>3. 1 .. Len(t) \subseteq S
  <2> HIDE DEF S
  <2> QED
    BY <1>1, <1>2, Downward
<1> QED
  BY <1>2, <1>3, Roots

LEMMA FindsFalse ==
    ASSUME NEW t \in Trees, NEW known, AllRead(known), NEW s, NEW m, AtMost(t, known, s, m),
           ~ Outcome(t, known).open, Outcome(t, known).holds
    PROVE  Truth(t, s, m)
<1> DEFINE of == Outcomes(t, known)
           tr == Truths(t, s, m)
           S == {i \in 1 .. Len(t) : ~ of[i].open /\ of[i].holds => tr[i]}
<1>1. ASSUME NEW i \in 1 .. Len(t), \A j \in (i + 1) .. Len(t) : j \in S PROVE i \in S
  <2> DEFINE c == t[i]
  <2>1. TruthRule(c, LeafTruth(c, s, m), tr, tr[i])
    BY TruthAt
  <2>2. of[i] = Evaluated(t, known, of, i)
    BY OutcomesAre
  <2>3. \A j \in DOMAIN c.children : /\ c.children[j] \in S /\ c.children[j] \in 1 .. Len(t)
                                     /\ of[c.children[j]].open \in BOOLEAN
                                     /\ of[c.children[j]].holds \in BOOLEAN
    <3>1. \A j \in DOMAIN c.children : /\ c.children[j] \in (i + 1) .. Len(t)
                                       /\ c.children[j] \in 1 .. Len(t)
      BY InTree
    <3>2. \A j \in DOMAIN c.children : of[c.children[j]] \in Partial
      BY <3>1, OutcomesTyped
    <3> HIDE DEF of, S
    <3> QED
      BY <1>1, <3>1, <3>2 DEF Partial
  <2>4. CASE IsLeaf(c)
    <3> HIDE DEF of, tr
    <3>1. of[i] = (IF i \in DOMAIN known THEN Ended(known[i]) ELSE NextLeaf(i))
      BY <2>2, <2>4 DEF Evaluated
    <3>2. tr[i] = LeafTruth(c, s, m)
      BY <2>1, <2>4 DEF TruthRule
    <3> QED
      BY <3>1, <3>2 DEF Ended, NextLeaf, AtMost
  <2>5. CASE ~ IsLeaf(c)
    <3>1. EndsRule(c, of, of[i])
      BY <2>5, EndsAt
    <3> HIDE DEF of, tr
    <3>2. ASSUME \A j \in DOMAIN c.children : j \notin Stops(c, of),
                 of[i] = Ended(c.operator = "AND"), of[i].holds
          PROVE  tr[i]
      <4>1. of[i].holds <=> c.operator = "AND"
        <5>1. CASE c.operator = "AND"
          <6>1. of[i] = Ended(TRUE)
            BY <3>2, <5>1
          <6> QED
            BY <5>1, <6>1 DEF Ended
        <5>2. CASE c.operator # "AND"
          <6>1. of[i] = Ended(FALSE)
            BY <3>2, <5>2
          <6> QED
            BY <5>2, <6>1 DEF Ended
        <5> QED
          BY <5>1, <5>2
      <4>2. \A j \in DOMAIN c.children :
               /\ ~ of[c.children[j]].open
               /\ c.operator = "AND" => of[c.children[j]].holds
               /\ c.operator = "OR" => ~ of[c.children[j]].holds
        BY <3>2 DEF Stops
      <4>3. \A j \in DOMAIN c.children :
               /\ c.operator = "AND" => tr[c.children[j]]
        BY <2>3, <4>2
      <4> QED
        BY <2>1, <2>5, <3>2, <4>1, <4>3 DEF TruthRule
    <3>3. ASSUME NEW j \in DOMAIN c.children, j \in Stops(c, of), of[i] = of[c.children[j]],
                 ~ of[i].open, of[i].holds
          PROVE  tr[i]
      BY <2>1, <2>3, <2>5, <3>3 DEF Stops, TruthRule
    <3> QED
      BY <3>1, <3>2, <3>3 DEF EndsRule
  <2> QED
    BY <2>4, <2>5
<1>2. Len(t) \in Nat /\ 1 \in 1 .. Len(t)
  BY InTree
<1>3. 1 .. Len(t) \subseteq S
  <2> HIDE DEF S
  <2> QED
    BY <1>1, <1>2, Downward
<1> QED
  BY <1>2, <1>3, Roots

-----------------------------------------------------------------------------
(* Type correctness.                                                       *)

(* What TypeOK says, in parts, and what it leaves open: each task queued is *)
(* of a report or a minute, an idle worker has read nothing, and one about *)
(* to store has a result for the time leaf it has asked for.               *)
WorldType == tree \in Trees /\ state \in States /\ now \in 0 .. Day - 1
CacheType ==
    /\ DOMAIN cache \subseteq Keyed
    /\ \A k \in DOMAIN cache : cache[k] \in Result /\ now \in {cache[k].at, (cache[k].at + 1) % Day}
CountsType ==
    /\ queued \in Nat /\ queued <= reports + ticks
    /\ ticks \in 0 .. MaxTicks /\ reports \in 0 .. MaxReports /\ faults \in 0 .. MaxFaults
ReadType ==
    /\ read = [w \in Workers |-> read[w]]
    /\ \A w \in Workers : /\ DOMAIN read[w] \subseteq DOMAIN tree
                          /\ \A i \in DOMAIN read[w] : read[w][i] \in BOOLEAN /\ IsLeaf(tree[i])
WorkersType ==
    /\ computed \in [Workers -> Result \cup {NoResult}]
    /\ pc \in [Workers -> {"idle", "evaluate", "store"}]
TurnsType ==
    \A w \in Workers :
        /\ pc[w] = "idle" => read[w] = Nothing
        /\ pc[w] = "store" => Turn(w).open /\ Leaf(w).type = "time" /\ computed[w] \in Result
HistoryType ==
    /\ noticed \in BOOLEAN /\ excused \in BOOLEAN
    /\ misled \in [Workers -> BOOLEAN] /\ undisturbed \in [Workers -> BOOLEAN]

TypeInv ==
    /\ WorldType /\ CacheType /\ CountsType /\ ReadType /\ WorkersType /\ TurnsType
    /\ HistoryType

(* The parts are all of TypeOK.                                            *)
LEMMA TypeInvTypeOK == TypeInv => TypeOK
<1> SUFFICES ASSUME TypeInv PROVE TypeOK
  OBVIOUS
<1>1. queued \in 0 .. MaxReports + MaxTicks
  BY BoundsAssumption DEF TypeInv, CountsType
<1> QED
  BY <1>1 DEF TypeInv, WorldType, CacheType, CountsType, ReadType, WorkersType, HistoryType, TypeOK

(* The leaf a worker reads next.                                           *)
LEMMA ReadsLeaf ==
    ASSUME TypeInv, NEW w \in Workers
    PROVE  /\ AllRead(read[w]) /\ Turn(w) \in Partial
           /\ Turn(w).open => /\ Turn(w).leaf \in DOMAIN tree /\ IsLeaf(Leaf(w))
                              /\ Turn(w).leaf \notin DOMAIN read[w]
                              /\ Leaf(w) \in Node
<1>1. tree \in Trees /\ AllRead(read[w])
  BY DEF TypeInv, WorldType, ReadType, AllRead
<1>2. DOMAIN tree = 1 .. Len(tree) /\ \A i \in 1 .. Len(tree) : tree[i] \in Node
  BY <1>1, InTree
<1> QED
  BY <1>1, <1>2, OpensLeaf DEF Turn, Leaf

(* With adds or replaces one value.                                        *)
LEMMA WithIs ==
    \A f, x, v :
        /\ DOMAIN With(f, x, v) = DOMAIN f \cup {x}
        /\ With(f, x, v)[x] = v
        /\ \A y \in DOMAIN f : y # x => With(f, x, v)[y] = f[y]
  BY DEF With

(* A worker learns what one more leaf comes to.                            *)
LEMMA LearnsLeaf ==
    ASSUME TypeInv, NEW w \in Workers, Turn(w).open, NEW b \in BOOLEAN, Learn(w, b)
    PROVE  /\ read' = [x \in Workers |-> read'[x]]
           /\ \A x \in Workers : x # w => read'[x] = read[x]
           /\ DOMAIN read'[w] = DOMAIN read[w] \cup {Turn(w).leaf}
           /\ read'[w][Turn(w).leaf] = b
           /\ \A i \in DOMAIN read[w] : read'[w][i] = read[w][i]
           /\ \A x \in Workers : /\ DOMAIN read'[x] \subseteq DOMAIN tree
                                 /\ \A i \in DOMAIN read'[x] :
                                       read'[x][i] \in BOOLEAN /\ IsLeaf(tree[i])
<1>1. /\ read' = [read EXCEPT ![w] = With(read[w], Turn(w).leaf, b)]
      /\ read = [x \in Workers |-> read[x]]
      /\ \A x \in Workers : /\ DOMAIN read[x] \subseteq DOMAIN tree
                            /\ \A i \in DOMAIN read[x] :
                                  read[x][i] \in BOOLEAN /\ IsLeaf(tree[i])
  BY DEF Learn, TypeInv, ReadType
<1>2. Turn(w).leaf \in DOMAIN tree /\ IsLeaf(tree[Turn(w).leaf]) /\ Turn(w).leaf \notin DOMAIN read[w]
  BY ReadsLeaf DEF Leaf
<1>3. read'[w] = With(read[w], Turn(w).leaf, b) /\ \A x \in Workers : x # w => read'[x] = read[x]
  BY <1>1
<1>4. read' = [x \in Workers |-> read'[x]]
  BY <1>1
<1>5. /\ DOMAIN read'[w] = DOMAIN read[w] \cup {Turn(w).leaf}
      /\ read'[w][Turn(w).leaf] = b
      /\ \A i \in DOMAIN read[w] : read'[w][i] = read[w][i]
  <2>1. DOMAIN With(read[w], Turn(w).leaf, b) = DOMAIN read[w] \cup {Turn(w).leaf}
    BY WithIs
  <2>2. With(read[w], Turn(w).leaf, b)[Turn(w).leaf] = b
    BY WithIs
  <2>3. ASSUME NEW i \in DOMAIN read[w] PROVE With(read[w], Turn(w).leaf, b)[i] = read[w][i]
    BY <1>2, WithIs
  <2> QED
    BY <1>3, <2>1, <2>2, <2>3
<1>6. ASSUME NEW x \in Workers
      PROVE  /\ DOMAIN read'[x] \subseteq DOMAIN tree
             /\ \A i \in DOMAIN read'[x] : read'[x][i] \in BOOLEAN /\ IsLeaf(tree[i])
  <2>1. CASE x = w
    <3>1. DOMAIN read'[x] \subseteq DOMAIN tree
      BY <1>1, <1>2, <1>5, <2>1
    <3>2. ASSUME NEW i \in DOMAIN read'[x] PROVE read'[x][i] \in BOOLEAN /\ IsLeaf(tree[i])
      <4>1. CASE i = Turn(w).leaf
        BY <1>2, <1>5, <2>1, <4>1
      <4>2. CASE i # Turn(w).leaf
        <5>1. i \in DOMAIN read[w]
          BY <1>5, <2>1, <4>2
        <5> QED
          BY <1>1, <1>5, <2>1, <5>1
      <4> QED
        BY <4>1, <4>2
    <3> QED
      BY <3>1, <3>2
  <2>2. CASE x # w
    BY <1>1, <1>3, <2>2
  <2> QED
    BY <2>1, <2>2
<1> QED
  BY <1>3, <1>4, <1>5, <1>6

(* Nothing that Turn and Leaf depend on has changed.                       *)
LEMMA SameTurn ==
    ASSUME NEW w \in Workers, read'[w] = read[w], tree' = tree
    PROVE  Turn(w)' = Turn(w) /\ Leaf(w)' = Leaf(w)
  BY DEF Turn, Leaf

(* The clock stays within the day.                                         *)
LEMMA NextMinute == ASSUME NEW m \in 0 .. Day - 1 PROVE (m + 1) % Day \in 0 .. Day - 1
  BY BoundsAssumption

(* A tree holds or does not.                                               *)
LEMMA HoldsType == ASSUME tree \in Trees PROVE Holds \in BOOLEAN
<1>1. 1 \in 1 .. Len(tree)
  BY InTree
<1>2. Truths(tree, state, now)[1] \in BOOLEAN
  BY <1>1, TruthAt DEF TruthRule
<1> QED
  BY <1>2, Roots DEF Holds

(* The types after a worker has learnt a leaf, and after a step in which   *)
(* none has.                                                               *)
LEMMA LearnTyped ==
    ASSUME TypeInv, NEW w \in Workers, Turn(w).open, NEW b \in BOOLEAN, Learn(w, b),
           tree' = tree, pc'[w] = "evaluate",
           \A x \in Workers : x # w => pc'[x] = pc[x] /\ computed'[x] = computed[x]
    PROVE  ReadType' /\ TurnsType'
<1>1. ReadType'
  BY LearnsLeaf DEF ReadType
<1>2. ASSUME NEW x \in Workers
      PROVE  /\ pc'[x] = "idle" => read'[x] = Nothing
             /\ pc'[x] = "store" => /\ Turn(x)'.open /\ Leaf(x)'.type = "time"
                                    /\ computed'[x] \in Result
  <2>1. CASE x = w
    BY <2>1
  <2>2. CASE x # w
    <3>1. read'[x] = read[x]
      BY <2>2, LearnsLeaf
    <3>2. Turn(x)' = Turn(x) /\ Leaf(x)' = Leaf(x)
      BY <3>1, SameTurn
    <3> QED
      BY <2>2, <3>1, <3>2 DEF TypeInv, TurnsType
  <2> QED
    BY <2>1, <2>2
<1>3. TurnsType'
  BY <1>2 DEF TurnsType
<1> QED
  BY <1>1, <1>3

LEMMA SameTurns ==
    ASSUME TypeInv, read' = read, pc' = pc, computed' = computed, tree' = tree
    PROVE  ReadType' /\ TurnsType'
<1>1. ReadType'
  BY DEF TypeInv, ReadType
<1>2. ASSUME NEW x \in Workers
      PROVE  /\ pc'[x] = "idle" => read'[x] = Nothing
             /\ pc'[x] = "store" => /\ Turn(x)'.open /\ Leaf(x)'.type = "time"
                                    /\ computed'[x] \in Result
  <2>1. Turn(x)' = Turn(x) /\ Leaf(x)' = Leaf(x)
    BY SameTurn
  <2> QED
    BY <2>1 DEF TypeInv, TurnsType
<1> QED
  BY <1>1, <1>2 DEF TurnsType

LEMMA SameCache ==
    ASSUME TypeInv, cache' = cache, now' = now, tree' = tree PROVE CacheType'
  BY DEF TypeInv, CacheType, Keyed, Result

(* The first states are well typed.                                        *)
LEMMA Initially == Init => TypeInv
<1> SUFFICES ASSUME Init PROVE TypeInv
  OBVIOUS
<1>1. WorldType
  BY DEF Init, WorldType
<1>2. CacheType
  BY DEF Init, CacheType, Nothing
<1>3. CountsType
  BY BoundsAssumption DEF Init, CountsType
<1>4. ReadType
  BY DEF Init, ReadType, Nothing
<1>5. WorkersType
  BY DEF Init, WorkersType
<1>6. TurnsType
  BY DEF Init, TurnsType
<1>7. HistoryType
  BY <1>1, HoldsType DEF Init, HistoryType, WorldType
<1> QED
  BY <1>1, <1>2, <1>3, <1>4, <1>5, <1>6, <1>7 DEF TypeInv

(* What a change of the world does to the history is well typed.           *)
LEMMA TurnedTyped ==
    ASSUME TypeInv, NEW excuse, Turned(excuse)
    PROVE  /\ noticed' \in BOOLEAN /\ excused' \in BOOLEAN
           /\ undisturbed' \in [Workers -> BOOLEAN]
  BY DEF Turned

(* Each action keeps the types.                                            *)
LEMMA TypeStep == TypeInv /\ [Next]_vars => TypeInv'
<1> SUFFICES ASSUME TypeInv, [Next]_vars PROVE TypeInv'
  OBVIOUS
<1> USE BoundsAssumption
<1>1. ASSUME NEW d \in Devices, NEW s \in Payloads[d], Report(d, s) PROVE TypeInv'
  <2>1. /\ reports < MaxReports /\ reports' = reports + 1
        /\ state' = [state EXCEPT ![d] = s]
        /\ queued' = (IF d \in ExtractDevices(tree) THEN queued + 1 ELSE queued)
        /\ tree' = tree /\ now' = now /\ cache' = cache /\ read' = read /\ computed' = computed
        /\ pc' = pc /\ ticks' = ticks /\ faults' = faults /\ misled' = misled /\ Turned(FALSE)
    BY <1>1 DEF Report
  <2>2. WorldType'
    BY <2>1 DEF TypeInv, WorldType, States
  <2>3. CountsType'
    BY <2>1 DEF TypeInv, CountsType
  <2>4. HistoryType'
    BY <2>1, TurnedTyped DEF TypeInv, HistoryType
  <2>5. WorkersType'
    BY <2>1 DEF TypeInv, WorkersType
  <2> QED
    BY <2>1, <2>2, <2>3, <2>4, <2>5, SameTurns, SameCache DEF TypeInv
<1>2. ASSUME NEW d \in Devices, Forget(d) PROVE TypeInv'
  <2>1. /\ reports < MaxReports /\ reports' = reports + 1
        /\ state' = [state EXCEPT ![d] = Nothing] /\ queued' = queued
        /\ tree' = tree /\ now' = now /\ cache' = cache /\ read' = read /\ computed' = computed
        /\ pc' = pc /\ ticks' = ticks /\ faults' = faults /\ misled' = misled /\ Turned(FALSE)
    BY <1>2 DEF Forget, tasks
  <2>2. WorldType'
    <3> DEFINE reported == UNION {Payloads[e] : e \in Devices}
               All == reported \cup {Nothing}
    <3>1. /\ state \in [Devices -> All]
          /\ \A e \in Devices : state[e] \in Payloads[e] \cup {Nothing}
      BY DEF TypeInv, WorldType, States
    <3>2. Nothing \in All
      <4> HIDE DEF reported
      <4> QED
        OBVIOUS
    <3> HIDE DEF All
    <3>3. /\ state' \in [Devices -> All]
          /\ \A e \in Devices : state'[e] \in Payloads[e] \cup {Nothing}
      BY <2>1, <3>1, <3>2
    <3>4. state' \in States
      BY <3>3 DEF States, All
    <3> QED
      BY <2>1, <3>4 DEF TypeInv, WorldType
  <2>3. CountsType'
    BY <2>1 DEF TypeInv, CountsType
  <2>4. HistoryType'
    BY <2>1, TurnedTyped DEF TypeInv, HistoryType
  <2>5. WorkersType'
    BY <2>1 DEF TypeInv, WorkersType
  <2> QED
    BY <2>1, <2>2, <2>3, <2>4, <2>5, SameTurns, SameCache DEF TypeInv
<1>3. ASSUME Tick PROVE TypeInv'
  <2> DEFINE unnamed == \A i \in DOMAIN tree : tree[i].type = "time" /\ tree[i].op = "=="
                                                   => ~ Names(tree[i].value, now')
  <2>1. /\ ticks < MaxTicks /\ ticks' = ticks + 1
        /\ \A k \in DOMAIN cache : cache[k].at = now
        /\ now' = (now + 1) % Day
        /\ queued' = (IF now' \in ExtractTimes(tree) THEN queued + 1 ELSE queued)
        /\ misled' = [w \in Workers |-> misled[w] \/ Outdated(w, now')]
        /\ tree' = tree /\ state' = state /\ cache' = cache /\ read' = read /\ computed' = computed
        /\ pc' = pc /\ reports' = reports /\ faults' = faults /\ Turned(unnamed)
    BY <1>3 DEF Tick
  <2> HIDE DEF unnamed
  <2>2. WorldType'
    BY <2>1, NextMinute DEF TypeInv, WorldType
  <2>3. CountsType'
    BY <2>1 DEF TypeInv, CountsType
  <2>4. HistoryType'
    BY <2>1, TurnedTyped DEF TypeInv, HistoryType
  <2>5. WorkersType'
    BY <2>1 DEF TypeInv, WorkersType
  <2>6. CacheType'
    BY <2>1 DEF TypeInv, CacheType, Keyed, Result
  <2> QED
    BY <2>1, <2>2, <2>3, <2>4, <2>5, <2>6, SameTurns DEF TypeInv
<1>4. ASSUME NEW k \in DOMAIN cache, Expire(k) PROVE TypeInv'
  <2>1. /\ cache' = [j \in DOMAIN cache \ {k} |-> cache[j]] /\ tree' = tree /\ state' = state
        /\ now' = now /\ ticks' = ticks /\ reports' = reports /\ queued' = queued /\ read' = read
        /\ computed' = computed /\ pc' = pc /\ faults' = faults /\ noticed' = noticed
        /\ excused' = excused /\ misled' = misled /\ undisturbed' = undisturbed
    BY <1>4 DEF Expire, world, tasks
  <2>2. CacheType'
    BY <2>1 DEF TypeInv, CacheType, Keyed, Result
  <2>3. WorldType' /\ CountsType' /\ WorkersType' /\ HistoryType'
    BY <2>1 DEF TypeInv, WorldType, CountsType, WorkersType, HistoryType
  <2> QED
    BY <2>1, <2>2, <2>3, SameTurns DEF TypeInv

<1>5. ASSUME NEW w \in Workers, Take(w) PROVE TypeInv'
  <2>1. /\ pc[w] = "idle" /\ queued > 0 /\ queued' = queued - 1
        /\ pc' = [pc EXCEPT ![w] = "evaluate"]
        /\ undisturbed' = [undisturbed EXCEPT ![w] = TRUE] /\ misled' = [misled EXCEPT ![w] = FALSE]
        /\ tree' = tree /\ state' = state /\ now' = now /\ ticks' = ticks /\ reports' = reports
        /\ cache' = cache /\ read' = read /\ computed' = computed /\ faults' = faults
        /\ noticed' = noticed /\ excused' = excused
    BY <1>5 DEF Take, world
  <2>2. WorldType' /\ CountsType' /\ WorkersType' /\ HistoryType'
    BY <2>1 DEF TypeInv, WorldType, CountsType, WorkersType, HistoryType
  <2>3. ReadType'
    BY <2>1 DEF TypeInv, ReadType
  <2>4. ASSUME NEW x \in Workers
        PROVE  /\ pc'[x] = "idle" => read'[x] = Nothing
               /\ pc'[x] = "store" => /\ Turn(x)'.open /\ Leaf(x)'.type = "time"
                                      /\ computed'[x] \in Result
    <3>1. Turn(x)' = Turn(x) /\ Leaf(x)' = Leaf(x)
      BY <2>1, SameTurn
    <3>2. pc'[x] = "evaluate" \/ pc'[x] = pc[x]
      BY <2>1 DEF TypeInv, WorkersType
    <3> QED
      BY <2>1, <3>1, <3>2 DEF TypeInv, TurnsType
  <2>5. TurnsType'
    BY <2>4 DEF TurnsType
  <2> QED
    BY <2>1, <2>2, <2>3, <2>5, SameCache DEF TypeInv
<1>6. ASSUME NEW w \in Workers, NEW b \in BOOLEAN, Asks(w, TRUE), Learn(w, b),
             cache' = cache, tree' = tree, state' = state, now' = now, ticks' = ticks,
             reports' = reports, queued' = queued, computed' = computed, pc' = pc,
             faults' \in 0 .. MaxFaults, noticed' = noticed, excused' = excused,
             misled' \in [Workers -> BOOLEAN], undisturbed' = undisturbed
      PROVE  TypeInv'
  <2>1. WorldType' /\ CountsType' /\ WorkersType' /\ HistoryType'
    BY <1>6 DEF TypeInv, WorldType, CountsType, WorkersType, HistoryType
  <2>2. Turn(w).open /\ pc'[w] = "evaluate"
    BY <1>6 DEF Asks
  <2>3. ReadType' /\ TurnsType'
    BY <1>6, <2>2, LearnTyped
  <2> QED
    BY <1>6, <2>1, <2>3, SameCache DEF TypeInv
<1>7. ASSUME NEW w \in Workers, ReadDevice(w) PROVE TypeInv'
  <2>1. LeafTruth(Leaf(w), state, now) \in BOOLEAN
    BY DEF LeafTruth
  <2>2. Asks(w, TRUE) /\ Learn(w, LeafTruth(Leaf(w), state, now))
    BY <1>7 DEF ReadDevice, Asks
  <2>3. /\ cache' = cache /\ tree' = tree /\ state' = state /\ now' = now /\ ticks' = ticks
        /\ reports' = reports /\ queued' = queued /\ computed' = computed /\ pc' = pc
        /\ faults' \in 0 .. MaxFaults /\ noticed' = noticed /\ excused' = excused
        /\ misled' \in [Workers -> BOOLEAN] /\ undisturbed' = undisturbed
    BY <1>7 DEF ReadDevice, world, TypeInv, CountsType, HistoryType
  <2> QED
    BY <1>6, <2>1, <2>2, <2>3
<1>8. ASSUME NEW w \in Workers, ReadDeviceFails(w) PROVE TypeInv'
  <2>1. Asks(w, TRUE) /\ Learn(w, FALSE)
    BY <1>8 DEF ReadDeviceFails, Asks
  <2>2. /\ cache' = cache /\ tree' = tree /\ state' = state /\ now' = now /\ ticks' = ticks
        /\ reports' = reports /\ queued' = queued /\ computed' = computed /\ pc' = pc
        /\ noticed' = noticed /\ excused' = excused /\ undisturbed' = undisturbed
    BY <1>8 DEF ReadDeviceFails, world
  <2>3. misled' \in [Workers -> BOOLEAN] /\ faults' \in 0 .. MaxFaults
    BY <1>8 DEF ReadDeviceFails, TypeInv, HistoryType, CountsType
  <2> QED
    BY <1>6, <2>1, <2>2, <2>3
<1>9. ASSUME NEW w \in Workers, ReadOther(w) PROVE TypeInv'
  <2>1. Asks(w, TRUE) /\ Learn(w, FALSE)
    BY <1>9 DEF ReadOther, Asks
  <2>2. /\ cache' = cache /\ tree' = tree /\ state' = state /\ now' = now /\ ticks' = ticks
        /\ reports' = reports /\ queued' = queued /\ computed' = computed /\ pc' = pc
        /\ noticed' = noticed /\ excused' = excused /\ undisturbed' = undisturbed
        /\ misled' \in [Workers -> BOOLEAN] /\ faults' \in 0 .. MaxFaults
    BY <1>9 DEF ReadOther, world, TypeInv, CountsType, HistoryType
  <2> QED
    BY <1>6, <2>1, <2>2
<1>10. ASSUME NEW w \in Workers, ReadCached(w) PROVE TypeInv'
  <2> DEFINE b == cache[CacheKey(Leaf(w))].holds
  <2>1. Asks(w, TRUE) /\ Learn(w, b) /\ CacheKey(Leaf(w)) \in DOMAIN cache
    BY <1>10 DEF ReadCached, Asks
  <2>2. b \in BOOLEAN
    BY <2>1 DEF TypeInv, CacheType, Result
  <2>3. /\ cache' = cache /\ tree' = tree /\ state' = state /\ now' = now /\ ticks' = ticks
        /\ reports' = reports /\ queued' = queued /\ computed' = computed /\ pc' = pc
        /\ noticed' = noticed /\ excused' = excused /\ undisturbed' = undisturbed
        /\ misled' \in [Workers -> BOOLEAN] /\ faults' \in 0 .. MaxFaults
    BY <1>10 DEF ReadCached, world, TypeInv, CountsType, HistoryType
  <2> HIDE DEF b
  <2> QED
    BY <1>6, <2>1, <2>2, <2>3
<1>11. ASSUME NEW w \in Workers, Compute(w) PROVE TypeInv'
  <2> DEFINE b == LeafTruth(Leaf(w), state, now)
             result == [holds |-> b, of |-> now, at |-> now]
  <2>1. b \in BOOLEAN
    BY DEF LeafTruth
  <2>2. Asks(w, TRUE) /\ Leaf(w).type = "time"
    BY <1>11 DEF Compute, Asks
  <2>3. /\ cache' = cache /\ tree' = tree /\ state' = state /\ now' = now /\ ticks' = ticks
        /\ reports' = reports /\ queued' = queued
        /\ noticed' = noticed /\ excused' = excused /\ undisturbed' = undisturbed /\ misled' = misled
        /\ faults' \in 0 .. MaxFaults
    BY <1>11 DEF Compute, world, TypeInv, CountsType
  <2>4. CASE Learn(w, b) /\ computed' = computed /\ pc' = pc
    <3>1. misled' \in [Workers -> BOOLEAN]
      BY <2>3 DEF TypeInv, HistoryType
    <3> HIDE DEF b, result
    <3> QED
      BY <1>6, <2>1, <2>2, <2>3, <2>4, <3>1
  <2>5. CASE /\ computed' = [computed EXCEPT ![w] = result]
             /\ pc' = [pc EXCEPT ![w] = "store"] /\ read' = read
    <3>1. result \in Result
      BY <2>1 DEF TypeInv, WorldType, Result
    <3> HIDE DEF b, result
    <3>2. WorldType' /\ CountsType' /\ HistoryType'
      BY <2>3 DEF TypeInv, WorldType, CountsType, HistoryType
    <3>3. WorkersType'
      BY <2>5, <3>1 DEF TypeInv, WorkersType
    <3>4. ReadType'
      BY <2>3, <2>5 DEF TypeInv, ReadType
    <3>5. ASSUME NEW x \in Workers
          PROVE  /\ pc'[x] = "idle" => read'[x] = Nothing
                 /\ pc'[x] = "store" => /\ Turn(x)'.open /\ Leaf(x)'.type = "time"
                                        /\ computed'[x] \in Result
      <4>1. Turn(x)' = Turn(x) /\ Leaf(x)' = Leaf(x)
        BY <2>3, <2>5, SameTurn
      <4>2. CASE x = w
        BY <2>2, <2>5, <3>1, <4>1, <4>2 DEF TypeInv, WorkersType, Asks
      <4>3. CASE x # w
        BY <2>5, <4>1, <4>3 DEF TypeInv, WorkersType, TurnsType
      <4> QED
        BY <4>2, <4>3
    <3>6. TurnsType'
      BY <3>5 DEF TurnsType
    <3> QED
      BY <2>3, <3>2, <3>3, <3>4, <3>6, SameCache DEF TypeInv
  <2> QED
    BY <1>11, <2>4, <2>5 DEF Compute
<1>12. ASSUME NEW w \in Workers, Store(w) PROVE TypeInv'
  <2> DEFINE b == computed[w].holds
             result == [computed[w] EXCEPT !.at = now]
  <2>1. /\ pc[w] = "store" /\ Learn(w, b) /\ pc' = [pc EXCEPT ![w] = "evaluate"]
        /\ computed' = [computed EXCEPT ![w] = NoResult]
        /\ tree' = tree /\ state' = state /\ now' = now /\ ticks' = ticks /\ reports' = reports
        /\ queued' = queued /\ noticed' = noticed /\ excused' = excused /\ misled' = misled
        /\ undisturbed' = undisturbed
    BY <1>12 DEF Store, world
  <2>2. Turn(w).open /\ Leaf(w).type = "time" /\ computed[w] \in Result
    BY <2>1 DEF TypeInv, TurnsType
  <2>3. b \in BOOLEAN /\ result \in Result /\ result.at = now
    BY <2>2 DEF Result, TypeInv, WorldType
  <2>4. CacheKey(Leaf(w)) \in Keyed
    <3>1. Turn(w).leaf \in DOMAIN tree
      BY <2>2, ReadsLeaf
    <3> QED
      BY <2>2, <3>1 DEF CacheKey, Keyed, Leaf
  <2>5. cache' = cache \/ cache' = With(cache, CacheKey(Leaf(w)), result)
    BY <1>12 DEF Store
  <2>6. faults' \in 0 .. MaxFaults
    BY <1>12 DEF Store, TypeInv, CountsType
  <2>7. WorldType' /\ CountsType' /\ HistoryType'
    BY <2>1, <2>6 DEF TypeInv, WorldType, CountsType, HistoryType
  <2>8. WorkersType'
    BY <2>1 DEF TypeInv, WorkersType
  <2>9. CacheType'
    <3>1. CASE cache' = cache
      BY <2>1, <3>1, SameCache
    <3>2. CASE cache' = With(cache, CacheKey(Leaf(w)), result)
      <4> DEFINE key == CacheKey(Leaf(w))
      <4> HIDE DEF result, key
      <4>1. cache' = With(cache, key, result) /\ key \in Keyed
        BY <2>4, <3>2 DEF key
      <4>2. /\ DOMAIN cache' = DOMAIN cache \cup {key} /\ cache'[key] = result
            /\ \A k \in DOMAIN cache : k # key => cache'[k] = cache[k]
        <5>1. DOMAIN cache' = DOMAIN cache \cup {key}
          BY <4>1, WithIs
        <5>2. cache'[key] = result
          BY <4>1, WithIs
        <5>3. \A k \in DOMAIN cache : k # key => cache'[k] = cache[k]
          BY <4>1, WithIs
        <5> QED
          BY <5>1, <5>2, <5>3
      <4>3. Keyed' = Keyed
        BY <2>1 DEF Keyed
      <4>4. DOMAIN cache' \subseteq Keyed'
        BY <4>1, <4>2, <4>3 DEF TypeInv, CacheType
      <4>5. ASSUME NEW k \in DOMAIN cache'
            PROVE  cache'[k] \in Result /\ now' \in {cache'[k].at, (cache'[k].at + 1) % Day}
        <5>1. CASE k = key
          BY <2>1, <2>3, <4>2, <5>1
        <5>2. CASE k # key
          BY <2>1, <4>2, <5>2 DEF TypeInv, CacheType
        <5> QED
          BY <5>1, <5>2
      <4> QED
        BY <4>4, <4>5 DEF CacheType, Result
    <3> QED
      BY <2>5, <3>1, <3>2
  <2>10. ReadType' /\ TurnsType'
    <3>1. /\ pc'[w] = "evaluate"
          /\ \A x \in Workers : x # w => pc'[x] = pc[x] /\ computed'[x] = computed[x]
      BY <2>1 DEF TypeInv, WorkersType
    <3> HIDE DEF b
    <3> QED
      BY <2>1, <2>2, <2>3, <3>1, LearnTyped
  <2> QED
    BY <2>7, <2>8, <2>9, <2>10 DEF TypeInv
<1>13. ASSUME NEW w \in Workers, Finish(w) PROVE TypeInv'
  <2>1. /\ pc' = [pc EXCEPT ![w] = "idle"] /\ read' = [read EXCEPT ![w] = Nothing]
        /\ noticed' = (noticed \/ (Turn(w).holds /\ Holds))
        /\ excused' = (excused \/ (~ Turn(w).holds /\ misled[w] /\ Holds))
        /\ tree' = tree /\ state' = state /\ now' = now /\ ticks' = ticks /\ reports' = reports
        /\ cache' = cache /\ queued' = queued /\ computed' = computed /\ faults' = faults
        /\ misled' = misled /\ undisturbed' = undisturbed
    BY <1>13 DEF Finish, world
  <2>2. WorldType' /\ CountsType' /\ WorkersType' /\ HistoryType'
    BY <2>1 DEF TypeInv, WorldType, CountsType, WorkersType, HistoryType
  <2>3. ReadType'
    BY <2>1 DEF TypeInv, ReadType, Nothing
  <2>4. ASSUME NEW x \in Workers
        PROVE  /\ pc'[x] = "idle" => read'[x] = Nothing
               /\ pc'[x] = "store" => /\ Turn(x)'.open /\ Leaf(x)'.type = "time"
                                      /\ computed'[x] \in Result
    <3>1. CASE x = w
      BY <2>1, <3>1 DEF TypeInv, WorkersType, ReadType
    <3>2. CASE x # w
      <4>1. read'[x] = read[x] /\ pc'[x] = pc[x]
        BY <2>1, <3>2 DEF TypeInv, WorkersType, ReadType
      <4>2. Turn(x)' = Turn(x) /\ Leaf(x)' = Leaf(x)
        BY <2>1, <4>1, SameTurn
      <4> QED
        BY <2>1, <4>1, <4>2 DEF TypeInv, TurnsType
    <3> QED
      BY <3>1, <3>2
  <2>5. TurnsType'
    BY <2>4 DEF TurnsType
  <2> QED
    BY <2>1, <2>2, <2>3, <2>5, SameCache DEF TypeInv
<1>14. CASE UNCHANGED vars
  <2>1. /\ tree' = tree /\ state' = state /\ now' = now /\ ticks' = ticks /\ reports' = reports
        /\ cache' = cache /\ queued' = queued /\ read' = read /\ computed' = computed /\ pc' = pc
        /\ faults' = faults /\ noticed' = noticed /\ excused' = excused /\ misled' = misled
        /\ undisturbed' = undisturbed
    BY <1>14 DEF vars, world, tasks
  <2>2. WorldType' /\ CountsType' /\ WorkersType' /\ HistoryType'
    BY <2>1 DEF TypeInv, WorldType, CountsType, WorkersType, HistoryType
  <2> QED
    BY <2>1, <2>2, SameTurns, SameCache DEF TypeInv
<1> QED
  BY <1>1, <1>2, <1>3, <1>4, <1>5, <1>7, <1>8, <1>9, <1>10, <1>11, <1>12, <1>13, <1>14
     DEF Next, EvaluateConditions

(* Every variable keeps its type (evaluator.go:29-82).                     *)
THEOREM TypeCorrect == Spec => []TypeOK
<1>1. Spec => []TypeInv
  BY Initially, TypeStep, PTL DEF Spec
<1> QED
  BY <1>1, TypeInvTypeOK, PTL

-----------------------------------------------------------------------------
(* The evaluation is right.                                                *)

(* Each cached result, and each about to be stored, is right for the minute *)
(* it is of; what an evaluation that was neither disturbed nor misled has   *)
(* read, is what its leaves come to now.                                   *)
CacheRight == \A k \in DOMAIN cache : cache[k].holds <=> Compare(Clock(cache[k].of), k[1], k[2])
ComputedRight ==
    \A w \in Workers : pc[w] = "store" =>
        (computed[w].holds <=> Compare(Clock(computed[w].of), Leaf(w).op, Leaf(w).value))
ReadRight(w) ==
    pc[w] # "idle" /\ undisturbed[w] /\ ~ misled[w] =>
        /\ AtLeast(tree, read[w], state, now) /\ AtMost(tree, read[w], state, now)
        /\ pc[w] = "store" => computed[w].of = now
RightInv == CacheRight /\ ComputedRight /\ \A w \in Workers : ReadRight(w)

(* What each kind of leaf comes to.                                        *)
LEMMA TimeLeaf ==
    ASSUME NEW c, c.type = "time", NEW s, NEW m
    PROVE  LeafTruth(c, s, m) <=> Compare(Clock(m), c.op, c.value)
  BY DEF LeafTruth, OnDevice

LEMMA OtherLeaf ==
    ASSUME NEW c, ~ OnDevice(c), c.type # "time", NEW s, NEW m PROVE ~ LeafTruth(c, s, m)
  BY DEF LeafTruth

(* What is learnt keeps what has been read right.                          *)
LEMMA LearnsRight ==
    ASSUME TypeInv, NEW w \in Workers, Turn(w).open, NEW b \in BOOLEAN, Learn(w, b)
    PROVE  /\ AtLeast(tree, read[w], state, now) /\ (LeafTruth(Leaf(w), state, now) => b)
                  => AtLeast(tree, read'[w], state, now)
           /\ AtMost(tree, read[w], state, now) /\ (b => LeafTruth(Leaf(w), state, now))
                  => AtMost(tree, read'[w], state, now)
<1>1. /\ DOMAIN read'[w] = DOMAIN read[w] \cup {Turn(w).leaf}
      /\ read'[w][Turn(w).leaf] = b
      /\ \A i \in DOMAIN read[w] : read'[w][i] = read[w][i]
  BY LearnsLeaf
<1>2. ASSUME AtLeast(tree, read[w], state, now), LeafTruth(Leaf(w), state, now) => b,
             NEW i \in DOMAIN read'[w], LeafTruth(tree[i], state, now)
      PROVE  read'[w][i]
  <2>1. CASE i = Turn(w).leaf
    BY <1>1, <1>2, <2>1 DEF Leaf
  <2>2. CASE i # Turn(w).leaf
    BY <1>1, <1>2, <2>2 DEF AtLeast
  <2> QED
    BY <2>1, <2>2
<1>3. ASSUME AtMost(tree, read[w], state, now), b => LeafTruth(Leaf(w), state, now),
             NEW i \in DOMAIN read'[w], read'[w][i]
      PROVE  LeafTruth(tree[i], state, now)
  <2>1. CASE i = Turn(w).leaf
    BY <1>1, <1>3, <2>1 DEF Leaf
  <2>2. CASE i # Turn(w).leaf
    BY <1>1, <1>3, <2>2 DEF AtMost
  <2> QED
    BY <2>1, <2>2
<1> QED
  BY <1>2, <1>3 DEF AtLeast, AtMost

(* So does a step that learns what the leaf comes to, or misleads the      *)
(* worker, for all workers.                                                *)
LEMMA LearnsRightly ==
    ASSUME TypeInv, RightInv, NEW w \in Workers, Turn(w).open, pc[w] # "idle",
           NEW b \in BOOLEAN, Learn(w, b),
           undisturbed[w] /\ ~ misled'[w] =>
               (b <=> LeafTruth(Leaf(w), state, now)) /\ ~ misled[w],
           tree' = tree, state' = state, now' = now, undisturbed' = undisturbed,
           pc'[w] = "evaluate",
           \A x \in Workers : x # w => /\ pc'[x] = pc[x] /\ computed'[x] = computed[x]
                                       /\ misled'[x] = misled[x]
    PROVE  ComputedRight' /\ \A x \in Workers : ReadRight(x)'
<1>1. ASSUME NEW x \in Workers, x # w PROVE read'[x] = read[x] /\ Leaf(x)' = Leaf(x)
  <2>1. read'[x] = read[x]
    BY <1>1, LearnsLeaf
  <2> QED
    BY <2>1, SameTurn
<1>2. ComputedRight'
  BY <1>1 DEF RightInv, ComputedRight
<1>3. ReadRight(w)'
  <2>1. ASSUME undisturbed[w], ~ misled'[w]
        PROVE  AtLeast(tree, read'[w], state, now) /\ AtMost(tree, read'[w], state, now)
    <3>1. AtLeast(tree, read[w], state, now) /\ AtMost(tree, read[w], state, now)
      BY <2>1 DEF RightInv, ReadRight
    <3> QED
      BY <2>1, <3>1, LearnsRight
  <2> QED
    BY <2>1 DEF ReadRight
<1>4. ASSUME NEW x \in Workers, x # w PROVE ReadRight(x)'
  BY <1>1, <1>4 DEF RightInv, ReadRight
<1> QED
  BY <1>2, <1>3, <1>4

(* Results that no step has touched stay right.                            *)
LEMMA SameComputed ==
    ASSUME RightInv, read' = read, tree' = tree, pc' = pc, computed' = computed
    PROVE  ComputedRight'
<1>1. \A x \in Workers : Leaf(x)' = Leaf(x)
  BY SameTurn
<1> QED
  BY <1>1 DEF RightInv, ComputedRight

LEMMA SameCacheRight == ASSUME RightInv, cache' = cache PROVE CacheRight'
  BY DEF RightInv, CacheRight

(* Each action keeps what has been read, cached and computed right.        *)
LEMMA RightStep == TypeInv /\ RightInv /\ [Next]_vars => RightInv'
<1> SUFFICES ASSUME TypeInv, RightInv, [Next]_vars PROVE RightInv'
  OBVIOUS
<1>1. ASSUME cache' = cache, read' = read, tree' = tree, pc' = pc, computed' = computed,
             undisturbed' = [w \in Workers |-> FALSE]
      PROVE  RightInv'
  <2>1. \A w \in Workers : ReadRight(w)'
    BY <1>1 DEF ReadRight
  <2> QED
    BY <1>1, <2>1, SameComputed, SameCacheRight DEF RightInv
<1>2. ASSUME NEW d \in Devices, NEW s \in Payloads[d], Report(d, s) PROVE RightInv'
  BY <1>1, <1>2 DEF Report, Turned
<1>3. ASSUME NEW d \in Devices, Forget(d) PROVE RightInv'
  BY <1>1, <1>3 DEF Forget, Turned, tasks
<1>4. ASSUME Tick PROVE RightInv'
  BY <1>1, <1>4 DEF Tick, Turned
<1>5. ASSUME NEW k \in DOMAIN cache, Expire(k) PROVE RightInv'
  <2>1. /\ cache' = [j \in DOMAIN cache \ {k} |-> cache[j]] /\ tree' = tree /\ state' = state
        /\ now' = now /\ read' = read /\ computed' = computed /\ pc' = pc
        /\ misled' = misled /\ undisturbed' = undisturbed
    BY <1>5 DEF Expire, world, tasks
  <2>2. CacheRight'
    BY <2>1 DEF RightInv, CacheRight
  <2>3. \A w \in Workers : ReadRight(w)'
    BY <2>1 DEF RightInv, ReadRight
  <2> QED
    BY <2>1, <2>2, <2>3, SameComputed DEF RightInv
<1>6. ASSUME NEW w \in Workers, Take(w) PROVE RightInv'
  <2>1. /\ pc[w] = "idle" /\ pc' = [pc EXCEPT ![w] = "evaluate"]
        /\ undisturbed' = [undisturbed EXCEPT ![w] = TRUE] /\ misled' = [misled EXCEPT ![w] = FALSE]
        /\ tree' = tree /\ state' = state /\ now' = now
        /\ cache' = cache /\ read' = read /\ computed' = computed
    BY <1>6 DEF Take, world
  <2>2. ASSUME NEW x \in Workers PROVE ReadRight(x)'
    <3>1. CASE x = w
      <4>1. pc'[x] = "evaluate" /\ read'[x] = Nothing
        BY <2>1, <3>1 DEF TypeInv, TurnsType, WorkersType
      <4> QED
        BY <4>1 DEF ReadRight, AtLeast, AtMost, Nothing
    <3>2. CASE x # w
      <4>1. pc'[x] = pc[x] /\ undisturbed'[x] = undisturbed[x] /\ misled'[x] = misled[x]
        BY <2>1, <3>2 DEF TypeInv, WorkersType, HistoryType
      <4> QED
        BY <2>1, <4>1 DEF RightInv, ReadRight
    <3> QED
      BY <3>1, <3>2
  <2>3. ASSUME NEW x \in Workers, pc'[x] = "store"
        PROVE  computed'[x].holds <=> Compare(Clock(computed'[x].of), Leaf(x)'.op, Leaf(x)'.value)
    <3>1. pc[x] = "store"
      BY <2>1, <2>3 DEF TypeInv, WorkersType
    <3>2. Leaf(x)' = Leaf(x)
      BY <2>1, SameTurn
    <3> QED
      BY <2>1, <3>1, <3>2 DEF RightInv, ComputedRight
  <2> QED
    BY <2>1, <2>2, <2>3, SameCacheRight DEF RightInv, ComputedRight
<1>7. ASSUME NEW w \in Workers, ReadDevice(w) PROVE RightInv'
  <2> DEFINE b == LeafTruth(Leaf(w), state, now)
  <2>1. b \in BOOLEAN
    BY DEF LeafTruth
  <2>2. /\ pc[w] = "evaluate" /\ Turn(w).open /\ Learn(w, b)
        /\ cache' = cache /\ tree' = tree /\ state' = state /\ now' = now
        /\ computed' = computed /\ pc' = pc /\ misled' = misled /\ undisturbed' = undisturbed
    BY <1>7 DEF ReadDevice, Asks, world
  <2>3. b <=> LeafTruth(Leaf(w), state, now)
    OBVIOUS
  <2> HIDE DEF b
  <2>4. ComputedRight' /\ \A x \in Workers : ReadRight(x)'
    BY <2>1, <2>2, <2>3, LearnsRightly
  <2> QED
    BY <2>2, <2>4, SameCacheRight DEF RightInv
<1>8. ASSUME NEW w \in Workers, ReadDeviceFails(w) PROVE RightInv'
  <2>1. /\ pc[w] = "evaluate" /\ Turn(w).open /\ Learn(w, FALSE)
        /\ misled' = [misled EXCEPT ![w] = @ \/ LeafTruth(Leaf(w), state, now)]
        /\ cache' = cache /\ tree' = tree /\ state' = state /\ now' = now
        /\ computed' = computed /\ pc' = pc /\ undisturbed' = undisturbed
    BY <1>8 DEF ReadDeviceFails, Asks, world
  <2>2. ~ misled'[w] => ~ LeafTruth(Leaf(w), state, now) /\ ~ misled[w]
    BY <2>1 DEF TypeInv, HistoryType
  <2>3. \A x \in Workers : x # w => misled'[x] = misled[x]
    BY <2>1 DEF TypeInv, HistoryType
  <2>4. ComputedRight' /\ \A x \in Workers : ReadRight(x)'
    BY <2>1, <2>2, <2>3, LearnsRightly
  <2> QED
    BY <2>1, <2>4, SameCacheRight DEF RightInv
<1>9. ASSUME NEW w \in Workers, ReadOther(w) PROVE RightInv'
  <2>1. /\ pc[w] = "evaluate" /\ Turn(w).open /\ Learn(w, FALSE)
        /\ ~ OnDevice(Leaf(w)) /\ Leaf(w).type # "time"
        /\ cache' = cache /\ tree' = tree /\ state' = state /\ now' = now
        /\ computed' = computed /\ pc' = pc /\ misled' = misled /\ undisturbed' = undisturbed
    BY <1>9 DEF ReadOther, Asks, world
  <2>2. ~ LeafTruth(Leaf(w), state, now)
    BY <2>1, OtherLeaf
  <2>3. ComputedRight' /\ \A x \in Workers : ReadRight(x)'
    BY <2>1, <2>2, LearnsRightly
  <2> QED
    BY <2>1, <2>3, SameCacheRight DEF RightInv
<1>10. ASSUME NEW w \in Workers, ReadCached(w) PROVE RightInv'
  <2> DEFINE k == CacheKey(Leaf(w))
             b == cache[k].holds
  <2>1. /\ pc[w] = "evaluate" /\ Turn(w).open /\ Learn(w, b)
        /\ Leaf(w).type = "time" /\ k \in DOMAIN cache
        /\ misled' = [misled EXCEPT ![w] = @ \/ cache[k].of # now]
        /\ cache' = cache /\ tree' = tree /\ state' = state /\ now' = now
        /\ computed' = computed /\ pc' = pc /\ undisturbed' = undisturbed
    BY <1>10 DEF ReadCached, Asks, world
  <2>2. b \in BOOLEAN
    BY <2>1 DEF TypeInv, CacheType, Result
  <2>3. ~ misled'[w] => cache[k].of = now /\ ~ misled[w]
    BY <2>1 DEF TypeInv, HistoryType
  <2>4. \A x \in Workers : x # w => misled'[x] = misled[x]
    BY <2>1 DEF TypeInv, HistoryType
  <2>5. b <=> Compare(Clock(cache[k].of), Leaf(w).op, Leaf(w).value)
    BY <2>1 DEF RightInv, CacheRight, CacheKey
  <2>6. LeafTruth(Leaf(w), state, now) <=> Compare(Clock(now), Leaf(w).op, Leaf(w).value)
    BY <2>1, TimeLeaf
  <2> HIDE DEF b, k
  <2>7. ~ misled'[w] => (b <=> LeafTruth(Leaf(w), state, now)) /\ ~ misled[w]
    BY <2>3, <2>5, <2>6
  <2>8. ComputedRight' /\ \A x \in Workers : ReadRight(x)'
    BY <2>1, <2>2, <2>4, <2>7, LearnsRightly
  <2> QED
    BY <2>1, <2>8, SameCacheRight DEF RightInv
<1>11. ASSUME NEW w \in Workers, Compute(w) PROVE RightInv'
  <2> DEFINE b == LeafTruth(Leaf(w), state, now)
             result == [holds |-> b, of |-> now, at |-> now]
  <2>1. b \in BOOLEAN
    BY DEF LeafTruth
  <2>2. /\ pc[w] = "evaluate" /\ Turn(w).open /\ Leaf(w).type = "time"
        /\ cache' = cache /\ tree' = tree /\ state' = state /\ now' = now
        /\ misled' = misled /\ undisturbed' = undisturbed
    BY <1>11 DEF Compute, Asks, world
  <2>3. CASE Learn(w, b) /\ computed' = computed /\ pc' = pc
    <3>1. b <=> LeafTruth(Leaf(w), state, now)
      OBVIOUS
    <3> HIDE DEF b, result
    <3>2. ComputedRight' /\ \A x \in Workers : ReadRight(x)'
      BY <2>1, <2>2, <2>3, <3>1, LearnsRightly
    <3> QED
      BY <2>2, <3>2, SameCacheRight DEF RightInv
  <2>4. CASE /\ computed' = [computed EXCEPT ![w] = result]
             /\ pc' = [pc EXCEPT ![w] = "store"] /\ read' = read
    <3>1. b <=> Compare(Clock(now), Leaf(w).op, Leaf(w).value)
      BY <2>2, TimeLeaf
    <3>2. (result.holds <=> b) /\ result.of = now
      OBVIOUS
    <3>3. \A x \in Workers : Leaf(x)' = Leaf(x)
      BY <2>2, <2>4, SameTurn
    <3> HIDE DEF b, result
    <3>4. /\ pc'[w] = "store" /\ computed'[w] = result
          /\ \A x \in Workers : x # w => pc'[x] = pc[x] /\ computed'[x] = computed[x]
      BY <2>4 DEF TypeInv, WorkersType
    <3>5. ASSUME NEW x \in Workers, pc'[x] = "store"
          PROVE  computed'[x].holds <=> Compare(Clock(computed'[x].of), Leaf(x)'.op, Leaf(x)'.value)
      <4>1. CASE x = w
        BY <3>1, <3>2, <3>3, <3>4, <4>1
      <4>2. CASE x # w
        BY <3>3, <3>4, <3>5, <4>2 DEF RightInv, ComputedRight
      <4> QED
        BY <4>1, <4>2
    <3>6. ASSUME NEW x \in Workers PROVE ReadRight(x)'
      <4>1. CASE x = w
        BY <2>2, <2>4, <3>2, <3>4, <4>1 DEF RightInv, ReadRight
      <4>2. CASE x # w
        BY <2>2, <2>4, <3>4, <4>2 DEF RightInv, ReadRight
      <4> QED
        BY <4>1, <4>2
    <3> QED
      BY <2>2, <3>5, <3>6, SameCacheRight DEF RightInv, ComputedRight
  <2> QED
    BY <1>11, <2>3, <2>4 DEF Compute
<1>12. ASSUME NEW w \in Workers, Store(w) PROVE RightInv'
  <2> DEFINE b == computed[w].holds
             result == [computed[w] EXCEPT !.at = now]
             key == CacheKey(Leaf(w))
  <2>1. /\ pc[w] = "store" /\ Learn(w, b) /\ pc' = [pc EXCEPT ![w] = "evaluate"]
        /\ computed' = [computed EXCEPT ![w] = NoResult]
        /\ tree' = tree /\ state' = state /\ now' = now /\ misled' = misled
        /\ undisturbed' = undisturbed
    BY <1>12 DEF Store, world
  <2>2. Turn(w).open /\ Leaf(w).type = "time" /\ computed[w] \in Result
    BY <2>1 DEF TypeInv, TurnsType
  <2>3. b \in BOOLEAN /\ result.of = computed[w].of /\ (result.holds <=> b)
    BY <2>2 DEF Result
  <2>4. b <=> Compare(Clock(computed[w].of), Leaf(w).op, Leaf(w).value)
    BY <2>1 DEF RightInv, ComputedRight
  <2>5. LeafTruth(Leaf(w), state, now) <=> Compare(Clock(now), Leaf(w).op, Leaf(w).value)
    BY <2>2, TimeLeaf
  <2>6. cache' = cache \/ cache' = With(cache, key, result)
    BY <1>12 DEF Store
  <2>7. key[1] = Leaf(w).op /\ key[2] = Leaf(w).value
    BY DEF CacheKey
  <2> HIDE DEF b, result, key
  <2>8. CacheRight'
    <3>1. CASE cache' = cache
      BY <3>1, SameCacheRight
    <3>2. CASE cache' = With(cache, key, result)
      <4>1. DOMAIN cache' = DOMAIN cache \cup {key}
        BY <3>2, WithIs
      <4>2. cache'[key] = result
        BY <3>2, WithIs
      <4>3. \A k \in DOMAIN cache : k # key => cache'[k] = cache[k]
        BY <3>2, WithIs
      <4>4. ASSUME NEW k \in DOMAIN cache'
            PROVE  cache'[k].holds <=> Compare(Clock(cache'[k].of), k[1], k[2])
        <5>1. CASE k = key
          BY <2>3, <2>4, <2>7, <4>2, <5>1
        <5>2. CASE k # key
          BY <4>1, <4>3, <5>2 DEF RightInv, CacheRight
        <5> QED
          BY <5>1, <5>2
      <4> QED
        BY <4>4 DEF CacheRight
    <3> QED
      BY <2>6, <3>1, <3>2
  <2>9. undisturbed[w] /\ ~ misled[w] => (b <=> LeafTruth(Leaf(w), state, now))
    <3>1. undisturbed[w] /\ ~ misled[w] => computed[w].of = now
      BY <2>1 DEF RightInv, ReadRight
    <3> QED
      BY <2>4, <2>5, <3>1
  <2>10. /\ pc'[w] = "evaluate"
         /\ \A x \in Workers : x # w => pc'[x] = pc[x] /\ computed'[x] = computed[x]
    BY <2>1 DEF TypeInv, WorkersType
  <2>11. ComputedRight' /\ \A x \in Workers : ReadRight(x)'
    BY <2>1, <2>2, <2>3, <2>9, <2>10, LearnsRightly
  <2> QED
    BY <2>8, <2>11 DEF RightInv
<1>13. ASSUME NEW w \in Workers, Finish(w) PROVE RightInv'
  <2>1. /\ pc' = [pc EXCEPT ![w] = "idle"] /\ read' = [read EXCEPT ![w] = Nothing]
        /\ tree' = tree /\ state' = state /\ now' = now /\ cache' = cache /\ computed' = computed
        /\ misled' = misled /\ undisturbed' = undisturbed
    BY <1>13 DEF Finish, world
  <2>2. pc'[w] = "idle"
    BY <2>1 DEF TypeInv, WorkersType
  <2>3. ASSUME NEW x \in Workers, x # w
        PROVE  pc'[x] = pc[x] /\ read'[x] = read[x] /\ Leaf(x)' = Leaf(x)
    <3>1. pc'[x] = pc[x] /\ read'[x] = read[x]
      BY <2>1, <2>3 DEF TypeInv, WorkersType, ReadType
    <3> QED
      BY <2>1, <3>1, SameTurn
  <2>4. ComputedRight'
    BY <2>1, <2>2, <2>3 DEF RightInv, ComputedRight
  <2>5. ASSUME NEW x \in Workers PROVE ReadRight(x)'
    <3>1. CASE x = w
      BY <2>2, <3>1 DEF ReadRight
    <3>2. CASE x # w
      BY <2>1, <2>3, <3>2 DEF RightInv, ReadRight
    <3> QED
      BY <3>1, <3>2
  <2> QED
    BY <2>1, <2>4, <2>5, SameCacheRight DEF RightInv
<1>14. CASE UNCHANGED vars
  <2>1. /\ tree' = tree /\ state' = state /\ now' = now /\ cache' = cache /\ read' = read
        /\ computed' = computed /\ pc' = pc /\ misled' = misled /\ undisturbed' = undisturbed
    BY <1>14 DEF vars, world, tasks
  <2>2. \A x \in Workers : ReadRight(x)'
    BY <2>1 DEF RightInv, ReadRight
  <2> QED
    BY <2>1, <2>2, SameComputed, SameCacheRight DEF RightInv
<1> QED
  BY <1>2, <1>3, <1>4, <1>5, <1>6, <1>7, <1>8, <1>9, <1>10, <1>11, <1>12, <1>13, <1>14
     DEF Next, EvaluateConditions

(* An evaluation that neither a change of the world nor an answer of       *)
(* another minute has touched comes to what the conditions mean, whatever  *)
(* the tree (evaluator.go:34-100).                                         *)
THEOREM RightResult == Spec => []EvaluationIsRight
<1>1. Init => RightInv
  BY DEF Init, RightInv, CacheRight, ComputedRight, ReadRight, Nothing
<1>2. TypeInv /\ RightInv => EvaluationIsRight
  <2> SUFFICES ASSUME TypeInv, RightInv, NEW w \in Workers,
                      pc[w] = "evaluate", ~ Turn(w).open, undisturbed[w], ~ misled[w]
               PROVE  Turn(w).holds = Holds
    BY DEF EvaluationIsRight
  <2>1. tree \in Trees /\ AllRead(read[w]) /\ Turn(w).holds \in BOOLEAN /\ Holds \in BOOLEAN
    BY ReadsLeaf, HoldsType DEF TypeInv, WorldType, Partial
  <2>2. AtLeast(tree, read[w], state, now) /\ AtMost(tree, read[w], state, now)
    BY DEF RightInv, ReadRight
  <2>3. Holds => Turn(w).holds
    BY <2>1, <2>2, FindsTrue DEF Turn, Holds
  <2>4. Turn(w).holds => Holds
    BY <2>1, <2>2, FindsFalse DEF Turn, Holds
  <2> QED
    BY <2>1, <2>3, <2>4
<1>3. Spec => [](TypeInv /\ RightInv)
  BY <1>1, Initially, TypeStep, RightStep, PTL DEF Spec
<1> QED
  BY <1>2, <1>3, PTL

-----------------------------------------------------------------------------
(* The rule runs when it turns true.                                       *)

(* Every node but the root is the child of an earlier one.                *)
LEMMA Parent ==
    ASSUME NEW t \in Trees, NEW i \in 1 .. Len(t), i # 1
    PROVE  \E p \in 1 .. (i - 1) : /\ p \in 1 .. Len(t)
                                  /\ \E j \in DOMAIN t[p].children : t[p].children[j] = i
<1>1. Len(t) \in Nat /\ DOMAIN t = 1 .. Len(t)
  BY InTree
<1>2. i \in 2 .. Len(t)
  BY <1>1
<1>3. PICK p \in 1 .. Len(t) : \E j \in DOMAIN t[p].children : t[p].children[j] = i
  BY <1>1, <1>2, TreesAssumption
<1>4. i \in (p + 1) .. Len(t)
  BY <1>3, InTree
<1>5. p \in 1 .. (i - 1)
  BY <1>1, <1>4
<1> QED
  BY <1>3, <1>5

(* The devices found in a tree are all that its nodes name.                *)
LEMMA DevicesCovered ==
    ASSUME NEW t \in Trees, NEW k \in 1 .. Len(t), t[k].dev # ""
    PROVE  t[k].dev \in ExtractDevices(t)
<1> DEFINE S == {i \in 1 .. Len(t) : Named(t)[i] \subseteq Named(t)[1]}
<1>1. Len(t) \in Nat /\ DOMAIN t = 1 .. Len(t)
  BY InTree
<1>2. ASSUME NEW i \in 1 .. Len(t), \A j \in 1 .. (i - 1) : j \in S PROVE i \in S
  <2>1. CASE i = 1
    BY <2>1
  <2>2. CASE i # 1
    <3>1. PICK p \in 1 .. (i - 1) : /\ p \in 1 .. Len(t)
                                    /\ \E j \in DOMAIN t[p].children : t[p].children[j] = i
      BY <2>2, Parent
    <3>2. p \in S
      BY <1>2
    <3>3. Named(t)[p] = DevicesBelow(t[p], Named(t))
      BY <3>1, NamedAre
    <3>4. Named(t)[i] \subseteq Named(t)[p]
      BY <3>1, <3>3 DEF DevicesBelow
    <3> QED
      BY <3>2, <3>4
  <2> QED
    BY <2>1, <2>2
<1>3. k \in S
  <2> HIDE DEF S
  <2> QED
    BY <1>1, <1>2, Upward
<1>4. t[k].dev \in Named(t)[k]
  BY NamedAre DEF DevicesBelow
<1> QED
  BY <1>3, <1>4, Roots

(* The search for times goes on below every node that has children: none   *)
(* of them is itself a time that does not parse.                           *)
TimedLeavesOnly ==
    \A t \in Trees : \A i \in DOMAIN t : IsTimed(t[i]) /\ ~ Parses(t[i]) => t[i].children = <<>>

(* The times found are then all that an "==" names.                        *)
LEMMA TimesCovered ==
    ASSUME TimedLeavesOnly, NEW t \in Trees, NEW k \in 1 .. Len(t), NEW m \in 0 .. Day - 1,
           t[k].type = "time", t[k].op = "==", Names(t[k].value, m)
    PROVE  m \in ExtractTimes(t)
<1> DEFINE S == {i \in 1 .. Len(t) : Times(t)[i] \subseteq Times(t)[1]}
<1>1. Len(t) \in Nat /\ DOMAIN t = 1 .. Len(t)
  BY InTree
<1>2. ASSUME NEW i \in 1 .. Len(t), \A j \in 1 .. (i - 1) : j \in S PROVE i \in S
  <2>1. CASE i = 1
    BY <2>1
  <2>2. CASE i # 1
    <3>1. PICK p \in 1 .. (i - 1) : /\ p \in 1 .. Len(t)
                                    /\ \E j \in DOMAIN t[p].children : t[p].children[j] = i
      BY <2>2, Parent
    <3>2. p \in S
      BY <1>2
    <3>3. Times(t)[p] = TimesBelow(t[p], Times(t))
      BY <3>1, TimesAre
    <3>4. ~ (IsTimed(t[p]) /\ ~ Parses(t[p]))
      <4>1. t[p].children # <<>>
        BY <3>1
      <4> QED
        BY <1>1, <4>1 DEF TimedLeavesOnly
    <3>5. Times(t)[i] \subseteq Times(t)[p]
      BY <3>1, <3>3, <3>4 DEF TimesBelow
    <3> QED
      BY <3>2, <3>5
  <2> QED
    BY <2>1, <2>2
<1>3. k \in S
  <2> HIDE DEF S
  <2> QED
    BY <1>1, <1>2, Upward
<1>4. m \in Times(t)[k]
  <2>1. IsTimed(t[k]) /\ Parses(t[k]) /\ t[k].value.n = m
    BY DEF IsTimed, Parses, Names
  <2>2. Times(t)[k] = TimesBelow(t[k], Times(t))
    BY TimesAre
  <2> QED
    BY <2>1, <2>2 DEF TimesBelow
<1> QED
  BY <1>3, <1>4, Roots

(* A worker that will find the conditions true if they stay so, or that    *)
(* has been misled.                                                        *)
Hopeful(w) ==
    /\ pc[w] # "idle"
    /\ \/ misled[w]
       \/ /\ AtLeast(tree, read[w], state, now)
          /\ pc[w] = "store" /\ LeafTruth(Leaf(w), state, now) => computed[w].holds

(* Conditions that hold and have not been found to, have a task or such a  *)
(* worker.                                                                 *)
RunsInv == Holds /\ ~ noticed /\ ~ excused => queued > 0 \/ \E w \in Workers : Hopeful(w)

(* A change of states that turns no leaf true turns no tree true, and      *)
(* leaves a worker's hope.                                                 *)
LEMMA Shrinks ==
    ASSUME TypeInv, tree' = tree, now' = now, read' = read, pc' = pc, computed' = computed,
           misled' = misled,
           \A i \in DOMAIN tree : LeafTruth(tree[i], state', now) => LeafTruth(tree[i], state, now)
    PROVE  /\ Holds' => Holds
           /\ \A w \in Workers : Hopeful(w) => Hopeful(w)'
<1>1. tree \in Trees /\ DOMAIN tree = 1 .. Len(tree)
  BY InTree DEF TypeInv, WorldType
<1>2. Truth(tree, state', now) => Truth(tree, state, now)
  BY <1>1, TruthGrows
<1>3. ASSUME NEW w \in Workers, Hopeful(w) PROVE Hopeful(w)'
  <2>1. Turn(w)' = Turn(w) /\ Leaf(w)' = Leaf(w)
    BY SameTurn
  <2>2. AtLeast(tree, read[w], state, now) => AtLeast(tree, read[w], state', now)
    BY DEF AtLeast, TypeInv, ReadType
  <2>3. ASSUME pc[w] = "store", LeafTruth(Leaf(w), state', now) PROVE LeafTruth(Leaf(w), state, now)
    <3>1. Turn(w).leaf \in DOMAIN tree
      BY <2>3, ReadsLeaf DEF TypeInv, TurnsType
    <3> QED
      BY <2>3, <3>1 DEF Leaf
  <2> QED
    BY <1>3, <2>1, <2>2, <2>3 DEF Hopeful
<1> QED
  BY <1>2, <1>3 DEF Holds

(* A report of a device that no node names changes no leaf, and a state    *)
(* forgotten turns none true.                                              *)
LEMMA ReportUnnamed ==
    ASSUME TypeInv, NEW d \in Devices, d \notin ExtractDevices(tree), NEW s,
           state' = [state EXCEPT ![d] = s], NEW i \in DOMAIN tree
    PROVE  LeafTruth(tree[i], state', now) <=> LeafTruth(tree[i], state, now)
<1>1. tree \in Trees /\ i \in 1 .. Len(tree) /\ tree[i] \in Node
  BY InTree DEF TypeInv, WorldType
<1>2. tree[i].dev # d
  BY <1>1, DevicesCovered, DevicesAssumption
<1>3. Attribute(state', tree[i]) = Attribute(state, tree[i])
  BY <1>2 DEF TypeInv, WorldType, States, Attribute
<1> QED
  BY <1>3 DEF LeafTruth

LEMMA ForgetShrinks ==
    ASSUME TypeInv, NEW d \in Devices, state' = [state EXCEPT ![d] = Nothing],
           NEW i \in DOMAIN tree, LeafTruth(tree[i], state', now)
    PROVE  LeafTruth(tree[i], state, now)
<1>1. CASE tree[i].dev = d
  <2>1. state'[d] = Nothing
    BY DEF TypeInv, WorldType, States
  <2>2. Attribute(state', tree[i]) = Missing
    BY <1>1, <2>1 DEF Attribute, Nothing
  <2>3. ~ Compare(Missing, tree[i].op, tree[i].value)
    BY DEF Compare, Missing, Strings
  <2> QED
    BY <2>2, <2>3 DEF LeafTruth
<1>2. CASE tree[i].dev # d
  <2>1. Attribute(state', tree[i]) = Attribute(state, tree[i])
    BY <1>2 DEF TypeInv, WorldType, States, Attribute
  <2> QED
    BY <2>1 DEF LeafTruth
<1> QED
  BY <1>1, <1>2

(* A worker whose result the next minute does not change keeps its hope.   *)
LEMMA TickHopes ==
    ASSUME TypeInv, NEW w \in Workers, Hopeful(w), tree' = tree, state' = state, read' = read,
           pc' = pc, computed' = computed,
           misled' = [x \in Workers |-> misled[x] \/ Outdated(x, now')]
    PROVE  Hopeful(w)'
<1>1. Turn(w)' = Turn(w) /\ Leaf(w)' = Leaf(w)
  BY SameTurn
<1>2. misled'[w] <=> misled[w] \/ Outdated(w, now')
  OBVIOUS
<1>3. CASE misled'[w]
  BY <1>3 DEF Hopeful
<1>4. CASE ~ misled'[w]
  <2>1. ~ misled[w] /\ ~ Outdated(w, now')
    BY <1>2, <1>4
  <2>2. ASSUME NEW i \in DOMAIN read[w], LeafTruth(tree[i], state, now')
        PROVE  read[w][i]
    <3>1. CASE tree[i].type = "time"
      BY <2>1, <2>2, <3>1 DEF Outdated
    <3>2. CASE tree[i].type # "time"
      <4>1. LeafTruth(tree[i], state, now)
        BY <2>2, <3>2 DEF LeafTruth
      <4> QED
        BY <2>1, <4>1 DEF Hopeful, AtLeast
    <3> QED
      BY <3>1, <3>2
  <2>3. AtLeast(tree, read[w], state, now')
    BY <2>2 DEF AtLeast
  <2>4. pc[w] = "store" /\ LeafTruth(Leaf(w), state, now') => computed[w].holds
    BY <2>1 DEF Outdated
  <2> QED
    BY <1>1, <2>3, <2>4 DEF Hopeful
<1> QED
  BY <1>3, <1>4

(* A step that keeps the world, what is queued and the other workers.      *)
LEMMA WorkerKeeps ==
    ASSUME TypeInv, RunsInv, NEW w \in Workers, tree' = tree, state' = state, now' = now,
           queued' = queued, noticed' = noticed, excused' = excused,
           \A x \in Workers : x # w => /\ pc'[x] = pc[x] /\ computed'[x] = computed[x]
                                       /\ misled'[x] = misled[x] /\ read'[x] = read[x],
           Hopeful(w) => Hopeful(w)'
    PROVE  RunsInv'
<1>1. Holds' = Holds
  BY DEF Holds
<1>2. ASSUME NEW x \in Workers, Hopeful(x) PROVE Hopeful(x)'
  <2>1. CASE x = w
    BY <1>2, <2>1
  <2>2. CASE x # w
    <3>1. Leaf(x)' = Leaf(x)
      BY <2>2, SameTurn
    <3> QED
      BY <1>2, <2>2, <3>1 DEF Hopeful
  <2> QED
    BY <2>1, <2>2
<1> QED
  BY <1>1, <1>2 DEF RunsInv

(* A hopeful worker that learns a leaf, none false that is true, stays so. *)
LEMMA LearnsHopefully ==
    ASSUME TypeInv, NEW w \in Workers, Turn(w).open, Hopeful(w), NEW b \in BOOLEAN, Learn(w, b),
           ~ misled'[w] => (LeafTruth(Leaf(w), state, now) => b) /\ ~ misled[w],
           tree' = tree, state' = state, now' = now, pc'[w] = "evaluate"
    PROVE  Hopeful(w)'
<1>1. CASE misled'[w]
  BY <1>1 DEF Hopeful
<1>2. CASE ~ misled'[w]
  <2>1. AtLeast(tree, read[w], state, now)
    BY <1>2 DEF Hopeful
  <2>2. AtLeast(tree, read'[w], state, now)
    BY <1>2, <2>1, LearnsRight
  <2> QED
    BY <2>2 DEF Hopeful
<1> QED
  BY <1>1, <1>2

(* Each action keeps a task or a hopeful worker.                           *)
LEMMA RunsStep ==
    ASSUME TimedLeavesOnly
    PROVE  TypeInv /\ RightInv /\ RunsInv /\ [Next]_vars => RunsInv'
<1> SUFFICES ASSUME TypeInv, RightInv, RunsInv, [Next]_vars PROVE RunsInv'
  OBVIOUS
<1>0. /\ queued \in Nat /\ now \in 0 .. Day - 1 /\ tree \in Trees
      /\ DOMAIN tree = 1 .. Len(tree)
  BY InTree DEF TypeInv, WorldType, CountsType
<1>1. ASSUME NEW d \in Devices, NEW s \in Payloads[d], Report(d, s) PROVE RunsInv'
  <2>1. /\ state' = [state EXCEPT ![d] = s]
        /\ queued' = (IF d \in ExtractDevices(tree) THEN queued + 1 ELSE queued)
        /\ tree' = tree /\ now' = now /\ read' = read /\ computed' = computed /\ pc' = pc
        /\ misled' = misled
        /\ noticed' = (noticed /\ Holds') /\ excused' = (Holds' /\ (excused \/ (~ Holds /\ FALSE)))
    BY <1>1 DEF Report, Turned
  <2>2. CASE d \in ExtractDevices(tree)
    <3>1. queued' > 0
      BY <1>0, <2>1, <2>2
    <3> QED
      BY <3>1 DEF RunsInv
  <2>3. CASE d \notin ExtractDevices(tree)
    <3>1. \A i \in DOMAIN tree : LeafTruth(tree[i], state', now) => LeafTruth(tree[i], state, now)
      BY <2>1, <2>3, ReportUnnamed
    <3>2. (Holds' => Holds) /\ \A w \in Workers : Hopeful(w) => Hopeful(w)'
      BY <2>1, <3>1, Shrinks
    <3> QED
      BY <2>1, <2>3, <3>2 DEF RunsInv
  <2> QED
    BY <2>2, <2>3
<1>2. ASSUME NEW d \in Devices, Forget(d) PROVE RunsInv'
  <2>1. /\ state' = [state EXCEPT ![d] = Nothing] /\ queued' = queued
        /\ tree' = tree /\ now' = now /\ read' = read /\ computed' = computed /\ pc' = pc
        /\ misled' = misled
        /\ noticed' = (noticed /\ Holds') /\ excused' = (Holds' /\ (excused \/ (~ Holds /\ FALSE)))
    BY <1>2 DEF Forget, Turned, tasks
  <2>2. \A i \in DOMAIN tree : LeafTruth(tree[i], state', now) => LeafTruth(tree[i], state, now)
    BY <2>1, ForgetShrinks
  <2>3. (Holds' => Holds) /\ \A w \in Workers : Hopeful(w) => Hopeful(w)'
    BY <2>1, <2>2, Shrinks
  <2> QED
    BY <2>1, <2>3 DEF RunsInv
<1>3. ASSUME Tick PROVE RunsInv'
  <2> DEFINE unnamed == \A i \in DOMAIN tree : tree[i].type = "time" /\ tree[i].op = "=="
                                                   => ~ Names(tree[i].value, now')
  <2>1. /\ now' = (now + 1) % Day
        /\ queued' = (IF now' \in ExtractTimes(tree) THEN queued + 1 ELSE queued)
        /\ tree' = tree /\ state' = state /\ read' = read /\ computed' = computed /\ pc' = pc
        /\ misled' = [w \in Workers |-> misled[w] \/ Outdated(w, now')]
        /\ noticed' = (noticed /\ Holds') /\ excused' = (Holds' /\ (excused \/ (~ Holds /\ unnamed)))
    BY <1>3 DEF Tick, Turned
  <2>2. ASSUME ~ unnamed PROVE queued' > 0
    <3>1. PICK i \in 1 .. Len(tree) : /\ tree[i].type = "time" /\ tree[i].op = "=="
                                      /\ Names(tree[i].value, now')
      BY <1>0, <2>2
    <3>2. now' \in 0 .. Day - 1
      BY <1>0, <2>1, NextMinute
    <3>3. now' \in ExtractTimes(tree)
      BY <1>0, <3>1, <3>2, TimesCovered
    <3> QED
      BY <1>0, <2>1, <3>3
  <2> HIDE DEF unnamed
  <2>3. \A w \in Workers : Hopeful(w) => Hopeful(w)'
    BY <2>1, TickHopes
  <2>4. queued > 0 => queued' > 0
    BY <1>0, <2>1
  <2> QED
    BY <2>1, <2>2, <2>3, <2>4 DEF RunsInv
<1>4. ASSUME NEW k \in DOMAIN cache, Expire(k) PROVE RunsInv'
  <2>1. /\ tree' = tree /\ state' = state /\ now' = now /\ queued' = queued /\ read' = read
        /\ computed' = computed /\ pc' = pc /\ noticed' = noticed /\ excused' = excused
        /\ misled' = misled
    BY <1>4 DEF Expire, world, tasks
  <2>2. Holds' = Holds /\ \A w \in Workers : Leaf(w)' = Leaf(w)
    BY <2>1, SameTurn DEF Holds
  <2> QED
    BY <2>1, <2>2 DEF RunsInv, Hopeful
<1>5. ASSUME NEW w \in Workers, Take(w) PROVE RunsInv'
  <2>1. pc[w] = "idle" /\ pc' = [pc EXCEPT ![w] = "evaluate"] /\ read' = read
    BY <1>5 DEF Take
  <2>2. pc'[w] = "evaluate" /\ read'[w] = Nothing
    BY <2>1 DEF TypeInv, WorkersType, TurnsType
  <2>3. Hopeful(w)'
    BY <2>2 DEF Hopeful, AtLeast, Nothing
  <2> QED
    BY <2>3 DEF RunsInv
<1>6. ASSUME NEW w \in Workers, NEW b \in BOOLEAN, pc[w] # "idle", Turn(w).open, Learn(w, b),
             tree' = tree, state' = state, now' = now, queued' = queued, noticed' = noticed,
             excused' = excused, pc'[w] = "evaluate",
             \A x \in Workers : x # w => /\ pc'[x] = pc[x] /\ computed'[x] = computed[x]
                                         /\ misled'[x] = misled[x],
             Hopeful(w) /\ ~ misled'[w] => (LeafTruth(Leaf(w), state, now) => b) /\ ~ misled[w]
      PROVE  RunsInv'
  <2>1. \A x \in Workers : x # w => read'[x] = read[x]
    BY <1>6, LearnsLeaf
  <2>2. Hopeful(w) => Hopeful(w)'
    BY <1>6, LearnsHopefully
  <2> QED
    BY <1>6, <2>1, <2>2, WorkerKeeps
<1>7. ASSUME NEW w \in Workers, ReadDevice(w) PROVE RunsInv'
  <2> DEFINE b == LeafTruth(Leaf(w), state, now)
  <2>1. b \in BOOLEAN /\ (LeafTruth(Leaf(w), state, now) => b)
    BY DEF LeafTruth
  <2>2. /\ pc[w] = "evaluate" /\ Turn(w).open /\ Learn(w, b)
        /\ tree' = tree /\ state' = state /\ now' = now /\ queued' = queued
        /\ noticed' = noticed /\ excused' = excused
        /\ computed' = computed /\ pc' = pc /\ misled' = misled
    BY <1>7 DEF ReadDevice, Asks, world
  <2> HIDE DEF b
  <2> QED
    BY <1>6, <2>1, <2>2
<1>8. ASSUME NEW w \in Workers, ReadDeviceFails(w) PROVE RunsInv'
  <2>1. /\ pc[w] = "evaluate" /\ Turn(w).open /\ Learn(w, FALSE)
        /\ misled' = [misled EXCEPT ![w] = @ \/ LeafTruth(Leaf(w), state, now)]
        /\ tree' = tree /\ state' = state /\ now' = now /\ queued' = queued
        /\ noticed' = noticed /\ excused' = excused /\ computed' = computed /\ pc' = pc
    BY <1>8 DEF ReadDeviceFails, Asks, world
  <2>2. ~ misled'[w] => ~ LeafTruth(Leaf(w), state, now) /\ ~ misled[w]
    BY <2>1 DEF TypeInv, HistoryType
  <2>3. \A x \in Workers : x # w => misled'[x] = misled[x]
    BY <2>1 DEF TypeInv, HistoryType
  <2> QED
    BY <1>6, <2>1, <2>2, <2>3
<1>9. ASSUME NEW w \in Workers, ReadOther(w) PROVE RunsInv'
  <2>1. /\ pc[w] = "evaluate" /\ Turn(w).open /\ Learn(w, FALSE)
        /\ ~ OnDevice(Leaf(w)) /\ Leaf(w).type # "time"
        /\ tree' = tree /\ state' = state /\ now' = now /\ queued' = queued
        /\ noticed' = noticed /\ excused' = excused
        /\ computed' = computed /\ pc' = pc /\ misled' = misled
    BY <1>9 DEF ReadOther, Asks, world
  <2>2. ~ LeafTruth(Leaf(w), state, now)
    BY <2>1, OtherLeaf
  <2> QED
    BY <1>6, <2>1, <2>2
<1>10. ASSUME NEW w \in Workers, ReadCached(w) PROVE RunsInv'
  <2> DEFINE k == CacheKey(Leaf(w))
             b == cache[k].holds
  <2>1. /\ pc[w] = "evaluate" /\ Turn(w).open /\ Learn(w, b)
        /\ Leaf(w).type = "time" /\ k \in DOMAIN cache
        /\ misled' = [misled EXCEPT ![w] = @ \/ cache[k].of # now]
        /\ tree' = tree /\ state' = state /\ now' = now /\ queued' = queued
        /\ noticed' = noticed /\ excused' = excused /\ computed' = computed /\ pc' = pc
    BY <1>10 DEF ReadCached, Asks, world
  <2>2. b \in BOOLEAN
    BY <2>1 DEF TypeInv, CacheType, Result
  <2>3. ~ misled'[w] => cache[k].of = now /\ ~ misled[w]
    BY <2>1 DEF TypeInv, HistoryType
  <2>4. \A x \in Workers : x # w => misled'[x] = misled[x]
    BY <2>1 DEF TypeInv, HistoryType
  <2>5. b <=> Compare(Clock(cache[k].of), Leaf(w).op, Leaf(w).value)
    BY <2>1 DEF RightInv, CacheRight, CacheKey
  <2>6. LeafTruth(Leaf(w), state, now) <=> Compare(Clock(now), Leaf(w).op, Leaf(w).value)
    BY <2>1, TimeLeaf
  <2> HIDE DEF b, k
  <2>7. ~ misled'[w] => (LeafTruth(Leaf(w), state, now) => b) /\ ~ misled[w]
    BY <2>3, <2>5, <2>6
  <2> QED
    BY <1>6, <2>1, <2>2, <2>4, <2>7
<1>11. ASSUME NEW w \in Workers, Compute(w) PROVE RunsInv'
  <2> DEFINE b == LeafTruth(Leaf(w), state, now)
             result == [holds |-> b, of |-> now, at |-> now]
  <2>1. b \in BOOLEAN /\ (LeafTruth(Leaf(w), state, now) => b)
    BY DEF LeafTruth
  <2>2. /\ pc[w] = "evaluate" /\ Turn(w).open
        /\ tree' = tree /\ state' = state /\ now' = now /\ queued' = queued
        /\ noticed' = noticed /\ excused' = excused /\ misled' = misled
    BY <1>11 DEF Compute, Asks, world
  <2>3. CASE Learn(w, b) /\ computed' = computed /\ pc' = pc
    <3> HIDE DEF b, result
    <3> QED
      BY <1>6, <2>1, <2>2, <2>3
  <2>4. CASE /\ computed' = [computed EXCEPT ![w] = result]
             /\ pc' = [pc EXCEPT ![w] = "store"] /\ read' = read
    <3>1. result.holds <=> b
      OBVIOUS
    <3>2. Leaf(w)' = Leaf(w)
      BY <2>2, <2>4, SameTurn
    <3> HIDE DEF b, result
    <3>3. /\ pc'[w] = "store" /\ computed'[w] = result
          /\ \A x \in Workers : x # w => pc'[x] = pc[x] /\ computed'[x] = computed[x]
      BY <2>4 DEF TypeInv, WorkersType
    <3>4. Hopeful(w) => Hopeful(w)'
      BY <2>1, <2>2, <2>4, <3>1, <3>2, <3>3 DEF Hopeful
    <3> QED
      BY <2>2, <2>4, <3>3, <3>4, WorkerKeeps
  <2> QED
    BY <1>11, <2>3, <2>4 DEF Compute
<1>12. ASSUME NEW w \in Workers, Store(w) PROVE RunsInv'
  <2> DEFINE b == computed[w].holds
  <2>1. /\ pc[w] = "store" /\ Learn(w, b) /\ pc' = [pc EXCEPT ![w] = "evaluate"]
        /\ computed' = [computed EXCEPT ![w] = NoResult]
        /\ tree' = tree /\ state' = state /\ now' = now /\ queued' = queued
        /\ noticed' = noticed /\ excused' = excused /\ misled' = misled
    BY <1>12 DEF Store, world
  <2>2. Turn(w).open /\ b \in BOOLEAN
    BY <2>1 DEF TypeInv, TurnsType, Result
  <2>3. Hopeful(w) /\ ~ misled'[w] => (LeafTruth(Leaf(w), state, now) => b) /\ ~ misled[w]
    BY <2>1 DEF Hopeful
  <2> HIDE DEF b
  <2>4. /\ pc'[w] = "evaluate"
        /\ \A x \in Workers : x # w => pc'[x] = pc[x] /\ computed'[x] = computed[x]
    BY <2>1 DEF TypeInv, WorkersType
  <2> QED
    BY <1>6, <2>1, <2>2, <2>3, <2>4
<1>13. ASSUME NEW w \in Workers, Finish(w) PROVE RunsInv'
  <2>1. /\ pc[w] = "evaluate" /\ ~ Turn(w).open
        /\ pc' = [pc EXCEPT ![w] = "idle"] /\ read' = [read EXCEPT ![w] = Nothing]
        /\ noticed' = (noticed \/ (Turn(w).holds /\ Holds))
        /\ excused' = (excused \/ (~ Turn(w).holds /\ misled[w] /\ Holds))
        /\ tree' = tree /\ state' = state /\ now' = now /\ queued' = queued
        /\ computed' = computed /\ misled' = misled
    BY <1>13 DEF Finish, world
  <2>2. Holds' = Holds
    BY <2>1 DEF Holds
  <2>3. ASSUME Hopeful(w), Holds, ~ noticed', ~ excused' PROVE FALSE
    <3>1. ~ Turn(w).holds /\ ~ misled[w]
      BY <2>1, <2>3
    <3>2. AtLeast(tree, read[w], state, now)
      BY <2>3, <3>1 DEF Hopeful
    <3>3. AllRead(read[w])
      BY ReadsLeaf
    <3>4. Turn(w).holds
      BY <1>0, <2>1, <2>3, <3>2, <3>3, FindsTrue DEF Turn, Holds
    <3> QED
      BY <3>1, <3>4
  <2>4. ASSUME NEW x \in Workers, x # w, Hopeful(x) PROVE Hopeful(x)'
    <3>1. pc'[x] = pc[x] /\ read'[x] = read[x]
      BY <2>1, <2>4 DEF TypeInv, WorkersType, ReadType
    <3>2. Leaf(x)' = Leaf(x)
      BY <2>1, <3>1, SameTurn
    <3> QED
      BY <2>1, <2>4, <3>1, <3>2 DEF Hopeful
  <2> QED
    BY <2>1, <2>2, <2>3, <2>4 DEF RunsInv
<1>14. CASE UNCHANGED vars
  <2>1. /\ tree' = tree /\ state' = state /\ now' = now /\ queued' = queued /\ read' = read
        /\ computed' = computed /\ pc' = pc /\ noticed' = noticed /\ excused' = excused
        /\ misled' = misled
    BY <1>14 DEF vars, world, tasks
  <2>2. Holds' = Holds /\ \A w \in Workers : Leaf(w)' = Leaf(w)
    BY <2>1, SameTurn DEF Holds
  <2> QED
    BY <2>1, <2>2 DEF RunsInv, Hopeful
<1> QED
  BY <1>1, <1>2, <1>3, <1>4, <1>5, <1>7, <1>8, <1>9, <1>10, <1>11, <1>12, <1>13, <1>14
     DEF Next, EvaluateConditions

(* When nothing is left to do and the conditions hold, the rule has been   *)
(* found true since they turned true, for any tree whose times parse where *)
(* they have something below them (engine.go:134-186, time_extractor.go:   *)
(* 32-86, evaluator.go:39-81).                                             *)
THEOREM TurningTrueIsSeen ==
    ASSUME TimedLeavesOnly PROVE Spec => []RunsWhenTrue
<1>1. Init => RightInv
  BY DEF Init, RightInv, CacheRight, ComputedRight, ReadRight, Nothing
<1>2. Init => RunsInv
  BY DEF Init, RunsInv
<1>3. RunsInv => RunsWhenTrue
  BY DEF RunsInv, RunsWhenTrue, Hopeful
<1>4. Spec => [](TypeInv /\ RightInv /\ RunsInv)
  BY <1>1, <1>2, Initially, TypeStep, RightStep, RunsStep, PTL DEF Spec
<1> QED
  BY <1>3, <1>4, PTL

=============================================================================
