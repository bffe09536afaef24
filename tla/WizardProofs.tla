---------------------------- MODULE WizardProofs ----------------------------
(***************************************************************************)
(* Theorems about the stages, for any configurations that are well formed, *)
(* with any number of options, groups, licenses and keys, and any Patience.*)
(*                                                                         *)
(* First what the operators of the model compute, then the inductive       *)
(* invariant, which says what has been asked and answered by the time the  *)
(* driver is at a stage.                                                   *)
(***************************************************************************)
EXTENDS Wizard, FiniteSetTheorems, WellFoundedInduction, TLAPS

-----------------------------------------------------------------------------
(* Sequences.  What is recursive is proved by a least counterexample.      *)

\* A set of numbers that is not empty has a least one.
LEMMA Least ==
  ASSUME NEW S \in SUBSET Nat, S # {}
  PROVE  \E n \in S : \A m \in S : n <= m
<1>1. \E x \in S : \A y \in S : ~ (<<y, x>> \in OpToRel(<, Nat))
  BY NatLessThanWellFounded, WFMin, Zenon
<1>2. \A x, y \in Nat : x < y => <<x, y>> \in OpToRel(<, Nat)
  BY Zenon DEF OpToRel
<1>3. \E x \in S : \A y \in S : ~ (y < x)
  BY <1>1, <1>2, Zenon
<1> QED
  BY <1>3

\* Induction up to m, over a set instead of a predicate.
LEMMA UpTo ==
  ASSUME NEW S, NEW m \in Nat, 0 \in S, \A n \in 0..(m - 1) : n \in S => n + 1 \in S
  PROVE  \A n \in 0..m : n \in S
<1> DEFINE Bad == {n \in 0..m : n \notin S}
<1> SUFFICES ASSUME Bad # {} PROVE FALSE
  OBVIOUS
<1>1. PICK n \in Bad : \A k \in Bad : n <= k
  BY Least, Bad \in SUBSET Nat
<1>2. n - 1 \in 0..(m - 1) /\ n - 1 \notin Bad
  BY <1>1
<1> QED
  BY <1>1, <1>2

\* The elements of two sequences, one after the other.
LEMMA ToSetConcat ==
  ASSUME NEW X, NEW s \in Seq(X), NEW t \in Seq(X)
  PROVE  ToSet(s \o t) = ToSet(s) \cup ToSet(t)
<1>1. ToSet(s \o t) \subseteq ToSet(s) \cup ToSet(t)
  BY DEF ToSet
<1>2. ToSet(s) \subseteq ToSet(s \o t)
  BY DEF ToSet
<1>3. ASSUME NEW n \in 1..Len(t)
      PROVE  t[n] \in ToSet(s \o t)
  <2>1. Len(s) + n \in 1..Len(s \o t) /\ (s \o t)[Len(s) + n] = t[n]
    OBVIOUS
  <2> QED BY <2>1 DEF ToSet
<1> QED
  BY <1>1, <1>2, <1>3 DEF ToSet

FlattenStep(ss, f, h) == IF h = 1 THEN ss[h] ELSE f[h - 1] \o ss[h]

\* There is a function that satisfies the recursion of FlattenSeq.
LEMMA FlattenExists ==
  ASSUME NEW X, NEW ss \in Seq(Seq(X))
  PROVE  \E f \in [1..Len(ss) -> Seq(X)] : \A h \in 1..Len(ss) : f[h] = FlattenStep(ss, f, h)
<1> DEFINE Good(n) == \E f \in [1..n -> Seq(X)] :
                        \A h \in 1..n : f[h] = FlattenStep(ss, f, h)
           G == {n \in Nat : Good(n)}
<1>1. Good(0)
  <2>1. [h \in 1..0 |-> <<>>] \in [1..0 -> Seq(X)]
    OBVIOUS
  <2>2. \A h \in 1..0 : [j \in 1..0 |-> <<>>][h] = FlattenStep(ss, [j \in 1..0 |-> <<>>], h)
    OBVIOUS
  <2> QED BY <2>1, <2>2
<1>2. ASSUME NEW k \in 0..(Len(ss) - 1), Good(k) PROVE Good(k + 1)
  <2>1. PICK f \in [1..k -> Seq(X)] : \A h \in 1..k : f[h] = FlattenStep(ss, f, h)
    BY <1>2
  <2> DEFINE n == k + 1
             g == [h \in 1..n |-> IF h < n THEN f[h] ELSE FlattenStep(ss, f, n)]
  <2>3. n \in 1..Len(ss) /\ n \in Nat /\ k = n - 1 /\ n \in 1..n
    OBVIOUS
  <2>4. ss[n] \in Seq(X)
    BY <2>3
  <2> HIDE DEF n
  <2>5. FlattenStep(ss, f, n) \in Seq(X)
    <3>1. CASE n = 1 BY <3>1, <2>4 DEF FlattenStep
    <3>2. CASE n # 1
      <4>1. f[n - 1] \in Seq(X) BY <2>3, <3>2, <2>1
      <4> QED BY <4>1, <2>4, <3>2 DEF FlattenStep
    <3> QED BY <3>1, <3>2
  <2>6. g \in [1..n -> Seq(X)]
    BY <2>5, <2>3, <2>1
  <2>7. ASSUME NEW h \in 1..n PROVE g[h] = FlattenStep(ss, g, h)
    <3>1. h # 1 => g[h - 1] = f[h - 1]
      BY <2>3
    <3> HIDE DEF g
    <3>2. FlattenStep(ss, g, h) = FlattenStep(ss, f, h)
      BY <3>1, Zenon DEF FlattenStep
    <3>3. g[h] = FlattenStep(ss, f, h)
      <4>1. CASE h < n BY <4>1, <2>1, <2>3 DEF g
      <4>2. CASE h = n BY <4>2, <2>3 DEF g
      <4> QED BY <4>1, <4>2, <2>3
    <3> QED BY <3>2, <3>3
  <2> HIDE DEF g
  <2>8. Good(n)
    BY <2>6, <2>7
  <2> QED BY <2>8 DEF n
<1> HIDE DEF Good
<1>3. 0 \in G /\ \A k \in 0..(Len(ss) - 1) : k \in G => k + 1 \in G
  BY <1>1, <1>2
<1>4. \A k \in 0..Len(ss) : k \in G
  <2> HIDE DEF G
  <2> QED BY <1>3, UpTo, Len(ss) \in Nat
<1>5. Good(Len(ss))
  BY <1>4
<1> QED BY <1>5 DEF Good

\* The elements of the sequences are those of the flattened one.
LEMMA FlattenElements ==
  ASSUME NEW X, NEW ss \in Seq(Seq(X))
  PROVE  /\ FlattenSeq(ss) \in Seq(X)
         /\ ToSet(FlattenSeq(ss)) = UNION {ToSet(ss[n]) : n \in 1..Len(ss)}
<1>1. CASE Len(ss) = 0
  <2>1. ss = <<>> /\ FlattenSeq(ss) = <<>>
    BY <1>1 DEF FlattenSeq
  <2>2. ToSet(FlattenSeq(ss)) = {} /\ 1..Len(ss) = {}
    BY <2>1, <1>1 DEF ToSet
  <2>3. UNION {ToSet(ss[n]) : n \in 1..Len(ss)} = {}
    BY <2>2
  <2>4. FlattenSeq(ss) \in Seq(X)
    <3>1. <<>> \in Seq(X)
      OBVIOUS
    <3> QED BY <2>1, <3>1, Zenon
  <2> QED BY <2>2, <2>3, <2>4, Zenon
<1>2. CASE Len(ss) # 0
  <2> DEFINE F == CHOOSE f : f = [h \in 1..Len(ss) |-> IF h = 1 THEN ss[h] ELSE f[h - 1] \o ss[h]]
  <2>1. FlattenSeq(ss) = F[Len(ss)]
    BY <1>2, Zenon DEF FlattenSeq
  <2>2. \E f : f = [h \in 1..Len(ss) |-> IF h = 1 THEN ss[h] ELSE f[h - 1] \o ss[h]]
    <3>1. PICK f \in [1..Len(ss) -> Seq(X)] : \A h \in 1..Len(ss) : f[h] = FlattenStep(ss, f, h)
      BY FlattenExists, Zenon
    <3>2. f = [h \in 1..Len(ss) |-> IF h = 1 THEN ss[h] ELSE f[h - 1] \o ss[h]]
      BY <3>1 DEF FlattenStep
    <3> QED BY <3>2
  <2>3. F = [h \in 1..Len(ss) |-> IF h = 1 THEN ss[h] ELSE F[h - 1] \o ss[h]]
    BY <2>2
  <2> HIDE DEF F
  <2> DEFINE Sets(n) == {ToSet(ss[k]) : k \in 1..n}
             Good(n) == F[n] \in Seq(X) /\ ToSet(F[n]) = UNION Sets(n)
             G == {n \in Nat : n = 0 \/ Good(n)}
  <2>4. ASSUME NEW k \in 0..(Len(ss) - 1), k = 0 \/ Good(k)
        PROVE  Good(k + 1)
    <3> DEFINE n == k + 1
    <3>2. n \in 1..Len(ss) /\ ss[n] \in Seq(X) /\ n - 1 = k
      OBVIOUS
    <3> HIDE DEF n
    <3>3. CASE n = 1
      <4>1. F[n] = ss[1]
        BY <2>3, <3>3, <3>2
      <4>2. Sets(1) = {ToSet(ss[1])}
        OBVIOUS
      <4>3. UNION Sets(1) = ToSet(ss[1])
        BY <4>2
      <4> QED BY <4>1, <4>3, <3>2, <3>3 DEF n
    <3>4. CASE n # 1
      <4>1. F[n] = F[k] \o ss[n]
        BY <2>3, <3>4, <3>2
      <4>2. Good(k)
        BY <2>4, <3>4, <3>2
      <4>4. F[n] \in Seq(X) /\ ToSet(F[n]) = ToSet(F[k]) \cup ToSet(ss[n])
        BY <4>1, <4>2, <3>2, ToSetConcat
      <4>5. 1..n = 1..k \cup {n}
        BY <3>2
      <4>6. Sets(n) = Sets(k) \cup {ToSet(ss[n])}
        BY <4>5
      <4>7. UNION Sets(n) = (UNION Sets(k)) \cup ToSet(ss[n])
        BY <4>6
      <4> QED BY <4>2, <4>4, <4>7 DEF n
    <3> QED BY <3>3, <3>4
  <2> HIDE DEF Good
  <2>6. 0 \in G /\ \A k \in 0..(Len(ss) - 1) : k \in G => k + 1 \in G
    BY <2>4
  <2>7. \A k \in 0..Len(ss) : k \in G
    <3> HIDE DEF G
    <3> QED BY <2>6, UpTo, Len(ss) \in Nat
  <2>5. Good(Len(ss))
    BY <2>7, <1>2
  <2> QED BY <2>1, <2>5 DEF Good
<1> QED BY <1>1, <1>2

-----------------------------------------------------------------------------
(* The tree of options.                                                    *)

\* What Around is for node n, if it is f for the others.
UpStep(c, f, n) == IF c.up[n] = Top THEN {} ELSE {c.up[n]} \cup f[c.up[n]]

\* The nodes that lie in every set that is closed upwards from n.
Closure(c, n) ==
  {m \in Node(c) :
     \A s \in SUBSET Node(c) :
       (c.up[n] \in s \cup {Top} /\ \A k \in s : c.up[k] \in s \cup {Top}) => m \in s}

\* The smallest such sets satisfy the recursion of Around.
LEMMA UpExists ==
  ASSUME NEW c, WellFormed(c)
  PROVE  [n \in Node(c) |-> Closure(c, n)] =
           [n \in Node(c) |-> UpStep(c, [k \in Node(c) |-> Closure(c, k)], n)]
<1> DEFINE f == [k \in Node(c) |-> Closure(c, k)]
<1>1. SUFFICES ASSUME NEW n \in Node(c) PROVE Closure(c, n) = UpStep(c, f, n)
  OBVIOUS
<1>2. c.up \in [Node(c) -> Node(c) \cup {Top}] /\ Top \notin Node(c)
  BY DEF WellFormed, Straight, Shaped
<1>3. CASE c.up[n] = Top
  <2>1. ASSUME NEW m \in Closure(c, n) PROVE FALSE
    <3>1. {} \in SUBSET Node(c) /\ c.up[n] \in {} \cup {Top} /\ \A k \in {} : c.up[k] \in {} \cup {Top}
      BY <1>3
    <3> QED BY <2>1, <3>1, Zenon DEF Closure
  <2> QED BY <1>3, <2>1 DEF UpStep
<1>4. CASE c.up[n] # Top
  <2> DEFINE u == c.up[n]
  <2>1. u \in Node(c) /\ f[u] = Closure(c, u)
    BY <1>2, <1>4
  <2> HIDE DEF f
  <2>2. UpStep(c, f, n) = {u} \cup Closure(c, u)
    BY <2>1, <1>4 DEF UpStep
  <2>3. ASSUME NEW m \in {u} \cup Closure(c, u) PROVE m \in Closure(c, n)
    <3>1. m \in Node(c)
      BY <2>1, <2>3 DEF Closure
    <3>2. ASSUME NEW s \in SUBSET Node(c), c.up[n] \in s \cup {Top},
                 \A k \in s : c.up[k] \in s \cup {Top}
          PROVE  m \in s
      <4>1. u \in s
        BY <3>2, <1>4
      <4>2. m \in Closure(c, u) => m \in s
        BY <4>1, <3>2 DEF Closure
      <4> QED BY <4>1, <4>2, <2>3
    <3> QED BY <3>1, <3>2 DEF Closure
  <2>4. ASSUME NEW m \in Closure(c, n) PROVE m \in {u} \cup Closure(c, u)
    <3> DEFINE s == {u} \cup Closure(c, u)
    <3>1. s \in SUBSET Node(c) /\ u \in s \cup {Top}
      BY <2>1 DEF Closure
    <3>2. ASSUME NEW k \in s PROVE c.up[k] \in s \cup {Top}
      <4>0. k \in Node(c)
        BY <3>1
      <4>1. SUFFICES ASSUME c.up[k] # Top PROVE c.up[k] \in Closure(c, u)
        OBVIOUS
      <4>2. c.up[k] \in Node(c)
        BY <4>0, <4>1, <1>2
      <4>3. ASSUME NEW t \in SUBSET Node(c), c.up[u] \in t \cup {Top},
                   \A j \in t : c.up[j] \in t \cup {Top}
            PROVE  c.up[k] \in t
        <5>1. CASE k = u BY <5>1, <4>3, <4>1
        <5>2. CASE k \in Closure(c, u)
          <6>1. k \in t BY <5>2, <4>3 DEF Closure
          <6> QED BY <6>1, <4>3, <4>1
        <5> QED BY <5>1, <5>2
      <4> QED BY <4>2, <4>3 DEF Closure
    <3>3. m \in s
      <4> HIDE DEF s
      <4> QED BY <2>4, <3>1, <3>2, Zenon DEF Closure
    <3> QED BY <3>3
  <2> QED BY <2>2, <2>3, <2>4
<1> QED BY <1>3, <1>4

\* The equation Around is defined by, and the nodes it consists of.
LEMMA AroundStep ==
  ASSUME NEW c, WellFormed(c), NEW n \in Node(c)
  PROVE  Around(c, n) = IF c.up[n] = Top THEN {} ELSE {c.up[n]} \cup Around(c, c.up[n])
<1> DEFINE U == CHOOSE up : up = [m \in Node(c) |-> IF c.up[m] = Top THEN {} ELSE {c.up[m]} \cup up[c.up[m]]]
<1>1. \A k : Around(c, k) = U[k]
  BY Zenon DEF Around
<1>2. \E up : up = [m \in Node(c) |-> IF c.up[m] = Top THEN {} ELSE {c.up[m]} \cup up[c.up[m]]]
  <2> DEFINE f == [m \in Node(c) |-> Closure(c, m)]
  <2>1. f = [m \in Node(c) |-> UpStep(c, f, m)]
    BY UpExists
  <2> HIDE DEF f
  <2>2. f = [m \in Node(c) |-> IF c.up[m] = Top THEN {} ELSE {c.up[m]} \cup f[c.up[m]]]
    BY <2>1 DEF UpStep
  <2> QED BY <2>2
<1>3. U = [m \in Node(c) |-> IF c.up[m] = Top THEN {} ELSE {c.up[m]} \cup U[c.up[m]]]
  BY <1>2
<1> HIDE DEF U
<1> QED BY <1>1, <1>3

\* Some node of a set is declared outside it.
LEMMA TreeLeast ==
  ASSUME NEW c, WellFormed(c), NEW s \in SUBSET Node(c), s # {}
  PROVE  \E n \in s : c.up[n] \in Node(c) \cup {Top} /\ c.up[n] \notin s
BY DEF WellFormed, Straight, Shaped, Tree

\* Around a node there are only nodes.
LEMMA AroundNodes ==
  ASSUME NEW c, WellFormed(c)
  PROVE  \A n \in Node(c) : Around(c, n) \subseteq Node(c)
<1> DEFINE Bad == {n \in Node(c) : ~(Around(c, n) \subseteq Node(c))}
<1> SUFFICES ASSUME Bad # {} PROVE FALSE
  OBVIOUS
<1>1. PICK n \in Bad : c.up[n] \in Node(c) \cup {Top} /\ c.up[n] \notin Bad
  BY TreeLeast
<1>2. Around(c, n) = IF c.up[n] = Top THEN {} ELSE {c.up[n]} \cup Around(c, c.up[n])
  BY AroundStep
<1> QED
  BY <1>1, <1>2

\* What is around a node that is around n is around n.
LEMMA AroundInner ==
  ASSUME NEW c, WellFormed(c)
  PROVE  \A n \in Node(c) : \A p \in Around(c, n) : Around(c, p) \subseteq Around(c, n)
<1> DEFINE Bad == {n \in Node(c) : ~(\A p \in Around(c, n) : Around(c, p) \subseteq Around(c, n))}
<1> SUFFICES ASSUME Bad # {} PROVE FALSE
  OBVIOUS
<1>1. PICK n \in Bad : c.up[n] \in Node(c) \cup {Top} /\ c.up[n] \notin Bad
  BY TreeLeast
<1>2. Around(c, n) = IF c.up[n] = Top THEN {} ELSE {c.up[n]} \cup Around(c, c.up[n])
  BY AroundStep
<1>3. CASE c.up[n] = Top BY <1>1, <1>2, <1>3
<1>4. CASE c.up[n] # Top
  <2>1. \A p \in Around(c, c.up[n]) : Around(c, p) \subseteq Around(c, c.up[n])
    BY <1>1, <1>4
  <2> QED BY <1>1, <1>2, <1>4, <2>1
<1> QED BY <1>3, <1>4

\* Of the nodes of a set that are n or around it one has none of the set around it.
LEMMA Outermost ==
  ASSUME NEW c, WellFormed(c), NEW D, NEW m \in Node(c), m \in D
  PROVE  \E p \in D \cap ({m} \cup Around(c, m)) : Around(c, p) \cap D = {}
<1> DEFINE Has(n) == \E p \in D \cap ({n} \cup Around(c, n)) : Around(c, p) \cap D = {}
           Bad == {n \in Node(c) : ({n} \cup Around(c, n)) \cap D # {} /\ ~Has(n)}
<1> SUFFICES ASSUME Bad # {} PROVE FALSE
  OBVIOUS
<1>1. PICK n \in Bad : c.up[n] \in Node(c) \cup {Top} /\ c.up[n] \notin Bad
  BY TreeLeast
<1>2. Around(c, n) = IF c.up[n] = Top THEN {} ELSE {c.up[n]} \cup Around(c, c.up[n])
  BY AroundStep
<1>3. CASE c.up[n] = Top BY <1>1, <1>2, <1>3
<1>4. CASE c.up[n] # Top
  <2>0. Around(c, n) = {c.up[n]} \cup Around(c, c.up[n])
    BY <1>2, <1>4
  <2>1. CASE Around(c, n) \cap D = {}
    BY <1>1, <2>1
  <2>2. CASE Around(c, n) \cap D # {}
    <3>1. Has(c.up[n])
      BY <1>1, <1>4, <2>0, <2>2
    <3> QED BY <3>1, <2>0, <1>1
  <2> QED BY <2>1, <2>2
<1> QED BY <1>3, <1>4

-----------------------------------------------------------------------------
(* Selections.                                                             *)

\* The selection is as the walk over the options leaves it.
Legal(c, s) ==
  /\ s \subseteq c.option
  /\ Forced(c, s) = s
  /\ \A g \in Offered(c) : \E o \in Members(c, g) : Members(c, g) \cap s = {o}

\* The first option of a set is one of them.
LEMMA FirstIn ==
  ASSUME NEW c, WellFormed(c), NEW s \in SUBSET c.option, s # {}
  PROVE  First(c, s) \in s
<1> DEFINE At == {n \in 1..Len(c.order) : c.order[n] \in s}
           Is(n) == c.order[n] \in s /\ \A m \in 1..(n - 1) : c.order[m] \notin s
<1>1. c.order \in Seq(c.option) /\ c.option = {c.order[n] : n \in DOMAIN c.order}
  BY DEF WellFormed, Straight, Shaped, ToSet
<1>2. Len(c.order) \in Nat /\ DOMAIN c.order = 1..Len(c.order)
  BY <1>1
<1>3. At # {} /\ At \in SUBSET Nat
  BY <1>1, <1>2
<1>4. PICK n \in At : \A m \in At : n <= m
  <2> HIDE DEF At
  <2> QED BY <1>3, Least
<1>5. \A m \in 1..(n - 1) : c.order[m] \notin s
  BY <1>4, <1>2
<1>6. \E k \in 1..Len(c.order) : Is(k)
  BY <1>4, <1>5
<1>7. (CHOOSE k \in 1..Len(c.order) : Is(k)) \in {k \in 1..Len(c.order) : Is(k)}
  <2> HIDE DEF Is
  <2> QED BY <1>6
<1> QED
  BY <1>7, Zenon DEF First

\* Members of a group are shown, shown are options, and groups do not overlap.
LEMMA MembersOf ==
  ASSUME NEW c, WellFormed(c)
  PROVE  /\ \A g : Members(c, g) \subseteq Shown(c)
         /\ Shown(c) \subseteq c.option
         /\ \A g, h : g # h => Members(c, g) \cap Members(c, h) = {}
         /\ \A g \in c.group : g \notin Offered(c) => Members(c, g) = {}
BY DEF Members, Shown, Visited, Offered

\* Forcing the attributes yields options, and a second time changes nothing.
LEMMA ForcedOptions ==
  ASSUME NEW c, WellFormed(c), NEW s \in SUBSET c.option
  PROVE  Forced(c, s) \subseteq c.option /\ Forced(c, Forced(c, s)) = Forced(c, s)
BY DEF Forced, WellFormed, Straight, Shaped

Picked(c, s) ==
  [g \in Offered(c) |->
     IF Members(c, g) \cap s # {}
     THEN First(c, Members(c, g) \cap s)
     ELSE First(c, Members(c, g))]

\* Of each group a member is picked, a checked one if there is any.
LEMMA PickedIn ==
  ASSUME NEW c, WellFormed(c), NEW s \in SUBSET c.option
  PROVE  \A g \in Offered(c) :
           /\ Picked(c, s)[g] \in Members(c, g)
           /\ Members(c, g) \cap s # {} => Picked(c, s)[g] \in s
<1> SUFFICES ASSUME NEW g \in Offered(c)
             PROVE  /\ Picked(c, s)[g] \in Members(c, g)
                    /\ Members(c, g) \cap s # {} => Picked(c, s)[g] \in s
  OBVIOUS
<1>1. Members(c, g) \in SUBSET c.option /\ Members(c, g) # {}
  BY MembersOf DEF Offered
<1>2. First(c, Members(c, g)) \in Members(c, g)
  BY <1>1, FirstIn
<1>3. Members(c, g) \cap s # {} => First(c, Members(c, g) \cap s) \in Members(c, g) \cap s
  <2> DEFINE t == Members(c, g) \cap s
  <2>1. t \in SUBSET c.option
    BY <1>1
  <2> HIDE DEF t
  <2>2. t # {} => First(c, t) \in t
    BY <2>1, FirstIn
  <2> QED BY <2>2 DEF t
<1> QED
  BY <1>2, <1>3 DEF Picked

\* Once the walk has corrected a selection it is legal, and stays as it is when
\* it is corrected again.
LEMMA RadioLegal ==
  ASSUME NEW c, WellFormed(c), NEW s \in SUBSET c.option, Forced(c, s) = s
  PROVE  Legal(c, Radio(c, s))
<1> DEFINE pick == Picked(c, s)
           r == OneOfEach(c, s, pick)
<1>1. Radio(c, s) = r
  BY DEF Radio, Picked
<1>2. \A g \in Offered(c) : pick[g] \in Members(c, g)
  BY PickedIn
<1> HIDE DEF pick
<1>3. r = (s \ UNION {Members(c, g) : g \in c.group}) \cup {pick[g] : g \in Offered(c)}
  BY DEF OneOfEach
<1>4. Offered(c) \subseteq c.group
  BY DEF Offered
<1> HIDE DEF r
<1>5. \A x : x \notin Shown(c) => (x \in r <=> x \in s)
  BY <1>2, <1>3, <1>4, MembersOf
<1>6. r \subseteq c.option
  BY <1>2, <1>3, <1>4, MembersOf
<1>7. Forced(c, r) = r
  <2>1. \A x : x \in Visited(c) /\ x \in c.required => x \notin Shown(c)
    BY DEF Shown
  <2>2. \A x : x \in c.disabled => x \notin Shown(c)
    BY DEF Shown
  <2>3. \A x : x \in s => ~(x \in Visited(c) /\ x \in c.disabled)
    BY DEF Forced
  <2>4. \A x : x \in Visited(c) /\ x \in c.required /\ x \notin c.disabled => x \in s
    BY DEF Forced
  <2> QED BY <1>5, <2>1, <2>2, <2>3, <2>4 DEF Forced
<1>8. ASSUME NEW g \in Offered(c) PROVE Members(c, g) \cap r = {pick[g]}
  <2>1. pick[g] \in Members(c, g) \cap r
    BY <1>2, <1>3
  <2>2. ASSUME NEW x \in Members(c, g) \cap r PROVE x = pick[g]
    <3>1. x \notin s \ UNION {Members(c, h) : h \in c.group}
      BY <2>2, <1>4
    <3>2. PICK h \in Offered(c) : x = pick[h]
      BY <3>1, <2>2, <1>3
    <3>3. h = g
      BY <3>2, <2>2, <1>2, MembersOf
    <3> QED BY <3>2, <3>3
  <2> QED BY <2>1, <2>2
<1> QED
  BY <1>1, <1>2, <1>6, <1>7, <1>8 DEF Legal

\* A selection that is legal is not changed by correcting it.
LEMMA RadioIdle ==
  ASSUME NEW c, WellFormed(c), NEW s, Legal(c, s)
  PROVE  Radio(c, Forced(c, s)) = s
<1> DEFINE pick == Picked(c, s)
<1>1. Forced(c, s) = s /\ s \in SUBSET c.option
  BY DEF Legal
<1>2. Radio(c, Forced(c, s)) = OneOfEach(c, s, pick)
  BY <1>1 DEF Radio, Picked
<1>3. \A g \in Offered(c) : pick[g] \in Members(c, g) /\ (Members(c, g) \cap s # {} => pick[g] \in s)
  BY <1>1, PickedIn
<1> HIDE DEF pick
<1>4. \A g \in Offered(c) : Members(c, g) \cap s = {pick[g]}
  BY <1>3 DEF Legal
<1>5. ASSUME NEW x \in s
      PROVE  x \in OneOfEach(c, s, pick)
  <2>1. CASE x \in UNION {Members(c, g) : g \in c.group}
    <3>1. PICK g \in c.group : x \in Members(c, g)
      BY <2>1
    <3>2. g \in Offered(c)
      BY <3>1 DEF Offered
    <3>3. x = pick[g]
      BY <3>1, <3>2, <1>4
    <3> QED BY <3>2, <3>3 DEF OneOfEach
  <2>2. CASE x \notin UNION {Members(c, g) : g \in c.group}
    BY <2>2 DEF OneOfEach
  <2> QED BY <2>1, <2>2
<1>6. OneOfEach(c, s, pick) \subseteq s
  BY <1>4 DEF OneOfEach
<1> QED
  BY <1>2, <1>5, <1>6

\* Whatever the user makes of a legal selection is legal.
LEMMA SelectionsLegal ==
  ASSUME NEW c, WellFormed(c), NEW s, Legal(c, s), NEW t \in Selections(c, s)
  PROVE  Legal(c, t)
<1>1. /\ t \subseteq s \cup Shown(c) /\ s \ Shown(c) \subseteq t
      /\ \A g \in Offered(c) : Cardinality(Members(c, g) \cap t) = 1
  BY DEF Selections
<1>2. s \subseteq c.option /\ Forced(c, s) = s
  BY DEF Legal
<1>3. t \subseteq c.option
  BY <1>1, <1>2, MembersOf
<1>4. Forced(c, t) = t
  <2>1. \A x : x \in Visited(c) /\ x \in c.required => x \notin Shown(c)
    BY DEF Shown
  <2>2. \A x : x \in c.disabled => x \notin Shown(c)
    BY DEF Shown
  <2>3. \A x : x \in s => ~(x \in Visited(c) /\ x \in c.disabled)
    BY <1>2 DEF Forced
  <2>4. \A x : x \in Visited(c) /\ x \in c.required /\ x \notin c.disabled => x \in s
    BY <1>2 DEF Forced
  <2> QED BY <1>1, <2>1, <2>2, <2>3, <2>4 DEF Forced
<1>5. ASSUME NEW g \in Offered(c)
      PROVE  \E o \in Members(c, g) : Members(c, g) \cap t = {o}
  <2> DEFINE u == Members(c, g) \cap t
  <2>1. Cardinality(u) = 1
    BY <1>1
  <2>2. u \in SUBSET c.option /\ IsFiniteSet(c.option)
    <3>1. c.order \in Seq(c.option) /\ c.option = {c.order[n] : n \in DOMAIN c.order}
      BY DEF WellFormed, Straight, Shaped, ToSet
    <3>2. c.option = {c.order[n] : n \in 1..Len(c.order)} /\ Len(c.order) \in Nat
      BY <3>1
    <3>3. IsFiniteSet(1..Len(c.order))
      BY <3>2, FS_Interval
    <3>4. c.option = {c.order[n] : n \in 1..Len(c.order)} => IsFiniteSet(c.option)
      <4> DEFINE F == [n \in 1..Len(c.order) |-> c.order[n]]
      <4>1. {F[n] : n \in 1..Len(c.order)} = {c.order[n] : n \in 1..Len(c.order)}
        OBVIOUS
      <4>2. F \in [1..Len(c.order) -> c.option]
        BY <3>1
      <4>3. c.option = {F[n] : n \in 1..Len(c.order)}
        BY <4>1, <3>2
      <4> HIDE DEF F
      <4>4. F \in Surjection(1..Len(c.order), c.option)
        BY <4>2, <4>3 DEF Surjection
      <4> QED BY <4>4, <3>3, FS_Surjection
    <3> QED BY <3>2, <3>4, <1>3
  <2> HIDE DEF u
  <2>3. IsFiniteSet(u)
    BY <2>2, FS_Subset
  <2>4. \E o : u = {o}
    BY <2>1, <2>3, FS_Singleton
  <2> QED BY <2>4 DEF u
<1> QED
  BY <1>3, <1>4, <1>5 DEF Legal

\* What is installed of a legal selection respects the attributes.
LEMMA LegalChoice ==
  ASSUME NEW c, WellFormed(c), NEW s, Legal(c, s)
  PROVE  LET installed == Found(c, s) IN
         /\ \A g \in c.group : Cardinality(Members(c, g) \cap installed) <= 1
         /\ \A o \in c.required \ c.disabled :
              /\ Around(c, o) \cap c.disabled = {}
              /\ Around(c, o) \cap c.option \subseteq installed
              => o \in installed
         /\ c.disabled \cap installed = {}
<1> DEFINE installed == Found(c, s)
<1>1. s \subseteq c.option /\ Forced(c, s) = s /\ installed \subseteq s
  BY DEF Legal, Found
<1>2. ASSUME NEW g \in c.group
      PROVE  Cardinality(Members(c, g) \cap installed) <= 1
  <2>1. CASE g \notin Offered(c)
    <3>1. Members(c, g) \cap installed = {}
      BY <2>1, MembersOf
    <3>2. Cardinality({}) = 0
      BY FS_EmptySet
    <3> QED BY <3>1, <3>2
  <2>2. CASE g \in Offered(c)
    <3>1. PICK o : Members(c, g) \cap s = {o}
      BY <2>2 DEF Legal
    <3>2. Members(c, g) \cap installed = {} \/ Members(c, g) \cap installed = {o}
      BY <3>1, <1>1
    <3>3. Cardinality({}) = 0 /\ Cardinality({o}) = 1
      BY FS_EmptySet, FS_Singleton
    <3> QED BY <3>2, <3>3
  <2> QED BY <2>1, <2>2
<1>3. ASSUME NEW o \in c.required \ c.disabled,
             Around(c, o) \cap c.disabled = {},
             Around(c, o) \cap c.option \subseteq installed
      PROVE  o \in installed
  <2>1. o \in Visited(c)
    BY <1>3 DEF Visited, WellFormed, Straight, Shaped
  <2>2. o \in s
    BY <2>1, <1>1, <1>3 DEF Forced
  <2> QED BY <2>2, <1>1, <1>3 DEF Found
<1>4. ASSUME NEW o \in c.disabled \cap installed PROVE FALSE
  <2>1. /\ o \in s /\ Around(c, o) \cap c.option \subseteq s
        /\ Around(c, o) \cap c.group \cap c.disabled = {}
    BY <1>4 DEF Found
  <2>2. o \in Node(c)
    BY <2>1, <1>1 DEF Node
  <2>3. PICK p \in c.disabled \cap ({o} \cup Around(c, o)) : Around(c, p) \cap c.disabled = {}
    BY <1>4, <2>2, Outermost
  <2>4. p \in Node(c)
    BY <2>3, <2>2, AroundNodes
  <2>5. p \in c.option /\ p \in s
    BY <2>1, <2>3, <2>4, <1>1 DEF Node
  <2>6. p \in Visited(c)
    BY <2>3, <2>5 DEF Visited
  <2> QED BY <2>6, <2>5, <2>3, <1>1 DEF Forced
<1> QED
  BY <1>2, <1>3, <1>4

-----------------------------------------------------------------------------
(* The stages.                                                             *)

AskedPages(k, names) ==
  {[do |-> "page", page |-> [kind |-> k, name |-> a]] : a \in ToSet(names)}

PrefaceSteps(c) ==
  {[do |-> "precheck"]} \cup AskedPages("eula", c.eulas) \cup AskedPages("key", c.keys)
  \cup AskedPages("readme", c.readmes) \cup AskedPages("destination", <<"destination">>)

\* A part of the stages that is there or is not.
LEMMA WhenSeq ==
  ASSUME NEW X, NEW s \in Seq(X), NEW b
  PROVE  /\ When(b, s) \in Seq(X)
         /\ b => When(b, s) = s
         /\ ~b => When(b, s) = <<>>
<1>1. <<>> \in Seq(X)
  OBVIOUS
<1> QED
  BY <1>1, Zenon DEF When

PageFacts(p, k, Nm, names) ==
  /\ p \in Seq([kind : {k}, name : Nm])
  /\ Len(p) = Len(names)
  /\ \A n \in 1..Len(names) : p[n] = [kind |-> k, name |-> names[n]]

\* The pages of a list of names are as many, in the same order.
LEMMA PageSeq ==
  ASSUME NEW k, NEW Nm, NEW names \in Seq(Nm)
  PROVE  PageFacts(Page(k, names), k, Nm, names)
<1>1. Page(k, names) \in [1..Len(names) -> [kind : {k}, name : Nm]]
  BY DEF Page
<1>2. \A n \in 1..Len(names) : Page(k, names)[n] = [kind |-> k, name |-> names[n]]
  BY DEF Page
<1>3. Len(names) \in Nat
  OBVIOUS
<1> DEFINE p == Page(k, names)
           X == [kind : {k}, name : Nm]
<1>4. p \in [1..Len(names) -> X]
  BY <1>1
<1> HIDE DEF p, X
<1>5. p \in Seq(X) /\ Len(p) = Len(names)
  BY <1>3, <1>4
<1> QED
  BY <1>2, <1>5 DEF p, X, PageFacts

\* The stages that show them are the stages that ask for those names.
LEMMA FixedPages ==
  ASSUME NEW X, NEW k, NEW Nm, NEW names \in Seq(Nm), AskedPages(k, names) \subseteq X
  PROVE  /\ Fixed(Page(k, names)) \in Seq(X)
         /\ ToSet(Fixed(Page(k, names))) = AskedPages(k, names)
<1> DEFINE f == Fixed(Page(k, names))
           a(n) == [do |-> "page", page |-> [kind |-> k, name |-> names[n]]]
<1>0. /\ Page(k, names) \in Seq([kind : {k}, name : Nm])
      /\ Len(Page(k, names)) = Len(names)
      /\ \A n \in 1..Len(names) : Page(k, names)[n] = [kind |-> k, name |-> names[n]]
  <2>1. PageFacts(Page(k, names), k, Nm, names)
    BY PageSeq
  <2> HIDE DEF f, a
  <2> QED BY <2>1, Zenon DEF PageFacts
<1>1. Len(names) \in Nat /\ DOMAIN names = 1..Len(names)
  OBVIOUS
<1>2. \A n \in 1..Len(names) : a(n) \in AskedPages(k, names)
  BY <1>1 DEF AskedPages, ToSet
<1>3. f = [n \in 1..Len(names) |-> a(n)]
  <2>1. f = [n \in 1..Len(names) |-> [do |-> "page", page |-> Page(k, names)[n]]]
    BY <1>0 DEF Fixed
  <2>2. \A n \in 1..Len(names) : Page(k, names)[n] = [kind |-> k, name |-> names[n]]
    BY <1>0
  <2>3. \A n \in 1..Len(names) : [do |-> "page", page |-> Page(k, names)[n]] = a(n)
    BY <2>2
  <2> HIDE DEF a, f
  <2> QED BY <2>1, <2>3
<1> HIDE DEF f
<1>4. f \in [1..Len(names) -> X] /\ DOMAIN f = 1..Len(names)
  <2> HIDE DEF a
  <2> QED BY <1>2, <1>3
<1>5. f \in Seq(X)
  BY <1>1, <1>4
<1>6. ToSet(f) = {a(n) : n \in 1..Len(names)}
  <2> HIDE DEF a
  <2> QED BY <1>3, <1>4 DEF ToSet
<1>7. {a(n) : n \in 1..Len(names)} = AskedPages(k, names)
  BY <1>1 DEF AskedPages, ToSet
<1> QED
  BY <1>5, <1>6, <1>7 DEF f

\* Before the options, all the package asks for is asked, and nothing else.
LEMMA PrefaceAsks ==
  ASSUME NEW c, WellFormed(c)
  PROVE  /\ Preface(c) \in Seq(PrefaceSteps(c))
         /\ ~c.skipEulas => AskedPages("eula", c.eulas) \subseteq ToSet(Preface(c))
         /\ AskedPages("key", c.keys) \subseteq ToSet(Preface(c))
<1> DEFINE X == PrefaceSteps(c)
           a == When(c.precheck, Step("precheck"))
           b == When(~c.skipEulas, Fixed(Page("eula", c.eulas)))
           d == Fixed(Page("key", c.keys))
           e == Fixed(Page("readme", c.readmes))
           h == When(c.askDest, Fixed(Page("destination", <<"destination">>)))
<1>1. /\ c.eulas \in Seq(STRING) /\ c.keys \in Seq(STRING) /\ c.readmes \in Seq(STRING)
      /\ <<"destination">> \in Seq({"destination"})
  <2>1. {c.eulas, c.keys, c.readmes} \subseteq Seq(STRING)
    BY DEF WellFormed, Straight, Shaped
  <2>2. <<"destination">> \in Seq({"destination"})
    OBVIOUS
  <2> QED BY <2>1, <2>2
<1>2. /\ AskedPages("eula", c.eulas) \subseteq X
      /\ AskedPages("key", c.keys) \subseteq X
      /\ AskedPages("readme", c.readmes) \subseteq X
      /\ AskedPages("destination", <<"destination">>) \subseteq X
  BY DEF PrefaceSteps
<1>3. a \in Seq(X)
  <2>1. Step("precheck") \in Seq(X)
    BY DEF Step, PrefaceSteps
  <2> QED BY <2>1, WhenSeq
<1> HIDE DEF X
<1>4. /\ b \in Seq(X)
      /\ ~c.skipEulas => ToSet(b) = AskedPages("eula", c.eulas)
  <2>1. /\ Fixed(Page("eula", c.eulas)) \in Seq(X)
        /\ ToSet(Fixed(Page("eula", c.eulas))) = AskedPages("eula", c.eulas)
    BY <1>1, <1>2, FixedPages
  <2> QED BY <2>1, WhenSeq
<1>5. d \in Seq(X) /\ ToSet(d) = AskedPages("key", c.keys)
  BY <1>1, <1>2, FixedPages
<1>6. e \in Seq(X)
  BY <1>1, <1>2, FixedPages
<1>7. h \in Seq(X)
  <2>1. Fixed(Page("destination", <<"destination">>)) \in Seq(X)
    BY <1>1, <1>2, FixedPages
  <2> QED BY <2>1, WhenSeq
<1>8. Preface(c) = a \o b \o d \o e \o h
  BY DEF Preface
<1> HIDE DEF a, b, d, e, h
<1> DEFINE ab == a \o b
           abd == ab \o d
           abde == abd \o e
           abdeh == abde \o h
<1>9. ab \in Seq(X) /\ ToSet(ab) = ToSet(a) \cup ToSet(b)
  <2>1. a \in Seq(X) /\ b \in Seq(X)
    BY <1>3, <1>4
  <2> HIDE DEF a, b
  <2> QED BY <2>1, ToSetConcat
<1> HIDE DEF ab
<1>10. abd \in Seq(X) /\ ToSet(abd) = ToSet(ab) \cup ToSet(d)
  <2>1. ab \in Seq(X) /\ d \in Seq(X)
    BY <1>9, <1>5
  <2> HIDE DEF ab, d
  <2> QED BY <2>1, ToSetConcat
<1> HIDE DEF abd
<1>11. abde \in Seq(X) /\ ToSet(abde) = ToSet(abd) \cup ToSet(e)
  <2>1. abd \in Seq(X) /\ e \in Seq(X)
    BY <1>10, <1>6
  <2> HIDE DEF abd, e
  <2> QED BY <2>1, ToSetConcat
<1> HIDE DEF abde
<1>12. abdeh \in Seq(X) /\ ToSet(abdeh) = ToSet(abde) \cup ToSet(h)
  <2>1. abde \in Seq(X) /\ h \in Seq(X)
    BY <1>11, <1>7
  <2> HIDE DEF abde, h
  <2> QED BY <2>1, ToSetConcat
<1> HIDE DEF abdeh
<1>13. Preface(c) = abdeh
  BY <1>8 DEF ab, abd, abde, abdeh
<1> QED
  BY <1>4, <1>5, <1>9, <1>10, <1>11, <1>12, <1>13, Zenon DEF X

\* Where the elements of two sequences are, one after the other.
LEMMA Concat ==
  ASSUME NEW X, NEW s \in Seq(X), NEW t \in Seq(X)
  PROVE  /\ s \o t \in Seq(X)
         /\ Len(s \o t) = Len(s) + Len(t)
         /\ \A n \in 1..Len(s) : (s \o t)[n] = s[n]
         /\ \A n \in 1..Len(t) : (s \o t)[Len(s) + n] = t[n]
OBVIOUS

CourseSteps ==
  {[do |-> d] : d \in {"options", "option eulas", "option keys", "sources", "install"}}

\* A stage that is there or is not.
LEMMA OneStep ==
  ASSUME NEW d, [do |-> d] \in CourseSteps, NEW b
  PROVE  /\ When(b, Step(d)) \in Seq(CourseSteps)
         /\ ~b => Len(When(b, Step(d))) = 0
         /\ b => Len(When(b, Step(d))) = 1 /\ When(b, Step(d))[1] = [do |-> d]
<1> DEFINE x == [do |-> d]
<1>1. /\ <<>> \in Seq(CourseSteps) /\ Len(<<>>) = 0
      /\ <<x>> \in Seq(CourseSteps) /\ Len(<<x>>) = 1 /\ <<x>>[1] = x
  <2> HIDE DEF x
  <2> QED BY x \in CourseSteps DEF x
<1>2. CASE b
  <2>1. When(b, Step(d)) = <<x>>
    BY <1>2 DEF When, Step
  <2> QED BY <1>1, <1>2, <2>1, Zenon
<1>3. CASE ~b
  <2>1. When(b, Step(d)) = <<>>
    BY <1>3 DEF When
  <2> QED BY <1>1, <1>3, <2>1, Zenon
<1> QED
  BY <1>2, <1>3

\* The stages from the options on, counted from the end.
CourseFacts(c, q) ==
  /\ q \in Seq(CourseSteps)
  /\ Len(q) \in 3..5
  /\ q[Len(q)] = [do |-> "install"]
  /\ q[Len(q) - 1] = [do |-> "sources"]
  /\ q[Len(q) - 2] = [do |-> "option keys"]
  /\ ~c.skipEulas => Len(q) > 3 /\ q[Len(q) - 3] = [do |-> "option eulas"]
  /\ ~c.skipOptions => Len(q) > 3 /\ q[1] = [do |-> "options"]
  /\ ~c.skipOptions /\ ~c.skipEulas => Len(q) = 5
  /\ c.skipOptions /\ c.skipEulas => Len(q) = 3
  /\ c.skipOptions \/ c.skipEulas => Len(q) \in 3..4

\* From the options on the stages are as CourseFacts has them.
LEMMA CourseEnd ==
  ASSUME NEW c
  PROVE  CourseFacts(c, Course(c))
<1> DEFINE a == When(~c.skipOptions, Step("options"))
           b == When(~c.skipEulas, Step("option eulas"))
           k == <<[do |-> "option keys"], [do |-> "sources"], [do |-> "install"]>>
           ab == a \o b
           q == ab \o k
           m == Len(a)
           n == Len(b)
<1>1. /\ a \in Seq(CourseSteps)
      /\ ~~c.skipOptions => Len(a) = 0
      /\ ~c.skipOptions => Len(a) = 1 /\ a[1] = [do |-> "options"]
  <2>1. [do |-> "options"] \in CourseSteps
    BY DEF CourseSteps
  <2> QED BY <2>1, OneStep
<1>2. /\ b \in Seq(CourseSteps)
      /\ ~~c.skipEulas => Len(b) = 0
      /\ ~c.skipEulas => Len(b) = 1 /\ b[1] = [do |-> "option eulas"]
  <2>1. [do |-> "option eulas"] \in CourseSteps
    BY DEF CourseSteps
  <2> QED BY <2>1, OneStep
<1>3. /\ k \in Seq(CourseSteps) /\ Len(k) = 3
      /\ k[1] = [do |-> "option keys"] /\ k[2] = [do |-> "sources"] /\ k[3] = [do |-> "install"]
  <2>1. /\ [do |-> "option keys"] \in CourseSteps /\ [do |-> "sources"] \in CourseSteps
        /\ [do |-> "install"] \in CourseSteps
    BY DEF CourseSteps
  <2>2. \A X, x, y, z : x \in X /\ y \in X /\ z \in X =>
          /\ <<x, y, z>> \in Seq(X) /\ Len(<<x, y, z>>) = 3
          /\ <<x, y, z>>[1] = x /\ <<x, y, z>>[2] = y /\ <<x, y, z>>[3] = z
    OBVIOUS
  <2> QED BY <2>1, <2>2, Zenon
<1>4. Course(c) = q
  BY DEF Course
<1> HIDE DEF a, b, k
<1>5. /\ ab \in Seq(CourseSteps) /\ Len(ab) = Len(a) + Len(b)
      /\ \A j \in 1..Len(a) : ab[j] = a[j]
      /\ \A j \in 1..Len(b) : ab[Len(a) + j] = b[j]
  <2>1. a \in Seq(CourseSteps) /\ b \in Seq(CourseSteps)
    BY <1>1, <1>2
  <2> QED BY <2>1, Concat
<1> HIDE DEF ab
<1>6. /\ q \in Seq(CourseSteps) /\ Len(q) = Len(ab) + Len(k)
      /\ \A j \in 1..Len(ab) : q[j] = ab[j]
      /\ \A j \in 1..Len(k) : q[Len(ab) + j] = k[j]
  <2>1. ab \in Seq(CourseSteps) /\ k \in Seq(CourseSteps)
    BY <1>3, <1>5
  <2> QED BY <2>1, Concat
<1> HIDE DEF q
<1>7. Len(a) \in {0, 1} /\ Len(b) \in {0, 1}
  BY <1>1, <1>2
<1>8. Len(q) = Len(a) + Len(b) + 3 /\ Len(ab) = Len(a) + Len(b) /\ Len(q) = Len(ab) + 3
  BY <1>3, <1>5, <1>6, <1>7
<1>9. /\ q[Len(ab) + 1] = [do |-> "option keys"] /\ q[Len(ab) + 2] = [do |-> "sources"]
      /\ q[Len(ab) + 3] = [do |-> "install"]
  <2>1. 1 \in 1..Len(k) /\ 2 \in 1..Len(k) /\ 3 \in 1..Len(k)
    <3>1. Len(k) = 3
      BY <1>3
    <3> QED BY <3>1
  <2> QED BY <2>1, <1>3, <1>6
<1>10. /\ Len(ab) + 3 = Len(q) /\ Len(ab) + 2 = Len(q) - 1 /\ Len(ab) + 1 = Len(q) - 2
  BY <1>7, <1>8
<1>11. q[Len(q)] = [do |-> "install"] /\ q[Len(q) - 1] = [do |-> "sources"]
       /\ q[Len(q) - 2] = [do |-> "option keys"]
  BY <1>9, <1>10
<1>12. ~c.skipEulas => Len(q) > 3 /\ q[Len(q) - 3] = [do |-> "option eulas"]
  <2>1. SUFFICES ASSUME ~c.skipEulas PROVE Len(q) > 3 /\ q[Len(q) - 3] = [do |-> "option eulas"]
    OBVIOUS
  <2>2. Len(b) = 1 /\ b[1] = [do |-> "option eulas"]
    BY <1>2, <2>1
  <2>3. ab[Len(a) + 1] = [do |-> "option eulas"]
    <3>1. Len(b) = 1
      BY <2>2
    <3>2. 1 \in 1..Len(b)
      BY <3>1
    <3> QED BY <1>5, <2>2, <3>2
  <2>4. Len(a) + 1 \in 1..Len(ab) /\ Len(a) + 1 = Len(q) - 3 /\ Len(q) > 3
    <3>1. Len(b) = 1
      BY <2>2
    <3> QED BY <1>7, <1>8, <3>1
  <2>5. q[Len(a) + 1] = ab[Len(a) + 1]
    BY <2>4, <1>6
  <2> QED BY <2>3, <2>4, <2>5
<1>13. ~c.skipOptions => Len(q) > 3 /\ q[1] = [do |-> "options"]
  <2>1. SUFFICES ASSUME ~c.skipOptions PROVE Len(q) > 3 /\ q[1] = [do |-> "options"]
    OBVIOUS
  <2>2. Len(a) = 1 /\ a[1] = [do |-> "options"]
    BY <1>1, <2>1
  <2>3. ab[1] = [do |-> "options"]
    BY <1>5, <2>2
  <2>4. 1 \in 1..Len(ab) /\ Len(q) > 3
    BY <1>7, <1>8, <2>2
  <2>5. q[1] = ab[1]
    BY <2>4, <1>6
  <2> QED BY <2>3, <2>4, <2>5
<1>14. /\ Len(q) \in 3..5
       /\ ~c.skipOptions /\ ~c.skipEulas => Len(q) = 5
       /\ c.skipOptions /\ c.skipEulas => Len(q) = 3
       /\ c.skipOptions \/ c.skipEulas => Len(q) \in 3..4
  <2>1. (c.skipOptions => Len(a) = 0) /\ (~c.skipOptions => Len(a) = 1)
    BY <1>1
  <2>2. (c.skipEulas => Len(b) = 0) /\ (~c.skipEulas => Len(b) = 1)
    BY <1>2
  <2>3. Len(q) = Len(a) + Len(b) + 3
    BY <1>8
  <2>4. CASE c.skipOptions /\ c.skipEulas
    <3>1. Len(q) = 3
      BY <2>1, <2>2, <2>3, <2>4
    <3> QED BY <3>1, <2>4
  <2>5. CASE c.skipOptions /\ ~c.skipEulas
    <3>1. Len(q) = 4
      <4>1. Len(a) = 0 /\ Len(b) = 1
        BY <2>1, <2>2, <2>5, Zenon
      <4> QED BY <4>1, <2>3
    <3> QED BY <3>1, <2>5
  <2>6. CASE ~c.skipOptions /\ c.skipEulas
    <3>1. Len(q) = 4
      <4>1. Len(a) = 1 /\ Len(b) = 0
        BY <2>1, <2>2, <2>6, Zenon
      <4> QED BY <4>1, <2>3
    <3> QED BY <3>1, <2>6
  <2>7. CASE ~c.skipOptions /\ ~c.skipEulas
    <3>1. Len(q) = 5
      <4>1. Len(a) = 1 /\ Len(b) = 1
        BY <2>1, <2>2, <2>7, Zenon
      <4> QED BY <4>1, <2>3
    <3> QED BY <3>1, <2>7
  <2> QED BY <2>4, <2>5, <2>6, <2>7
<1>15. q \in Seq(CourseSteps)
  BY <1>6
<1> QED
  BY <1>4, <1>11, <1>12, <1>13, <1>14, <1>15 DEF CourseFacts

\* Where the stages are: P of them before the options, L in all.
StageFacts(c, st, P, L) ==
  /\ P \in Nat /\ L \in Nat /\ P + 3 <= L
  /\ \A p \in 1..P : st[p] \in PrefaceSteps(c)
  /\ ~c.skipEulas => \A s \in AskedPages("eula", c.eulas) : \E p \in 1..P : st[p] = s
  /\ \A s \in AskedPages("key", c.keys) : \E p \in 1..P : st[p] = s
  /\ st[L].do = "install" /\ st[L - 1].do = "sources" /\ st[L - 2].do = "option keys"
  /\ ~c.skipEulas => P + 4 <= L /\ st[L - 3].do = "option eulas"
  /\ ~c.skipOptions => P + 4 <= L /\ st[P + 1].do = "options"
  /\ ~c.skipOptions /\ ~c.skipEulas => P + 5 <= L
  /\ \A p \in P + 1..L : \/ p \in {L, L - 1, L - 2}
                         \/ ~c.skipEulas /\ p = L - 3
                         \/ ~c.skipOptions /\ p = P + 1

\* All the stages are as StageFacts has them.
LEMMA StagesAre ==
  ASSUME NEW c, WellFormed(c)
  PROVE  StageFacts(c, Stages(c), Len(Preface(c)), Len(Stages(c)))
<1> DEFINE f == Preface(c)
           q == Course(c)
           st == f \o q
           X == PrefaceSteps(c) \cup CourseSteps
           P == Len(f)
           L == Len(st)
<1>1. /\ f \in Seq(PrefaceSteps(c))
      /\ ~c.skipEulas => AskedPages("eula", c.eulas) \subseteq ToSet(f)
      /\ AskedPages("key", c.keys) \subseteq ToSet(f)
  BY PrefaceAsks
<1>2. CourseFacts(c, q)
  BY CourseEnd
<1>3. Stages(c) = st
  BY DEF Stages
<1> HIDE DEF f, q
<1>4. /\ P \in Nat /\ Len(q) \in 3..5
      /\ f \in Seq(X) /\ q \in Seq(X)
  <2>1. q \in Seq(CourseSteps) /\ Len(q) \in 3..5
    BY <1>2 DEF CourseFacts
  <2>2. \A A, B, s : s \in Seq(A) /\ A \subseteq B => s \in Seq(B)
    OBVIOUS
  <2>3. f \in Seq(PrefaceSteps(c))
    BY <1>1
  <2>4. f \in Seq(X) /\ q \in Seq(X)
    BY <2>1, <2>2, <2>3, Zenon
  <2>5. P \in Nat
    BY <2>3
  <2> QED BY <2>1, <2>4, <2>5
<1>5. /\ st \in Seq(X) /\ Len(st) = Len(f) + Len(q)
      /\ \A n \in 1..Len(f) : st[n] = f[n]
      /\ \A n \in 1..Len(q) : st[Len(f) + n] = q[n]
  <2>1. f \in Seq(X) /\ q \in Seq(X)
    BY <1>4
  <2> HIDE DEF X
  <2> QED BY <2>1, Concat
<1> HIDE DEF st, X
<1>6. L = P + Len(q)
  BY <1>5, Zenon
<1>7. \A p \in 1..P : st[p] = f[p]
  BY <1>5
<1>8. \A p \in 1..P : st[p] \in PrefaceSteps(c)
  BY <1>1, <1>7
<1>9. \A s \in ToSet(f) : \E p \in 1..P : st[p] = s
  <2>1. DOMAIN f = 1..P
    BY <1>1
  <2> QED BY <1>7, <2>1, Zenon DEF ToSet
<1>10. \A n \in 1..Len(q) : st[P + n] = q[n]
  BY <1>5
<1> DEFINE m == Len(q)
<1>11. m \in 3..5 /\ L = P + m
  BY <1>4, <1>6, Zenon
<1> HIDE DEF P, L, m
<1>12. /\ st[P + m] = q[m] /\ st[P + (m - 1)] = q[m - 1] /\ st[P + (m - 2)] = q[m - 2]
       /\ m > 3 => st[P + (m - 3)] = q[m - 3]
       /\ st[P + 1] = q[1]
  <2>1. m \in 1..m /\ m - 1 \in 1..m /\ m - 2 \in 1..m /\ (m > 3 => m - 3 \in 1..m) /\ 1 \in 1..m
    BY <1>11
  <2> QED BY <2>1, <1>10 DEF m
<1>13. P + m = L /\ P + (m - 1) = L - 1 /\ P + (m - 2) = L - 2 /\ P + (m - 3) = L - 3
  BY <1>11, <1>4 DEF P
<1>14. /\ q[m] = [do |-> "install"] /\ q[m - 1] = [do |-> "sources"] /\ q[m - 2] = [do |-> "option keys"]
       /\ ~c.skipEulas => m > 3 /\ q[m - 3] = [do |-> "option eulas"]
       /\ ~c.skipOptions => m > 3 /\ q[1] = [do |-> "options"]
       /\ ~c.skipOptions /\ ~c.skipEulas => m = 5
       /\ c.skipOptions /\ c.skipEulas => m = 3
       /\ c.skipOptions \/ c.skipEulas => m \in 3..4
  BY <1>2, Zenon DEF CourseFacts, m
<1>15. /\ st[L] = [do |-> "install"] /\ st[L - 1] = [do |-> "sources"] /\ st[L - 2] = [do |-> "option keys"]
       /\ ~c.skipEulas => st[L - 3] = [do |-> "option eulas"]
       /\ ~c.skipOptions => st[P + 1] = [do |-> "options"]
  BY <1>12, <1>13, <1>14, Zenon
<1>16. /\ st[L].do = "install" /\ st[L - 1].do = "sources" /\ st[L - 2].do = "option keys"
       /\ ~c.skipEulas => st[L - 3].do = "option eulas"
       /\ ~c.skipOptions => st[P + 1].do = "options"
  <2>1. \A x, d : x = [do |-> d] => x.do = d
    OBVIOUS
  <2> QED BY <1>15, <2>1, Zenon
<1>17. /\ ~c.skipEulas => m > 3
       /\ ~c.skipOptions => m > 3
       /\ ~c.skipOptions /\ ~c.skipEulas => m = 5
       /\ c.skipOptions /\ c.skipEulas => m = 3
       /\ c.skipOptions \/ c.skipEulas => m \in 3..4
  BY <1>14
<1>18. P \in Nat
  BY <1>4 DEF P
<1>19. /\ ~c.skipEulas => P + 4 <= L
       /\ ~c.skipOptions => P + 4 <= L
       /\ ~c.skipOptions /\ ~c.skipEulas => P + 5 <= L
  BY <1>11, <1>17, <1>18
<1>20. ASSUME NEW p \in P + 1..L
       PROVE  \/ p \in {L, L - 1, L - 2}
              \/ ~c.skipEulas /\ p = L - 3
              \/ ~c.skipOptions /\ p = P + 1
  <2>1. m \in {3, 4, 5}
    BY <1>11
  <2>2. CASE m = 3
    BY <2>2, <1>11, <1>18
  <2>3. CASE m = 4
    <3>1. p \in {L, L - 1, L - 2, L - 3} /\ L - 3 = P + 1
      BY <2>3, <1>11, <1>18
    <3>2. ~c.skipEulas \/ ~c.skipOptions
      BY <2>3, <1>17
    <3> QED BY <3>1, <3>2
  <2>4. CASE m = 5
    <3>1. p \in {L, L - 1, L - 2, L - 3, P + 1}
      BY <2>4, <1>11, <1>18
    <3>2. ~c.skipEulas /\ ~c.skipOptions
      <4>1. m \notin 3..4
        BY <2>4
      <4> QED BY <4>1, <1>17
    <3> QED BY <3>1, <3>2
  <2> QED BY <2>1, <2>2, <2>3, <2>4
<1>21. /\ ~c.skipEulas => \A s \in AskedPages("eula", c.eulas) : \E p \in 1..P : st[p] = s
       /\ \A s \in AskedPages("key", c.keys) : \E p \in 1..P : st[p] = s
  BY <1>1, <1>9, Zenon
<1>22. L \in Nat /\ P + 3 <= L
  BY <1>11, <1>18
<1>23. StageFacts(c, st, P, L)
  BY <1>8, <1>16, <1>18, <1>19, <1>20, <1>21, <1>22, Zenon DEF StageFacts
<1>24. P = Len(Preface(c)) /\ L = Len(Stages(c))
  BY <1>3 DEF P, L, f
<1> QED
  BY <1>3, <1>23, <1>24, Zenon

-----------------------------------------------------------------------------
(* The inductive invariant.                                                *)

Final == Len(Stages(cfg))
Opening == Len(Preface(cfg))

Alive == status \in {"running", "installed"}

\* The page of stage p is done: the driver is past it, or it shows no more.
Done(p) == p < i \/ (p = i /\ inside /\ todo = <<>>)

Showable == {"page", "options", "option eulas", "option keys"}

Answerable == [kind : License \cup {"key", "readme", "destination", "options"},
               name : STRING \cup {"destination", "options"}]

\* The stage that has been called has pages, all of its own kind.
PagesFit ==
  /\ ~inside => todo = <<>>
  /\ inside => Stage.do \in Showable
  /\ todo \in Seq(Answerable)
  /\ \A n \in 1..Len(todo) :
       /\ Stage.do = "page" => n = 1 /\ todo[n] = Stage.page
       /\ Stage.do = "options" => todo[n].kind = "options"
       /\ Stage.do = "option eulas" =>
            /\ todo[n].kind = "option eula"
            /\ \E o \in Found(cfg, sel) : todo[n].name \in ToSet(cfg.optEulas[o])
       /\ Stage.do = "option keys" =>
            /\ todo[n].kind = "key"
            /\ \E o \in Found(cfg, sel) : todo[n].name \in ToSet(cfg.optKeys[o])

\* What the package itself asks has been answered on the pages that are done.
PackageAsked ==
  \A p \in 1..Opening :
    Alive /\ Done(p) /\ Stages(cfg)[p].do = "page" =>
      LET page == Stages(cfg)[p].page IN
      /\ page.kind = "eula" /\ page.name \in cfg.consent => page.name \in accepted
      /\ page.kind = "key" => page.name \in keys

\* Still to be shown by stage p, which asks for what the options need.
Pending(p, name) == i = p /\ \E n \in 1..Len(todo) : todo[n].name = name
Reached(p) == Alive /\ (i > p \/ (i = p /\ inside))

\* What the options ask has been answered, or will be before the stage is left:
\* in between, the options do not change.
OptionsAsked ==
  \A o \in Found(cfg, sel) :
    /\ ~cfg.skipEulas /\ Reached(Final - 3) =>
         \A name \in ToSet(cfg.optEulas[o]) \cap cfg.consent :
           name \in accepted \/ Pending(Final - 3, name)
    /\ Reached(Final - 2) =>
         \A name \in ToSet(cfg.optKeys[o]) :
           name \in keys \/ Pending(Final - 2, name)

\* It is so from the page of the options on, and when the user comes back to it.
Corrected ==
  ~cfg.skipOptions /\ (i > Opening + 1 \/ (i = Opening + 1 /\ inside) \/ back > Opening)
    => Legal(cfg, sel)

\* The user went back from a page, and has not got past it without another.
WentBack ==
  /\ back # 0 /\ back <= Opening => i <= back /\ Stages(cfg)[back].do = "page"
  /\ inside /\ todo = <<>> /\ Stage.do = "page" => back = 0

Outcome ==
  /\ i = Final => files = Found(cfg, sel)
  /\ status = "installed" => i = Final /\ written = keys

IInv == /\ StagesInOrder /\ PagesFit /\ PackageAsked /\ OptionsAsked
        /\ Corrected /\ WentBack /\ Outcome

\* Which stage does what.
Placed(c, st, P, L) ==
  \A n \in 1..L :
    /\ st[n].do = "install" <=> n = L
    /\ st[n].do = "sources" <=> n = L - 1
    /\ st[n].do = "option keys" <=> n = L - 2
    /\ st[n].do = "option eulas" <=> n = L - 3 /\ ~c.skipEulas
    /\ st[n].do = "options" <=> n = P + 1 /\ ~c.skipOptions
    /\ st[n].do \in {"page", "precheck"} <=> n <= P

\* From where the stages are to which they are.
LEMMA StagesPlaced ==
  ASSUME NEW c, NEW st, NEW P, NEW L, StageFacts(c, st, P, L)
  PROVE  Placed(c, st, P, L)
<1>1. P \in Nat /\ L \in Nat /\ P + 3 <= L
  BY DEF StageFacts
<1>2. ASSUME NEW n \in 1..P PROVE st[n].do \in {"page", "precheck"}
  <2>1. st[n] \in PrefaceSteps(c)
    BY <1>2 DEF StageFacts
  <2>2. \A s \in PrefaceSteps(c) : s.do \in {"page", "precheck"}
    <3>1. \A k, names : \A s \in AskedPages(k, names) : s.do = "page"
      BY DEF AskedPages
    <3> QED BY <3>1 DEF PrefaceSteps
  <2> QED BY <2>1, <2>2
<1>3. /\ st[L].do = "install" /\ st[L - 1].do = "sources" /\ st[L - 2].do = "option keys"
      /\ ~c.skipEulas => st[L - 3].do = "option eulas"
      /\ ~c.skipOptions => st[P + 1].do = "options"
  BY DEF StageFacts
<1>6. /\ ~c.skipEulas => P + 4 <= L
      /\ ~c.skipOptions => P + 4 <= L
      /\ ~c.skipOptions /\ ~c.skipEulas => P + 5 <= L
  BY DEF StageFacts
<1>7. \A p \in P + 1..L : \/ p \in {L, L - 1, L - 2}
                          \/ ~c.skipEulas /\ p = L - 3
                          \/ ~c.skipOptions /\ p = P + 1
  BY DEF StageFacts
<1> SUFFICES ASSUME NEW n \in 1..L
             PROVE  /\ st[n].do = "install" <=> n = L
                    /\ st[n].do = "sources" <=> n = L - 1
                    /\ st[n].do = "option keys" <=> n = L - 2
                    /\ st[n].do = "option eulas" <=> n = L - 3 /\ ~c.skipEulas
                    /\ st[n].do = "options" <=> n = P + 1 /\ ~c.skipOptions
                    /\ st[n].do \in {"page", "precheck"} <=> n <= P
  BY DEF Placed
<1>8. n \in Nat
  BY <1>1
<1>4. CASE n <= P
  <2>1. n \in 1..P /\ n # L /\ n # L - 1 /\ n # L - 2 /\ n # P + 1
    BY <1>1, <1>4
  <2>2. st[n].do \in {"page", "precheck"}
    BY <1>2, <2>1
  <2>3. ~c.skipEulas => n # L - 3
    BY <1>1, <1>4, <1>6
  <2> QED BY <1>4, <2>1, <2>2, <2>3
<1>5. CASE n > P
  <2>0. ~(n <= P)
    BY <1>1, <1>5, <1>8
  <2>1. \/ n \in {L, L - 1, L - 2}
        \/ ~c.skipEulas /\ n = L - 3
        \/ ~c.skipOptions /\ n = P + 1
    <3>1. n \in P + 1..L
      BY <1>1, <1>5
    <3> QED BY <1>7, <3>1
  <2>2. CASE n = L
    <3>1. n # L - 1 /\ n # L - 2 /\ n # L - 3 /\ n # P + 1
      BY <1>1, <1>5, <1>6, <1>8, <2>2
    <3>2. st[n].do = "install"
      BY <1>3, <2>2
    <3> QED BY <2>0, <3>1, <3>2, <2>2
  <2>3. CASE n = L - 1
    <3>1. n # L /\ n # L - 2 /\ n # L - 3 /\ n # P + 1
      BY <1>1, <1>5, <1>6, <1>8, <2>3
    <3>2. st[n].do = "sources"
      BY <1>3, <2>3
    <3> QED BY <2>0, <3>1, <3>2, <2>3
  <2>4. CASE n = L - 2
    <3>1. n # L /\ n # L - 1 /\ n # L - 3 /\ (~c.skipOptions => n # P + 1)
      BY <1>1, <1>5, <1>6, <1>8, <2>4
    <3>2. st[n].do = "option keys"
      BY <1>3, <2>4
    <3> QED BY <2>0, <3>1, <3>2, <2>4
  <2>5. CASE ~c.skipEulas /\ n = L - 3
    <3>1. n # L /\ n # L - 1 /\ n # L - 2 /\ (~c.skipOptions => n # P + 1)
      BY <1>1, <1>5, <1>6, <1>8, <2>5
    <3>2. st[n].do = "option eulas"
      BY <1>3, <2>5
    <3> QED BY <2>0, <3>1, <3>2, <2>5
  <2>6. CASE ~c.skipOptions /\ n = P + 1
    <3>1. n # L /\ n # L - 1 /\ n # L - 2 /\ (~c.skipEulas => n # L - 3)
      BY <1>1, <1>5, <1>6, <1>8, <2>6
    <3>2. st[n].do = "options"
      BY <1>3, <2>6
    <3> QED BY <2>0, <3>1, <3>2, <2>6
  <2> QED BY <2>1, <2>2, <2>3, <2>4, <2>5, <2>6
<1>9. n <= P \/ n > P
  BY <1>1, <1>8
<1> QED
  BY <1>4, <1>5, <1>9, Zenon

\* What a stage of one page shows.
LEMMA PageShown ==
  ASSUME NEW c, WellFormed(c), NEW s \in PrefaceSteps(c), s.do = "page"
  PROVE  /\ s.page \in [kind : {"eula", "key", "readme", "destination"},
                        name : STRING \cup {"destination"}]
         /\ s.page.kind = "eula" => s.page.name \in ToSet(c.eulas)
         /\ s.page.kind = "key" => s.page.name \in ToSet(c.keys)
<1>1. {c.eulas, c.keys, c.readmes} \subseteq Seq(STRING)
  BY DEF WellFormed, Straight, Shaped
<1>2. /\ ToSet(c.eulas) \subseteq STRING /\ ToSet(c.keys) \subseteq STRING
      /\ ToSet(c.readmes) \subseteq STRING
  BY <1>1 DEF ToSet
<1>3. ToSet(<<"destination">>) = {"destination"}
  BY DEF ToSet
<1>4. s # [do |-> "precheck"]
  OBVIOUS
<1>5. CASE s \in AskedPages("eula", c.eulas)
  BY <1>2, <1>5 DEF AskedPages
<1>6. CASE s \in AskedPages("key", c.keys)
  BY <1>2, <1>6 DEF AskedPages
<1>7. CASE s \in AskedPages("readme", c.readmes)
  BY <1>2, <1>7 DEF AskedPages
<1>8. CASE s \in AskedPages("destination", <<"destination">>)
  BY <1>3, <1>8 DEF AskedPages
<1> QED
  BY <1>4, <1>5, <1>6, <1>7, <1>8 DEF PrefaceSteps

\* The names asked for are those of the options found, no more and no less.
LEMMA OptionsAsk ==
  ASSUME WellFormed(cfg), NEW names \in [cfg.option -> Seq(STRING)],
         NEW found \in SUBSET cfg.option
  PROVE  /\ OfOptions(names, found) \in Seq(STRING)
         /\ ToSet(OfOptions(names, found)) = UNION {ToSet(names[o]) : o \in found}
<1> DEFINE ss == [n \in 1..Len(cfg.order) |-> When(cfg.order[n] \in found, names[cfg.order[n]])]
<1>1. cfg.order \in Seq(cfg.option) /\ cfg.option = {cfg.order[n] : n \in DOMAIN cfg.order}
  BY DEF WellFormed, Straight, Shaped, ToSet
<1>2. Len(cfg.order) \in Nat /\ DOMAIN cfg.order = 1..Len(cfg.order)
  BY <1>1
<1>3. \A n \in 1..Len(cfg.order) : ss[n] = When(cfg.order[n] \in found, names[cfg.order[n]])
  OBVIOUS
<1>4. \A n \in 1..Len(cfg.order) : When(cfg.order[n] \in found, names[cfg.order[n]]) \in Seq(STRING)
  <2>1. \A n \in 1..Len(cfg.order) : names[cfg.order[n]] \in Seq(STRING)
    BY <1>1, <1>2
  <2>2. <<>> \in Seq(STRING)
    OBVIOUS
  <2> QED BY <2>1, <2>2, Zenon DEF When
<1>5. ss \in [1..Len(cfg.order) -> Seq(STRING)]
  BY <1>4
<1>6. OfOptions(names, found) = FlattenSeq(ss)
  BY DEF OfOptions
<1> HIDE DEF ss
<1>7. ss \in Seq(Seq(STRING)) /\ Len(ss) = Len(cfg.order)
  <2> DEFINE S == Seq(STRING)
  <2>1. ss \in [1..Len(cfg.order) -> S]
    BY <1>5
  <2> HIDE DEF S
  <2>2. ss \in Seq(S) /\ Len(ss) = Len(cfg.order)
    BY <2>1, <1>2
  <2> QED BY <2>2 DEF S
<1>8. /\ FlattenSeq(ss) \in Seq(STRING)
      /\ ToSet(FlattenSeq(ss)) = UNION {ToSet(ss[n]) : n \in 1..Len(ss)}
  BY <1>7, FlattenElements
<1>9. ToSet(<<>>) = {}
  BY DEF ToSet
<1>10. ASSUME NEW n \in 1..Len(cfg.order), cfg.order[n] \in found
       PROVE  ToSet(ss[n]) = ToSet(names[cfg.order[n]])
  BY <1>3, <1>10 DEF When
<1>11. ASSUME NEW n \in 1..Len(cfg.order), cfg.order[n] \notin found
       PROVE  ToSet(ss[n]) = {}
  BY <1>3, <1>9, <1>11 DEF When
<1>12. ASSUME NEW o \in found PROVE \E n \in 1..Len(cfg.order) : cfg.order[n] = o
  BY <1>1, <1>2
<1>13. UNION {ToSet(ss[n]) : n \in 1..Len(ss)} = UNION {ToSet(names[o]) : o \in found}
  <2>1. ASSUME NEW n \in 1..Len(ss), NEW x \in ToSet(ss[n])
        PROVE  \E o \in found : x \in ToSet(names[o])
    BY <2>1, <1>7, <1>10, <1>11
  <2>2. ASSUME NEW o \in found, NEW x \in ToSet(names[o])
        PROVE  \E n \in 1..Len(ss) : x \in ToSet(ss[n])
    BY <2>2, <1>7, <1>10, <1>12
  <2> DEFINE A == UNION {ToSet(ss[n]) : n \in 1..Len(ss)}
             B == UNION {ToSet(names[o]) : o \in found}
  <2>3. A \subseteq B
    BY <2>1, Zenon
  <2>4. B \subseteq A
    BY <2>2, Zenon
  <2> QED BY <2>3, <2>4
<1> QED
  BY <1>6, <1>8, <1>13, Zenon

-----------------------------------------------------------------------------
(* What every step starts from.                                            *)

Located ==
  /\ WellFormed(cfg)
  /\ Opening \in Nat /\ Final \in Nat /\ Opening + 3 <= Final
  /\ ~cfg.skipEulas => Opening + 4 <= Final
  /\ ~cfg.skipOptions => Opening + 4 <= Final
  /\ ~cfg.skipOptions /\ ~cfg.skipEulas => Opening + 5 <= Final
  /\ Placed(cfg, Stages(cfg), Opening, Final)

\* The facts about the stages, for the configuration that is installed.
LEMMA Locate ==
  ASSUME cfg \in Configs
  PROVE  Located /\ StageFacts(cfg, Stages(cfg), Opening, Final)
<1>1. WellFormed(cfg)
  BY ConfigsAssumption
<1>2. StageFacts(cfg, Stages(cfg), Opening, Final)
  BY <1>1, StagesAre DEF Opening, Final
<1>3. Placed(cfg, Stages(cfg), Opening, Final)
  BY <1>2, StagesPlaced
<1> QED
  BY <1>1, <1>2, <1>3 DEF Located, StageFacts

\* The page that is shown, and the stage it belongs to.
Shows(h, d) ==
  /\ d \in Showable
  /\ d = "page" => /\ h = Stage.page /\ i <= Opening
                   /\ h.kind \in {"eula", "key", "readme", "destination"}
                   /\ h.kind = "eula" => h.name \in ToSet(cfg.eulas)
                   /\ h.kind = "key" => h.name \in ToSet(cfg.keys)
  /\ d = "options" => h.kind = "options"
  /\ d = "option eulas" =>
       h.kind = "option eula" /\ \E o \in Found(cfg, sel) : h.name \in ToSet(cfg.optEulas[o])
  /\ d = "option keys" =>
       h.kind = "key" /\ \E o \in Found(cfg, sel) : h.name \in ToSet(cfg.optKeys[o])

\* A stage of one page is before the options and asks what the package does.
LEMMA StagePage ==
  ASSUME cfg \in Configs, i \in 1..Final, Stage.do = "page"
  PROVE  /\ i <= Opening
         /\ Stage.page \in [kind : {"eula", "key", "readme", "destination"},
                            name : STRING \cup {"destination"}]
         /\ Stage.page.kind = "eula" => Stage.page.name \in ToSet(cfg.eulas)
         /\ Stage.page.kind = "key" => Stage.page.name \in ToSet(cfg.keys)
<1>1. Located /\ StageFacts(cfg, Stages(cfg), Opening, Final)
  BY Locate
<1>2. i <= Opening
  BY <1>1 DEF Located, Placed, Stage
<1>3. Stage \in PrefaceSteps(cfg)
  <2>1. i \in 1..Opening
    BY <1>1, <1>2 DEF Located
  <2> QED BY <1>1, <2>1 DEF StageFacts, Stage
<1> QED
  BY <1>1, <1>2, <1>3, PageShown DEF Located

\* The page that is shown is one of its stage.
LEMMA HeadShown ==
  ASSUME StagesInOrder, PagesFit, inside, todo # <<>>
  PROVE  Shows(Head(todo), Stage.do)
<1>1. Len(todo) \in Nat /\ Len(todo) > 0 /\ Head(todo) = todo[1]
  <2>1. todo \in Seq(Answerable)
    BY DEF PagesFit
  <2> QED BY <2>1
<1>2. 1 \in 1..Len(todo)
  BY <1>1
<1>3. /\ Stage.do = "page" => todo[1] = Stage.page
      /\ Stage.do = "options" => todo[1].kind = "options"
      /\ Stage.do = "option eulas" =>
           /\ todo[1].kind = "option eula"
           /\ \E o \in Found(cfg, sel) : todo[1].name \in ToSet(cfg.optEulas[o])
      /\ Stage.do = "option keys" =>
           /\ todo[1].kind = "key"
           /\ \E o \in Found(cfg, sel) : todo[1].name \in ToSet(cfg.optKeys[o])
  BY <1>2, Zenon DEF PagesFit
<1>4. Stage.do \in Showable
  BY DEF PagesFit
<1>5. ASSUME Stage.do = "page"
      PROVE  /\ i <= Opening
             /\ Stage.page.kind \in {"eula", "key", "readme", "destination"}
             /\ Stage.page.kind = "eula" => Stage.page.name \in ToSet(cfg.eulas)
             /\ Stage.page.kind = "key" => Stage.page.name \in ToSet(cfg.keys)
  <2>1. cfg \in Configs /\ i \in 1..Final
    BY DEF StagesInOrder, TypeOK, Final
  <2> QED BY <1>5, <2>1, StagePage
<1> QED
  BY <1>1, <1>3, <1>4, <1>5, Zenon DEF Shows

\* The pages that are left once the first is answered.
LEMMA TailLeft ==
  ASSUME PagesFit, todo # <<>>
  PROVE  /\ Tail(todo) \in Seq(Answerable)
         /\ \A n \in 1..Len(Tail(todo)) : n + 1 \in 1..Len(todo) /\ Tail(todo)[n] = todo[n + 1]
         /\ \A n \in 1..Len(todo) : n = 1 \/ (n - 1 \in 1..Len(Tail(todo)) /\ Tail(todo)[n - 1] = todo[n])
         /\ Stage.do = "page" => Tail(todo) = <<>>
<1>1. todo \in Seq(Answerable)
  BY DEF PagesFit
<1>2. Len(todo) \in Nat /\ Len(todo) # 0 /\ Len(Tail(todo)) = Len(todo) - 1
  BY <1>1
<1>3. Tail(todo) \in Seq(Answerable)
  <2> HIDE DEF Answerable
  <2> QED BY <1>1
<1>4. \A n \in 1..Len(Tail(todo)) : n + 1 \in 1..Len(todo) /\ Tail(todo)[n] = todo[n + 1]
  BY <1>1, <1>2
<1>5. \A n \in 1..Len(todo) : n = 1 \/ (n - 1 \in 1..Len(Tail(todo)) /\ Tail(todo)[n - 1] = todo[n])
  BY <1>1, <1>2
<1>6. ASSUME Stage.do = "page" PROVE Tail(todo) = <<>>
  <2>1. \A n \in 1..Len(todo) : n = 1
    BY <1>6 DEF PagesFit
  <2>2. Len(todo) = 1
    BY <1>2, <2>1
  <2>3. Len(Tail(todo)) = 0
    BY <1>2, <2>2
  <2>4. \A X, s : s \in Seq(X) /\ Len(s) = 0 => s = <<>>
    OBVIOUS
  <2> QED BY <1>3, <2>3, <2>4, Zenon
<1> QED
  BY <1>3, <1>4, <1>5, <1>6

\* The options found are options, whose values are true.
LEMMA FoundChecked ==
  ASSUME NEW c, NEW s
  PROVE  Found(c, s) \subseteq s
BY DEF Found

\* Correcting a selection makes it legal; the user chooses among options.
LEMMA SelectionKept ==
  ASSUME WellFormed(cfg), sel \subseteq cfg.option
  PROVE  /\ Forced(cfg, sel) \subseteq cfg.option
         /\ Legal(cfg, Radio(cfg, Forced(cfg, sel)))
         /\ Radio(cfg, Forced(cfg, sel)) \subseteq cfg.option
         /\ \A t \in Selections(cfg, sel) : t \subseteq cfg.option
<1>1. Forced(cfg, sel) \subseteq cfg.option /\ Forced(cfg, Forced(cfg, sel)) = Forced(cfg, sel)
  BY ForcedOptions
<1>2. Legal(cfg, Radio(cfg, Forced(cfg, sel)))
  BY <1>1, RadioLegal
<1>3. \A t \in Selections(cfg, sel) : t \subseteq cfg.option
  BY MembersOf DEF Selections
<1> QED
  BY <1>1, <1>2, <1>3 DEF Legal

-----------------------------------------------------------------------------
(* The invariant holds at first.                                           *)

\* Conjunct by conjunct, from the initial values.
LEMMA InitIInv == Init => IInv
<1> SUFFICES ASSUME Init PROVE IInv
  OBVIOUS
<1>1. /\ cfg \in Configs /\ i = 1 /\ inside = FALSE /\ todo = <<>> /\ sel = cfg.checked
      /\ accepted = {} /\ keys = {} /\ files = {} /\ written = {}
      /\ back = 0 /\ doubts = 0 /\ status = "running"
  BY DEF Init
<1>2. Located
  BY <1>1, Locate
<1>3. sel \subseteq cfg.option
  BY <1>1, <1>2 DEF Located, WellFormed, Straight, Shaped
<1>4. StagesInOrder
  <2>1. i \in 1..Len(Stages(cfg)) /\ back \in 0..Len(Stages(cfg))
    BY <1>1, <1>2 DEF Located, Final
  <2>2. doubts \in 0..Patience
    BY <1>1, PatienceAssumption
  <2>3. /\ accepted \subseteq Licenses(cfg) /\ keys \subseteq Keys(cfg)
        /\ written \subseteq keys /\ files \subseteq cfg.option /\ inside \in BOOLEAN
    BY <1>1
  <2> QED
    BY <1>1, <1>3, <2>1, <2>2, <2>3, Zenon DEF StagesInOrder, TypeOK, NeverStepsOverStart
<1>5. PagesFit
  <2>1. todo \in Seq(Answerable) /\ Len(todo) = 0
    BY <1>1
  <2> QED BY <1>1, <2>1 DEF PagesFit
<1>6. PackageAsked
  BY <1>1, <1>2 DEF PackageAsked, Done, Located
<1>7. OptionsAsked
  <2>1. ~Reached(Final - 2) /\ (~cfg.skipEulas => ~Reached(Final - 3))
    BY <1>1, <1>2 DEF Reached, Located
  <2> QED BY <2>1 DEF OptionsAsked
<1>8. Corrected
  BY <1>1, <1>2 DEF Corrected, Located
<1>9. WentBack
  BY <1>1 DEF WentBack
<1>10. Outcome
  BY <1>1, <1>2 DEF Outcome, Located
<1> QED
  BY <1>4, <1>5, <1>6, <1>7, <1>8, <1>9, <1>10 DEF IInv

-----------------------------------------------------------------------------
(* Every step keeps it: first the types, and the pages that are shown.     *)

\* What a step finds: the invariant, and a page that is answered.
LEMMA Answering ==
  ASSUME IInv, NEW K, Showing(K)
  PROVE  /\ Running /\ inside /\ todo # <<>> /\ Head(todo).kind \in K
         /\ Shows(Head(todo), Stage.do)
  BY HeadShown DEF IInv, Showing

\* A license is shown by the stage it belongs to.
LEMMA LicenseShown ==
  ASSUME IInv, Showing(License)
  PROVE  \/ Stage.do = "page" /\ i <= Opening /\ Head(todo) = Stage.page
            /\ Head(todo).kind = "eula" /\ Name \in ToSet(cfg.eulas)
         \/ Stage.do = "option eulas" /\ i = Final - 3 /\ ~cfg.skipEulas
            /\ Head(todo).kind = "option eula"
            /\ \E o \in Found(cfg, sel) : Name \in ToSet(cfg.optEulas[o])
<1>1. Shows(Head(todo), Stage.do) /\ Head(todo).kind \in {"eula", "option eula"}
  BY Answering DEF License
<1>2. Located /\ i \in 1..Final
  BY Locate DEF IInv, StagesInOrder, TypeOK, Final
<1>3. Stage.do = "option eulas" => i = Final - 3 /\ ~cfg.skipEulas
  BY <1>2 DEF Located, Placed, Stage
<1>4. Stage.do \in {"page", "option eulas"}
  BY <1>1 DEF Shows, Showable
<1> QED
  BY <1>1, <1>3, <1>4 DEF Shows, Name

\* So is a key.
LEMMA KeyShown ==
  ASSUME IInv, Showing({"key"})
  PROVE  \/ Stage.do = "page" /\ i <= Opening /\ Head(todo) = Stage.page
            /\ Name \in ToSet(cfg.keys)
         \/ Stage.do = "option keys" /\ i = Final - 2
            /\ \E o \in Found(cfg, sel) : Name \in ToSet(cfg.optKeys[o])
<1>1. Shows(Head(todo), Stage.do) /\ Head(todo).kind = "key"
  BY Answering
<1>2. Located /\ i \in 1..Final
  BY Locate DEF IInv, StagesInOrder, TypeOK, Final
<1>3. Stage.do = "option keys" => i = Final - 2
  BY <1>2 DEF Located, Placed, Stage
<1>4. Stage.do \in {"page", "option keys"}
  BY <1>1 DEF Shows, Showable
<1> QED
  BY <1>1, <1>3, <1>4 DEF Shows, Name

\* And the options by theirs.
LEMMA OptionsShown ==
  ASSUME IInv, Showing({"options"})
  PROVE  i = Opening + 1 /\ ~cfg.skipOptions /\ Stage.do = "options"
<1>1. Shows(Head(todo), Stage.do) /\ Head(todo).kind = "options"
  BY Answering
<1>2. Located /\ i \in 1..Final
  BY Locate DEF IInv, StagesInOrder, TypeOK, Final
<1>4. Stage.do = "options"
  BY <1>1 DEF Shows, Showable
<1> QED
  BY <1>2, <1>4 DEF Located, Placed, Stage

\* A stage that may be called is not the last but one that installs.
LEMMA InsideBefore ==
  ASSUME IInv, inside
  PROVE  i \in 1..(Final - 2)
<1>1. Located /\ i \in 1..Final
  BY Locate DEF IInv, StagesInOrder, TypeOK, Final
<1>2. Stage.do \in Showable
  BY DEF IInv, PagesFit
<1>3. i # Final /\ i # Final - 1
  BY <1>1, <1>2 DEF Located, Placed, Stage, Showable
<1> QED
  BY <1>1, <1>3 DEF Located

\* The configuration is the one chosen at first, and so are its stages.
LEMMA SameConfig ==
  ASSUME [Next]_vars
  PROVE  /\ cfg' = cfg /\ Final' = Final /\ Opening' = Opening
         /\ Stages(cfg)' = Stages(cfg) /\ Stage' = Stages(cfg)[i']
<1>1. cfg' = cfg
  BY Zenon DEF Next, Driver, User, vars, ShowPages, ShowOptions, Precheck, Sources, InstallFiles,
     Leave, ReadOn, Accept, Refuse, GiveKey, AskAgain, Choose, GoBack, Cancel
<1>2. Stages(cfg)' = Stages(cfg) /\ Preface(cfg)' = Preface(cfg)
  BY <1>1
<1> QED
  BY <1>1, <1>2, Zenon DEF Final, Opening, Stage

\* What the stage is tells where it is.
LEMMA Where ==
  ASSUME IInv
  PROVE  /\ Stage.do = "install" <=> i = Final
         /\ Stage.do = "sources" <=> i = Final - 1
         /\ Stage.do = "option keys" <=> i = Final - 2
         /\ Stage.do = "option eulas" <=> i = Final - 3 /\ ~cfg.skipEulas
         /\ Stage.do = "options" <=> i = Opening + 1 /\ ~cfg.skipOptions
         /\ Stage.do \in {"page", "precheck"} <=> i <= Opening
<1>1. Located /\ i \in 1..Final
  BY Locate DEF IInv, StagesInOrder, TypeOK, Final
<1> QED
  BY <1>1, Zenon DEF Located, Placed, Stage

\* Where a step leads.
Ahead ==
  /\ i' = i + 1 /\ inside' = FALSE /\ todo' = <<>> /\ i < Final /\ Running
  /\ UNCHANGED <<back, sel, accepted, keys, doubts, status, written>>

Called ==
  /\ i' = i /\ inside' = TRUE /\ ~inside /\ Running
  /\ UNCHANGED <<back, accepted, keys, files, written, doubts, status>>

Answered ==
  /\ i' = i /\ inside' = inside /\ todo' = Tail(todo) /\ back' = 0 /\ Running /\ inside
  /\ todo # <<>>
  /\ UNCHANGED <<files, written, status>>

Behind ==
  /\ i' = i - 1 /\ inside' = FALSE /\ todo' = <<>> /\ back' = i /\ i > 1 /\ Running
  /\ inside /\ todo # <<>>
  /\ UNCHANGED <<keys, files, written, status>>

Halted ==
  /\ i' = i /\ inside' = inside /\ todo' = todo /\ UNCHANGED <<sel, keys, files>>
  /\ back' \in {0, back}

\* Every step goes one of these ways.
LEMMA Moves ==
  ASSUME IInv, [Next]_vars
  PROVE  Ahead \/ Called \/ Answered \/ Behind \/ Halted
<1>1. Located /\ i \in 1..Final
  BY Locate DEF IInv, StagesInOrder, TypeOK, Final
<1>2. CASE ShowPages \/ ShowOptions
  BY <1>2, Zenon DEF ShowPages, ShowOptions, Enter, Called, outcome, answers
<1>3. CASE Precheck
  <2>1. i < Final
    <3>1. i <= Opening
      BY <1>3, Where DEF Precheck
    <3> QED BY <1>1, <3>1 DEF Located
  <2> QED BY <1>3, <2>1, Zenon DEF Precheck, Stopped, Advance, Ahead, Halted, place, answers, outcome
<1>4. CASE Sources
  <2>1. i < Final
    <3>1. i = Final - 1
      BY <1>4, Where DEF Sources
    <3> QED BY <1>1, <3>1 DEF Located
  <2> QED BY <1>4, <2>1, Zenon DEF Sources, Stopped, Advance, Ahead, Halted, place, answers, outcome
<1>5. CASE InstallFiles
  BY <1>5, Zenon DEF InstallFiles, Stopped, Halted, place, answers, outcome
<1>6. CASE Leave
  <2>1. i < Final
    BY <1>1, <1>6, InsideBefore DEF Leave, Located
  <2> QED BY <1>6, <2>1, Zenon DEF Leave, Advance, Ahead, answers, outcome
<1>7. CASE ReadOn \/ Accept \/ GiveKey \/ Choose
  BY <1>7, Zenon DEF ReadOn, Accept, GiveKey, Choose, Showing, PageDone, Answered, outcome
<1>8. CASE Refuse
  <2>1. CASE FatalToRefuse
    BY <1>8, <2>1, Zenon DEF Refuse, Halted, place, outcome
  <2>2. CASE ~FatalToRefuse
    <3>1. i # 1
      BY <2>2 DEF FatalToRefuse
    <3>2. i > 1
      BY <1>1, <3>1
    <3> QED BY <1>8, <2>2, <3>1, <3>2, Zenon DEF Refuse, StepBack, Behind, outcome, Showing
  <2> QED BY <2>1, <2>2
<1>9. CASE AskAgain \/ Cancel
  BY <1>9, Zenon DEF AskAgain, Cancel, Halted, place, answers, outcome
<1>10. CASE GoBack
  <2>1. i # 1
    BY <1>1, <1>10 DEF GoBack
  <2> QED BY <1>10, <2>1, Zenon DEF GoBack, StepBack, Behind, outcome
<1>11. CASE UNCHANGED vars
  BY <1>11, Zenon DEF vars, Halted
<1> QED
  BY <1>2, <1>3, <1>4, <1>5, <1>6, <1>7, <1>8, <1>9, <1>10, <1>11, Zenon DEF Next, Driver, User

\* Types, the place of the stages, and no step over their start.
LEMMA OrderKept ==
  ASSUME IInv, [Next]_vars
  PROVE  StagesInOrder'
<1>1. Located /\ i \in 1..Final /\ TypeOK /\ status # "bug"
  BY Locate DEF IInv, StagesInOrder, TypeOK, Final, NeverStepsOverStart
<1>2. cfg' = cfg /\ Final' = Final /\ Final \in Nat
  BY <1>1, SameConfig DEF Located
<1>3. i' \in 1..Final /\ inside' \in BOOLEAN /\ back' \in 0..Final
  <2>1. inside \in BOOLEAN /\ back \in 0..Final
    BY <1>1 DEF TypeOK, Final
  <2>2. i' \in 1..Final
    <3>1. CASE Ahead
      BY <1>1, <1>2, <3>1 DEF Ahead
    <3>2. CASE Behind
      BY <1>1, <1>2, <3>2 DEF Behind
    <3>3. CASE Called \/ Answered \/ Halted
      BY <1>1, <3>3 DEF Called, Answered, Halted
    <3> QED BY <3>1, <3>2, <3>3, Moves
  <2>3. back' \in {0, back, i}
    BY Moves DEF Ahead, Called, Answered, Behind, Halted
  <2>4. back' \in 0..Final
    BY <1>1, <1>2, <2>1, <2>3
  <2>5. inside' \in {FALSE, TRUE, inside}
    BY Moves DEF Ahead, Called, Answered, Behind, Halted
  <2> QED BY <2>1, <2>2, <2>4, <2>5
<1>4. sel' \subseteq cfg.option
  <2>1. sel \subseteq cfg.option
    BY <1>1 DEF TypeOK
  <2>2. sel' = sel \/ sel' = Radio(cfg, Forced(cfg, sel)) \/ sel' \in Selections(cfg, sel)
    BY Zenon DEF Next, Driver, User, vars, ShowPages, ShowOptions, Precheck, Sources, InstallFiles,
       Leave, ReadOn, Accept, Refuse, GiveKey, AskAgain, Choose, GoBack, Cancel, answers
  <2> QED BY <1>1, <2>1, <2>2, SelectionKept DEF Located
<1>5. files' \subseteq cfg.option
  <2>1. sel \subseteq cfg.option /\ files \subseteq cfg.option
    BY <1>1 DEF TypeOK
  <2>2. files' = files \/ files' = Found(cfg, sel)
    BY Zenon DEF Next, Driver, User, vars, ShowPages, ShowOptions, Precheck, Sources, InstallFiles,
       Leave, ReadOn, Accept, Refuse, GiveKey, AskAgain, Choose, GoBack, Cancel, outcome, Stopped
  <2> QED BY <2>1, <2>2, FoundChecked
<1>6. accepted' \subseteq Licenses(cfg)
  <2>1. accepted \subseteq Licenses(cfg)
    BY <1>1 DEF TypeOK
  <2>2. CASE Accept
    <3>1. Name \in Licenses(cfg)
      <4>1. Found(cfg, sel) \subseteq cfg.option
        BY <1>1, FoundChecked DEF TypeOK
      <4> QED BY <2>2, <4>1, LicenseShown DEF Accept, Licenses
    <3> QED BY <2>1, <2>2, <3>1 DEF Accept
  <2>3. CASE Refuse
    BY <2>1, <2>3 DEF Refuse
  <2>4. CASE ~Accept /\ ~Refuse
    <3>1. accepted' = accepted
      BY <2>4, Zenon DEF Next, Driver, User, vars, ShowPages, ShowOptions, Precheck, Sources, InstallFiles,
         Leave, ReadOn, GiveKey, AskAgain, Choose, GoBack, Cancel, answers
    <3> QED BY <2>1, <3>1
  <2> QED BY <2>2, <2>3, <2>4
<1>7. keys' \subseteq Keys(cfg) /\ keys \subseteq keys'
  <2>1. keys \subseteq Keys(cfg)
    BY <1>1 DEF TypeOK
  <2>2. CASE GiveKey
    <3>1. Name \in Keys(cfg)
      <4>1. Found(cfg, sel) \subseteq cfg.option
        BY <1>1, FoundChecked DEF TypeOK
      <4> QED BY <2>2, <4>1, KeyShown DEF GiveKey, Keys
    <3> QED BY <2>1, <2>2, <3>1 DEF GiveKey
  <2>4. CASE ~GiveKey
    <3>1. keys' = keys
      BY <2>4, Zenon DEF Next, Driver, User, vars, ShowPages, ShowOptions, Precheck, Sources, InstallFiles,
         Leave, ReadOn, Accept, Refuse, AskAgain, Choose, GoBack, Cancel, answers
    <3> QED BY <2>1, <3>1
  <2> QED BY <2>2, <2>4
<1>8. written' \subseteq keys'
  <2>1. written' = written \/ written' = keys
    BY Zenon DEF Next, Driver, User, vars, ShowPages, ShowOptions, Precheck, Sources, InstallFiles,
       Leave, ReadOn, Accept, Refuse, GiveKey, AskAgain, Choose, GoBack, Cancel, outcome, Stopped
  <2> QED BY <1>1, <1>7, <2>1 DEF TypeOK
<1>9. doubts' \in 0..Patience
  <2>1. doubts \in 0..Patience
    BY <1>1 DEF TypeOK
  <2>2. doubts' = doubts \/ Doubt
    BY Zenon DEF Next, Driver, User, vars, ShowPages, ShowOptions, Precheck, Sources, InstallFiles,
       Leave, ReadOn, Accept, Refuse, GiveKey, AskAgain, Choose, GoBack, Cancel, Stopped
  <2> QED BY <2>1, <2>2, PatienceAssumption DEF Doubt
<1>10. status' \in {"running", "installed", "cancelled", "refused", "stopped", "error"}
  <2>1. status \in {"running", "installed", "cancelled", "refused", "stopped", "error"}
    BY <1>1 DEF TypeOK
  <2>2. CASE Refuse \/ GoBack
    <3>1. i # 1 \/ FatalToRefuse
      BY DEF FatalToRefuse
    <3>2. status' = status \/ status' = "refused"
      BY <1>1, <2>2, <3>1 DEF Refuse, GoBack, StepBack
    <3> QED BY <2>1, <3>2
  <2>3. CASE ~Refuse /\ ~GoBack
    <3>1. status' \in {status, "installed", "cancelled", "stopped", "error"}
      BY <2>3 DEF Next, Driver, User, vars, ShowPages, ShowOptions, Precheck, Sources, InstallFiles,
         Leave, ReadOn, Accept, GiveKey, AskAgain, Choose, Cancel, Stopped
    <3> QED BY <2>1, <3>1
  <2> QED BY <2>2, <2>3
<1>11. TypeOK'
  <2>1. Licenses(cfg)' = Licenses(cfg) /\ Keys(cfg)' = Keys(cfg) /\ cfg \in Configs
        /\ Len(Stages(cfg))' = Final
    BY <1>1, <1>2, Zenon DEF TypeOK, Final
  <2> QED
    BY <1>2, <1>3, <1>4, <1>5, <1>6, <1>7, <1>8, <1>9, <1>10, <2>1 DEF TypeOK
<1> QED
  BY <1>10, <1>11 DEF StagesInOrder, NeverStepsOverStart

-----------------------------------------------------------------------------
(* The pages of a stage that is called.                                    *)

\* A sequence over a set is one over a larger set.
LEMMA SeqOfSubset ==
  ASSUME NEW X, NEW Y, X \subseteq Y, NEW q \in Seq(X)
  PROVE  q \in Seq(Y)
<1>1. q \in [1..Len(q) -> X] /\ Len(q) \in Nat
  OBVIOUS
<1>2. q \in [1..Len(q) -> Y]
  BY <1>1
<1> QED
  BY <1>1, <1>2

\* The pages of a list of names.
PagesFor(pages, k, shown) ==
  /\ \A n \in 1..Len(pages) : pages[n].kind = k /\ pages[n].name \in shown
  /\ \A name \in shown : \E n \in 1..Len(pages) : pages[n].name = name

\* What the pages of a list of names show.
LEMMA PagesOf ==
  ASSUME NEW k, NEW X, NEW asked \in Seq(X), NEW pages, PageFacts(pages, k, X, asked)
  PROVE  PagesFor(pages, k, ToSet(asked))
<1>1. ToSet(asked) = {asked[n] : n \in 1..Len(asked)}
  <2>1. DOMAIN asked = 1..Len(asked)
    OBVIOUS
  <2> QED BY <2>1 DEF ToSet
<1>2. /\ Len(pages) = Len(asked) /\ Len(asked) = Len(pages)
      /\ \A n \in 1..Len(asked) : pages[n] = [kind |-> k, name |-> asked[n]]
  BY DEF PageFacts
<1>3. \A a : [kind |-> k, name |-> a].kind = k /\ [kind |-> k, name |-> a].name = a
  OBVIOUS
<1>4. ASSUME NEW n \in 1..Len(pages)
      PROVE  pages[n].kind = k /\ pages[n].name = asked[n]
  <2>1. n \in 1..Len(asked)
    BY <1>2, <1>4, Zenon
  <2>2. pages[n] = [kind |-> k, name |-> asked[n]]
    BY <1>2, <2>1, Zenon
  <2> QED BY <1>3, <2>2, Zenon
<1> HIDE DEF PageFacts
<1>5. \A n \in 1..Len(pages) : asked[n] \in ToSet(asked)
  BY <1>1, <1>2, Zenon
<1>6. ASSUME NEW name \in ToSet(asked)
      PROVE  \E n \in 1..Len(pages) : pages[n].name = name
  <2>1. PICK n \in 1..Len(asked) : name = asked[n]
    BY <1>1, Zenon
  <2> QED BY <1>2, <1>4, <2>1, Zenon
<1> QED
  BY <1>4, <1>5, <1>6, Zenon DEF PagesFor

\* The pages show the names of those options, each of them, and nothing else.
Ask(pages, k, names, found) ==
  /\ pages \in Seq(Answerable)
  /\ \A n \in 1..Len(pages) : /\ pages[n].kind = k
                              /\ \E o \in found : pages[n].name \in ToSet(names[o])
  /\ \A o \in found : \A name \in ToSet(names[o]) :
       \E n \in 1..Len(pages) : pages[n].name = name

\* The pages of a stage for the options ask for all their names.
LEMMA AskAll ==
  ASSUME WellFormed(cfg), NEW names \in [cfg.option -> Seq(STRING)],
         NEW found \in SUBSET cfg.option, NEW k \in {"option eula", "key"}
  PROVE  Ask(Page(k, OfOptions(names, found)), k, names, found)
<1> DEFINE asked == OfOptions(names, found)
           pages == Page(k, asked)
<1>1. asked \in Seq(STRING) /\ ToSet(asked) = UNION {ToSet(names[o]) : o \in found}
  BY OptionsAsk
<1>2. PageFacts(pages, k, STRING, asked)
  BY <1>1, PageSeq
<1> HIDE DEF asked, pages
<1>3. /\ \A n \in 1..Len(pages) : pages[n].kind = k /\ pages[n].name \in ToSet(asked)
      /\ \A name \in ToSet(asked) : \E n \in 1..Len(pages) : pages[n].name = name
  <2>1. asked \in Seq(STRING)
    BY <1>1
  <2>2. PagesFor(pages, k, ToSet(asked))
    BY <1>2, <2>1, PagesOf
  <2> QED BY <2>2, Zenon DEF PagesFor
<1>4. pages \in Seq(Answerable)
  <2>1. [kind : {k}, name : STRING] \subseteq Answerable
    BY DEF Answerable, License
  <2>2. pages \in Seq([kind : {k}, name : STRING])
    BY <1>2 DEF PageFacts
  <2> QED BY <2>1, <2>2, SeqOfSubset
<1>5. \A n \in 1..Len(pages) : /\ pages[n].kind = k
                              /\ \E o \in found : pages[n].name \in ToSet(names[o])
  <2>1. \A a \in ToSet(asked) : \E o \in found : a \in ToSet(names[o])
    BY <1>1
  <2> QED BY <1>3, <2>1, Zenon
<1>6. \A o \in found : \A name \in ToSet(names[o]) :
        \E n \in 1..Len(pages) : pages[n].name = name
  <2>1. \A o \in found : ToSet(names[o]) \subseteq ToSet(asked)
    BY <1>1
  <2> QED BY <1>3, <2>1
<1> QED
  BY <1>4, <1>5, <1>6, Zenon DEF Ask, asked, pages

\* What a stage shows when it is called.
LEMMA PagesShown ==
  ASSUME IInv, ShowPages
  PROVE  /\ sel' = sel
         /\ Stage.do \in {"page", "option eulas", "option keys"}
         /\ Stage.do = "page" => todo' = <<Stage.page>> /\ Stage.page \in Answerable
         /\ Stage.do = "option eulas" =>
              Ask(todo', "option eula", cfg.optEulas, Found(cfg, sel))
         /\ Stage.do = "option keys" => Ask(todo', "key", cfg.optKeys, Found(cfg, sel))
<1>1. Located /\ i \in 1..Final /\ cfg \in Configs /\ sel \subseteq cfg.option
  BY Locate DEF IInv, StagesInOrder, TypeOK, Final
<1>2. /\ Stage.do \in {"page", "option eulas", "option keys"}
      /\ todo' = Pages /\ sel' = sel
  BY DEF ShowPages, Enter, answers
<1>3. Found(cfg, sel) \in SUBSET cfg.option
  BY <1>1, FoundChecked
<1>4. /\ cfg.optEulas \in [cfg.option -> Seq(STRING)]
      /\ cfg.optKeys \in [cfg.option -> Seq(STRING)]
  BY <1>1 DEF Located, WellFormed, Straight, Shaped
<1>5. ASSUME Stage.do = "page" PROVE todo' = <<Stage.page>> /\ Stage.page \in Answerable
  <2>1. todo' = <<Stage.page>>
    BY <1>2, <1>5 DEF Pages
  <2> QED BY <1>1, <1>5, <2>1, StagePage DEF Answerable, License
<1>6. ASSUME Stage.do = "option eulas"
      PROVE  Ask(todo', "option eula", cfg.optEulas, Found(cfg, sel))
  <2>1. todo' = Page("option eula", OfOptions(cfg.optEulas, Found(cfg, sel)))
    BY <1>2, <1>6 DEF Pages
  <2> QED BY <1>1, <1>3, <1>4, <2>1, AskAll DEF Located
<1>7. ASSUME Stage.do = "option keys"
      PROVE  Ask(todo', "key", cfg.optKeys, Found(cfg, sel))
  <2>1. todo' = Page("key", OfOptions(cfg.optKeys, Found(cfg, sel)))
    BY <1>2, <1>7 DEF Pages
  <2> QED BY <1>1, <1>3, <1>4, <2>1, AskAll DEF Located
<1> QED
  BY <1>2, <1>5, <1>6, <1>7

\* The selection changes on the page of the options only.
LEMMA SelChanges ==
  ASSUME IInv, [Next]_vars
  PROVE  \/ sel' = sel
         \/ ShowOptions /\ sel' = Radio(cfg, Forced(cfg, sel))
         \/ (Choose \/ GoBack) /\ Showing({"options"}) /\ sel' \in Selections(cfg, sel)
BY Zenon DEF Next, Driver, User, vars, ShowPages, ShowOptions, Precheck, Sources, InstallFiles,
   Leave, ReadOn, Accept, Refuse, GiveKey, AskAgain, Choose, GoBack, Cancel, answers

\* Only two actions call a stage that shows pages.
LEMMA CalledBy ==
  ASSUME [Next]_vars, ~inside, inside'
  PROVE  ShowPages \/ ShowOptions
BY Zenon DEF Next, Driver, User, vars, Precheck, Sources, InstallFiles, Leave, ReadOn, Accept,
   Refuse, GiveKey, AskAgain, Choose, GoBack, Cancel, Stopped, Advance, PageDone, StepBack, place

\* The pages stay those of the stage that shows them.
LEMMA PagesKept ==
  ASSUME IInv, [Next]_vars
  PROVE  PagesFit'
<1>1. PagesFit /\ cfg' = cfg /\ Stage' = Stages(cfg)[i']
  BY SameConfig DEF IInv
<1>2. CASE Ahead \/ Behind
  <2>1. inside' = FALSE /\ todo' = <<>>
    BY <1>2 DEF Ahead, Behind
  <2>2. todo' \in Seq(Answerable) /\ Len(todo') = 0
    BY <2>1
  <2> QED BY <2>1, <2>2 DEF PagesFit
<1>3. CASE Halted
  <2>1. inside' = inside /\ todo' = todo /\ sel' = sel /\ Stage' = Stage
    BY <1>1, <1>3 DEF Halted, Stage
  <2> QED BY <1>1, <2>1, Zenon DEF PagesFit
<1>4. CASE Answered
  <2>1. inside' = TRUE /\ todo' = Tail(todo) /\ Stage' = Stage /\ inside /\ todo # <<>>
    BY <1>1, <1>4 DEF Answered, Stage, IInv, PagesFit
  <2>2. sel' = sel \/ Stage.do = "options"
    <3>1. ~ShowOptions
      BY <2>1 DEF ShowOptions
    <3> QED BY <3>1, SelChanges, OptionsShown
  <2>3. Stage.do \in Showable /\ todo' \in Seq(Answerable)
    BY <1>1, <2>1, TailLeft DEF PagesFit
  <2>4. ASSUME NEW n \in 1..Len(todo')
        PROVE  n + 1 \in 1..Len(todo) /\ todo'[n] = todo[n + 1] /\ Stage.do # "page"
    <3>1. n + 1 \in 1..Len(todo) /\ todo'[n] = todo[n + 1]
      BY <1>1, <2>1, <2>4, TailLeft
    <3>2. ASSUME Stage.do = "page" PROVE FALSE
      <4>1. todo' = <<>>
        BY <1>1, <2>1, <3>2, TailLeft
      <4> QED BY <2>4, <4>1
    <3> QED BY <3>1, <3>2
  <2>5. ASSUME NEW n \in 1..Len(todo')
        PROVE  /\ Stage.do = "page" => n = 1 /\ todo'[n] = Stage.page
               /\ Stage.do = "options" => todo'[n].kind = "options"
               /\ Stage.do = "option eulas" =>
                    /\ todo'[n].kind = "option eula"
                    /\ \E o \in Found(cfg, sel') : todo'[n].name \in ToSet(cfg.optEulas[o])
               /\ Stage.do = "option keys" =>
                    /\ todo'[n].kind = "key"
                    /\ \E o \in Found(cfg, sel') : todo'[n].name \in ToSet(cfg.optKeys[o])
    <3>1. /\ Stage.do = "options" => todo'[n].kind = "options"
          /\ Stage.do = "option eulas" =>
               /\ todo'[n].kind = "option eula"
               /\ \E o \in Found(cfg, sel) : todo'[n].name \in ToSet(cfg.optEulas[o])
          /\ Stage.do = "option keys" =>
               /\ todo'[n].kind = "key"
               /\ \E o \in Found(cfg, sel) : todo'[n].name \in ToSet(cfg.optKeys[o])
      BY <1>1, <2>4, <2>5, Zenon DEF PagesFit
    <3>2. CASE sel' = sel
      BY <2>4, <2>5, <3>1, <3>2, Zenon
    <3>3. CASE Stage.do = "options"
      BY <3>1, <3>3
    <3> QED BY <2>2, <3>2, <3>3
  <2> QED BY <1>1, <2>1, <2>3, <2>5, Zenon DEF PagesFit
<1>5. CASE Called /\ ShowPages
  <2>1. Stage' = Stage /\ inside' = TRUE /\ sel' = sel
    BY <1>1, <1>5, PagesShown DEF Called, Stage
  <2>2. CASE Stage.do = "page"
    <3>1. todo' = <<Stage.page>> /\ Stage.page \in Answerable
      BY <1>5, <2>2, PagesShown
    <3>2. todo' \in Seq(Answerable) /\ Len(todo') = 1 /\ todo'[1] = Stage.page
      BY <3>1
    <3>3. \A n \in 1..Len(todo') : n = 1
      BY <3>2
    <3> QED BY <2>1, <2>2, <3>2, <3>3 DEF PagesFit, Showable
  <2>3. CASE Stage.do = "option eulas"
    BY <1>1, <1>5, <2>1, <2>3, PagesShown DEF Ask, PagesFit, Showable
  <2>4. CASE Stage.do = "option keys"
    BY <1>1, <1>5, <2>1, <2>4, PagesShown DEF Ask, PagesFit, Showable
  <2> QED BY <1>5, <2>2, <2>3, <2>4, PagesShown
<1>6. CASE Called /\ ShowOptions
  <2>1. /\ Stage' = Stage /\ inside' = TRUE /\ Stage.do = "options"
        /\ todo' = When(Shown(cfg) # {}, Page("options", <<"options">>))
    BY <1>1, <1>6 DEF Called, Stage, ShowOptions, Enter
  <2>2. PageFacts(Page("options", <<"options">>), "options", {"options"}, <<"options">>)
    <3>1. <<"options">> \in Seq({"options"})
      OBVIOUS
    <3> QED BY <3>1, PageSeq
  <2>3. /\ Page("options", <<"options">>) \in Seq([kind : {"options"}, name : {"options"}])
        /\ \A n \in 1..Len(Page("options", <<"options">>)) :
             Page("options", <<"options">>)[n].kind = "options"
    <3> DEFINE p == Page("options", <<"options">>)
    <3>1. p \in Seq([kind : {"options"}, name : {"options"}])
      BY <2>2 DEF PageFacts
    <3>2. ASSUME NEW n \in 1..Len(p) PROVE p[n].kind = "options"
      <4> HIDE DEF p
      <4>1. p[n] \in [kind : {"options"}, name : {"options"}]
        <5>1. \A X, q, m : q \in Seq(X) /\ m \in 1..Len(q) => q[m] \in X
          OBVIOUS
        <5> QED BY <3>1, <3>2, <5>1, Zenon
      <4> QED BY <4>1
    <3> QED BY <3>1, <3>2
  <2>4. \A X, Y, q : X \subseteq Y /\ q \in Seq(X) => q \in Seq(Y)
    OBVIOUS
  <2>5. [kind : {"options"}, name : {"options"}] \subseteq Answerable
    BY DEF Answerable
  <2>6. Page("options", <<"options">>) \in Seq(Answerable)
    BY <2>3, <2>4, <2>5, Zenon
  <2>7. /\ todo' \in Seq(Answerable)
        /\ \A n \in 1..Len(todo') : todo'[n].kind = "options"
    <3>1. <<>> \in Seq(Answerable) /\ \A n \in 1..Len(<<>>) : FALSE
      OBVIOUS
    <3> QED BY <2>1, <2>3, <2>6, <3>1, Zenon DEF When
  <2> QED BY <2>1, <2>7 DEF PagesFit, Showable
<1>7. Called => ShowPages \/ ShowOptions
  BY CalledBy DEF Called
<1> QED
  BY <1>2, <1>3, <1>4, <1>5, <1>6, <1>7, Moves

-----------------------------------------------------------------------------
(* What was asked has been answered.                                       *)

\* What is accepted stays accepted while the installation goes on, but for the
\* license of an option that is refused: the way back from it leads to that page.
LEMMA AnswersStay ==
  ASSUME IInv, [Next]_vars, Alive'
  PROVE  /\ Alive /\ keys \subseteq keys'
         /\ Ahead \/ Called \/ Answered \/ Halted => accepted \subseteq accepted'
         /\ \A name \in accepted : name \in ToSet(cfg.eulas) => name \in accepted'
<1>1. Located /\ i \in 1..Final
  BY Locate DEF IInv, StagesInOrder, TypeOK, Final
<1>2. Alive
  BY DEF Next, Driver, User, vars, ShowPages, ShowOptions, Precheck, Sources, InstallFiles,
     Leave, ReadOn, Accept, Refuse, GiveKey, AskAgain, Choose, GoBack, Cancel, Showing, Running, Alive
<1>3. keys \subseteq keys'
  BY DEF Next, Driver, User, vars, ShowPages, ShowOptions, Precheck, Sources, InstallFiles,
     Leave, ReadOn, Accept, Refuse, GiveKey, AskAgain, Choose, GoBack, Cancel, answers
<1>4. CASE ~Refuse
  <2>1. accepted \subseteq accepted'
    BY <1>4 DEF Next, Driver, User, vars, ShowPages, ShowOptions, Precheck, Sources, InstallFiles,
       Leave, ReadOn, Accept, GiveKey, AskAgain, Choose, GoBack, Cancel, answers
  <2> QED BY <1>2, <1>3, <2>1
<1>5. CASE Refuse
  <2>1. ~FatalToRefuse /\ i # 1
    BY <1>5 DEF Refuse, Alive, FatalToRefuse
  <2>2. i' = i - 1 /\ back' = i /\ inside' = FALSE
    BY <1>5, <2>1 DEF Refuse, StepBack
  <2>3. ~(Ahead \/ Called \/ Answered \/ Halted)
    <3>1. i' # i /\ i' # i + 1
      BY <1>1, <2>2
    <3> QED BY <3>1 DEF Ahead, Called, Answered, Halted
  <2>4. Running /\ inside /\ todo # <<>> /\ Showing(License)
    BY <1>5 DEF Refuse, Showing
  <2>5. ~Showing({"eula"})
    BY <2>1 DEF FatalToRefuse
  <2>6. Head(todo).kind # "eula"
    BY <2>4, <2>5 DEF Showing
  <2>7. PICK o \in Found(cfg, sel) : Name \in ToSet(cfg.optEulas[o])
    BY <2>4, <2>6, LicenseShown
  <2>8. Name \notin ToSet(cfg.eulas)
    <3>1. o \in cfg.option
      BY FoundChecked DEF IInv, StagesInOrder, TypeOK
    <3> QED BY <1>1, <2>7, <3>1 DEF Located, WellFormed, Straight, Shaped
  <2>9. accepted' = accepted \ {Name}
    BY <1>5 DEF Refuse
  <2> QED BY <1>2, <1>3, <2>3, <2>8, <2>9
<1> QED
  BY <1>4, <1>5

\* A page that is answered with a yes is a license accepted, or a key given.
LEMMA AnswerGiven ==
  ASSUME IInv, [Next]_vars, Answered
  PROVE  /\ Head(todo).kind \in License /\ Name \in cfg.consent => Name \in accepted'
         /\ Head(todo).kind = "key" => Name \in keys'
         /\ Head(todo).kind # "options" => sel' = sel
<1>1. Located /\ i \in 1..Final
  BY Locate DEF IInv, StagesInOrder, TypeOK, Final
<1>2. i' = i /\ inside' = TRUE /\ inside /\ todo # <<>> /\ todo' = Tail(todo)
  BY DEF Answered, IInv, StagesInOrder, TypeOK
<1>3. ~Driver
  <2>1. i' # i + 1
    BY <1>1, <1>2
  <2>2. Len(todo) # 0 /\ Len(todo') = Len(todo) - 1 /\ Len(todo) \in Nat
    <3>1. todo \in Seq(Answerable)
      BY DEF IInv, PagesFit
    <3> HIDE DEF Answerable
    <3> QED BY <1>2, <3>1
  <2>3. todo' # todo
    BY <2>2
  <2>4. ~ShowPages /\ ~ShowOptions /\ ~Precheck /\ ~Sources /\ ~InstallFiles /\ ~Leave
    BY <1>2 DEF ShowPages, ShowOptions, Precheck, Sources, InstallFiles, Leave
  <2> QED BY <2>4 DEF Driver
<1>4. ReadOn \/ Accept \/ GiveKey \/ Choose
  <2>1. todo' # todo
    <3>1. Len(todo) # 0 /\ Len(todo') = Len(todo) - 1 /\ Len(todo) \in Nat
      <4>1. todo \in Seq(Answerable)
        BY DEF IInv, PagesFit
      <4> HIDE DEF Answerable
      <4> QED BY <1>2, <4>1
    <3> QED BY <3>1
  <2>2. ~AskAgain /\ ~Cancel /\ ~UNCHANGED vars
    BY <2>1 DEF AskAgain, Cancel, vars, place
  <2>3. i' # i - 1
    BY <1>1, <1>2
  <2>4. ~Refuse /\ ~GoBack
    BY <2>1, <2>3, Zenon DEF Refuse, GoBack, StepBack, place
  <2> QED BY <1>3, <2>2, <2>4 DEF Next, User
<1>5. CASE ReadOn
  BY <1>5 DEF ReadOn, Showing, License, answers
<1>6. CASE Accept
  BY <1>6 DEF Accept, Showing, License
<1>7. CASE GiveKey
  BY <1>7 DEF GiveKey, Showing, License
<1>8. CASE Choose
  BY <1>8 DEF Choose, Showing, License
<1> QED
  BY <1>4, <1>5, <1>6, <1>7, <1>8

\* The stage that is left was called, but for those that show nothing.
LEMMA LeftDone ==
  ASSUME IInv, [Next]_vars, Ahead
  PROVE  (inside /\ todo = <<>>) \/ Stage.do = "precheck" \/ Stage.do = "sources"
<1>1. Located /\ i \in 1..Final
  BY Locate DEF IInv, StagesInOrder, TypeOK, Final
<1>2. i' = i + 1 /\ i' # i /\ i' # i - 1
  BY <1>1 DEF Ahead
<1>3. Leave \/ Precheck \/ Sources
  <2>1. ~ShowPages /\ ~ShowOptions /\ ~InstallFiles /\ ~ReadOn /\ ~Accept /\ ~GiveKey
        /\ ~AskAgain /\ ~Choose /\ ~Cancel /\ ~UNCHANGED vars
    BY <1>2, Zenon DEF ShowPages, ShowOptions, InstallFiles, Stopped, Enter, ReadOn, Accept, GiveKey,
       AskAgain, Choose, Cancel, vars, PageDone, place
  <2>2. ~Refuse /\ ~GoBack
    BY <1>2, Zenon DEF Refuse, GoBack, StepBack, place
  <2> QED BY <2>1, <2>2 DEF Next, Driver, User
<1> QED
  BY <1>3 DEF Leave, Precheck, Sources

\* What the package asks stays answered on the pages that are done.
LEMMA PackageKept ==
  ASSUME IInv, [Next]_vars
  PROVE  PackageAsked'
<1>1. Located /\ i \in 1..Final /\ PackageAsked
  BY Locate DEF IInv, StagesInOrder, TypeOK, Final
<1>2. cfg' = cfg /\ Opening' = Opening /\ Stages(cfg)' = Stages(cfg)
  BY SameConfig
<1> SUFFICES ASSUME NEW p \in 1..Opening, Alive', Done(p)', Stages(cfg)[p].do = "page"
             PROVE  LET page == Stages(cfg)[p].page IN
                    /\ page.kind = "eula" /\ page.name \in cfg.consent => page.name \in accepted'
                    /\ page.kind = "key" => page.name \in keys'
  BY <1>2 DEF PackageAsked
<1> DEFINE page == Stages(cfg)[p].page
<1>3. Alive /\ keys \subseteq keys'
  BY AnswersStay
<1>4. page.kind = "eula" => page.name \in ToSet(cfg.eulas)
  <2>1. Stages(cfg)[p] \in PrefaceSteps(cfg)
    <3>1. cfg \in Configs
      BY DEF IInv, StagesInOrder, TypeOK
    <3> QED BY <3>1, Locate DEF StageFacts
  <2> QED BY <1>1, <2>1, PageShown DEF Located
<1>5. CASE Done(p)
  <2>1. /\ page.kind = "eula" /\ page.name \in cfg.consent => page.name \in accepted
        /\ page.kind = "key" => page.name \in keys
    BY <1>1, <1>3, <1>5 DEF PackageAsked
  <2>2. \A name \in accepted : name \in ToSet(cfg.eulas) => name \in accepted'
    BY AnswersStay
  <2> HIDE DEF page
  <2>3. /\ page.kind = "eula" /\ page.name \in cfg.consent => page.name \in accepted'
        /\ page.kind = "key" => page.name \in keys'
    BY <1>3, <1>4, <2>1, <2>2
  <2> QED BY <2>3 DEF page
<1>6. CASE ~Done(p)
  <2>1. ~(p < i) /\ p \in Nat /\ i \in Nat /\ Opening \in Nat
    BY <1>1, <1>6 DEF Done, Located
  <2>2. (p < i' \/ (p = i' /\ inside' /\ todo' = <<>>)) /\ ~(p = i /\ inside /\ todo = <<>>)
    BY <1>6 DEF Done
  <2>3. ~Behind
    <3>1. ASSUME Behind PROVE FALSE
      <4>1. i' = i - 1 /\ inside' = FALSE
        BY <3>1 DEF Behind
      <4> QED BY <2>1, <2>2, <4>1
    <3> QED BY <3>1
  <2>4. ~Halted
    <3>1. ASSUME Halted PROVE FALSE
      <4>1. i' = i /\ inside' = inside /\ todo' = todo
        BY <3>1 DEF Halted
      <4> QED BY <2>1, <2>2, <4>1
    <3> QED BY <3>1
  <2>5. ~Ahead
    <3>1. ASSUME Ahead PROVE FALSE
      <4>1. i' = i + 1 /\ inside' = FALSE
        BY <3>1 DEF Ahead
      <4>2. p = i
        BY <2>1, <2>2, <4>1
      <4>3. Stage.do = "page"
        BY <4>2 DEF Stage
      <4> QED BY <2>2, <3>1, <4>2, <4>3, LeftDone
    <3> QED BY <3>1
  <2>6. p = i /\ inside' /\ todo' = <<>> /\ Stage.do = "page" /\ Stage.page = page
    <3>1. i' = i
      BY <2>3, <2>4, <2>5, Moves DEF Called, Answered
    <3>2. p = i /\ inside' /\ todo' = <<>>
      BY <2>1, <2>2, <3>1
    <3> QED BY <3>2 DEF Stage
  <2>7. ~Called
    <3>1. ASSUME Called PROVE FALSE
      <4>1. ~inside /\ inside'
        BY <3>1 DEF Called
      <4>2. ShowPages \/ ShowOptions
        BY <4>1, CalledBy
      <4>3. ShowPages
        BY <2>6, <4>2 DEF ShowOptions
      <4>4. todo' = <<Stage.page>>
        BY <2>6, <4>3, PagesShown
      <4>5. <<Stage.page>> # <<>>
        OBVIOUS
      <4> QED BY <2>6, <4>4, <4>5, Zenon
    <3> QED BY <3>1
  <2>8. Answered
    BY <2>3, <2>4, <2>5, <2>7, Moves
  <2>9. Head(todo) = page
    BY <2>6, <2>8, HeadShown DEF Answered, Shows, IInv
  <2> HIDE DEF page
  <2>10. /\ page.kind = "eula" /\ page.name \in cfg.consent => page.name \in accepted'
         /\ page.kind = "key" => page.name \in keys'
    BY <2>8, <2>9, AnswerGiven DEF Name, License
  <2> QED BY <2>10 DEF page
<1> QED
  BY <1>5, <1>6

\* What the options ask has an answer, or a page that is still to come.
LEMMA OptionsAnswered ==
  ASSUME IInv, [Next]_vars
  PROVE  OptionsAsked'
<1>1. Located /\ i \in 1..Final /\ OptionsAsked /\ Final \in Nat /\ Opening \in Nat
  BY Locate DEF IInv, StagesInOrder, TypeOK, Final, Located
<1>2. cfg' = cfg /\ Final' = Final
  BY SameConfig
<1>3. ASSUME Alive' PROVE Alive /\ keys \subseteq keys'
  BY <1>3, AnswersStay
<1>4. ASSUME NEW o \in Found(cfg, sel'), ~cfg.skipEulas, Reached(Final - 3)',
             NEW name \in ToSet(cfg.optEulas[o]) \cap cfg.consent
      PROVE  name \in accepted' \/ Pending(Final - 3, name)'
  <2>1. Alive' /\ Alive /\ (i' > Final - 3 \/ (i' = Final - 3 /\ inside'))
    BY <1>2, <1>3, <1>4 DEF Reached
  <2>2. ~Behind
    <3>1. ASSUME Behind PROVE FALSE
      <4>1. i \in 1..(Final - 2) /\ i' = i - 1 /\ inside' = FALSE
        BY <3>1, InsideBefore DEF Behind
      <4> QED BY <1>1, <2>1, <4>1
    <3> QED BY <3>1
  <2>3. accepted \subseteq accepted'
    BY <2>1, <2>2, Moves, AnswersStay
  <2>4. CASE Called
    <3>1. i' = i /\ ~inside /\ inside'
      BY <2>4 DEF Called
    <3>2. ~ShowOptions
      <4>1. ASSUME ShowOptions PROVE FALSE
        <5>1. i = Opening + 1 /\ ~cfg.skipOptions
          BY <4>1, Where DEF ShowOptions
        <5>2. Opening + 5 <= Final
          BY <1>1, <1>4, <5>1 DEF Located
        <5> QED BY <1>1, <2>1, <3>1, <5>1, <5>2
      <4> QED BY <4>1
    <3>3. ShowPages
      BY <3>1, <3>2, CalledBy
    <3>4. sel' = sel
      BY <3>3, PagesShown
    <3>5. CASE i = Final - 3
      <4>1. Stage.do = "option eulas"
        BY <1>4, <3>5, Where
      <4>2. Ask(todo', "option eula", cfg.optEulas, Found(cfg, sel))
        BY <3>3, <4>1, PagesShown
      <4>3. \E n \in 1..Len(todo') : todo'[n].name = name
        BY <1>4, <3>4, <4>2 DEF Ask
      <4> QED BY <1>2, <3>1, <3>5, <4>3 DEF Pending
    <3>6. CASE i # Final - 3
      <4>1. i > Final - 3
        BY <1>1, <2>1, <3>1, <3>6
      <4>2. Reached(Final - 3) /\ ~Pending(Final - 3, name)
        BY <2>1, <3>6, <4>1 DEF Reached, Pending
      <4>3. name \in accepted
        BY <1>1, <1>4, <3>4, <4>2 DEF OptionsAsked
      <4> QED BY <2>3, <4>3
    <3> QED BY <3>5, <3>6
  <2>5. CASE Ahead
    <3>1. i' = i + 1 /\ inside' = FALSE /\ sel' = sel
      BY <2>5 DEF Ahead
    <3>2. i >= Final - 3
      BY <1>1, <2>1, <3>1
    <3>3. Reached(Final - 3) /\ ~Pending(Final - 3, name)
      <4>1. CASE i = Final - 3
        <5>1. Stage.do = "option eulas"
          BY <1>4, <4>1, Where
        <5>2. inside /\ todo = <<>>
          BY <2>5, <5>1, LeftDone
        <5>3. Len(todo) = 0
          BY <5>2
        <5> QED BY <2>1, <4>1, <5>2, <5>3 DEF Reached, Pending
      <4>2. CASE i # Final - 3
        <5>1. i > Final - 3
          BY <1>1, <3>2, <4>2
        <5> QED BY <2>1, <4>2, <5>1 DEF Reached, Pending
      <4> QED BY <4>1, <4>2
    <3>4. name \in accepted
      BY <1>1, <1>4, <3>1, <3>3 DEF OptionsAsked
    <3> QED BY <2>3, <3>4
  <2>6. CASE Answered
    <3>1. i' = i /\ inside /\ inside' /\ todo' = Tail(todo) /\ todo # <<>>
      BY <2>6 DEF Answered, IInv, StagesInOrder, TypeOK
    <3>2. Reached(Final - 3) /\ ~(i = Opening + 1 /\ ~cfg.skipOptions)
      <4>1. Reached(Final - 3)
        BY <2>1, <3>1 DEF Reached
      <4>2. ~cfg.skipOptions => Opening + 5 <= Final
        BY <1>1, <1>4 DEF Located
      <4> QED BY <1>1, <2>1, <3>1, <4>1, <4>2
    <3>3. sel' = sel
      <4>1. Head(todo).kind # "options"
        <5>1. ASSUME Head(todo).kind = "options" PROVE FALSE
          <6>1. Showing({"options"})
            BY <2>6, <3>1, <5>1 DEF Showing, Answered
          <6> QED BY <3>2, <6>1, OptionsShown
        <5> QED BY <5>1
      <4> QED BY <2>6, <4>1, AnswerGiven
    <3>4. name \in accepted \/ Pending(Final - 3, name)
      BY <1>1, <1>4, <3>2, <3>3 DEF OptionsAsked
    <3>5. CASE name \in accepted
      BY <2>3, <3>5
    <3>6. CASE Pending(Final - 3, name)
      <4>1. i = Final - 3
        BY <3>6 DEF Pending
      <4>2. PICK n \in 1..Len(todo) : todo[n].name = name
        BY <3>6 DEF Pending
      <4>3. PagesFit
        BY DEF IInv
      <4>4. CASE n = 1
        <5>1. Stage.do = "option eulas"
          BY <1>4, <4>1, Where
        <5>2. Head(todo).kind = "option eula"
          BY <3>1, <5>1, HeadShown DEF IInv, Shows
        <5>3. Name = name
          <6>1. todo \in Seq(Answerable)
            BY <4>3 DEF PagesFit
          <6>2. Head(todo) = todo[1]
            BY <3>1, <6>1
          <6> QED BY <4>2, <4>4, <6>2 DEF Name
        <5> QED BY <1>4, <2>6, <5>2, <5>3, AnswerGiven DEF License
      <4>5. CASE n # 1
        <5>1. n - 1 \in 1..Len(Tail(todo)) /\ Tail(todo)[n - 1] = todo[n]
          BY <3>1, <4>3, <4>5, TailLeft
        <5>2. n - 1 \in 1..Len(todo') /\ todo'[n - 1].name = name
          BY <3>1, <4>2, <5>1
        <5>3. \E m \in 1..Len(todo') : todo'[m].name = name
          BY <5>2
        <5> QED BY <1>2, <3>1, <4>1, <5>3 DEF Pending
      <4> QED BY <4>4, <4>5
    <3> QED BY <3>4, <3>5, <3>6
  <2>7. CASE Halted
    <3>1. i' = i /\ inside' = inside /\ todo' = todo /\ sel' = sel
      BY <2>7 DEF Halted
    <3>2. Reached(Final - 3)
      BY <2>1, <3>1 DEF Reached
    <3>3. name \in accepted \/ Pending(Final - 3, name)
      BY <1>1, <1>4, <3>1, <3>2 DEF OptionsAsked
    <3> QED BY <1>2, <2>3, <3>1, <3>3 DEF Pending
  <2> QED BY <2>2, <2>4, <2>5, <2>6, <2>7, Moves
<1>5. ASSUME NEW o \in Found(cfg, sel'), Reached(Final - 2)',
             NEW name \in ToSet(cfg.optKeys[o])
      PROVE  name \in keys' \/ Pending(Final - 2, name)'
  <2>1. Alive' /\ Alive /\ (i' > Final - 2 \/ (i' = Final - 2 /\ inside'))
    BY <1>2, <1>3, <1>5 DEF Reached
  <2>2. ~Behind
    <3>1. ASSUME Behind PROVE FALSE
      <4>1. i \in 1..(Final - 2) /\ i' = i - 1 /\ inside' = FALSE
        BY <3>1, InsideBefore DEF Behind
      <4> QED BY <1>1, <2>1, <4>1
    <3> QED BY <3>1
  <2>3. keys \subseteq keys'
    BY <1>3, <2>1
  <2>4. CASE Called
    <3>1. i' = i /\ ~inside /\ inside'
      BY <2>4 DEF Called
    <3>2. ~ShowOptions
      <4>1. ASSUME ShowOptions PROVE FALSE
        <5>1. i = Opening + 1 /\ ~cfg.skipOptions
          BY <4>1, Where DEF ShowOptions
        <5>2. Opening + 4 <= Final
          BY <1>1, <5>1 DEF Located
        <5> QED BY <1>1, <2>1, <3>1, <5>1, <5>2
      <4> QED BY <4>1
    <3>3. ShowPages
      BY <3>1, <3>2, CalledBy
    <3>4. sel' = sel
      BY <3>3, PagesShown
    <3>5. CASE i = Final - 2
      <4>1. Stage.do = "option keys"
        BY <3>5, Where
      <4>2. Ask(todo', "key", cfg.optKeys, Found(cfg, sel))
        BY <3>3, <4>1, PagesShown
      <4>3. \E n \in 1..Len(todo') : todo'[n].name = name
        BY <1>5, <3>4, <4>2 DEF Ask
      <4> QED BY <1>2, <3>1, <3>5, <4>3 DEF Pending
    <3>6. CASE i # Final - 2
      <4>1. i > Final - 2
        BY <1>1, <2>1, <3>1, <3>6
      <4>2. Reached(Final - 2) /\ ~Pending(Final - 2, name)
        BY <2>1, <3>6, <4>1 DEF Reached, Pending
      <4>3. name \in keys
        BY <1>1, <1>5, <3>4, <4>2 DEF OptionsAsked
      <4> QED BY <2>3, <4>3
    <3> QED BY <3>5, <3>6
  <2>5. CASE Ahead
    <3>1. i' = i + 1 /\ inside' = FALSE /\ sel' = sel
      BY <2>5 DEF Ahead
    <3>2. i >= Final - 2
      BY <1>1, <2>1, <3>1
    <3>3. Reached(Final - 2) /\ ~Pending(Final - 2, name)
      <4>1. CASE i = Final - 2
        <5>1. Stage.do = "option keys"
          BY <4>1, Where
        <5>2. inside /\ todo = <<>>
          BY <2>5, <5>1, LeftDone
        <5>3. Len(todo) = 0
          BY <5>2
        <5> QED BY <2>1, <4>1, <5>2, <5>3 DEF Reached, Pending
      <4>2. CASE i # Final - 2
        <5>1. i > Final - 2
          BY <1>1, <3>2, <4>2
        <5> QED BY <2>1, <4>2, <5>1 DEF Reached, Pending
      <4> QED BY <4>1, <4>2
    <3>4. name \in keys
      BY <1>1, <1>5, <3>1, <3>3 DEF OptionsAsked
    <3> QED BY <2>3, <3>4
  <2>6. CASE Answered
    <3>1. i' = i /\ inside /\ inside' /\ todo' = Tail(todo) /\ todo # <<>>
      BY <2>6 DEF Answered, IInv, StagesInOrder, TypeOK
    <3>2. Reached(Final - 2) /\ ~(i = Opening + 1 /\ ~cfg.skipOptions)
      <4>1. Reached(Final - 2)
        BY <2>1, <3>1 DEF Reached
      <4>2. ~cfg.skipOptions => Opening + 4 <= Final
        BY <1>1 DEF Located
      <4> QED BY <1>1, <2>1, <3>1, <4>1, <4>2
    <3>3. sel' = sel
      <4>1. Head(todo).kind # "options"
        <5>1. ASSUME Head(todo).kind = "options" PROVE FALSE
          <6>1. Showing({"options"})
            BY <2>6, <3>1, <5>1 DEF Showing, Answered
          <6> QED BY <3>2, <6>1, OptionsShown
        <5> QED BY <5>1
      <4> QED BY <2>6, <4>1, AnswerGiven
    <3>4. name \in keys \/ Pending(Final - 2, name)
      BY <1>1, <1>5, <3>2, <3>3 DEF OptionsAsked
    <3>5. CASE name \in keys
      BY <2>3, <3>5
    <3>6. CASE Pending(Final - 2, name)
      <4>1. i = Final - 2
        BY <3>6 DEF Pending
      <4>2. PICK n \in 1..Len(todo) : todo[n].name = name
        BY <3>6 DEF Pending
      <4>3. PagesFit
        BY DEF IInv
      <4>4. CASE n = 1
        <5>1. Stage.do = "option keys"
          BY <4>1, Where
        <5>2. Head(todo).kind = "key"
          BY <3>1, <5>1, HeadShown DEF IInv, Shows
        <5>3. Name = name
          <6>1. todo \in Seq(Answerable)
            BY <4>3 DEF PagesFit
          <6>2. Head(todo) = todo[1]
            BY <3>1, <6>1
          <6> QED BY <4>2, <4>4, <6>2 DEF Name
        <5> QED BY <2>6, <5>2, <5>3, AnswerGiven
      <4>5. CASE n # 1
        <5>1. n - 1 \in 1..Len(Tail(todo)) /\ Tail(todo)[n - 1] = todo[n]
          BY <3>1, <4>3, <4>5, TailLeft
        <5>2. n - 1 \in 1..Len(todo') /\ todo'[n - 1].name = name
          BY <3>1, <4>2, <5>1
        <5>3. \E m \in 1..Len(todo') : todo'[m].name = name
          BY <5>2
        <5> QED BY <1>2, <3>1, <4>1, <5>3 DEF Pending
      <4> QED BY <4>4, <4>5
    <3> QED BY <3>4, <3>5, <3>6
  <2>7. CASE Halted
    <3>1. i' = i /\ inside' = inside /\ todo' = todo /\ sel' = sel
      BY <2>7 DEF Halted
    <3>2. Reached(Final - 2)
      BY <2>1, <3>1 DEF Reached
    <3>3. name \in keys \/ Pending(Final - 2, name)
      BY <1>1, <1>5, <3>1, <3>2 DEF OptionsAsked
    <3> QED BY <1>2, <2>3, <3>1, <3>3 DEF Pending
  <2> QED BY <2>2, <2>4, <2>5, <2>6, <2>7, Moves
<1> QED
  BY <1>2, <1>4, <1>5 DEF OptionsAsked

\* From the page of the options on the selection stays legal.
LEMMA StaysLegal ==
  ASSUME IInv, [Next]_vars
  PROVE  Corrected'
<1>1. Located /\ i \in 1..Final /\ Corrected /\ Opening \in Nat /\ back \in Nat
  BY Locate DEF IInv, StagesInOrder, TypeOK, Final, Located
<1>2. cfg' = cfg /\ Opening' = Opening
  BY SameConfig
<1> SUFFICES ASSUME ~cfg.skipOptions,
                    i' > Opening + 1 \/ (i' = Opening + 1 /\ inside') \/ back' > Opening
             PROVE  Legal(cfg, sel')
  BY <1>2 DEF Corrected
<1>3. sel \subseteq cfg.option
  BY DEF IInv, StagesInOrder, TypeOK
<1>4. CASE ShowOptions
  BY <1>1, <1>3, <1>4, SelectionKept DEF ShowOptions, Located
<1>5. CASE Showing({"options"}) /\ sel' \in Selections(cfg, sel)
  <2>1. i = Opening + 1 /\ inside
    BY <1>5, OptionsShown DEF Showing
  <2>2. Legal(cfg, sel)
    BY <1>1, <2>1 DEF Corrected
  <2> QED BY <1>1, <1>5, <2>2, SelectionsLegal DEF Located
<1>6. CASE sel' = sel /\ ~ShowOptions
  <2>1. i > Opening + 1 \/ (i = Opening + 1 /\ inside) \/ back > Opening
    <3>1. CASE Ahead
      <4>1. i' = i + 1 /\ back' = back /\ inside' = FALSE
        BY <3>1 DEF Ahead
      <4>2. i = Opening + 1 => inside
        BY <3>1, Where, LeftDone
      <4> QED BY <1>1, <4>1, <4>2
    <3>2. CASE Called
      <4>1. i' = i /\ back' = back /\ ~inside /\ inside'
        BY <3>2 DEF Called
      <4>2. ShowPages
        BY <1>6, <4>1, CalledBy
      <4>3. i # Opening + 1
        BY <4>2, Where, PagesShown
      <4> QED BY <1>1, <4>1, <4>3
    <3>3. CASE Answered
      BY <1>1, <3>3 DEF Answered
    <3>4. CASE Behind
      <4>1. i' = i - 1 /\ back' = i /\ inside /\ inside' = FALSE
        BY <3>4 DEF Behind
      <4> QED BY <1>1, <4>1
    <3>5. CASE Halted
      <4>1. i' = i /\ inside' = inside /\ (back' = 0 \/ back' = back)
        BY <3>5 DEF Halted
      <4> QED BY <1>1, <4>1
    <3> QED BY <3>1, <3>2, <3>3, <3>4, <3>5, Moves
  <2>2. Legal(cfg, sel)
    BY <1>1, <2>1 DEF Corrected
  <2> QED BY <1>6, <2>2
<1> QED
  BY <1>4, <1>5, <1>6, SelChanges

\* Before the options, a way back is walked again page by page.
LEMMA BackKept ==
  ASSUME IInv, [Next]_vars
  PROVE  WentBack'
<1>1. Located /\ i \in 1..Final /\ WentBack /\ Opening \in Nat /\ back \in Nat
  BY Locate DEF IInv, StagesInOrder, TypeOK, Final, Located
<1>2. cfg' = cfg /\ Opening' = Opening /\ Stages(cfg)' = Stages(cfg) /\ Stage' = Stages(cfg)[i']
  BY SameConfig
<1>3. ASSUME back' # 0, back' <= Opening PROVE i' <= back' /\ Stages(cfg)[back'].do = "page"
  <2>1. CASE Ahead
    <3>1. i' = i + 1 /\ back' = back
      BY <2>1 DEF Ahead
    <3>2. i <= back /\ Stages(cfg)[back].do = "page"
      BY <1>1, <1>3, <3>1 DEF WentBack
    <3>3. i # back
      <4>1. ASSUME i = back PROVE FALSE
        <5>1. Stage.do = "page"
          BY <3>2, <4>1 DEF Stage
        <5>2. inside /\ todo = <<>>
          BY <2>1, <5>1, LeftDone
        <5> QED BY <1>1, <1>3, <3>1, <5>1, <5>2 DEF WentBack
      <4> QED BY <4>1
    <3> QED BY <1>1, <3>1, <3>2, <3>3
  <2>2. CASE Called \/ Halted
    <3>1. i' = i /\ back' = back
      BY <1>3, <2>2 DEF Called, Halted
    <3> QED BY <1>1, <1>3, <3>1 DEF WentBack
  <2>3. CASE Answered
    BY <1>3, <2>3 DEF Answered
  <2>4. CASE Behind
    <3>1. i' = i - 1 /\ back' = i /\ inside
      BY <2>4 DEF Behind
    <3>2. Stage.do \in Showable
      BY <3>1 DEF IInv, PagesFit
    <3>3. Stage.do = "page"
      BY <1>3, <3>1, <3>2, Where DEF Showable
    <3> QED BY <1>1, <3>1, <3>3 DEF Stage
  <2> QED BY <2>1, <2>2, <2>3, <2>4, Moves
<1>4. ASSUME inside', todo' = <<>>, Stage'.do = "page" PROVE back' = 0
  <2>1. CASE Ahead \/ Behind
    BY <1>4, <2>1 DEF Ahead, Behind
  <2>2. CASE Called
    <3>1. i' = i /\ ~inside
      BY <2>2 DEF Called
    <3>2. Stage.do = "page"
      BY <1>2, <1>4, <3>1 DEF Stage
    <3>3. ShowPages
      BY <1>4, <3>1, <3>2, CalledBy DEF ShowOptions
    <3>4. todo' = <<Stage.page>>
      BY <3>2, <3>3, PagesShown
    <3>5. <<Stage.page>> # <<>>
      OBVIOUS
    <3> QED BY <1>4, <3>4, <3>5, Zenon
  <2>3. CASE Answered
    BY <2>3 DEF Answered
  <2>4. CASE Halted
    <3>1. i' = i /\ inside' = inside /\ todo' = todo /\ (back' = 0 \/ back' = back)
      BY <2>4 DEF Halted
    <3>2. Stage.do = "page"
      BY <1>2, <1>4, <3>1 DEF Stage
    <3> QED BY <1>1, <1>4, <3>1, <3>2 DEF WentBack
  <2> QED BY <2>1, <2>2, <2>3, <2>4, Moves
<1> QED
  BY <1>2, <1>3, <1>4 DEF WentBack

\* The files are those of the options selected, the keys written those given.
LEMMA OutcomeKept ==
  ASSUME IInv, [Next]_vars
  PROVE  Outcome'
<1>1. Located /\ i \in 1..Final /\ Outcome /\ Final \in Nat
  BY Locate DEF IInv, StagesInOrder, TypeOK, Final, Located
<1>2. cfg' = cfg /\ Final' = Final
  BY SameConfig
<1>3. ASSUME i' = Final PROVE files' = Found(cfg, sel')
  <2>1. CASE Ahead
    <3>1. i' = i + 1 /\ i = Final - 1 /\ sel' = sel
      BY <1>1, <1>3, <2>1 DEF Ahead
    <3>2. Stage.do = "sources"
      BY <3>1, Where
    <3>3. ~inside
      BY <3>2 DEF IInv, PagesFit, Showable
    <3>4. Sources
      <4>1. i' # i /\ i' # i - 1
        BY <1>1, <3>1
      <4>2. ~ShowPages /\ ~ShowOptions /\ ~Precheck /\ ~InstallFiles /\ ~Leave
        BY <3>2, <3>3 DEF ShowPages, ShowOptions, Precheck, InstallFiles, Leave
      <4>3. ~User
        BY <3>3 DEF User, ReadOn, Accept, Refuse, GiveKey, AskAgain, Choose, GoBack, Cancel, Showing
      <4> QED BY <4>1, <4>2, <4>3 DEF Next, Driver, vars
    <3>5. files' = Found(cfg, sel)
      <4>1. i' # i
        BY <1>1, <3>1
      <4> QED BY <3>4, <4>1 DEF Sources, Stopped, place
    <3> QED BY <3>1, <3>5
  <2>2. CASE Called
    <3>1. i = Final /\ ~inside /\ inside'
      BY <1>3, <2>2 DEF Called
    <3>2. Stage.do = "install"
      BY <3>1, Where
    <3> QED BY <3>1, <3>2, CalledBy DEF ShowPages, ShowOptions
  <2>3. CASE Answered \/ Behind
    <3>1. inside /\ (i' = i \/ i' = i - 1)
      BY <2>3 DEF Answered, Behind
    <3> QED BY <1>1, <1>3, <3>1, InsideBefore
  <2>4. CASE Halted
    BY <1>1, <1>3, <2>4 DEF Halted, Outcome
  <2> QED BY <2>1, <2>2, <2>3, <2>4, Moves
<1>4. ASSUME status' = "installed" PROVE i' = Final /\ written' = keys'
  <2>1. CASE InstallFiles
    <3>1. i = Final
      BY <2>1, Where DEF InstallFiles
    <3>2. i' = i /\ written' = keys /\ keys' = keys
      BY <1>4, <2>1 DEF InstallFiles, Stopped, place, answers
    <3> QED BY <3>1, <3>2
  <2>2. CASE UNCHANGED vars
    BY <1>1, <1>4, <2>2 DEF vars, Outcome
  <2>3. CASE Driver \/ User
    <3>1. InstallFiles
      BY <1>4, <2>3 DEF Driver, User, ShowPages, ShowOptions, Precheck, Sources,
         Leave, ReadOn, Accept, Refuse, GiveKey, AskAgain, Choose, GoBack, Cancel,
         Stopped, StepBack, Showing, Running
    <3> QED BY <2>1, <3>1
  <2> QED BY <2>2, <2>3 DEF Next
<1> QED
  BY <1>2, <1>3, <1>4 DEF Outcome

-----------------------------------------------------------------------------
(* What the wizard promises.                                               *)

\* The invariant is inductive.
LEMMA Inductive == Spec => []IInv
<1>1. IInv /\ [Next]_vars => IInv'
  BY OrderKept, PagesKept, PackageKept, OptionsAnswered, StaysLegal, BackKept, OutcomeKept
     DEF IInv
<1> QED
  BY InitIInv, <1>1, PTL DEF Spec

\* At the stage that installs, and after it, all the others are behind.
LEMMA AtTheEnd ==
  ASSUME IInv, Installing
  PROVE  /\ Alive /\ i = Final /\ files = Found(cfg, sel)
         /\ Opening < Final /\ (~cfg.skipOptions => Opening + 1 < Final)
         /\ \A p \in 1..Opening : Done(p)
         /\ Reached(Final - 2) /\ Reached(Final - 3)
         /\ \A name : ~Pending(Final - 2, name) /\ ~Pending(Final - 3, name)
<1>1. Located /\ i \in 1..Final /\ Final \in Nat /\ Opening \in Nat
  BY Locate DEF IInv, StagesInOrder, TypeOK, Final, Located
<1>2. Alive /\ i = Final
  BY Where DEF Installing, Alive, Running, IInv, Outcome
<1>3. files = Found(cfg, sel)
  BY <1>2 DEF IInv, Outcome
<1>4. Opening < Final /\ (~cfg.skipOptions => Opening + 1 < Final)
  BY <1>1 DEF Located
<1>5. i > Final - 2 /\ i # Final - 2 /\ i > Final - 3 /\ i # Final - 3
  BY <1>1, <1>2
<1>6. \A p \in 1..Opening : Done(p)
  BY <1>1, <1>2, <1>4 DEF Done
<1> QED
  BY <1>2, <1>3, <1>4, <1>5, <1>6 DEF Reached, Pending

\* At the end every license has an answer, which is a yes.
LEMMA LicensedNow == IInv => Licensed
<1> SUFFICES ASSUME IInv, Installing, ~cfg.skipEulas
             PROVE  cfg.consent \cap (ToSet(cfg.eulas)
                                      \cup UNION {ToSet(cfg.optEulas[o]) : o \in files})
                      \subseteq accepted
  BY DEF Licensed
<1>1. /\ Alive /\ files = Found(cfg, sel) /\ \A p \in 1..Opening : Done(p)
      /\ Reached(Final - 3) /\ \A name : ~Pending(Final - 3, name)
  BY AtTheEnd
<1>2. ASSUME NEW name \in ToSet(cfg.eulas) \cap cfg.consent PROVE name \in accepted
  <2>1. [do |-> "page", page |-> [kind |-> "eula", name |-> name]] \in AskedPages("eula", cfg.eulas)
    BY <1>2 DEF AskedPages
  <2>2. PICK p \in 1..Opening :
          Stages(cfg)[p] = [do |-> "page", page |-> [kind |-> "eula", name |-> name]]
    BY <2>1, Locate DEF IInv, StagesInOrder, TypeOK, StageFacts
  <2>3. Stages(cfg)[p].do = "page" /\ Stages(cfg)[p].page.kind = "eula"
        /\ Stages(cfg)[p].page.name = name
    BY <2>2
  <2> QED BY <1>1, <1>2, <2>3 DEF IInv, PackageAsked
<1>3. ASSUME NEW o \in files, NEW name \in ToSet(cfg.optEulas[o]) \cap cfg.consent
      PROVE  name \in accepted
  BY <1>1, <1>3 DEF IInv, OptionsAsked
<1> QED
  BY <1>2, <1>3

\* And so has every key.
LEMMA KeysReadyNow == IInv => KeysReady
<1> DEFINE needed == ToSet(cfg.keys) \cup UNION {ToSet(cfg.optKeys[o]) : o \in files}
<1>1. ASSUME IInv, Installing PROVE needed \subseteq keys
  <2>1. /\ Alive /\ files = Found(cfg, sel) /\ \A p \in 1..Opening : Done(p)
        /\ Reached(Final - 2) /\ \A name : ~Pending(Final - 2, name)
    BY <1>1, AtTheEnd
  <2>2. ASSUME NEW name \in ToSet(cfg.keys) PROVE name \in keys
    <3>1. [do |-> "page", page |-> [kind |-> "key", name |-> name]] \in AskedPages("key", cfg.keys)
      BY <2>2 DEF AskedPages
    <3>2. PICK p \in 1..Opening :
            Stages(cfg)[p] = [do |-> "page", page |-> [kind |-> "key", name |-> name]]
      BY <1>1, <3>1, Locate DEF IInv, StagesInOrder, TypeOK, StageFacts
    <3>3. Stages(cfg)[p].do = "page" /\ Stages(cfg)[p].page.kind = "key"
          /\ Stages(cfg)[p].page.name = name
      BY <3>2
    <3> QED BY <1>1, <2>1, <2>2, <3>3 DEF IInv, PackageAsked
  <2>3. ASSUME NEW o \in files, NEW name \in ToSet(cfg.optKeys[o])
        PROVE  name \in keys
    BY <1>1, <2>1, <2>3 DEF IInv, OptionsAsked
  <2> QED BY <2>2, <2>3
<1>2. ASSUME IInv, status = "installed" PROVE written = keys
  BY <1>2 DEF IInv, Outcome
<1> QED
  BY <1>1, <1>2 DEF KeysReady, Installing

\* And the selection is legal.
LEMMA ChoiceIsLegalNow == IInv => ChoiceIsLegal
<1> SUFFICES ASSUME IInv, Installing, ~cfg.skipOptions
             PROVE  /\ \A g \in cfg.group : Cardinality(Members(cfg, g) \cap files) <= 1
                    /\ \A o \in cfg.required \ cfg.disabled :
                         /\ Around(cfg, o) \cap cfg.disabled = {}
                         /\ Around(cfg, o) \cap cfg.option \subseteq files
                         => o \in files
                    /\ cfg.disabled \cap files = {}
  BY DEF ChoiceIsLegal
<1>1. files = Found(cfg, sel) /\ i > Opening + 1 /\ WellFormed(cfg)
  <2>1. i = Final /\ files = Found(cfg, sel) /\ Opening + 1 < Final
    BY AtTheEnd
  <2>2. Located /\ Opening \in Nat /\ Final \in Nat
    BY Locate DEF IInv, StagesInOrder, TypeOK, Located
  <2> QED BY <2>1, <2>2 DEF Located
<1>2. Legal(cfg, sel)
  BY <1>1 DEF IInv, Corrected
<1> QED
  BY <1>1, <1>2, LegalChoice

\* The stages are where they can be, whatever the configuration, the way the
\* user takes and the number of times he goes back: the driver never steps over
\* the start of the stages, which it would call a bug.
THEOREM StageOrder == Spec => []StagesInOrder
<1>1. IInv => StagesInOrder
  BY DEF IInv
<1> QED
  BY Inductive, <1>1, PTL

\* No file is installed before every license of the package and of the options
\* that are installed has been accepted.
THEOREM LicensesFirst == Spec => []Licensed
BY Inductive, LicensedNow, PTL

\* Nor before the keys of the package and of those options have been entered,
\* and they are on the disk at the end.
THEOREM KeysFirst == Spec => []KeysReady
BY Inductive, KeysReadyNow, PTL

\* What is installed respects the groups and the attributes of the options, in
\* every tree that is Straight.
THEOREM LegalInstalled == Spec => []ChoiceIsLegal
BY Inductive, ChoiceIsLegalNow, PTL

\* In every tree of options that is Straight, who comes back to the options finds
\* them as he left them: a selection the walk has corrected once it does not change.
\* For the trees that ConfigsAssumption leaves out as not Straight the theorem says
\* nothing; there the walk may undo a choice.
THEOREM ChoicesKept == Spec => KeepsChoices
<1> DEFINE Back == Running /\ ~inside /\ Stage.do = "options" /\ back # 0
<1>1. IInv /\ [Next]_vars => [Back => sel' = sel]_vars
  <2> SUFFICES ASSUME IInv, [Next]_vars, Back PROVE sel' = sel
    OBVIOUS
  <2>1. i = Opening + 1 /\ ~cfg.skipOptions
    BY Where
  <2>2. Located /\ Opening \in Nat /\ back \in Nat
    BY Locate DEF IInv, StagesInOrder, TypeOK, Located
  <2>3. back > Opening
    <3>1. ASSUME back <= Opening PROVE FALSE
      <4>1. i <= back
        BY <3>1 DEF IInv, WentBack
      <4> QED BY <2>1, <2>2, <3>1, <4>1
    <3> QED BY <2>2, <3>1
  <2>4. Legal(cfg, sel)
    BY <2>1, <2>3 DEF IInv, Corrected
  <2>5. Radio(cfg, Forced(cfg, sel)) = sel
    BY <2>2, <2>4, RadioIdle DEF Located
  <2>6. ~Showing({"options"})
    BY DEF Showing
  <2> QED BY <2>5, <2>6, SelChanges
<1> QED
  BY Inductive, <1>1, PTL DEF Spec, KeepsChoices
=============================================================================
