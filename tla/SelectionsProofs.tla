-------------------------- MODULE SelectionsProofs --------------------------
(***************************************************************************)
(* Induction over the natural numbers, for a set instead of a predicate,   *)
(* and with it what Picked returns.                                        *)
(***************************************************************************)
EXTENDS Selections, Integers, SequenceTheorems, WellFoundedInduction, TLAPS

\* A set of natural numbers has a least element.
LEMMA LeastNatural ==
    ASSUME NEW S, S \subseteq Nat, S # {}
    PROVE  \E x \in S : \A y \in S : x <= y
<1> DEFINE R == OpToRel(<, Nat)
<1>1. \A x, y \in Nat : y < x => <<y, x>> \in R
  BY DEF OpToRel
<1>2. IsWellFoundedOn(R, Nat)
  BY NatLessThanWellFounded
<1> HIDE DEF R
<1>3. \E x \in S : \A y \in S : ~ (<<y, x>> \in R)
  BY <1>2, WFMin
<1>4. PICK x \in S : \A y \in S : ~ (<<y, x>> \in R)
  BY <1>3
<1>5. \A y \in S : ~(y < x)
  BY <1>1, <1>4
<1> QED
  BY <1>5

\* A set with 0 and every successor of its members has all natural numbers.
LEMMA SetInduction ==
    ASSUME NEW S, 0 \in S, \A n \in Nat : n \in S => n + 1 \in S
    PROVE  \A n \in Nat : n \in S
<1> DEFINE T == Nat \ S
<1> SUFFICES ASSUME T # {} PROVE FALSE
  OBVIOUS
<1>1. PICK x \in T : \A y \in T : x <= y
  BY LeastNatural
<1>2. x - 1 \in Nat /\ x - 1 \notin T
  BY <1>1
<1> QED
  BY <1>2

----------------------------------------------------------------------------

\* The recursion of Picked, up to place n.
PicksUpTo(g, s, I, n) ==
    g = [m \in 0..n |-> IF m = 0 THEN <<>>
                        ELSE IF m \in I THEN Append(g[m - 1], s[m])
                        ELSE g[m - 1]]

LEMMA RecursionExists ==
    ASSUME NEW s, NEW I, NEW n \in Nat
    PROVE  \E g : PicksUpTo(g, s, I, n)
<1> DEFINE S == {k \in Nat : \E g : PicksUpTo(g, s, I, k)}
<1>1. 0 \in S
  <2>1. PicksUpTo([m \in 0..0 |-> <<>>], s, I, 0)
    BY DEF PicksUpTo
  <2> QED BY <2>1
<1>2. ASSUME NEW k \in Nat, k \in S
      PROVE  k + 1 \in S
  <2>1. PICK g : PicksUpTo(g, s, I, k)
    BY <1>2
  <2> DEFINE h == [m \in 0..k + 1 |->
                     IF m <= k THEN g[m]
                     ELSE IF m \in I THEN Append(g[k], s[m]) ELSE g[k]]
  <2>2. \A m \in 0..k : g[m] = IF m = 0 THEN <<>>
                               ELSE IF m \in I THEN Append(g[m - 1], s[m])
                               ELSE g[m - 1]
    BY <2>1 DEF PicksUpTo
  <2>3. ASSUME NEW m \in 0..k + 1
        PROVE  h[m] = IF m = 0 THEN <<>>
                      ELSE IF m \in I THEN Append(h[m - 1], s[m])
                      ELSE h[m - 1]
    <3>1. CASE m <= k
      BY <2>2, <3>1
    <3>2. CASE m = k + 1
      BY <3>2
    <3> QED BY <3>1, <3>2
  <2>4. PicksUpTo(h, s, I, k + 1)
    BY <2>3 DEF PicksUpTo
  <2> QED BY <2>4
<1> HIDE DEF S
<1>3. \A k \in Nat : k \in S
  BY <1>1, <1>2, SetInduction
<1> QED
  BY <1>3 DEF S

PickRule(g, s, I) ==
    /\ g[0] = <<>>
    /\ \A m \in 1..Len(s) :
        g[m] = IF m \in I THEN Append(g[m - 1], s[m]) ELSE g[m - 1]

\* Picked has the recursion of its definition.
LEMMA PickedRecursion ==
    ASSUME NEW X, NEW s \in Seq(X), NEW I
    PROVE  \E g : Picked(s, I) = g[Len(s)] /\ PickRule(g, s, I)
<1> DEFINE g == CHOOSE g : PicksUpTo(g, s, I, Len(s))
<1>1. Len(s) \in Nat
  OBVIOUS
<1>2. PicksUpTo(g, s, I, Len(s))
  BY <1>1, RecursionExists
<1>3. Picked(s, I) = g[Len(s)]
  BY DEF Picked, PicksUpTo
<1> HIDE DEF g
<1>4. \A m \in 0..Len(s) :
        g[m] = IF m = 0 THEN <<>>
               ELSE IF m \in I THEN Append(g[m - 1], s[m])
               ELSE g[m - 1]
  BY <1>1, <1>2 DEF PicksUpTo
<1>5. PickRule(g, s, I)
  <2>1. g[0] = <<>>
    BY <1>1, <1>4
  <2>2. ASSUME NEW m \in 1..Len(s)
        PROVE  g[m] = IF m \in I THEN Append(g[m - 1], s[m]) ELSE g[m - 1]
    <3>1. m \in 0..Len(s) /\ m # 0
      BY <1>1
    <3> QED BY <1>4, <3>1
  <2> QED BY <2>1, <2>2 DEF PickRule
<1> QED
  BY <1>3, <1>5

\* What is picked stands at one of the places.
LEMMA PickedType ==
    ASSUME NEW X, NEW s \in Seq(X), NEW I
    PROVE  Picked(s, I) \in Seq({s[i] : i \in I \intersect DOMAIN s})
<1> DEFINE T == {s[i] : i \in I \intersect DOMAIN s}
<1>1. PICK g : Picked(s, I) = g[Len(s)] /\ PickRule(g, s, I)
  BY PickedRecursion
<1> DEFINE S == {m \in Nat : m <= Len(s) => g[m] \in Seq(T)}
<1>2. Len(s) \in Nat /\ DOMAIN s = 1..Len(s)
  OBVIOUS
<1>3. 0 \in S
  <2>1. g[0] = <<>>
    BY <1>1 DEF PickRule
  <2>2. <<>> \in Seq(T)
    OBVIOUS
  <2> QED BY <2>1, <2>2
<1>4. ASSUME NEW m \in Nat, m \in S
      PROVE  m + 1 \in S
  <2> SUFFICES ASSUME m + 1 <= Len(s) PROVE g[m + 1] \in Seq(T)
    OBVIOUS
  <2>1. g[m] \in Seq(T)
    BY <1>2, <1>4
  <2>2. g[m + 1] = IF m + 1 \in I THEN Append(g[m], s[m + 1]) ELSE g[m]
    BY <1>1, <1>2 DEF PickRule
  <2>3. m + 1 \in I => s[m + 1] \in T
    BY <1>2
  <2> HIDE DEF T
  <2> QED BY <2>1, <2>2, <2>3
<1> HIDE DEF S
<1>5. Len(s) \in S
  BY <1>2, <1>3, <1>4, SetInduction
<1> QED
  BY <1>1, <1>5 DEF S

\* What stands at one of the places is picked.
LEMMA PickedAll ==
    ASSUME NEW X, NEW s \in Seq(X), NEW I, NEW i \in I \intersect DOMAIN s
    PROVE  \E k \in DOMAIN Picked(s, I) : Picked(s, I)[k] = s[i]
<1>1. PICK g : Picked(s, I) = g[Len(s)] /\ PickRule(g, s, I)
  BY PickedRecursion
<1> DEFINE Has(m) == \E k \in 1..Len(g[m]) : g[m][k] = s[i]
           S == {m \in Nat : m <= Len(s) =>
                               g[m] \in Seq(X) /\ (i <= m => Has(m))}
<1>2. Len(s) \in Nat /\ DOMAIN s = 1..Len(s)
  OBVIOUS
<1>3. 0 \in S
  <2>1. g[0] = <<>>
    BY <1>1 DEF PickRule
  <2>2. <<>> \in Seq(X) /\ ~(i <= 0)
    BY <1>2
  <2> QED BY <2>1, <2>2
<1>4. ASSUME NEW m \in Nat, m \in S
      PROVE  m + 1 \in S
  <2> SUFFICES ASSUME m + 1 <= Len(s)
               PROVE  g[m + 1] \in Seq(X) /\ (i <= m + 1 => Has(m + 1))
    OBVIOUS
  <2>1. g[m] \in Seq(X) /\ (i <= m => Has(m))
    BY <1>2, <1>4
  <2>2. g[m + 1] = IF m + 1 \in I THEN Append(g[m], s[m + 1]) ELSE g[m]
    BY <1>1, <1>2 DEF PickRule
  <2>3. s[m + 1] \in X
    BY <1>2
  <2>4. CASE m + 1 \notin I
    BY <1>2, <2>1, <2>2, <2>4
  <2>5. CASE m + 1 \in I
    <3>1. g[m + 1] = Append(g[m], s[m + 1])
      BY <2>2, <2>5
    <3>2. g[m + 1] \in Seq(X) /\ Len(g[m + 1]) = Len(g[m]) + 1 /\ Len(g[m]) \in Nat
      BY <2>1, <2>3, <3>1
    <3>3. \A k \in 1..Len(g[m]) : g[m + 1][k] = g[m][k]
      BY <2>1, <2>3, <3>1
    <3>4. g[m + 1][Len(g[m]) + 1] = s[m + 1]
      BY <2>1, <2>3, <3>1
    <3>5. ASSUME i <= m PROVE Has(m + 1)
      <4>1. PICK k \in 1..Len(g[m]) : g[m][k] = s[i]
        BY <2>1, <3>5
      <4>2. k \in 1..Len(g[m + 1]) /\ g[m + 1][k] = s[i]
        BY <3>2, <3>3, <4>1
      <4> QED BY <4>2
    <3>6. ASSUME i = m + 1 PROVE Has(m + 1)
      BY <3>2, <3>4, <3>6
    <3> QED BY <1>2, <3>2, <3>5, <3>6
  <2> QED BY <2>4, <2>5
<1> HIDE DEF S
<1>5. Len(s) \in S
  BY <1>2, <1>3, <1>4, SetInduction
<1>6. Picked(s, I) \in Seq(X) /\ Has(Len(s))
  BY <1>1, <1>2, <1>5 DEF S
<1>7. DOMAIN Picked(s, I) = 1..Len(Picked(s, I))
  BY <1>6
<1> QED
  BY <1>1, <1>6, <1>7

\* The beginning of a list grows by its next element.
LEMMA PrefixGrows ==
    ASSUME NEW X, NEW s \in Seq(X), NEW k \in 0..Len(s) - 1
    PROVE  Append(SubSeq(s, 1, k), s[k + 1]) = SubSeq(s, 1, k + 1)
OBVIOUS

\* Of two lists in a row, all of the first ...
LEMMA PickedFirst ==
    ASSUME NEW X, NEW s \in Seq(X), NEW t \in Seq(X), NEW I,
           \A i \in 1..Len(s) + Len(t) : i \in I <=> i <= Len(s)
    PROVE  Picked(s \o t, I) = s
<1> DEFINE u == s \o t
<1>1. u \in Seq(X) /\ Len(u) = Len(s) + Len(t) /\ Len(s) \in Nat /\ Len(t) \in Nat
  OBVIOUS
<1>2. \A i \in 1..Len(s) : u[i] = s[i]
  OBVIOUS
<1> HIDE DEF u
<1>3. PICK g : Picked(u, I) = g[Len(u)] /\ PickRule(g, u, I)
  BY <1>1, PickedRecursion
<1> DEFINE Top(m) == IF m <= Len(s) THEN m ELSE Len(s)
           S == {m \in Nat : m <= Len(u) => g[m] = SubSeq(s, 1, Top(m))}
<1>4. 0 \in S
  <2>1. g[0] = <<>>
    BY <1>3 DEF PickRule
  <2>2. SubSeq(s, 1, 0) = <<>> /\ Top(0) = 0
    BY <1>1
  <2> QED BY <2>1, <2>2
<1>5. ASSUME NEW m \in Nat, m \in S
      PROVE  m + 1 \in S
  <2> SUFFICES ASSUME m + 1 <= Len(u) PROVE g[m + 1] = SubSeq(s, 1, Top(m + 1))
    OBVIOUS
  <2>1. g[m] = SubSeq(s, 1, Top(m))
    BY <1>1, <1>5
  <2>2. g[m + 1] = IF m + 1 \in I THEN Append(g[m], u[m + 1]) ELSE g[m]
    BY <1>1, <1>3 DEF PickRule
  <2>3. CASE m + 1 <= Len(s)
    <3>1. g[m + 1] = Append(SubSeq(s, 1, m), s[m + 1])
      BY <1>1, <1>2, <2>1, <2>2, <2>3
    <3>2. Append(SubSeq(s, 1, m), s[m + 1]) = SubSeq(s, 1, m + 1)
      <4>1. m \in 0..Len(s) - 1
        BY <1>1, <2>3
      <4> QED BY <4>1, PrefixGrows, Zenon
    <3> QED BY <2>3, <3>1, <3>2
  <2>4. CASE m + 1 > Len(s)
    BY <1>1, <2>1, <2>2, <2>4
  <2> QED BY <1>1, <2>3, <2>4
<1> HIDE DEF S
<1>6. Len(u) \in S
  <2>1. \A n \in Nat : n \in S
    BY <1>4, <1>5, SetInduction, Zenon
  <2> QED BY <1>1, <2>1
<1>7. g[Len(u)] = SubSeq(s, 1, Len(s))
  BY <1>1, <1>6 DEF S
<1>8. SubSeq(s, 1, Len(s)) = s
  BY <1>1
<1> QED
  BY <1>3, <1>7, <1>8 DEF u

\* ... or all of the second.
LEMMA PickedSecond ==
    ASSUME NEW X, NEW s \in Seq(X), NEW t \in Seq(X), NEW I,
           \A i \in 1..Len(s) + Len(t) : i \in I <=> i > Len(s)
    PROVE  Picked(s \o t, I) = t
<1> DEFINE u == s \o t
<1>1. u \in Seq(X) /\ Len(u) = Len(s) + Len(t) /\ Len(s) \in Nat /\ Len(t) \in Nat
  OBVIOUS
<1>2. \A i \in 1..Len(t) : u[Len(s) + i] = t[i]
  OBVIOUS
<1> HIDE DEF u
<1>3. PICK g : Picked(u, I) = g[Len(u)] /\ PickRule(g, u, I)
  BY <1>1, PickedRecursion
<1> DEFINE Top(m) == IF m <= Len(s) THEN 0 ELSE m - Len(s)
           S == {m \in Nat : m <= Len(u) => g[m] = SubSeq(t, 1, Top(m))}
<1>4. 0 \in S
  <2>1. g[0] = <<>>
    BY <1>3 DEF PickRule
  <2>2. SubSeq(t, 1, 0) = <<>> /\ Top(0) = 0
    BY <1>1
  <2> QED BY <2>1, <2>2
<1>5. ASSUME NEW m \in Nat, m \in S
      PROVE  m + 1 \in S
  <2> SUFFICES ASSUME m + 1 <= Len(u) PROVE g[m + 1] = SubSeq(t, 1, Top(m + 1))
    OBVIOUS
  <2>1. g[m] = SubSeq(t, 1, Top(m))
    BY <1>1, <1>5
  <2>2. g[m + 1] = IF m + 1 \in I THEN Append(g[m], u[m + 1]) ELSE g[m]
    BY <1>1, <1>3 DEF PickRule
  <2>3. CASE m + 1 <= Len(s)
    BY <1>1, <2>1, <2>2, <2>3
  <2>4. CASE m + 1 > Len(s)
    <3> DEFINE k == m - Len(s)
    <3>1. k \in 0..Len(t) - 1 /\ Top(m) = k /\ Top(m + 1) = k + 1
      BY <1>1, <2>4
    <3>2. u[m + 1] = t[k + 1]
      <4>1. m + 1 = Len(s) + (k + 1) /\ k + 1 \in 1..Len(t)
        BY <1>1, <3>1
      <4> QED BY <1>2, <4>1
    <3>3. g[m + 1] = Append(SubSeq(t, 1, k), t[k + 1])
      <4>1. m + 1 \in I
        BY <1>1, <2>4
      <4>2. g[m + 1] = Append(g[m], u[m + 1])
        BY <2>2, <4>1, Zenon
      <4>3. g[m] = SubSeq(t, 1, k)
        BY <2>1, <3>1
      <4> QED BY <3>2, <4>2, <4>3, Zenon
    <3>4. Append(SubSeq(t, 1, k), t[k + 1]) = SubSeq(t, 1, k + 1)
      BY <3>1, PrefixGrows, Zenon
    <3> QED BY <3>1, <3>3, <3>4
  <2> QED BY <1>1, <2>3, <2>4
<1> HIDE DEF S
<1>6. Len(u) \in S
  <2>1. \A n \in Nat : n \in S
    BY <1>4, <1>5, SetInduction, Zenon
  <2> QED BY <1>1, <2>1
<1>7. g[Len(u)] = SubSeq(t, 1, Len(t))
  BY <1>1, <1>6 DEF S
<1>8. SubSeq(t, 1, Len(t)) = t
  BY <1>1
<1> QED
  BY <1>3, <1>7, <1>8 DEF u
=============================================================================
