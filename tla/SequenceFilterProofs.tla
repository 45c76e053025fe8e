------------------------ MODULE SequenceFilterProofs ------------------------
(***************************************************************************)
(* Induction over the natural numbers, least numbers, and what a filtered  *)
(* sequence is.                                                            *)
(***************************************************************************)
EXTENDS SequenceFilter, SequenceTheorems, WellFoundedInduction, TLAPS

\* f is the function that Only follows, on the first n entries.
Follows(f, s, keep, n) ==
    f = [k \in 0 .. n |->
            IF k = 0 THEN <<>>
            ELSE IF s[k] \in keep THEN Append(f[k - 1], s[k]) ELSE f[k - 1]]

\* Induction in the form the provers can use: the set of the numbers for which
\* something holds, instead of a predicate.
LEMMA SetInduction ==
    ASSUME NEW S, 0 \in S, \A n \in Nat : n \in S => n + 1 \in S
    PROVE  Nat \subseteq S
<1> DEFINE T == Nat \ S
<1> SUFFICES ASSUME T # {} PROVE FALSE
  OBVIOUS
<1>1. PICK m \in T : \A k \in T : <<k, m>> \notin OpToRel(<, Nat)
  <2>1. T \subseteq Nat
    OBVIOUS
  <2> QED
    BY <2>1, WFMin, NatLessThanWellFounded, Zenon
<1>2. \A k \in T : ~(k < m)
  BY <1>1, Zenon DEF OpToRel
<1>3. m \in Nat /\ m # 0
  BY Zenon
<1>4. m - 1 \in Nat /\ m - 1 < m /\ (m - 1) + 1 = m
  BY <1>3
<1>5. m - 1 \notin T
  BY <1>2, <1>4, Zenon
<1> HIDE DEF T
<1> QED
  BY <1>3, <1>4, <1>5 DEF T

\* A set of numbers has a least one.
LEMMA Least ==
    ASSUME NEW S \in SUBSET Nat, S # {}
    PROVE  \E m \in S : \A k \in S : m <= k
<1>1. PICK m \in S : \A k \in S : <<k, m>> \notin OpToRel(<, Nat)
  BY WFMin, NatLessThanWellFounded, Zenon
<1>2. \A k \in S : ~(k < m)
  BY <1>1, Zenon DEF OpToRel
<1> QED
  BY <1>2

\* The recursion is well defined.
LEMMA FollowsExists ==
    ASSUME NEW s, NEW keep
    PROVE  \A n \in Nat : \E f : Follows(f, s, keep, n)
<1> DEFINE S == {n \in Nat : \E f : Follows(f, s, keep, n)}
<1>1. 0 \in S
  <2>1. Follows([k \in 0 .. 0 |-> <<>>], s, keep, 0)
    BY DEF Follows
  <2> QED
    BY <2>1
<1>2. ASSUME NEW n \in Nat, n \in S
      PROVE  n + 1 \in S
  <2>1. PICK f : Follows(f, s, keep, n)
    BY <1>2
  <2> DEFINE g == [k \in 0 .. n + 1 |->
                      IF k <= n THEN f[k]
                      ELSE IF s[k] \in keep THEN Append(f[k - 1], s[k]) ELSE f[k - 1]]
  <2>2. Follows(g, s, keep, n + 1)
    <3>1. \A k \in 0 .. n + 1 :
             g[k] = IF k = 0 THEN <<>>
                    ELSE IF s[k] \in keep THEN Append(g[k - 1], s[k]) ELSE g[k - 1]
      <4> SUFFICES ASSUME NEW k \in 0 .. n + 1
                   PROVE  g[k] = IF k = 0 THEN <<>>
                          ELSE IF s[k] \in keep THEN Append(g[k - 1], s[k]) ELSE g[k - 1]
        OBVIOUS
      <4>1. CASE k = 0
        BY <2>1, <4>1 DEF Follows
      <4>2. CASE k # 0
        <5>1. g[k - 1] = f[k - 1] /\ k - 1 \in 0 .. n
          BY <4>2
        <5>2. \A j \in 0 .. n :
                 f[j] = IF j = 0 THEN <<>>
                        ELSE IF s[j] \in keep THEN Append(f[j - 1], s[j]) ELSE f[j - 1]
          BY <2>1, Zenon DEF Follows
        <5>3. k <= n => k \in 0 .. n
          OBVIOUS
        <5> QED
          BY <4>2, <5>1, <5>2, <5>3
      <4> QED
        BY <4>1, <4>2
    <3> HIDE DEF g
    <3>2. g = [k \in 0 .. n + 1 |-> g[k]]
      BY DEF g
    <3> QED
      BY <3>1, <3>2, Zenon DEF Follows
  <2> QED
    BY <2>2
<1>3. Nat \subseteq S
  <2> HIDE DEF S
  <2> QED
    BY <1>1, <1>2, SetInduction
<1> QED
  BY <1>3

\* What is kept of a sequence over S is a sequence over S.
LEMMA OnlyType ==
    ASSUME NEW S, NEW s \in Seq(S), NEW keep
    PROVE  Only(s, keep) \in Seq(S)
<1> DEFINE f == CHOOSE g : Follows(g, s, keep, Len(s))
<1>1. Len(s) \in Nat /\ \A k \in 1 .. Len(s) : s[k] \in S
  OBVIOUS
<1>2. Follows(f, s, keep, Len(s))
  BY <1>1, FollowsExists, Zenon
<1>3. Only(s, keep) = f[Len(s)]
  BY DEF Only, Follows
<1> HIDE DEF f
<1> DEFINE T == {n \in Nat : n <= Len(s) => f[n] \in Seq(S)}
<1>4. 0 \in T
  BY <1>1, <1>2 DEF Follows
<1>5. ASSUME NEW n \in Nat, n \in T
      PROVE  n + 1 \in T
  <2> SUFFICES ASSUME n + 1 <= Len(s)
               PROVE  f[n + 1] \in Seq(S)
    OBVIOUS
  <2>1. f[n] \in Seq(S) /\ s[n + 1] \in S /\ n + 1 \in 0 .. Len(s) /\ n + 1 # 0 /\ (n + 1) - 1 = n
    BY <1>1, <1>5
  <2>2. f[n + 1] = IF s[n + 1] \in keep THEN Append(f[n], s[n + 1]) ELSE f[n]
    BY <1>2, <2>1 DEF Follows
  <2> QED
    BY <2>1, <2>2, AppendProperties
<1>6. Nat \subseteq T
  <2> HIDE DEF T
  <2> QED
    BY <1>4, <1>5, SetInduction
<1> QED
  BY <1>1, <1>3, <1>6
=============================================================================
