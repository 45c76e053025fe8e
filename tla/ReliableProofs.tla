--------------------------- MODULE ReliableProofs ---------------------------
(***************************************************************************)
(* The counters of the reliable transport are exact, for any channels,     *)
(* messages, limits, windows and losses.                                   *)
(*                                                                         *)
(* A counter is a sum over what the transport holds, so the proof starts   *)
(* with what a sum is; then every method of reliable.go is shown to keep a *)
(* transport sound, and the steps of the two ends follow.                  *)
(***************************************************************************)
EXTENDS Reliable, SequenceFilterProofs, FiniteSetTheorems, SequenceTheorems, TLAPS

-----------------------------------------------------------------------------
(* Sums over finite sets *)

\* The element that the fold of the community modules takes next.
Some(s) == CHOOSE x \in s : TRUE

\* iter is the function that SumFunctionOnSet follows.
Adds(iter, f, S) ==
    iter = [s \in SUBSET S |-> IF s = {} THEN 0 ELSE f[Some(s)] + iter[s \ {Some(s)}]]

LEMMA SumIs ==
    ASSUME NEW f, NEW S
    PROVE  SumFunctionOnSet(f, S) = (CHOOSE iter : Adds(iter, f, S))[S]
BY DEF SumFunctionOnSet, FoldFunctionOnSet, MapThenFoldSet, Adds, Some

LEMMA SomeIn ==
    ASSUME NEW s, s # {}
    PROVE  Some(s) \in s
BY DEF Some

\* The subsets of n elements or less.
UpTo(S, n) == {s \in SUBSET S : Cardinality(s) <= n}

LEMMA UpToFacts ==
    ASSUME NEW S, IsFiniteSet(S), NEW n \in Nat
    PROVE  /\ UpTo(S, 0) = {{}}
           /\ \A s \in SUBSET S : IsFiniteSet(s) /\ Cardinality(s) \in Nat
           /\ \A s \in UpTo(S, n + 1) \ {{}} : s \ {Some(s)} \in UpTo(S, n)
           /\ \A s \in UpTo(S, n) \ {{}} : s \ {Some(s)} \in UpTo(S, n)
           /\ UpTo(S, Cardinality(S)) = SUBSET S
<1>1. \A s \in SUBSET S : IsFiniteSet(s) /\ Cardinality(s) \in Nat /\ Cardinality(s) <= Cardinality(S)
  BY FS_Subset, FS_CardinalityType
<1>2. Cardinality({}) = 0 /\ \A s \in SUBSET S : Cardinality(s) = 0 <=> s = {}
  BY <1>1, FS_EmptySet
<1>3. UpTo(S, 0) = {{}}
  BY <1>1, <1>2 DEF UpTo
<1>4. ASSUME NEW s \in SUBSET S, s # {}
      PROVE  s \ {Some(s)} \in SUBSET S /\ Cardinality(s \ {Some(s)}) = Cardinality(s) - 1
  BY <1>1, <1>4, SomeIn, FS_RemoveElement
<1>5. /\ \A s \in UpTo(S, n + 1) \ {{}} : s \ {Some(s)} \in UpTo(S, n)
      /\ \A s \in UpTo(S, n) \ {{}} : s \ {Some(s)} \in UpTo(S, n)
  BY <1>1, <1>4 DEF UpTo
<1>6. UpTo(S, Cardinality(S)) = SUBSET S
  BY <1>1 DEF UpTo
<1> QED
  BY <1>1, <1>3, <1>5, <1>6

\* The recursion is well defined on the subsets of a finite set.
LEMMA AddsExists ==
    ASSUME NEW f, NEW S, IsFiniteSet(S)
    PROVE  \E iter : Adds(iter, f, S)
<1> DEFINE Does(g, n) ==
             g = [s \in UpTo(S, n) |-> IF s = {} THEN 0 ELSE f[Some(s)] + g[s \ {Some(s)}]]
           T == {n \in Nat : \E g : Does(g, n)}
<1>1. 0 \in T
  <2>1. Does([s \in {{}} |-> 0], 0)
    BY UpToFacts
  <2> QED
    BY <2>1
<1>2. ASSUME NEW n \in Nat, n \in T
      PROVE  n + 1 \in T
  <2>1. PICK g : Does(g, n)
    BY <1>2
  <2> DEFINE h == [s \in UpTo(S, n + 1) |->
                      IF s = {} THEN 0 ELSE f[Some(s)] + g[s \ {Some(s)}]]
  <2>2. \A s \in UpTo(S, n) : s \in UpTo(S, n + 1)
    BY UpToFacts DEF UpTo
  <2>3. \A s \in UpTo(S, n) : g[s] = IF s = {} THEN 0 ELSE f[Some(s)] + g[s \ {Some(s)}]
    BY <2>1
  <2>4. \A s \in UpTo(S, n) : h[s] = g[s]
    BY <2>2, <2>3
  <2>5. \A s \in UpTo(S, n + 1) \ {{}} : h[s \ {Some(s)}] = g[s \ {Some(s)}]
    BY <2>4, UpToFacts
  <2>6. Does(h, n + 1)
    <3>1. \A s \in UpTo(S, n + 1) : h[s] = IF s = {} THEN 0 ELSE f[Some(s)] + h[s \ {Some(s)}]
      BY <2>5
    <3>2. h = [s \in UpTo(S, n + 1) |-> h[s]]
      OBVIOUS
    <3> HIDE DEF h
    <3>3. [s \in UpTo(S, n + 1) |-> h[s]]
            = [s \in UpTo(S, n + 1) |-> IF s = {} THEN 0 ELSE f[Some(s)] + h[s \ {Some(s)}]]
      BY <3>1
    <3> QED
      BY <3>2, <3>3
  <2> HIDE DEF h, Does
  <2> QED
    BY <2>6
<1>3. Cardinality(S) \in T
  <2>1. Nat \subseteq T
    <3> HIDE DEF T
    <3> QED
      BY <1>1, <1>2, SetInduction
  <2> QED
    BY <2>1, FS_CardinalityType
<1>4. PICK g : Does(g, Cardinality(S))
  BY <1>3
<1>5. UpTo(S, Cardinality(S)) = SUBSET S
  BY UpToFacts
<1>6. Adds(g, f, S)
  BY <1>4, <1>5 DEF Adds
<1> QED
  BY <1>6

\* Two sums of the same values are equal.
LEMMA SumsAgree ==
    ASSUME NEW f, NEW g, NEW S, NEW T, NEW u, NEW v, Adds(u, f, S), Adds(v, g, T),
           IsFiniteSet(S), \A x \in S : f[x] = g[x], S \subseteq T
    PROVE  \A s \in SUBSET S : u[s] = v[s]
<1> DEFINE N == {n \in Nat : \A s \in UpTo(S, n) : u[s] = v[s]}
<1>1. /\ \A s \in SUBSET S : u[s] = IF s = {} THEN 0 ELSE f[Some(s)] + u[s \ {Some(s)}]
      /\ \A s \in SUBSET S : v[s] = IF s = {} THEN 0 ELSE g[Some(s)] + v[s \ {Some(s)}]
  BY DEF Adds
<1>2. 0 \in N
  <2>1. u[{}] = v[{}]
    BY <1>1
  <2> QED
    BY <2>1, UpToFacts
<1>3. ASSUME NEW n \in Nat, n \in N
      PROVE  n + 1 \in N
  <2> SUFFICES ASSUME NEW s \in UpTo(S, n + 1)
               PROVE  u[s] = v[s]
    OBVIOUS
  <2>1. CASE s = {}
    BY <1>1, <2>1
  <2>2. CASE s # {}
    <3>1. s \in SUBSET S /\ Some(s) \in S /\ s \ {Some(s)} \in UpTo(S, n)
      BY <2>2, SomeIn, UpToFacts DEF UpTo
    <3>2. u[s \ {Some(s)}] = v[s \ {Some(s)}]
      BY <1>3, <3>1
    <3> QED
      BY <1>1, <2>2, <3>1, <3>2
  <2> QED
    BY <2>1, <2>2
<1>4. Nat \subseteq N
  <2> HIDE DEF N
  <2> QED
    BY <1>2, <1>3, SetInduction
<1>5. Cardinality(S) \in N
  BY <1>4, FS_CardinalityType
<1> QED
  BY <1>5, UpToFacts

\* A sum depends on the summands it adds, not on the rest of the function.
LEMMA SumCongruence ==
    ASSUME NEW f, NEW g, NEW S, IsFiniteSet(S), \A x \in S : f[x] = g[x]
    PROVE  SumFunctionOnSet(f, S) = SumFunctionOnSet(g, S)
<1> DEFINE u == CHOOSE iter : Adds(iter, f, S)
           v == CHOOSE iter : Adds(iter, g, S)
<1>1. Adds(u, f, S) /\ Adds(v, g, S)
  BY AddsExists
<1>2. SumFunctionOnSet(f, S) = u[S] /\ SumFunctionOnSet(g, S) = v[S]
  BY SumIs
<1> HIDE DEF u, v
<1> QED
  BY <1>1, <1>2, SumsAgree

\* A sum begins with any of its terms.
LEMMA SumSome ==
    ASSUME NEW f, NEW S, IsFiniteSet(S), S # {}
    PROVE  SumFunctionOnSet(f, S) = f[Some(S)] + SumFunctionOnSet(f, S \ {Some(S)})
<1> DEFINE R == S \ {Some(S)}
           u == CHOOSE iter : Adds(iter, f, S)
           v == CHOOSE iter : Adds(iter, f, R)
<1>0. IsFiniteSet(R)
  BY FS_Subset
<1>1. Adds(u, f, S) /\ Adds(v, f, R)
  BY <1>0, AddsExists
<1>2. SumFunctionOnSet(f, S) = u[S] /\ SumFunctionOnSet(f, R) = v[R]
  BY SumIs
<1> HIDE DEF u, v
<1>3. u[S] = f[Some(S)] + u[R]
  BY <1>1 DEF Adds
<1>4. v[R] = u[R]
  BY <1>0, <1>1, SumsAgree
<1> QED
  BY <1>2, <1>3, <1>4

LEMMA SumEmpty ==
    ASSUME NEW f
    PROVE  SumFunctionOnSet(f, {}) = 0
<1> DEFINE u == CHOOSE iter : Adds(iter, f, {})
<1>1. Adds(u, f, {})
  BY AddsExists, FS_EmptySet
<1>2. SumFunctionOnSet(f, {}) = u[{}]
  BY SumIs
<1> HIDE DEF u
<1> QED
  BY <1>1, <1>2 DEF Adds

LEMMA SumType ==
    ASSUME NEW f, NEW S, IsFiniteSet(S), \A x \in S : f[x] \in Nat
    PROVE  SumFunctionOnSet(f, S) \in Nat
<1> DEFINE N == {n \in Nat : \A s \in UpTo(S, n) : SumFunctionOnSet(f, s) \in Nat}
<1>1. 0 \in N
  <2>1. UpTo(S, 0) = {{}}
    BY UpToFacts
  <2> QED
    BY <2>1, SumEmpty
<1>2. ASSUME NEW n \in Nat, n \in N
      PROVE  n + 1 \in N
  <2> SUFFICES ASSUME NEW s \in UpTo(S, n + 1)
               PROVE  SumFunctionOnSet(f, s) \in Nat
    OBVIOUS
  <2>1. CASE s = {}
    BY <2>1, SumEmpty
  <2>2. CASE s # {}
    <3>1. IsFiniteSet(s) /\ Some(s) \in S /\ s \ {Some(s)} \in UpTo(S, n)
      BY <2>2, SomeIn, UpToFacts DEF UpTo
    <3>2. SumFunctionOnSet(f, s \ {Some(s)}) \in Nat
      BY <1>2, <3>1
    <3>3. SumFunctionOnSet(f, s) = f[Some(s)] + SumFunctionOnSet(f, s \ {Some(s)})
      BY <2>2, <3>1, SumSome
    <3> QED
      BY <3>1, <3>2, <3>3
  <2> QED
    BY <2>1, <2>2
<1>3. Nat \subseteq N
  <2> HIDE DEF N
  <2> QED
    BY <1>1, <1>2, SetInduction
<1>4. Cardinality(S) \in N
  BY <1>3, FS_CardinalityType
<1> QED
  BY <1>4, UpToFacts

\* A sum is any summand and the sum of the others: the order does not matter.
LEMMA SumRemove ==
    ASSUME NEW f, NEW S, IsFiniteSet(S), \A x \in S : f[x] \in Nat, NEW e \in S
    PROVE  SumFunctionOnSet(f, S) = f[e] + SumFunctionOnSet(f, S \ {e})
<1> DEFINE total(s) == SumFunctionOnSet(f, s)
           N == {n \in Nat : \A s \in UpTo(S, n) : \A x \in s : total(s) = f[x] + total(s \ {x})}
<1>1. 0 \in N
  BY UpToFacts
<1>2. ASSUME NEW n \in Nat, n \in N
      PROVE  n + 1 \in N
  <2> SUFFICES ASSUME NEW s \in UpTo(S, n + 1), NEW x \in s
               PROVE  total(s) = f[x] + total(s \ {x})
    OBVIOUS
  <2> DEFINE p == Some(s)
             r == (s \ {p}) \ {x}
  <2>1. s \in SUBSET S /\ IsFiniteSet(s) /\ p \in s /\ Cardinality(s) \in Nat /\ Cardinality(s) <= n + 1
    BY SomeIn, UpToFacts DEF UpTo
  <2>2. total(s) = f[p] + total(s \ {p})
    BY <2>1, SumSome
  <2>3. CASE x = p
    BY <2>2, <2>3
  <2>4. CASE x # p
    <3>1. Cardinality(s \ {p}) = Cardinality(s) - 1 /\ Cardinality(s \ {x}) = Cardinality(s) - 1
      BY <2>1, FS_RemoveElement
    <3>2. s \ {p} \in UpTo(S, n) /\ s \ {x} \in UpTo(S, n)
      BY <2>1, <3>1 DEF UpTo
    <3>3. x \in s \ {p} /\ p \in s \ {x} /\ (s \ {x}) \ {p} = r
      BY <2>1, <2>4
    <3>4. total(s \ {p}) = f[x] + total(r) /\ total(s \ {x}) = f[p] + total(r)
      BY <1>2, <3>2, <3>3
    <3>5. IsFiniteSet(r) /\ f[x] \in Nat /\ f[p] \in Nat /\ \A y \in r : f[y] \in Nat
      BY <2>1, FS_Subset
    <3>6. total(r) \in Nat
      BY <3>5, SumType
    <3> HIDE DEF total, p, r
    <3> QED
      BY <2>2, <3>4, <3>5, <3>6
  <2> QED
    BY <2>3, <2>4
<1>3. Nat \subseteq N
  <2> HIDE DEF N
  <2> QED
    BY <1>1, <1>2, SetInduction
<1>4. Cardinality(S) \in N /\ S \in UpTo(S, Cardinality(S))
  BY <1>3, FS_CardinalityType, UpToFacts
<1> QED
  BY <1>4

\* A sum over two disjoint sets.
LEMMA SumUnion ==
    ASSUME NEW f, NEW S, NEW T, IsFiniteSet(S), IsFiniteSet(T), S \cap T = {},
           \A x \in S \cup T : f[x] \in Nat
    PROVE  SumFunctionOnSet(f, S \cup T) = SumFunctionOnSet(f, S) + SumFunctionOnSet(f, T)
<1> DEFINE total(s) == SumFunctionOnSet(f, s)
           N == {n \in Nat : \A s \in UpTo(S, n) : total(s \cup T) = total(s) + total(T)}
<1>0. total(T) \in Nat
  BY SumType
<1>1. 0 \in N
  <2>1. UpTo(S, 0) = {{}} /\ {} \cup T = T /\ total({}) = 0
    BY UpToFacts, SumEmpty
  <2> HIDE DEF total
  <2>2. \A s \in UpTo(S, 0) : s \cup T = T /\ total(s) = 0 /\ total(s \cup T) = total(T)
    BY <2>1
  <2>3. \A s \in UpTo(S, 0) : total(s \cup T) = total(s) + total(T)
    BY <1>0, <2>2
  <2> QED
    BY <2>3
<1>2. ASSUME NEW n \in Nat, n \in N
      PROVE  n + 1 \in N
  <2> SUFFICES ASSUME NEW s \in UpTo(S, n + 1)
               PROVE  total(s \cup T) = total(s) + total(T)
    OBVIOUS
  <2> DEFINE p == Some(s)
  <2>1. CASE s = {}
    <3>1. s \cup T = T /\ total({}) = 0
      BY <2>1, SumEmpty
    <3> HIDE DEF total
    <3> QED
      BY <1>0, <2>1, <3>1
  <2>2. CASE s # {}
    <3>1. s \in SUBSET S /\ IsFiniteSet(s) /\ p \in s /\ s \ {p} \in UpTo(S, n)
      BY <2>2, SomeIn, UpToFacts DEF UpTo
    <3>2. IsFiniteSet(s \cup T) /\ p \in s \cup T /\ (s \cup T) \ {p} = (s \ {p}) \cup T
          /\ f[p] \in Nat /\ IsFiniteSet(s \ {p})
      BY <3>1, FS_Union, FS_Subset
    <3>3. total(s) = f[p] + total(s \ {p})
      BY <3>1, SumRemove
    <3>4. total(s \cup T) = f[p] + total((s \ {p}) \cup T)
      BY <3>1, <3>2, SumRemove
    <3>5. total((s \ {p}) \cup T) = total(s \ {p}) + total(T)
      BY <1>2, <3>1
    <3>6. total(s \ {p}) \in Nat
      BY <3>1, <3>2, SumType
    <3> HIDE DEF total, p
    <3> QED
      BY <1>0, <3>2, <3>3, <3>4, <3>5, <3>6
  <2> QED
    BY <2>1, <2>2
<1>3. Nat \subseteq N
  <2> HIDE DEF N
  <2> QED
    BY <1>1, <1>2, SetInduction
<1>4. Cardinality(S) \in N /\ S \in UpTo(S, Cardinality(S))
  BY <1>3, FS_CardinalityType, UpToFacts
<1> QED
  BY <1>4

\* The image of a finite set is finite.
LEMMA ImageFinite ==
    ASSUME NEW h, NEW S, IsFiniteSet(S)
    PROVE  IsFiniteSet({h[x] : x \in S})
<1> DEFINE T == {h[x] : x \in S}
           f == [x \in S |-> h[x]]
<1>1. f \in Surjection(S, T)
  BY DEF Surjection
<1> QED
  BY <1>1, FS_Surjection

\* The terms may be renamed.
LEMMA SumImage ==
    ASSUME NEW f, NEW g, NEW h, NEW S, IsFiniteSet(S),
           \A x, y \in S : h[x] = h[y] => x = y,
           \A x \in S : f[x] \in Nat /\ g[h[x]] = f[x]
    PROVE  SumFunctionOnSet(g, {h[x] : x \in S}) = SumFunctionOnSet(f, S)
<1> DEFINE image(s) == {h[x] : x \in s}
           N == {n \in Nat : \A s \in UpTo(S, n) :
                    SumFunctionOnSet(g, image(s)) = SumFunctionOnSet(f, s)}
<1>1. 0 \in N
  <2>1. UpTo(S, 0) = {{}} /\ image({}) = {}
    BY UpToFacts
  <2> QED
    BY <2>1, SumEmpty
<1>2. ASSUME NEW n \in Nat, n \in N
      PROVE  n + 1 \in N
  <2> SUFFICES ASSUME NEW s \in UpTo(S, n + 1)
               PROVE  SumFunctionOnSet(g, image(s)) = SumFunctionOnSet(f, s)
    OBVIOUS
  <2> DEFINE p == Some(s)
  <2>1. CASE s = {}
    BY <2>1, SumEmpty
  <2>2. CASE s # {}
    <3>1. s \in SUBSET S /\ IsFiniteSet(s) /\ p \in s /\ s \ {p} \in UpTo(S, n)
      BY <2>2, SomeIn, UpToFacts DEF UpTo
    <3>2. IsFiniteSet(image(s))
      BY <3>1, ImageFinite
    <3>3. h[p] \in image(s) /\ image(s) \ {h[p]} = image(s \ {p}) /\ g[h[p]] = f[p]
          /\ \A y \in image(s) : g[y] \in Nat
      BY <3>1
    <3>4. SumFunctionOnSet(f, s) = f[p] + SumFunctionOnSet(f, s \ {p})
      BY <3>1, SumRemove
    <3>5. SumFunctionOnSet(g, image(s)) = g[h[p]] + SumFunctionOnSet(g, image(s) \ {h[p]})
      BY <3>2, <3>3, SumRemove
    <3>6. SumFunctionOnSet(g, image(s \ {p})) = SumFunctionOnSet(f, s \ {p})
      BY <1>2, <3>1
    <3> HIDE DEF image, p
    <3> QED
      BY <3>3, <3>4, <3>5, <3>6
  <2> QED
    BY <2>1, <2>2
<1>3. Nat \subseteq N
  <2> HIDE DEF N
  <2> QED
    BY <1>1, <1>2, SetInduction
<1>4. Cardinality(S) \in N /\ S \in UpTo(S, Cardinality(S))
  BY <1>3, FS_CardinalityType, UpToFacts
<1> QED
  BY <1>4

\* One term changes.
LEMMA SumExcept ==
    ASSUME NEW f, NEW g, NEW S, IsFiniteSet(S), NEW e \in S,
           \A x \in S : f[x] \in Nat /\ g[x] \in Nat, \A x \in S \ {e} : g[x] = f[x]
    PROVE  /\ SumFunctionOnSet(g, S) - g[e] = SumFunctionOnSet(f, S) - f[e]
           /\ SumFunctionOnSet(f, S) \in Nat /\ SumFunctionOnSet(g, S) \in Nat
<1>1. IsFiniteSet(S \ {e})
  BY FS_Subset
<1>2. SumFunctionOnSet(g, S \ {e}) = SumFunctionOnSet(f, S \ {e})
  BY <1>1, SumCongruence
<1>3. SumFunctionOnSet(f, S \ {e}) \in Nat
  BY <1>1, SumType
<1>4. /\ SumFunctionOnSet(f, S) = f[e] + SumFunctionOnSet(f, S \ {e})
      /\ SumFunctionOnSet(g, S) = g[e] + SumFunctionOnSet(g, S \ {e})
  BY SumRemove
<1> QED
  BY <1>2, <1>3, <1>4

\* The constants, but for the workloads.
LEMMA ConstantFacts ==
    /\ MSS \in Nat \ {0} /\ IsFiniteSet(Channel) /\ OrderedChannel \subseteq Channel
    /\ InitialCwnd \in Nat /\ MinimumCwnd \in Nat /\ MaximumCwnd \in Nat
    /\ 0 < MinimumCwnd /\ MinimumCwnd <= InitialCwnd /\ InitialCwnd <= MaximumCwnd
    /\ MSS <= MinimumCwnd
BY ReliableAssumption

-----------------------------------------------------------------------------
(* The sizes of a set of fragments *)

\* The fragments of S have sizes, and there are finitely many.
Sized(S) == IsFiniteSet(S) /\ \A f \in S : f.size \in Nat

\* TotalSize of a part of T as a sum over T.
LEMMA TotalSizeIs ==
    ASSUME NEW S, NEW T, S \subseteq T, IsFiniteSet(S)
    PROVE  TotalSize(S) = SumFunctionOnSet([f \in T |-> f.size], S)
<1>1. TotalSize(S) = SumFunctionOnSet([f \in S |-> f.size], S)
  BY DEF TotalSize, SumFunction
<1>2. \A x \in S : [f \in S |-> f.size][x] = [f \in T |-> f.size][x]
  OBVIOUS
<1> QED
  BY <1>1, <1>2, SumCongruence

LEMMA TotalSizeType ==
    ASSUME NEW S, Sized(S)
    PROVE  TotalSize(S) \in Nat
BY TotalSizeIs, SumType, ZenonT(60) DEF Sized

LEMMA TotalSizeEmpty == TotalSize({}) = 0
BY TotalSizeIs, SumEmpty, FS_EmptySet

\* One fragment more, one fragment less, and a part taken out of the whole: how
\* queue, commit and consumeFragmentAck move the counters.
LEMMA TotalSizeAdd ==
    ASSUME NEW S, NEW T, Sized(S), Sized(T), S \cap T = {}
    PROVE  /\ Sized(S \cup T)
           /\ TotalSize(S \cup T) = TotalSize(S) + TotalSize(T)
<1> DEFINE g == [f \in S \cup T |-> f.size]
<1>1. Sized(S \cup T)
  BY FS_Union DEF Sized
<1>2. /\ TotalSize(S \cup T) = SumFunctionOnSet(g, S \cup T)
      /\ TotalSize(S) = SumFunctionOnSet(g, S)
      /\ TotalSize(T) = SumFunctionOnSet(g, T)
  <2>1. /\ IsFiniteSet(S \cup T) /\ IsFiniteSet(S) /\ IsFiniteSet(T)
        /\ S \subseteq S \cup T /\ T \subseteq S \cup T /\ S \cup T \subseteq S \cup T
    BY <1>1 DEF Sized
  <2> QED
    BY <2>1, TotalSizeIs
<1>3. \A x \in S \cup T : g[x] \in Nat
  BY DEF Sized
<1> HIDE DEF g
<1>4. SumFunctionOnSet(g, S \cup T) = SumFunctionOnSet(g, S) + SumFunctionOnSet(g, T)
  BY <1>3, SumUnion DEF Sized
<1> QED
  BY <1>1, <1>2, <1>4

LEMMA TotalSizeMinus ==
    ASSUME NEW S, NEW T, Sized(S), T \subseteq S
    PROVE  /\ Sized(T) /\ Sized(S \ T)
           /\ TotalSize(S) \in Nat /\ TotalSize(T) \in Nat
           /\ TotalSize(S \ T) = TotalSize(S) - TotalSize(T)
<1>1. Sized(T) /\ Sized(S \ T)
  BY FS_Subset DEF Sized
<1>2. TotalSize(S \ T) \in Nat /\ TotalSize(T) \in Nat /\ TotalSize(S) \in Nat
  BY <1>1, TotalSizeType
<1>3. T \cap (S \ T) = {} /\ T \cup (S \ T) = S
  OBVIOUS
<1>4. TotalSize(S) = TotalSize(T) + TotalSize(S \ T)
  BY <1>1, <1>3, TotalSizeAdd
<1> QED
  BY <1>1, <1>2, <1>4

\* A fragment is no larger than the set it is in.
LEMMA TotalSizeOne ==
    ASSUME NEW f, f.size \in Nat
    PROVE  Sized({f}) /\ TotalSize({f}) = f.size
<1> DEFINE g == [x \in {f} |-> x.size]
<1>1. IsFiniteSet({f})
  BY FS_Singleton
<1>2. TotalSize({f}) = SumFunctionOnSet(g, {f})
  BY <1>1, TotalSizeIs
<1>3. \A x \in {f} : g[x] \in Nat
  OBVIOUS
<1>4. g[f] = f.size
  OBVIOUS
<1> HIDE DEF g
<1>5. SumFunctionOnSet(g, {f}) = g[f] + SumFunctionOnSet(g, {f} \ {f})
  BY <1>1, <1>3, SumRemove
<1>6. {f} \ {f} = {}
  OBVIOUS
<1> QED
  BY <1>1, <1>2, <1>4, <1>5, <1>6, SumEmpty DEF Sized

\* One more term.
LEMMA SumOneMore ==
    ASSUME NEW f, NEW S, IsFiniteSet(S), NEW e, e \notin S,
           \A x \in S \cup {e} : f[x] \in Nat
    PROVE  /\ SumFunctionOnSet(f, S \cup {e}) = SumFunctionOnSet(f, S) + f[e]
           /\ SumFunctionOnSet(f, S) \in Nat
<1>1. IsFiniteSet(S \cup {e}) /\ e \in S \cup {e} /\ (S \cup {e}) \ {e} = S
  BY FS_AddElement
<1>2. SumFunctionOnSet(f, S \cup {e}) = f[e] + SumFunctionOnSet(f, (S \cup {e}) \ {e})
  BY <1>1, SumRemove
<1>3. SumFunctionOnSet(f, S) \in Nat
  BY SumType
<1>4. f[e] \in Nat
  OBVIOUS
<1>5. SumFunctionOnSet(f, S \cup {e}) = f[e] + SumFunctionOnSet(f, S)
  BY <1>1, <1>2
<1> QED
  BY <1>3, <1>4, <1>5

\* A sum of zeros.
LEMMA SumZero ==
    ASSUME NEW f, NEW S, IsFiniteSet(S), \A x \in S : f[x] = 0
    PROVE  SumFunctionOnSet(f, S) = 0
<1> DEFINE N == {n \in Nat : \A s \in UpTo(S, n) : SumFunctionOnSet(f, s) = 0}
<1>1. 0 \in N
  BY UpToFacts, SumEmpty
<1>2. ASSUME NEW n \in Nat, n \in N
      PROVE  n + 1 \in N
  <2> SUFFICES ASSUME NEW s \in UpTo(S, n + 1)
               PROVE  SumFunctionOnSet(f, s) = 0
    OBVIOUS
  <2>1. CASE s = {}
    BY <2>1, SumEmpty
  <2>2. CASE s # {}
    <3>1. s \in SUBSET S /\ IsFiniteSet(s) /\ Some(s) \in s /\ s \ {Some(s)} \in UpTo(S, n)
      BY <2>2, SomeIn, UpToFacts DEF UpTo
    <3>2. SumFunctionOnSet(f, s \ {Some(s)}) = 0 /\ f[Some(s)] = 0
      BY <1>2, <3>1
    <3>3. SumFunctionOnSet(f, s) = f[Some(s)] + SumFunctionOnSet(f, s \ {Some(s)})
      BY <2>2, <3>1, SumSome
    <3> QED
      BY <3>2, <3>3
  <2> QED
    BY <2>1, <2>2
<1>3. Nat \subseteq N
  <2> HIDE DEF N
  <2> QED
    BY <1>1, <1>2, SetInduction
<1>4. Cardinality(S) \in N /\ S \in UpTo(S, Cardinality(S))
  BY <1>3, FS_CardinalityType, UpToFacts
<1> QED
  BY <1>4

-----------------------------------------------------------------------------
(* Sequences of fragments *)

\* What Only keeps: the entries at the positions g[1] < g[2] < ..., which are all
\* that are in keep.
Picks(t, s, keep, n) ==
    \E g \in [1 .. Len(t) -> 1 .. n] :
        /\ \A i, j \in 1 .. Len(t) : i < j => g[i] < g[j]
        /\ \A i \in 1 .. Len(t) : t[i] = s[g[i]] /\ s[g[i]] \in keep
        /\ \A k \in 1 .. n : s[k] \in keep => \E i \in 1 .. Len(t) : g[i] = k

\* Only keeps some of the entries of a sequence, in their order.
LEMMA OnlyPicks ==
    ASSUME NEW S, NEW s \in Seq(S), NEW keep
    PROVE  Picks(Only(s, keep), s, keep, Len(s))
<1> DEFINE f == CHOOSE h : Follows(h, s, keep, Len(s))
<1>1. Len(s) \in Nat /\ \A k \in 1 .. Len(s) : s[k] \in S
  OBVIOUS
<1>2. Follows(f, s, keep, Len(s))
  BY <1>1, FollowsExists, Zenon
<1>3. Only(s, keep) = f[Len(s)]
  BY DEF Only, Follows
<1> HIDE DEF f
<1> DEFINE T == {n \in Nat : n <= Len(s) => f[n] \in Seq(S) /\ Picks(f[n], s, keep, n)}
<1>4. 0 \in T
  <2>1. f[0] = <<>>
    BY <1>1, <1>2 DEF Follows
  <2>2. Picks(<<>>, s, keep, 0)
    <3> DEFINE g == [i \in 1 .. 0 |-> i]
    <3>1. Len(<<>>) = 0 /\ 1 .. 0 = {}
      OBVIOUS
    <3>2. g \in [1 .. Len(<<>>) -> 1 .. 0]
      BY <3>1
    <3> QED
      BY <3>1, <3>2 DEF Picks
  <2>3. <<>> \in Seq(S)
    OBVIOUS
  <2>4. f[0] \in Seq(S) /\ Picks(f[0], s, keep, 0)
    BY <2>1, <2>2, <2>3, Zenon
  <2> QED
    BY <2>4
<1>5. ASSUME NEW n \in Nat, n \in T
      PROVE  n + 1 \in T
  <2> SUFFICES ASSUME n + 1 <= Len(s)
               PROVE  f[n + 1] \in Seq(S) /\ Picks(f[n + 1], s, keep, n + 1)
    OBVIOUS
  <2>1. f[n] \in Seq(S) /\ s[n + 1] \in S /\ n + 1 \in 0 .. Len(s) /\ n + 1 # 0 /\ (n + 1) - 1 = n
    BY <1>1, <1>5
  <2>2. f[n + 1] = IF s[n + 1] \in keep THEN Append(f[n], s[n + 1]) ELSE f[n]
    BY <1>2, <2>1 DEF Follows
  <2>3. f[n + 1] \in Seq(S)
    BY <2>1, <2>2, AppendProperties
  <2>4. PICK g \in [1 .. Len(f[n]) -> 1 .. n] :
           /\ \A i, j \in 1 .. Len(f[n]) : i < j => g[i] < g[j]
           /\ \A i \in 1 .. Len(f[n]) : f[n][i] = s[g[i]] /\ s[g[i]] \in keep
           /\ \A k \in 1 .. n : s[k] \in keep => \E i \in 1 .. Len(f[n]) : g[i] = k
    BY <1>1, <1>5 DEF Picks
  <2>5. CASE s[n + 1] \notin keep
    <3>1. g \in [1 .. Len(f[n]) -> 1 .. n + 1]
      BY <2>1, <2>4
    <3>2. \A k \in 1 .. n + 1 : s[k] \in keep => k \in 1 .. n
      BY <2>5
    <3>3. Picks(f[n], s, keep, n + 1)
      BY <2>4, <3>1, <3>2 DEF Picks
    <3> QED
      BY <2>2, <2>3, <2>5, <3>3
  <2>6. CASE s[n + 1] \in keep
    <3> DEFINE t == f[n + 1]
               h == [i \in 1 .. Len(t) |-> IF i <= Len(f[n]) THEN g[i] ELSE n + 1]
    <3>1. /\ Len(t) = Len(f[n]) + 1 /\ Len(f[n]) \in Nat
          /\ \A i \in 1 .. Len(f[n]) : t[i] = f[n][i]
          /\ t[Len(f[n]) + 1] = s[n + 1]
      BY <2>1, <2>2, <2>6, AppendProperties
    <3>2. \A i \in 1 .. Len(f[n]) : g[i] \in 1 .. n
      BY <2>4
    <3> HIDE DEF t
    <3>3. h \in [1 .. Len(t) -> 1 .. n + 1]
      BY <3>1, <3>2
    <3>4. \A i, j \in 1 .. Len(t) : i < j => h[i] < h[j]
      BY <2>4, <3>1, <3>2
    <3>5. \A i \in 1 .. Len(t) : t[i] = s[h[i]] /\ s[h[i]] \in keep
      BY <2>4, <2>6, <3>1
    <3>6. \A k \in 1 .. n + 1 : s[k] \in keep => \E i \in 1 .. Len(t) : h[i] = k
      <4> SUFFICES ASSUME NEW k \in 1 .. n + 1, s[k] \in keep
                   PROVE  \E i \in 1 .. Len(t) : h[i] = k
        OBVIOUS
      <4>1. CASE k = n + 1
        <5>1. Len(t) \in 1 .. Len(t) /\ h[Len(t)] = k
          BY <4>1, <3>1
        <5> QED
          BY <5>1
      <4>2. CASE k \in 1 .. n
        <5>1. PICK i \in 1 .. Len(f[n]) : g[i] = k
          BY <2>4, <4>2
        <5>2. i \in 1 .. Len(t) /\ h[i] = k
          BY <5>1, <3>1
        <5> QED
          BY <5>2
      <4> QED
        BY <4>1, <4>2
    <3> HIDE DEF h
    <3>7. Picks(t, s, keep, n + 1)
      BY <3>3, <3>4, <3>5, <3>6 DEF Picks
    <3> QED
      BY <2>3, <3>7 DEF t
  <2> QED
    BY <2>5, <2>6
<1>6. Nat \subseteq T
  <2> HIDE DEF T
  <2> QED
    BY <1>4, <1>5, SetInduction
<1> QED
  BY <1>1, <1>3, <1>6

\* The entries of a sequence are in a set and finitely many.
LEMMA ToSetFacts ==
    ASSUME NEW S, NEW s \in Seq(S)
    PROVE  /\ ToSet(s) \subseteq S /\ IsFiniteSet(ToSet(s))
           /\ DOMAIN s = 1 .. Len(s) /\ Len(s) \in Nat /\ IsFiniteSet(DOMAIN s)
           /\ \A i \in DOMAIN s : s[i] \in ToSet(s)
<1>1. DOMAIN s = 1 .. Len(s) /\ Len(s) \in Nat /\ \A i \in DOMAIN s : s[i] \in S
  OBVIOUS
<1>2. IsFiniteSet(DOMAIN s)
  BY <1>1, FS_Interval
<1>3. IsFiniteSet({s[i] : i \in DOMAIN s})
  BY <1>2, ImageFinite
<1> QED
  BY <1>1, <1>2, <1>3 DEF ToSet

\* As a set, what is kept.
LEMMA OnlySet ==
    ASSUME NEW S, NEW s \in Seq(S), NEW keep
    PROVE  ToSet(Only(s, keep)) = ToSet(s) \cap keep
<1> DEFINE t == Only(s, keep)
<1>1. t \in Seq(S) /\ DOMAIN t = 1 .. Len(t) /\ DOMAIN s = 1 .. Len(s)
  BY OnlyType
<1>2. PICK g \in [1 .. Len(t) -> 1 .. Len(s)] :
              /\ \A i \in 1 .. Len(t) : t[i] = s[g[i]] /\ s[g[i]] \in keep
              /\ \A k \in 1 .. Len(s) : s[k] \in keep => \E i \in 1 .. Len(t) : g[i] = k
  BY OnlyPicks DEF Picks
<1> HIDE DEF t
<1>3. DOMAIN g = 1 .. Len(t) /\ \A i \in 1 .. Len(t) : g[i] \in 1 .. Len(s)
  OBVIOUS
<1>4. ASSUME NEW x \in ToSet(t)
      PROVE  x \in ToSet(s) \cap keep
  BY <1>1, <1>2, <1>3, <1>4 DEF ToSet
<1>5. ASSUME NEW x \in ToSet(s), x \in keep
      PROVE  x \in ToSet(t)
  <2>1. PICK k \in 1 .. Len(s) : s[k] = x
    BY <1>1, <1>5 DEF ToSet
  <2>2. PICK i \in 1 .. Len(t) : g[i] = k
    BY <1>2, <1>5, <2>1
  <2>3. t[i] = x
    BY <1>2, <2>1, <2>2
  <2> QED
    BY <1>1, <2>3 DEF ToSet
<1> QED
  BY <1>4, <1>5 DEF t

\* No two entries are the same fragment.
Distinct(s) == \A i, j \in DOMAIN s : FragmentKey(s[i]) = FragmentKey(s[j]) => i = j

\* A filtered list names no fragment twice.
LEMMA OnlyDistinct ==
    ASSUME NEW S, NEW s \in Seq(S), NEW keep, Distinct(s)
    PROVE  Distinct(Only(s, keep))
<1> DEFINE t == Only(s, keep)
<1>1. t \in Seq(S) /\ DOMAIN t = 1 .. Len(t) /\ DOMAIN s = 1 .. Len(s) /\ Len(t) \in Nat
  BY OnlyType
<1>2. PICK g \in [1 .. Len(t) -> 1 .. Len(s)] :
              /\ \A i, j \in 1 .. Len(t) : i < j => g[i] < g[j]
              /\ \A i \in 1 .. Len(t) : t[i] = s[g[i]] /\ s[g[i]] \in keep
  BY OnlyPicks DEF Picks
<1> HIDE DEF t
<1>3. SUFFICES ASSUME NEW i \in 1 .. Len(t), NEW j \in 1 .. Len(t),
                      FragmentKey(t[i]) = FragmentKey(t[j])
               PROVE  i = j
  BY <1>1 DEF Distinct, t
<1>4. g[i] \in DOMAIN s /\ g[j] \in DOMAIN s /\ t[i] = s[g[i]] /\ t[j] = s[g[j]]
  BY <1>1, <1>2
<1>5. g[i] = g[j]
  BY <1>3, <1>4 DEF Distinct
<1>6. g[i] \in Int /\ g[j] \in Int /\ i \in Int /\ j \in Int
  BY <1>1, <1>2
<1> QED
  BY <1>2, <1>5, <1>6

LEMMA SizesNat ==
    ASSUME NEW s \in Seq(Fragment)
    PROVE  \A i \in DOMAIN s : s[i] \in Fragment /\ s[i].size \in Nat
<1>1. \A i \in DOMAIN s : s[i] \in Fragment
  OBVIOUS
<1>2. \A f \in Fragment : f.size \in Nat
  BY ConstantFacts DEF Fragment
<1> QED
  BY <1>1, <1>2

\* Sizes may be added up position by position.
LEMMA IndexSum ==
    ASSUME NEW s \in Seq(Fragment), Distinct(s), NEW I \in SUBSET DOMAIN s
    PROVE  TotalSize({s[i] : i \in I}) = SumFunctionOnSet([i \in DOMAIN s |-> s[i].size], I)
<1> DEFINE S == {s[i] : i \in I}
           g == [f \in S |-> f.size]
           h == [i \in DOMAIN s |-> s[i].size]
<1>1. IsFiniteSet(I) /\ IsFiniteSet(S)
  BY ToSetFacts, FS_Subset, ImageFinite
<1>2. TotalSize(S) = SumFunctionOnSet(g, S)
  BY <1>1, TotalSizeIs
<1>3. \A x, y \in I : s[x] = s[y] => x = y
  BY DEF Distinct
<1>4. \A x \in I : h[x] \in Nat /\ g[s[x]] = h[x]
  BY SizesNat
<1> HIDE DEF g, h
<1>5. SumFunctionOnSet(g, {s[x] : x \in I}) = SumFunctionOnSet(h, I)
  BY <1>1, <1>3, <1>4, SumImage
<1> QED
  BY <1>2, <1>5 DEF h

LEMMA FragmentsSized ==
    ASSUME NEW S \in SUBSET Fragment, IsFiniteSet(S)
    PROVE  Sized(S)
BY ConstantFacts DEF Sized, Fragment

\* The sent ones of a set of fragments.
SentOf(S) == {f \in S : f.sent}

\* One fragment is marked as sent, and flags that do not matter here may change.
LEMMA MarkSent ==
    ASSUME NEW s \in Seq(Fragment), NEW t \in Seq(Fragment), Distinct(s),
           Len(t) = Len(s), NEW i \in DOMAIN s,
           \A j \in DOMAIN s : /\ FragmentKey(t[j]) = FragmentKey(s[j])
                               /\ t[j].size = s[j].size
                               /\ t[j].sent = (s[j].sent \/ j = i)
    PROVE  /\ Distinct(t)
           /\ TotalSize(ToSet(t)) = TotalSize(ToSet(s))
           /\ s[i].sent => TotalSize(SentOf(ToSet(t))) = TotalSize(SentOf(ToSet(s)))
           /\ ~s[i].sent => TotalSize(SentOf(ToSet(t))) = TotalSize(SentOf(ToSet(s))) + s[i].size
<1> DEFINE f == [j \in DOMAIN s |-> s[j].size]
           g == [j \in DOMAIN t |-> t[j].size]
           I == {j \in DOMAIN s : s[j].sent}
           J == {j \in DOMAIN t : t[j].sent}
<1>1. DOMAIN t = DOMAIN s /\ DOMAIN s = 1 .. Len(s) /\ IsFiniteSet(DOMAIN s)
  BY ToSetFacts
<1>2. Distinct(t)
  BY <1>1 DEF Distinct
<1>3. f = g
  BY <1>1
<1>4. ToSet(s) = {s[j] : j \in DOMAIN s} /\ ToSet(t) = {t[j] : j \in DOMAIN t}
  BY DEF ToSet
<1>5. SentOf(ToSet(s)) = {s[j] : j \in I} /\ SentOf(ToSet(t)) = {t[j] : j \in J}
  BY <1>4 DEF SentOf
<1>6. /\ TotalSize(ToSet(s)) = SumFunctionOnSet(f, DOMAIN s)
      /\ TotalSize(ToSet(t)) = SumFunctionOnSet(g, DOMAIN t)
      /\ TotalSize(SentOf(ToSet(s))) = SumFunctionOnSet(f, I)
      /\ TotalSize(SentOf(ToSet(t))) = SumFunctionOnSet(g, J)
  <2>1. /\ I \subseteq DOMAIN s /\ DOMAIN s \subseteq DOMAIN s
        /\ J \subseteq DOMAIN t /\ DOMAIN t \subseteq DOMAIN t
    OBVIOUS
  <2> HIDE DEF I, J
  <2>2. /\ TotalSize(ToSet(s)) = SumFunctionOnSet(f, DOMAIN s)
        /\ TotalSize(SentOf(ToSet(s))) = SumFunctionOnSet(f, I)
    BY <1>4, <1>5, <2>1, IndexSum
  <2>3. /\ TotalSize(ToSet(t)) = SumFunctionOnSet(g, DOMAIN t)
        /\ TotalSize(SentOf(ToSet(t))) = SumFunctionOnSet(g, J)
    BY <1>2, <1>4, <1>5, <2>1, IndexSum
  <2> QED
    BY <2>2, <2>3
<1>7. TotalSize(ToSet(t)) = TotalSize(ToSet(s))
  BY <1>1, <1>3, <1>6
<1>8. J = I \cup {i}
  BY <1>1
<1>9. ASSUME s[i].sent
      PROVE  TotalSize(SentOf(ToSet(t))) = TotalSize(SentOf(ToSet(s)))
  <2>1. J = I
    BY <1>8, <1>9
  <2> QED
    BY <2>1, <1>3, <1>6
<1>10. ASSUME ~s[i].sent
       PROVE  TotalSize(SentOf(ToSet(t))) = TotalSize(SentOf(ToSet(s))) + s[i].size
  <2>1. IsFiniteSet(I) /\ I \subseteq DOMAIN s /\ i \notin I
    BY <1>1, <1>10, FS_Subset
  <2>2. \A j \in I \cup {i} : f[j] \in Nat
    BY SizesNat
  <2>3. f[i] = s[i].size /\ s[i].size \in Nat
    BY SizesNat
  <2> HIDE DEF f, g, I, J
  <2>4. /\ SumFunctionOnSet(f, I \cup {i}) = SumFunctionOnSet(f, I) + f[i]
        /\ SumFunctionOnSet(f, I) \in Nat
    BY <2>1, <2>2, SumOneMore
  <2>5. SumFunctionOnSet(g, J) = SumFunctionOnSet(f, I) + s[i].size
    BY <1>3, <1>8, <2>3, <2>4
  <2> QED
    BY <1>6, <2>5
<1> QED
  BY <1>2, <1>7, <1>9, <1>10

-----------------------------------------------------------------------------
(* Queueing *)

\* Only one factor may vary: the provers do no nonlinear arithmetic.
LEMMA ProductGrows ==
    ASSUME NEW m \in Nat, NEW i \in Nat, NEW j \in Nat, i <= j
    PROVE  i * m \in Nat /\ j * m \in Nat /\ i * m <= j * m
<1>1. PICK d \in Nat : j = i + d
  <2>1. j - i \in Nat /\ j = i + (j - i)
    OBVIOUS
  <2> QED
    BY <2>1
<1>2. j * m = i * m + d * m
  BY <1>1
<1>3. i * m \in Nat /\ d * m \in Nat
  OBVIOUS
<1> QED
  BY <1>2, <1>3

\* A message that queue accepts has at least one fragment, and only its last one
\* is smaller than MSS.
LEMMA FragmentCountFacts ==
    ASSUME NEW size \in Nat \ {0}
    PROVE  /\ FragmentCount(size) \in Nat \ {0}
           /\ size <= FragmentCount(size) * MSS
           /\ (FragmentCount(size) - 1) * MSS < size
<1> DEFINE n == FragmentCount(size)
           x == size + MSS - 1
<1>1. x \in Nat /\ MSS \in Nat \ {0} /\ x >= MSS
  BY ConstantFacts
<1>2. n = x \div MSS
  BY DEF FragmentCount
<1> HIDE DEF n, x
<1>3. n \in Nat /\ MSS * n <= x /\ x < MSS * n + MSS
  BY <1>1, <1>2
<1>4. n # 0
  BY <1>1, <1>3
<1>5. MSS * n = n * MSS /\ (n - 1) * MSS = n * MSS - MSS
  BY <1>1, <1>3
<1>6. n * MSS \in Int
  BY <1>1, <1>3
<1> QED
  BY <1>1, <1>3, <1>4, <1>5, <1>6 DEF n, x

\* The sizes of the fragments of a message.
CutSize(size, i) == LesserOf(MSS, size - (i - 1) * MSS)

LEMMA CutSizeType ==
    ASSUME NEW size \in Nat \ {0}, NEW i \in 1 .. FragmentCount(size)
    PROVE  CutSize(size, i) \in 1 .. MSS /\ (i - 1) * MSS \in Nat /\ (i - 1) * MSS < size
<1> DEFINE n == FragmentCount(size)
<1>1. n \in Nat \ {0} /\ (n - 1) * MSS < size /\ MSS \in Nat \ {0}
  BY FragmentCountFacts, ConstantFacts
<1>2. i - 1 \in Nat /\ n - 1 \in Nat /\ i - 1 <= n - 1
  BY <1>1
<1> HIDE DEF n
<1>3. (i - 1) * MSS \in Nat /\ (n - 1) * MSS \in Nat /\ (i - 1) * MSS <= (n - 1) * MSS
  BY <1>1, <1>2, ProductGrows
<1> QED
  BY <1>1, <1>3 DEF CutSize, LesserOf

\* The fragments of a message have the size of the message.
LEMMA CutSum ==
    ASSUME NEW size \in Nat \ {0}, NEW g, NEW n, n = FragmentCount(size),
           \A i \in 1 .. n : g[i] = CutSize(size, i)
    PROVE  SumFunctionOnSet(g, 1 .. n) = size
<1> DEFINE N == {k \in Nat : k <= n => SumFunctionOnSet(g, 1 .. k) = LesserOf(k * MSS, size)}
<1>1. n \in Nat \ {0} /\ size <= n * MSS /\ MSS \in Nat \ {0} /\ n * MSS \in Nat
  BY FragmentCountFacts, ConstantFacts
<1>2. 0 \in N
  <2>1. 1 .. 0 = {} /\ 0 * MSS = 0
    BY <1>1
  <2> QED
    BY <2>1, SumEmpty DEF LesserOf
<1>3. ASSUME NEW k \in Nat, k \in N
      PROVE  k + 1 \in N
  <2> SUFFICES ASSUME k + 1 <= n
               PROVE  SumFunctionOnSet(g, 1 .. k + 1) = LesserOf((k + 1) * MSS, size)
    OBVIOUS
  <2>1. k + 1 \in 1 .. n /\ (k + 1) - 1 = k
    BY <1>1
  <2>2. k * MSS \in Nat /\ k * MSS < size
    BY <2>1, CutSizeType
  <2>3. SumFunctionOnSet(g, 1 .. k) = k * MSS
    BY <1>1, <1>3, <2>1, <2>2 DEF LesserOf
  <2>4. g[k + 1] = LesserOf(MSS, size - k * MSS)
    BY <2>1 DEF CutSize
  <2>5. \A x \in (1 .. k) \cup {k + 1} : g[x] \in Nat
    <3>1. \A x \in 1 .. n : g[x] \in Nat
      BY <1>1, CutSizeType
    <3> QED
      BY <1>1, <2>1, <3>1
  <2>6. IsFiniteSet(1 .. k) /\ k + 1 \notin 1 .. k /\ (1 .. k) \cup {k + 1} = 1 .. k + 1
    <3>1. IsFiniteSet(1 .. k)
      BY FS_Interval
    <3>2. k + 1 \notin 1 .. k /\ (1 .. k) \cup {k + 1} = 1 .. k + 1
      OBVIOUS
    <3> QED
      BY <3>1, <3>2
  <2>7. SumFunctionOnSet(g, 1 .. k + 1) = SumFunctionOnSet(g, 1 .. k) + g[k + 1]
    <3>1. SumFunctionOnSet(g, (1 .. k) \cup {k + 1}) = SumFunctionOnSet(g, 1 .. k) + g[k + 1]
      BY <2>5, <2>6, SumOneMore
    <3> QED
      BY <2>6, <3>1
  <2>8. (k + 1) * MSS = k * MSS + MSS
    BY <1>1
  <2> QED
    BY <1>1, <2>2, <2>3, <2>4, <2>7, <2>8 DEF LesserOf
<1>4. Nat \subseteq N
  <2> HIDE DEF N
  <2> QED
    BY <1>2, <1>3, SetInduction
<1>5. SumFunctionOnSet(g, 1 .. n) = LesserOf(n * MSS, size)
  BY <1>1, <1>4
<1> QED
  BY <1>1, <1>5 DEF LesserOf

-----------------------------------------------------------------------------
(* What holds of each transport *)

\* What receive keeps of a fragment.
HeldFragment == [seq : Nat \ {0}, index : Nat, count : Nat, size : Nat]

\* The reliableChannel struct.
ChannelRecord ==
    [next : Nat, received : Window, ackDirty : BOOLEAN, nextDelivered : Nat \ {0},
     held : SUBSET HeldFragment]

\* The reliableTransport struct.
TransportRecord ==
    [ackChannels : Seq(Channel), channels : [Channel -> ChannelRecord],
     outbound : Seq(Fragment), flight : Seq(Channel \X Nat),
     queuedBytes : Nat, bytesInFlight : Nat,
     reassemblyBytes : Nat, reassemblyCount : Nat, reassemblyParts : Nat,
     cwnd : MinimumCwnd .. MaximumCwnd, ssthresh : Nat,
     ackCursor : Nat, dataCursor : Nat, preferACK : BOOLEAN]

\* What nextPacket puts on the path.
Packet ==
    [channel : Channel, seq : Nat, index : Nat, count : Nat, size : Nat,
     base : Nat, bitmap : SUBSET Bits]

\* The transport has seen the channels it has fragments for, and has numbered
\* those fragments.
Known(r) ==
    \A f \in ToSet(r.outbound) :
        f.channel \in ToSet(r.ackChannels) /\ f.seq <= r.channels[f.channel].next

\* queuedBytes and bytesInFlight are the sizes of what is listed and of what of
\* it was sent.
OutboundExact(r) ==
    /\ r.queuedBytes = TotalSize(ToSet(r.outbound))
    /\ r.bytesInFlight = TotalSize(SentOf(ToSet(r.outbound)))

\* What each channel holds in its assemblies: fragments, bytes and messages.
PartsHeld(r) == [c \in Channel |-> Cardinality(r.channels[c].held)]
BytesHeld(r) == [c \in Channel |-> TotalSize(r.channels[c].held)]
MessagesHeld(r) == [c \in Channel |-> Cardinality(Starts(r.channels[c].held))]

\* The three reassembly counters are the sums over the channels.
HeldExact(r) ==
    /\ \A c \in Channel : IsFiniteSet(r.channels[c].held)
    /\ r.reassemblyParts = SumFunction(PartsHeld(r))
    /\ r.reassemblyBytes = SumFunction(BytesHeld(r))
    /\ r.reassemblyCount = SumFunction(MessagesHeld(r))

\* A fragment is listed once, and the counters of the list are exact.
OutboundSound(r) == Known(r) /\ Distinct(r.outbound) /\ OutboundExact(r)

\* What every method keeps of its transport.
Sound(r) == r \in TransportRecord /\ OutboundSound(r) /\ HeldExact(r)

\* A method that leaves the assemblies and their counters alone keeps them exact.
LEMMA HeldKept ==
    ASSUME NEW r, NEW s, HeldExact(r),
           \A c \in Channel : s.channels[c].held = r.channels[c].held,
           s.reassemblyParts = r.reassemblyParts, s.reassemblyBytes = r.reassemblyBytes,
           s.reassemblyCount = r.reassemblyCount
    PROVE  HeldExact(s)
<1>1. PartsHeld(s) = PartsHeld(r) /\ BytesHeld(s) = BytesHeld(r) /\ MessagesHeld(s) = MessagesHeld(r)
  BY DEF PartsHeld, BytesHeld, MessagesHeld
<1> QED
  BY <1>1 DEF HeldExact

LEMMA HeldSized ==
    ASSUME NEW S \in SUBSET HeldFragment, IsFiniteSet(S)
    PROVE  /\ Sized(S) /\ TotalSize(S) \in Nat
           /\ IsFiniteSet(Starts(S)) /\ Cardinality(Starts(S)) \in Nat /\ Cardinality(S) \in Nat
<1>1. Sized(S)
  BY DEF Sized, HeldFragment
<1>2. IsFiniteSet(Starts(S))
  <2> DEFINE h == [f \in S |-> Start(f)]
  <2>1. Starts(S) = {h[f] : f \in S}
    BY DEF Starts
  <2> QED
    BY <2>1, ImageFinite
<1> QED
  BY <1>1, <1>2, TotalSizeType, FS_CardinalityType

\* What one channel holds changes, and the counters with it.
LEMMA HeldChanged ==
    ASSUME NEW r, NEW s, HeldExact(r), NEW c \in Channel, IsFiniteSet(Channel),
           \A d \in Channel : r.channels[d].held \in SUBSET HeldFragment,
           s.channels[c].held \in SUBSET HeldFragment, IsFiniteSet(s.channels[c].held),
           \A d \in Channel \ {c} : s.channels[d].held = r.channels[d].held,
           s.reassemblyParts = r.reassemblyParts
               + Cardinality(s.channels[c].held) - Cardinality(r.channels[c].held),
           s.reassemblyBytes = r.reassemblyBytes
               + TotalSize(s.channels[c].held) - TotalSize(r.channels[c].held),
           s.reassemblyCount = r.reassemblyCount
               + Cardinality(Starts(s.channels[c].held)) - Cardinality(Starts(r.channels[c].held))
    PROVE  /\ HeldExact(s)
           /\ s.reassemblyParts \in Nat /\ s.reassemblyBytes \in Nat /\ s.reassemblyCount \in Nat
<1> DEFINE Changed(f, g) ==
             /\ DOMAIN f = Channel /\ DOMAIN g = Channel
             /\ \A d \in Channel : f[d] \in Nat /\ g[d] \in Nat
             /\ \A d \in Channel \ {c} : g[d] = f[d]
<1>1. ASSUME NEW f, NEW g, Changed(f, g)
      PROVE  /\ SumFunction(g) = SumFunction(f) + g[c] - f[c]
             /\ SumFunction(g) \in Nat
  <2>1. /\ SumFunctionOnSet(g, Channel) - g[c] = SumFunctionOnSet(f, Channel) - f[c]
        /\ SumFunctionOnSet(f, Channel) \in Nat /\ SumFunctionOnSet(g, Channel) \in Nat
    BY <1>1, SumExcept
  <2>2. SumFunction(g) = SumFunctionOnSet(g, Channel) /\ SumFunction(f) = SumFunctionOnSet(f, Channel)
    BY <1>1 DEF SumFunction
  <2>3. f[c] \in Nat /\ g[c] \in Nat
    BY <1>1
  <2> QED
    BY <2>1, <2>2, <2>3
<1>2. \A d \in Channel : /\ r.channels[d].held \in SUBSET HeldFragment
                         /\ IsFiniteSet(r.channels[d].held)
                         /\ s.channels[d].held \in SUBSET HeldFragment
                         /\ IsFiniteSet(s.channels[d].held)
  BY DEF HeldExact
<1>3. Changed(PartsHeld(r), PartsHeld(s))
  BY <1>2, HeldSized DEF PartsHeld
<1>4. Changed(BytesHeld(r), BytesHeld(s))
  BY <1>2, HeldSized DEF BytesHeld
<1>5. Changed(MessagesHeld(r), MessagesHeld(s))
  BY <1>2, HeldSized DEF MessagesHeld
<1> HIDE DEF Changed
<1>6. /\ s.reassemblyParts = SumFunction(PartsHeld(s)) /\ s.reassemblyParts \in Nat
  BY <1>1, <1>3 DEF HeldExact, PartsHeld
<1>7. /\ s.reassemblyBytes = SumFunction(BytesHeld(s)) /\ s.reassemblyBytes \in Nat
  BY <1>1, <1>4 DEF HeldExact, BytesHeld
<1>8. /\ s.reassemblyCount = SumFunction(MessagesHeld(s)) /\ s.reassemblyCount \in Nat
  BY <1>1, <1>5 DEF HeldExact, MessagesHeld
<1> QED
  BY <1>2, <1>6, <1>7, <1>8 DEF HeldExact

LEMMA AppendSet ==
    ASSUME NEW S, NEW s \in Seq(S), NEW x \in S
    PROVE  ToSet(Append(s, x)) = ToSet(s) \cup {x}
<1> DEFINE t == Append(s, x)
<1>1. /\ DOMAIN s = 1 .. Len(s) /\ DOMAIN t = 1 .. Len(s) + 1 /\ Len(s) \in Nat
      /\ \A i \in 1 .. Len(s) : t[i] = s[i]
      /\ t[Len(s) + 1] = x
  OBVIOUS
<1>2. 1 .. Len(s) + 1 = (1 .. Len(s)) \cup {Len(s) + 1}
  BY <1>1
<1> HIDE DEF t
<1>3. {t[i] : i \in DOMAIN t} = {s[i] : i \in DOMAIN s} \cup {x}
  BY <1>1, <1>2
<1> QED
  BY <1>3 DEF ToSet, t

\* addChannel.
LEMMA AddChannelSound ==
    ASSUME NEW r, Sound(r), NEW c \in Channel
    PROVE  /\ Sound(AddChannel(r, c))
           /\ c \in ToSet(AddChannel(r, c).ackChannels)
           /\ \A d \in ToSet(r.ackChannels) : d \in ToSet(AddChannel(r, c).ackChannels)
           /\ AddChannel(r, c).outbound = r.outbound
           /\ AddChannel(r, c).channels = r.channels
           /\ AddChannel(r, c).queuedBytes = r.queuedBytes
           /\ AddChannel(r, c).bytesInFlight = r.bytesInFlight
           /\ AddChannel(r, c).reassemblyBytes = r.reassemblyBytes
           /\ AddChannel(r, c).reassemblyCount = r.reassemblyCount
           /\ AddChannel(r, c).reassemblyParts = r.reassemblyParts
<1> DEFINE s == AddChannel(r, c)
           a == r.ackChannels
<1>1. r \in TransportRecord /\ a \in Seq(Channel)
  BY DEF Sound, TransportRecord
<1>2. CASE Contains(a, c)
  <2>1. s = r
    BY <1>2 DEF AddChannel
  <2>2. c \in ToSet(a)
    BY <1>1, <1>2 DEF Contains, ToSet
  <2> QED
    BY <2>1, <2>2
<1>3. CASE ~Contains(a, c)
  <2>1. s = [r EXCEPT !.ackChannels = Append(a, c)]
    BY <1>3 DEF AddChannel
  <2>2. Append(a, c) \in Seq(Channel)
    BY <1>1
  <2>3. ToSet(Append(a, c)) = ToSet(a) \cup {c}
    BY <1>1, AppendSet
  <2>4. /\ s \in TransportRecord
        /\ s.ackChannels = Append(a, c)
        /\ s.outbound = r.outbound /\ s.channels = r.channels
        /\ s.queuedBytes = r.queuedBytes /\ s.bytesInFlight = r.bytesInFlight
        /\ s.reassemblyBytes = r.reassemblyBytes
        /\ s.reassemblyCount = r.reassemblyCount
        /\ s.reassemblyParts = r.reassemblyParts
    BY <1>1, <2>1, <2>2 DEF TransportRecord
  <2> HIDE DEF s, a
  <2>5. HeldExact(s)
    BY <2>4, HeldKept DEF Sound
  <2>6. OutboundSound(s)
    BY <2>3, <2>4 DEF Sound, OutboundSound, Known, OutboundExact, a
  <2> QED
    BY <2>3, <2>4, <2>5, <2>6 DEF Sound, s, a
<1> QED
  BY <1>2, <1>3

\* New fragments at the end of the list.
LEMMA AppendFragments ==
    ASSUME NEW s \in Seq(Fragment), NEW u \in Seq(Fragment), Distinct(s), Distinct(u),
           \A i \in DOMAIN s : \A j \in DOMAIN u : FragmentKey(s[i]) # FragmentKey(u[j]),
           \A j \in DOMAIN u : ~u[j].sent
    PROVE  /\ s \o u \in Seq(Fragment) /\ Distinct(s \o u)
           /\ ToSet(s \o u) = ToSet(s) \cup ToSet(u)
           /\ TotalSize(ToSet(s \o u)) = TotalSize(ToSet(s)) + TotalSize(ToSet(u))
           /\ SentOf(ToSet(s \o u)) = SentOf(ToSet(s))
<1> DEFINE t == s \o u
<1>1. /\ t \in Seq(Fragment) /\ DOMAIN t = 1 .. Len(s) + Len(u)
      /\ DOMAIN s = 1 .. Len(s) /\ DOMAIN u = 1 .. Len(u) /\ Len(s) \in Nat /\ Len(u) \in Nat
      /\ \A i \in 1 .. Len(s) : t[i] = s[i]
      /\ \A i \in Len(s) + 1 .. Len(s) + Len(u) : t[i] = u[i - Len(s)]
  OBVIOUS
<1> HIDE DEF t
<1>2. \A j \in DOMAIN u : j + Len(s) \in DOMAIN t /\ t[j + Len(s)] = u[j]
  BY <1>1
<1>3. \A i \in DOMAIN t : \/ i \in DOMAIN s /\ t[i] = s[i]
                          \/ i - Len(s) \in DOMAIN u /\ t[i] = u[i - Len(s)]
  BY <1>1
<1>4. DOMAIN s \subseteq DOMAIN t /\ \A i \in DOMAIN s : t[i] = s[i]
  BY <1>1
<1>5. Distinct(t)
  <2> SUFFICES ASSUME NEW i \in DOMAIN t, NEW j \in DOMAIN t, FragmentKey(t[i]) = FragmentKey(t[j])
               PROVE  i = j
    BY DEF Distinct
  <2>1. CASE i \in DOMAIN s /\ j \in DOMAIN s
    BY <2>1, <1>4 DEF Distinct
  <2>2. CASE i \notin DOMAIN s /\ j \notin DOMAIN s
    <3>1. i - Len(s) \in DOMAIN u /\ j - Len(s) \in DOMAIN u
      BY <1>3, <2>2
    <3>2. FragmentKey(u[i - Len(s)]) = FragmentKey(u[j - Len(s)])
      BY <1>3, <2>2
    <3>3. i - Len(s) = j - Len(s)
      BY <3>1, <3>2 DEF Distinct
    <3> QED
      BY <3>3, <1>1
  <2>3. CASE i \in DOMAIN s /\ j \notin DOMAIN s
    <3>1. t[i] = s[i] /\ j - Len(s) \in DOMAIN u /\ t[j] = u[j - Len(s)]
      BY <1>3, <1>4, <2>3
    <3> QED
      BY <3>1, <2>3
  <2>4. CASE i \notin DOMAIN s /\ j \in DOMAIN s
    <3>1. t[j] = s[j] /\ i - Len(s) \in DOMAIN u /\ t[i] = u[i - Len(s)]
      BY <1>3, <1>4, <2>4
    <3> QED
      BY <3>1, <2>4
  <2> QED
    BY <2>1, <2>2, <2>3, <2>4
<1>6. ToSet(t) = ToSet(s) \cup ToSet(u)
  <2>1. \A x \in ToSet(t) : x \in ToSet(s) \cup ToSet(u)
    BY <1>3 DEF ToSet
  <2>2. \A x \in ToSet(s) : x \in ToSet(t)
    BY <1>4 DEF ToSet
  <2>3. \A x \in ToSet(u) : x \in ToSet(t)
    BY <1>2 DEF ToSet
  <2> QED
    BY <2>1, <2>2, <2>3
<1>7. ToSet(s) \cap ToSet(u) = {}
  BY DEF ToSet
<1>8. Sized(ToSet(s)) /\ Sized(ToSet(u))
  BY ToSetFacts, FragmentsSized
<1>9. TotalSize(ToSet(t)) = TotalSize(ToSet(s)) + TotalSize(ToSet(u))
  BY <1>6, <1>7, <1>8, TotalSizeAdd
<1>10. SentOf(ToSet(t)) = SentOf(ToSet(s))
  <2>1. \A f \in ToSet(u) : ~f.sent
    BY DEF ToSet
  <2> QED
    BY <1>6, <2>1 DEF SentOf
<1> QED
  BY <1>1, <1>5, <1>6, <1>9, <1>10 DEF t

\* The fragments of a message.
Cut(r, c, size) ==
    [i \in 1 .. FragmentCount(size) |->
        [channel |-> c, seq |-> r.channels[c].next + i,
         index |-> i - 1, count |-> FragmentCount(size),
         size |-> LesserOf(MSS, size - (i - 1) * MSS),
         sent |-> FALSE, timeoutPending |-> FALSE]]

\* queue appends fragments with new numbers, not sent yet, of the size
\* of the message.
LEMMA CutFacts ==
    ASSUME NEW r, NEW c \in Channel, r.channels[c].next \in Nat, NEW size \in Nat \ {0}
    PROVE  /\ Cut(r, c, size) \in Seq(Fragment)
           /\ DOMAIN Cut(r, c, size) = 1 .. FragmentCount(size)
           /\ Distinct(Cut(r, c, size))
           /\ \A i \in DOMAIN Cut(r, c, size) :
                  /\ Cut(r, c, size)[i].channel = c
                  /\ Cut(r, c, size)[i].seq = r.channels[c].next + i
                  /\ ~Cut(r, c, size)[i].sent
           /\ TotalSize(ToSet(Cut(r, c, size))) = size
<1> DEFINE u == Cut(r, c, size)
           n == FragmentCount(size)
           g == [i \in DOMAIN u |-> u[i].size]
<1>1. n \in Nat \ {0}
  BY FragmentCountFacts
<1>2. ASSUME NEW i \in 1 .. n
      PROVE  /\ u[i] \in Fragment
             /\ u[i].channel = c /\ u[i].seq = r.channels[c].next + i /\ ~u[i].sent
             /\ u[i].size = CutSize(size, i)
  <2>1. LesserOf(MSS, size - (i - 1) * MSS) \in 1 .. MSS
    BY CutSizeType DEF CutSize
  <2>2. r.channels[c].next + i \in Nat \ {0} /\ i - 1 \in Nat
    BY <1>1
  <2>3. u[i] = [channel |-> c, seq |-> r.channels[c].next + i,
                index |-> i - 1, count |-> n,
                size |-> LesserOf(MSS, size - (i - 1) * MSS),
                sent |-> FALSE, timeoutPending |-> FALSE]
    BY DEF Cut
  <2> HIDE DEF u, n
  <2> QED
    BY <1>1, <2>1, <2>2, <2>3 DEF Fragment, CutSize
<1>3. DOMAIN u = 1 .. n
  BY DEF Cut
<1> HIDE DEF u, n
<1>4. u \in Seq(Fragment)
  <2>1. u = [i \in 1 .. n |-> u[i]]
    BY DEF u, n, Cut
  <2>2. \A i \in 1 .. n : u[i] \in Fragment
    BY <1>2
  <2> QED
    BY <1>1, <2>1, <2>2
<1>5. Distinct(u)
  <2> SUFFICES ASSUME NEW i \in 1 .. n, NEW j \in 1 .. n, FragmentKey(u[i]) = FragmentKey(u[j])
               PROVE  i = j
    BY <1>3 DEF Distinct
  <2>1. u[i].seq = u[j].seq
    BY DEF FragmentKey
  <2> DEFINE m == r.channels[c].next
  <2>2. u[i].seq = m + i /\ u[j].seq = m + j
    BY <1>2
  <2>3. m \in Nat /\ i \in Nat /\ j \in Nat
    BY <1>1
  <2> HIDE DEF m
  <2>4. m + i = m + j
    BY <2>1, <2>2
  <2> QED
    BY <2>3, <2>4
<1>6. ToSet(u) = {u[i] : i \in DOMAIN u}
  BY DEF ToSet
<1>7. TotalSize({u[i] : i \in DOMAIN u}) = SumFunctionOnSet(g, DOMAIN u)
  BY <1>4, <1>5, IndexSum
<1>8. SumFunctionOnSet(g, 1 .. n) = size
  <2>1. \A i \in 1 .. n : g[i] = CutSize(size, i)
    BY <1>2, <1>3
  <2> HIDE DEF g
  <2> QED
    BY <2>1, CutSum DEF n
<1> QED
  BY <1>2, <1>3, <1>4, <1>5, <1>6, <1>7, <1>8 DEF u, n

\* queue.
LEMMA QueueMessageSound ==
    ASSUME NEW r, Sound(r), NEW c \in Channel, NEW size \in Nat \ {0}
    PROVE  Sound(QueueMessage(r, c, size))
<1> DEFINE s == AddChannel(r, c)
           u == Cut(r, c, size)
           n == FragmentCount(size)
           t == QueueMessage(r, c, size)
           ch == [s.channels EXCEPT ![c].next = @ + n]
<1>1. /\ Sound(s) /\ c \in ToSet(s.ackChannels)
      /\ s.outbound = r.outbound /\ s.channels = r.channels
  BY AddChannelSound
<1>2. s \in TransportRecord /\ n \in Nat /\ r.channels[c].next \in Nat
      /\ s.outbound \in Seq(Fragment) /\ s.queuedBytes \in Nat
  BY <1>1, FragmentCountFacts DEF Sound, TransportRecord, ChannelRecord
<1>3. t = [s EXCEPT !.outbound = s.outbound \o u, !.channels = ch,
                    !.queuedBytes = s.queuedBytes + size]
  BY <1>2 DEF QueueMessage, Cut, TransportRecord
<1> HIDE DEF s, n, t
<1>4. /\ u \in Seq(Fragment) /\ DOMAIN u = 1 .. n /\ Distinct(u)
      /\ \A i \in DOMAIN u : u[i].channel = c /\ u[i].seq = r.channels[c].next + i /\ ~u[i].sent
      /\ TotalSize(ToSet(u)) = size
  BY <1>2, CutFacts DEF n
<1> HIDE DEF u
<1>5. \A d \in Channel : /\ ch[d] \in ChannelRecord /\ ch[d].held = s.channels[d].held
                         /\ ch[d].next = IF d = c THEN s.channels[d].next + n ELSE s.channels[d].next
                         /\ s.channels[d].next \in Nat
  <2>1. s.channels \in [Channel -> ChannelRecord]
    BY <1>2 DEF TransportRecord
  <2>2. ch = [d \in Channel |-> IF d = c THEN [s.channels[d] EXCEPT !.next = @ + n]
                                ELSE s.channels[d]]
    BY <2>1
  <2> HIDE DEF ch
  <2>3. ASSUME NEW k \in ChannelRecord
        PROVE  LET j == [k EXCEPT !.next = @ + n]
               IN j \in ChannelRecord /\ j.held = k.held /\ j.next = k.next + n /\ k.next \in Nat
    BY <1>2 DEF ChannelRecord
  <2>4. \A d \in Channel : s.channels[d] \in ChannelRecord
    BY <2>1
  <2> QED
    BY <2>2, <2>3, <2>4
<1>6. ch \in [Channel -> ChannelRecord]
  BY <1>2, <1>5 DEF TransportRecord
<1> HIDE DEF ch
<1>7. /\ s.outbound \o u \in Seq(Fragment) /\ Distinct(s.outbound \o u)
      /\ ToSet(s.outbound \o u) = ToSet(s.outbound) \cup ToSet(u)
      /\ TotalSize(ToSet(s.outbound \o u)) = TotalSize(ToSet(s.outbound)) + TotalSize(ToSet(u))
      /\ SentOf(ToSet(s.outbound \o u)) = SentOf(ToSet(s.outbound))
  <2>1. \A i \in DOMAIN s.outbound : \A j \in DOMAIN u :
            FragmentKey(s.outbound[i]) # FragmentKey(u[j])
    <3> SUFFICES ASSUME NEW i \in DOMAIN s.outbound, NEW j \in DOMAIN u,
                        FragmentKey(s.outbound[i]) = FragmentKey(u[j])
                 PROVE  FALSE
      OBVIOUS
    <3>1. s.outbound[i].channel = c /\ s.outbound[i].seq = r.channels[c].next + j
      BY <1>4 DEF FragmentKey
    <3>2. s.outbound[i].seq <= r.channels[c].next
      BY <1>1, <1>2, <3>1, ToSetFacts DEF Sound, OutboundSound, Known
    <3> QED
      BY <1>2, <1>4, <3>1, <3>2
  <2> QED
    BY <1>1, <1>2, <1>4, <2>1, AppendFragments DEF Sound, OutboundSound
<1>8. /\ t \in TransportRecord
      /\ t.outbound = s.outbound \o u /\ t.channels = ch
      /\ t.queuedBytes = s.queuedBytes + size /\ t.bytesInFlight = s.bytesInFlight
      /\ t.ackChannels = s.ackChannels
      /\ t.reassemblyBytes = s.reassemblyBytes
      /\ t.reassemblyCount = s.reassemblyCount
      /\ t.reassemblyParts = s.reassemblyParts
  <2> DEFINE o == s.outbound \o u
             q == s.queuedBytes + size
  <2>1. o \in Seq(Fragment) /\ q \in Nat
    BY <1>2, <1>7
  <2>2. t = [s EXCEPT !.outbound = o, !.channels = ch, !.queuedBytes = q]
    BY <1>3
  <2> HIDE DEF o, q
  <2>3. /\ t \in TransportRecord /\ t.outbound = o /\ t.channels = ch /\ t.queuedBytes = q
        /\ t.bytesInFlight = s.bytesInFlight /\ t.ackChannels = s.ackChannels
        /\ t.reassemblyBytes = s.reassemblyBytes
        /\ t.reassemblyCount = s.reassemblyCount
        /\ t.reassemblyParts = s.reassemblyParts
    BY <1>2, <1>6, <2>1, <2>2 DEF TransportRecord
  <2> QED
    BY <2>3 DEF o, q
<1>9. HeldExact(t)
  BY <1>1, <1>5, <1>8, HeldKept DEF Sound
<1>10. Known(t)
  <2> SUFFICES ASSUME NEW f \in ToSet(t.outbound)
               PROVE  f.channel \in ToSet(t.ackChannels) /\ f.seq <= t.channels[f.channel].next
    BY DEF Known
  <2>1. CASE f \in ToSet(s.outbound)
    <3>1. f.channel \in ToSet(s.ackChannels) /\ f.seq <= s.channels[f.channel].next
      BY <1>1, <2>1 DEF Sound, OutboundSound, Known
    <3>2. f \in Fragment
      BY <1>2, <2>1, ToSetFacts
    <3>3. f.channel \in Channel /\ f.seq \in Nat
      BY <3>2 DEF Fragment
    <3> QED
      BY <1>2, <1>5, <1>8, <3>1, <3>3, SMTT(60)
  <2>2. CASE f \in ToSet(u)
    <3>1. PICK i \in DOMAIN u : f = u[i]
      BY <2>2 DEF ToSet
    <3> QED
      BY <1>1, <1>2, <1>4, <1>5, <1>8, <3>1
  <2> QED
    BY <1>7, <1>8, <2>1, <2>2
<1>11. OutboundExact(t)
  BY <1>1, <1>4, <1>7, <1>8 DEF Sound, OutboundSound, OutboundExact
<1> QED
  BY <1>7, <1>8, <1>9, <1>10, <1>11 DEF Sound, OutboundSound, t

-----------------------------------------------------------------------------
(* Sending *)

\* A channel has one place on ackChannels.
LEMMA SlotFacts ==
    ASSUME NEW r \in TransportRecord, NEW c \in ToSet(r.ackChannels)
    PROVE  /\ Slot(r, c) \in Nat /\ Len(r.ackChannels) \in Nat \ {0}
           /\ \A k \in Nat : Turn(r, k, c) \in Nat
           /\ (Slot(r, c) + 1) % Len(r.ackChannels) \in Nat
<1> DEFINE a == r.ackChannels
<1>1. a \in Seq(Channel)
  BY DEF TransportRecord
<1> HIDE DEF a
<1>2. DOMAIN a = 1 .. Len(a) /\ Len(a) \in Nat
  BY <1>1
<1>3. \E i \in DOMAIN a : a[i] = c
  BY DEF ToSet, a
<1>4. (CHOOSE i \in DOMAIN a : a[i] = c) \in 1 .. Len(a)
  BY <1>2, <1>3
<1>5. Slot(r, c) = (CHOOSE i \in DOMAIN a : a[i] = c) - 1
  BY DEF Slot, a
<1>6. Slot(r, c) \in Nat /\ Len(a) \in Nat \ {0}
  BY <1>2, <1>4, <1>5
<1>7. \A k \in Nat : (Slot(r, c) - k) % Len(a) \in Nat
  BY <1>6
<1>8. (Slot(r, c) + 1) % Len(a) \in Nat
  BY <1>6
<1> QED
  BY <1>6, <1>7, <1>8 DEF Turn, a

\* The first of the fragments with the smallest turn is one of them.
LEMMA NextFragmentIn ==
    ASSUME NEW r, Sound(r), NEW eligible \in SUBSET DOMAIN r.outbound, eligible # {}
    PROVE  NextFragment(r, eligible) \in eligible
<1> DEFINE turn(i) == Turn(r, r.dataCursor, r.outbound[i].channel)
           turns == {turn(i) : i \in eligible}
<1>1. r \in TransportRecord /\ r.outbound \in Seq(Fragment) /\ r.dataCursor \in Nat
  BY DEF Sound, TransportRecord
<1>2. \A i \in eligible : i \in Nat /\ turn(i) \in Nat
  <2> SUFFICES ASSUME NEW i \in eligible
               PROVE  i \in Nat /\ turn(i) \in Nat
    OBVIOUS
  <2>1. i \in Nat /\ r.outbound[i] \in ToSet(r.outbound)
    BY <1>1, ToSetFacts
  <2>2. r.outbound[i].channel \in ToSet(r.ackChannels)
    BY <2>1 DEF Sound, OutboundSound, Known
  <2> QED
    BY <1>1, <2>1, <2>2, SlotFacts
<1> HIDE DEF turn
<1>3. PICK m \in turns : \A k \in turns : m <= k
  <2>1. turns \in SUBSET Nat /\ turns # {}
    BY <1>2
  <2> HIDE DEF turns
  <2> QED
    BY <2>1, Least
<1> DEFINE first == {i \in eligible : turn(i) = m}
<1>4. first # {} /\ first \in SUBSET Nat
  BY <1>2, <1>3
<1>5. PICK i \in first : \A j \in first : i <= j
  BY <1>4, Least
<1>6. \A j \in eligible : turn(i) < turn(j) \/ (turn(i) = turn(j) /\ i <= j)
  <2> SUFFICES ASSUME NEW j \in eligible
               PROVE  turn(i) < turn(j) \/ (turn(i) = turn(j) /\ i <= j)
    OBVIOUS
  <2>1. turn(i) = m /\ i \in eligible
    BY <1>5
  <2>2. m <= turn(j)
    BY <1>3
  <2>3. turn(j) = m => i <= j
    BY <1>5
  <2> QED
    BY <1>2, <2>1, <2>2, <2>3
<1>7. i \in eligible
  BY <1>5
<1>8. NextFragment(r, eligible) =
        CHOOSE x \in eligible :
           \A j \in eligible : turn(x) < turn(j) \/ (turn(x) = turn(j) /\ x <= j)
  BY DEF NextFragment, turn
<1> HIDE DEF first, turns
<1> QED
  BY <1>6, <1>7, <1>8

\* What nextSend reserves: an acknowledgment of a known channel, or a fragment of
\* the list, a new one iff it was not sent before.
Reserves(r, reservation) ==
    /\ reservation.channel \in ToSet(r.ackChannels)
    /\ \/ reservation.kind = "ack"
       \/ /\ reservation.kind \in {"new", "retransmit"}
          /\ reservation.fragment \in DOMAIN r.outbound
          /\ reservation.kind = "new" <=> ~r.outbound[reservation.fragment].sent

\* nextAck, nextFragment and nextPacket reserve a fragment that is listed, on a
\* channel the transport knows; a new one was never sent.
LEMMA NextAckFacts ==
    ASSUME NEW r, Sound(r), NextAck(r) # NoReservation
    PROVE  Reserves(r, NextAck(r))
<1> DEFINE dirty == {c \in ToSet(r.ackChannels) : r.channels[c].ackDirty}
           turn(c) == Turn(r, r.ackCursor, c)
           turns == {turn(c) : c \in dirty}
           chosen == CHOOSE c \in dirty : \A d \in dirty : turn(c) <= turn(d)
<1>1. r \in TransportRecord /\ r.ackCursor \in Nat
  BY DEF Sound, TransportRecord
<1>2. dirty # {} /\ NextAck(r) = [kind |-> "ack", channel |-> chosen]
  BY DEF NextAck
<1>3. \A c \in dirty : turn(c) \in Nat
  BY <1>1, SlotFacts
<1>5. dirty \subseteq ToSet(r.ackChannels)
  OBVIOUS
<1> HIDE DEF turn, dirty
<1>4. PICK m \in turns : \A k \in turns : m <= k
  BY <1>2, <1>3, Least
<1>6. \E c \in dirty : \A d \in dirty : turn(c) <= turn(d)
  BY <1>4
<1>7. chosen \in dirty
  BY <1>6
<1> HIDE DEF chosen
<1> QED
  BY <1>2, <1>5, <1>7 DEF Reserves

LEMMA NextPacketFacts ==
    ASSUME NEW r, Sound(r), NEW expired, NextPacket(r, expired) # NoReservation
    PROVE  Reserves(r, NextPacket(r, expired))
<1>1. r.outbound \in Seq(Fragment)
  BY DEF Sound, TransportRecord
<1>2. \A i \in DOMAIN r.outbound : r.outbound[i].channel \in ToSet(r.ackChannels)
  BY <1>1, ToSetFacts DEF Sound, OutboundSound, Known
<1>3. CASE Retransmittable(r, expired) # {}
  <2> DEFINE i == NextFragment(r, Retransmittable(r, expired))
  <2>1. Retransmittable(r, expired) \in SUBSET DOMAIN r.outbound
    BY DEF Retransmittable
  <2>2. i \in Retransmittable(r, expired)
    BY <1>3, <2>1, NextFragmentIn
  <2>3. i \in DOMAIN r.outbound /\ r.outbound[i].sent
    BY <2>2 DEF Retransmittable
  <2>4. NextPacket(r, expired) = [kind |-> "retransmit", channel |-> r.outbound[i].channel,
                                  fragment |-> i]
    BY <1>3 DEF NextPacket, DataReservation
  <2> HIDE DEF i
  <2> QED
    BY <1>2, <2>3, <2>4 DEF Reserves
<1>4. CASE Retransmittable(r, expired) = {}
  <2> DEFINE i == NextFragment(r, Transmittable(r))
  <2>1. Transmittable(r) \in SUBSET DOMAIN r.outbound
    BY DEF Transmittable
  <2>2. Transmittable(r) # {}
    BY <1>4 DEF NextPacket
  <2>3. i \in Transmittable(r)
    BY <2>1, <2>2, NextFragmentIn
  <2>4. i \in DOMAIN r.outbound /\ ~r.outbound[i].sent
    BY <2>3 DEF Transmittable
  <2>5. NextPacket(r, expired) = [kind |-> "new", channel |-> r.outbound[i].channel,
                                  fragment |-> i]
    BY <1>4, <2>2 DEF NextPacket, DataReservation
  <2> HIDE DEF i
  <2> QED
    BY <1>2, <2>4, <2>5 DEF Reserves
<1> QED
  BY <1>3, <1>4

LEMMA NextSendFacts ==
    ASSUME NEW r, Sound(r), NEW expired, NextSend(r, expired) # NoReservation
    PROVE  Reserves(r, NextSend(r, expired))
BY NextAckFacts, NextPacketFacts DEF NextSend

\* The cursors move on, also when the socket refused the packet (reject).
LEMMA AdvanceSound ==
    ASSUME NEW r, Sound(r), NEW reservation,
           reservation.channel \in ToSet(r.ackChannels)
    PROVE  /\ Sound(Advance(r, reservation))
           /\ Advance(r, reservation).channels = r.channels
<1> DEFINE t == Advance(r, reservation)
           after == (Slot(r, reservation.channel) + 1) % Len(r.ackChannels)
<1>1. r \in TransportRecord
  BY DEF Sound
<1>2. after \in Nat
  BY <1>1, SlotFacts
<1>3. t = IF reservation.kind = "ack"
          THEN [r EXCEPT !.ackCursor = after, !.preferACK = FALSE]
          ELSE [r EXCEPT !.dataCursor = after, !.preferACK = TRUE]
  BY DEF Advance
<1> HIDE DEF t, after
<1>4. /\ t \in TransportRecord
      /\ t.outbound = r.outbound /\ t.channels = r.channels /\ t.ackChannels = r.ackChannels
      /\ t.queuedBytes = r.queuedBytes /\ t.bytesInFlight = r.bytesInFlight
      /\ t.reassemblyBytes = r.reassemblyBytes
      /\ t.reassemblyCount = r.reassemblyCount
      /\ t.reassemblyParts = r.reassemblyParts
  BY <1>1, <1>2, <1>3 DEF TransportRecord
<1>5. HeldExact(t)
  BY <1>4, HeldKept DEF Sound
<1>6. OutboundSound(t)
  BY <1>4 DEF Sound, OutboundSound, Known, OutboundExact
<1> QED
  BY <1>4, <1>5, <1>6 DEF Sound, t

\* commit counts a new fragment as in flight and a retransmission not again.
LEMMA CommitDataSound ==
    ASSUME NEW r, Sound(r), NEW reservation, Reserves(r, reservation), NEW expired,
           reservation.kind # "ack"
    PROVE  /\ Sound(CommitData(r, reservation, expired))
           /\ CommitData(r, reservation, expired).channels = r.channels
           /\ CommitData(r, reservation, expired).ackChannels = r.ackChannels
<1> DEFINE i == reservation.fragment
           f == r.outbound[i]
           startsWave == reservation.kind = "retransmit" /\ ~f.timeoutPending
           wave(j) == r.outbound[j].timeoutPending
                      \/ (startsWave /\ FragmentKey(r.outbound[j]) \in expired)
           frozen == [j \in DOMAIN r.outbound |->
                        [r.outbound[j] EXCEPT !.timeoutPending = wave(j)]]
           out == [frozen EXCEPT ![i] = [f EXCEPT !.sent = TRUE, !.timeoutPending = FALSE]]
           flight == Append(Only(r.flight, ToSet(r.flight) \ {FragmentKey(f)}), FragmentKey(f))
           bytes == IF reservation.kind = "new" THEN r.bytesInFlight + f.size ELSE r.bytesInFlight
           ssthresh == IF startsWave THEN GreaterOf(r.cwnd \div 2, MinimumCwnd) ELSE r.ssthresh
           cwnd == IF startsWave THEN MinimumCwnd ELSE r.cwnd
           t == CommitData(r, reservation, expired)
<1>1. r \in TransportRecord /\ r.outbound \in Seq(Fragment) /\ Distinct(r.outbound)
      /\ r.flight \in Seq(Channel \X Nat) /\ r.bytesInFlight \in Nat
      /\ r.cwnd \in MinimumCwnd .. MaximumCwnd /\ r.ssthresh \in Nat
  BY DEF Sound, OutboundSound, TransportRecord
<1>2. i \in DOMAIN r.outbound /\ f \in Fragment /\ (reservation.kind = "new" <=> ~f.sent)
  <2>1. i \in DOMAIN r.outbound /\ (reservation.kind = "new" <=> ~f.sent)
    BY DEF Reserves
  <2> QED
    BY <1>1, <2>1
<1>3. t = [r EXCEPT !.outbound = out, !.flight = flight, !.bytesInFlight = bytes,
                    !.ssthresh = ssthresh, !.cwnd = cwnd]
  BY <1>1 DEF CommitData, TransportRecord
<1>4. \A j \in DOMAIN r.outbound :
        /\ out[j] \in Fragment
        /\ FragmentKey(out[j]) = FragmentKey(r.outbound[j])
        /\ out[j].size = r.outbound[j].size
        /\ out[j].sent = (r.outbound[j].sent \/ j = i)
        /\ out[j].channel = r.outbound[j].channel
        /\ out[j].seq = r.outbound[j].seq
  <2> SUFFICES ASSUME NEW j \in DOMAIN r.outbound
               PROVE  /\ out[j] \in Fragment
                      /\ out[j].channel = r.outbound[j].channel
                      /\ out[j].seq = r.outbound[j].seq
                      /\ out[j].size = r.outbound[j].size
                      /\ out[j].sent = (r.outbound[j].sent \/ j = i)
    BY DEF FragmentKey
  <2>1. r.outbound[j] \in Fragment /\ wave(j) \in BOOLEAN
    BY <1>1
  <2>2. out[j] = IF j = i THEN [r.outbound[j] EXCEPT !.sent = TRUE, !.timeoutPending = FALSE]
                 ELSE [r.outbound[j] EXCEPT !.timeoutPending = wave(j)]
    OBVIOUS
  <2> HIDE DEF out, wave
  <2>3. CASE j = i
    BY <2>1, <2>2, <2>3 DEF Fragment
  <2>4. CASE j # i
    BY <2>1, <2>2, <2>4 DEF Fragment
  <2> QED
    BY <2>3, <2>4
<1>5. out \in Seq(Fragment) /\ DOMAIN out = DOMAIN r.outbound /\ Len(out) = Len(r.outbound)
  <2>1. DOMAIN out = DOMAIN r.outbound /\ out = [j \in DOMAIN r.outbound |-> out[j]]
    OBVIOUS
  <2>2. DOMAIN r.outbound = 1 .. Len(r.outbound) /\ Len(r.outbound) \in Nat
    BY <1>1
  <2>3. \A j \in DOMAIN r.outbound : out[j] \in Fragment
    BY <1>4
  <2> HIDE DEF out
  <2>4. out \in Seq(Fragment)
    BY <2>1, <2>2, <2>3
  <2> QED
    BY <2>1, <2>2, <2>4
<1> HIDE DEF out, f, t
<1>6. /\ Distinct(out)
      /\ TotalSize(ToSet(out)) = TotalSize(ToSet(r.outbound))
      /\ f.sent => TotalSize(SentOf(ToSet(out))) = TotalSize(SentOf(ToSet(r.outbound)))
      /\ ~f.sent => TotalSize(SentOf(ToSet(out))) = TotalSize(SentOf(ToSet(r.outbound))) + f.size
  BY <1>1, <1>2, <1>4, <1>5, MarkSent DEF f
<1>7. flight \in Seq(Channel \X Nat)
  <2>1. FragmentKey(f) \in Channel \X Nat
    BY <1>2 DEF FragmentKey, Fragment
  <2>2. Only(r.flight, ToSet(r.flight) \ {FragmentKey(f)}) \in Seq(Channel \X Nat)
    BY <1>1, OnlyType
  <2> QED
    BY <2>1, <2>2, AppendProperties
<1>8. bytes \in Nat
  <2>1. f.size \in Nat
    BY <1>2, ConstantFacts DEF Fragment
  <2> QED
    BY <1>1, <2>1
<1>9. ssthresh \in Nat /\ cwnd \in MinimumCwnd .. MaximumCwnd
  BY <1>1, ConstantFacts DEF GreaterOf
<1>10. bytes = TotalSize(SentOf(ToSet(out)))
  BY <1>2, <1>6 DEF Sound, OutboundSound, OutboundExact
<1> HIDE DEF flight, bytes, ssthresh, cwnd
<1>11. /\ t \in TransportRecord
       /\ t.outbound = out /\ t.channels = r.channels /\ t.ackChannels = r.ackChannels
       /\ t.queuedBytes = r.queuedBytes /\ t.bytesInFlight = bytes
       /\ t.reassemblyBytes = r.reassemblyBytes
       /\ t.reassemblyCount = r.reassemblyCount
       /\ t.reassemblyParts = r.reassemblyParts
  BY <1>1, <1>3, <1>5, <1>7, <1>8, <1>9 DEF TransportRecord
<1>12. HeldExact(t)
  BY <1>11, HeldKept DEF Sound
<1>13. Known(t)
  <2> SUFFICES ASSUME NEW g \in ToSet(out)
               PROVE  g.channel \in ToSet(r.ackChannels) /\ g.seq <= r.channels[g.channel].next
    BY <1>11 DEF Known
  <2>1. PICK j \in DOMAIN r.outbound : g = out[j]
    BY <1>5 DEF ToSet
  <2>2. r.outbound[j] \in ToSet(r.outbound)
    BY DEF ToSet
  <2> QED
    BY <1>4, <2>1, <2>2 DEF Sound, OutboundSound, Known
<1>14. OutboundExact(t)
  BY <1>6, <1>10, <1>11 DEF Sound, OutboundSound, OutboundExact
<1> QED
  BY <1>6, <1>11, <1>12, <1>13, <1>14 DEF Sound, OutboundSound, t

\* Marking or unmarking a channel as owing an acknowledgment.
LEMMA AckDirtySound ==
    ASSUME NEW r, Sound(r), NEW c \in Channel, NEW dirty \in BOOLEAN
    PROVE  Sound([r EXCEPT !.channels[c].ackDirty = dirty])
<1> DEFINE ch == [r.channels EXCEPT ![c].ackDirty = dirty]
           t == [r EXCEPT !.channels = ch]
<1>1. r \in TransportRecord /\ r.channels \in [Channel -> ChannelRecord]
  BY DEF Sound, TransportRecord
<1>2. [r EXCEPT !.channels[c].ackDirty = dirty] = t
  BY <1>1 DEF TransportRecord
<1>3. ASSUME NEW k \in ChannelRecord
      PROVE  LET j == [k EXCEPT !.ackDirty = dirty]
             IN j \in ChannelRecord /\ j.held = k.held /\ j.next = k.next
  BY DEF ChannelRecord
<1>4. ch = [d \in Channel |-> IF d = c THEN [r.channels[d] EXCEPT !.ackDirty = dirty]
                              ELSE r.channels[d]]
  BY <1>1
<1> HIDE DEF ch
<1>5. /\ ch \in [Channel -> ChannelRecord]
      /\ \A d \in Channel : ch[d].held = r.channels[d].held /\ ch[d].next = r.channels[d].next
  BY <1>1, <1>3, <1>4
<1>6. /\ t \in TransportRecord
      /\ t.outbound = r.outbound /\ t.channels = ch /\ t.ackChannels = r.ackChannels
      /\ t.queuedBytes = r.queuedBytes /\ t.bytesInFlight = r.bytesInFlight
      /\ t.reassemblyBytes = r.reassemblyBytes
      /\ t.reassemblyCount = r.reassemblyCount
      /\ t.reassemblyParts = r.reassemblyParts
  BY <1>1, <1>5 DEF TransportRecord
<1> HIDE DEF t
<1>7. HeldExact(t)
  BY <1>5, <1>6, HeldKept DEF Sound
<1>8. Known(t)
  <2>1. r.outbound \in Seq(Fragment)
    BY <1>1 DEF TransportRecord
  <2>2. \A f \in ToSet(r.outbound) : f \in Fragment
    BY <2>1, ToSetFacts
  <2>3. \A f \in Fragment : f.channel \in Channel
    BY DEF Fragment
  <2> QED
    BY <1>5, <1>6, <2>2, <2>3 DEF Sound, OutboundSound, Known
<1> QED
  BY <1>2, <1>6, <1>7, <1>8 DEF Sound, OutboundSound, OutboundExact

\* commit.
LEMMA CommitSound ==
    ASSUME NEW r, Sound(r), NEW reservation, Reserves(r, reservation), NEW expired
    PROVE  Sound(Commit(r, reservation, expired))
<1> DEFINE c == reservation.channel
           s == IF reservation.kind = "ack" THEN r ELSE CommitData(r, reservation, expired)
<1>1. Sound(s) /\ s.ackChannels = r.ackChannels
  BY CommitDataSound
<1>2. c \in ToSet(s.ackChannels)
  BY <1>1 DEF Reserves
<1>3. c \in Channel
  <2>1. s.ackChannels \in Seq(Channel)
    BY <1>1 DEF Sound, TransportRecord
  <2> QED
    BY <1>2, <2>1, ToSetFacts
<1>4. Sound(Advance(s, reservation))
  BY <1>1, <1>2, AdvanceSound
<1>5. Commit(r, reservation, expired) = [Advance(s, reservation) EXCEPT !.channels[c].ackDirty = FALSE]
  BY DEF Commit
<1> HIDE DEF s, c
<1>6. Sound([Advance(s, reservation) EXCEPT !.channels[c].ackDirty = FALSE])
  BY <1>3, <1>4, AckDirtySound, Zenon
<1> QED
  BY <1>5, <1>6, Zenon

LEMMA PacketForType ==
    ASSUME NEW r, Sound(r), NEW reservation, Reserves(r, reservation)
    PROVE  PacketFor(r, reservation) \in Packet
<1> DEFINE c == reservation.channel
           f == IF reservation.kind = "ack"
                THEN [seq |-> 0, index |-> 0, count |-> 0, size |-> 0]
                ELSE r.outbound[reservation.fragment]
<1>1. /\ r.ackChannels \in Seq(Channel) /\ r.outbound \in Seq(Fragment)
      /\ r.channels \in [Channel -> ChannelRecord]
  BY DEF Sound, TransportRecord
<1>2. c \in Channel
  BY <1>1, ToSetFacts DEF Reserves
<1>3. r.channels[c].received.highest \in Nat /\ r.channels[c].received.seen \in SUBSET Bits
  <2>1. r.channels[c] \in ChannelRecord
    BY <1>1, <1>2
  <2>2. r.channels[c].received \in Window
    BY <2>1 DEF ChannelRecord
  <2> QED
    BY <2>2 DEF Window
<1>4. f.seq \in Nat /\ f.index \in Nat /\ f.count \in Nat /\ f.size \in Nat
  <2>1. CASE reservation.kind = "ack"
    BY <2>1
  <2>2. CASE reservation.kind # "ack"
    <3>1. f \in Fragment
      BY <1>1, <2>2 DEF Reserves
    <3> HIDE DEF f
    <3> QED
      BY <3>1, ConstantFacts DEF Fragment
  <2> QED
    BY <2>1, <2>2
<1>5. PacketFor(r, reservation) =
        [channel |-> c, seq |-> f.seq, index |-> f.index, count |-> f.count,
         size |-> f.size, base |-> r.channels[c].received.highest,
         bitmap |-> r.channels[c].received.seen]
  BY DEF PacketFor
<1> HIDE DEF f, c
<1> QED
  BY <1>2, <1>3, <1>4, <1>5 DEF Packet

-----------------------------------------------------------------------------
(* Acknowledged and discarded fragments *)

\* Some of the fragments leave the list.
LEMMA DropFacts ==
    ASSUME NEW s \in Seq(Fragment), Distinct(s), NEW gone \in SUBSET ToSet(s)
    PROVE  LET t == Only(s, ToSet(s) \ gone)
           IN /\ t \in Seq(Fragment) /\ Distinct(t)
              /\ ToSet(t) \subseteq ToSet(s)
              /\ TotalSize(ToSet(t)) = TotalSize(ToSet(s)) - TotalSize(gone)
              /\ TotalSize(ToSet(t)) \in Nat
              /\ TotalSize(SentOf(ToSet(t))) =
                    TotalSize(SentOf(ToSet(s))) - TotalSize(SentOf(gone))
              /\ TotalSize(SentOf(ToSet(t))) \in Nat
              /\ TotalSize(gone) \in Nat
<1> DEFINE t == Only(s, ToSet(s) \ gone)
<1>1. t \in Seq(Fragment) /\ Distinct(t)
  BY OnlyType, OnlyDistinct
<1>2. ToSet(t) = ToSet(s) \ gone
  BY OnlySet
<1>3. Sized(ToSet(s)) /\ Sized(ToSet(t))
  BY <1>1, ToSetFacts, FragmentsSized
<1>4. Sized(SentOf(ToSet(s))) /\ Sized(SentOf(ToSet(t)))
  <2>1. SentOf(ToSet(s)) \subseteq ToSet(s) /\ SentOf(ToSet(t)) \subseteq ToSet(t)
    BY DEF SentOf
  <2>2. Sized(SentOf(ToSet(s)))
    BY <1>3, <2>1, TotalSizeMinus
  <2> HIDE DEF t
  <2>3. Sized(SentOf(ToSet(t)))
    BY <1>3, <2>1, TotalSizeMinus
  <2> QED
    BY <2>2, <2>3
<1>5. /\ SentOf(gone) \subseteq SentOf(ToSet(s))
      /\ SentOf(ToSet(t)) = SentOf(ToSet(s)) \ SentOf(gone)
  BY <1>2 DEF SentOf
<1> HIDE DEF t
<1>6. TotalSize(ToSet(t)) = TotalSize(ToSet(s)) - TotalSize(gone) /\ TotalSize(gone) \in Nat
  BY <1>2, <1>3, TotalSizeMinus
<1>7. TotalSize(SentOf(ToSet(t))) = TotalSize(SentOf(ToSet(s))) - TotalSize(SentOf(gone))
  BY <1>4, <1>5, TotalSizeMinus
<1>8. TotalSize(ToSet(t)) \in Nat /\ TotalSize(SentOf(ToSet(t))) \in Nat
  BY <1>3, <1>4, TotalSizeType
<1> QED
  BY <1>1, <1>2, <1>6, <1>7, <1>8 DEF t

\* Afterwards the transport is as sound as before.
LEMMA DropSound ==
    ASSUME NEW r, Sound(r), NEW gone \in SUBSET ToSet(r.outbound),
           NEW t, t \in TransportRecord,
           t.outbound = Only(r.outbound, ToSet(r.outbound) \ gone),
           t.channels = r.channels, t.ackChannels = r.ackChannels,
           t.queuedBytes = r.queuedBytes - TotalSize(gone),
           t.bytesInFlight = r.bytesInFlight - TotalSize(SentOf(gone)),
           t.reassemblyBytes = r.reassemblyBytes,
           t.reassemblyCount = r.reassemblyCount,
           t.reassemblyParts = r.reassemblyParts
    PROVE  Sound(t)
<1>1. r.outbound \in Seq(Fragment) /\ Distinct(r.outbound) /\ OutboundExact(r) /\ Known(r)
  BY DEF Sound, OutboundSound, TransportRecord
<1>2. /\ Distinct(t.outbound) /\ ToSet(t.outbound) \subseteq ToSet(r.outbound)
      /\ TotalSize(ToSet(t.outbound)) = TotalSize(ToSet(r.outbound)) - TotalSize(gone)
      /\ TotalSize(SentOf(ToSet(t.outbound))) =
                    TotalSize(SentOf(ToSet(r.outbound))) - TotalSize(SentOf(gone))
  BY <1>1, DropFacts
<1>3. HeldExact(t)
  BY HeldKept DEF Sound
<1>4. Known(t) /\ OutboundExact(t)
  BY <1>1, <1>2 DEF Known, OutboundExact
<1> QED
  BY <1>2, <1>3, <1>4 DEF Sound, OutboundSound

\* consumeFragmentAck keeps the congestion window between its limits.
LEMMA OpenCwndType ==
    ASSUME NEW r \in TransportRecord, NEW bytes \in Nat
    PROVE  OpenCwnd(r, bytes) \in MinimumCwnd .. MaximumCwnd
<1> DEFINE grow == (MSS * bytes) \div r.cwnd
<1>1. r.cwnd \in MinimumCwnd .. MaximumCwnd
  BY DEF TransportRecord
<1>2. r.cwnd \in Nat \ {0} /\ MinimumCwnd \in Nat /\ MaximumCwnd \in Nat
  BY <1>1, ConstantFacts
<1>3. MSS * bytes \in Nat
  BY ConstantFacts
<1>4. grow \in Int
  BY <1>2, <1>3
<1> HIDE DEF grow
<1>5. OpenCwnd(r, bytes) =
        LesserOf(MaximumCwnd,
                 IF r.cwnd < r.ssthresh THEN r.cwnd + bytes ELSE r.cwnd + GreaterOf(grow, 1))
  BY DEF OpenCwnd, grow
<1> QED
  BY <1>1, <1>2, <1>4, <1>5 DEF LesserOf, GreaterOf

\* consumeFragmentAck drops a fragment once, however often it is acknowledged.
LEMMA ConsumeFragmentAckSound ==
    ASSUME NEW r, Sound(r), NEW c, NEW base, NEW bitmap
    PROVE  Sound(ConsumeFragmentAck(r, c, base, bitmap))
<1> DEFINE acked == {f \in OutboundOn(r, c) : f.sent /\ FragmentAckContains(base, bitmap, f.seq)}
           bytes == TotalSize(acked)
           out == Only(r.outbound, ToSet(r.outbound) \ acked)
           flight == Only(r.flight, ToSet(r.flight) \ {FragmentKey(f) : f \in acked})
           cwnd == OpenCwnd(r, bytes)
           t == ConsumeFragmentAck(r, c, base, bitmap)
<1>1. CASE acked = {}
  BY <1>1 DEF ConsumeFragmentAck
<1>2. CASE acked # {}
  <2>1. r \in TransportRecord /\ r.outbound \in Seq(Fragment) /\ Distinct(r.outbound)
        /\ r.flight \in Seq(Channel \X Nat)
        /\ r.queuedBytes = TotalSize(ToSet(r.outbound))
        /\ r.bytesInFlight = TotalSize(SentOf(ToSet(r.outbound)))
    BY DEF Sound, OutboundSound, OutboundExact, TransportRecord
  <2>2. acked \in SUBSET ToSet(r.outbound) /\ SentOf(acked) = acked
    BY DEF OutboundOn, SentOf
  <2>3. t = [r EXCEPT !.outbound = out, !.flight = flight,
                      !.queuedBytes = r.queuedBytes - bytes,
                      !.bytesInFlight = r.bytesInFlight - bytes, !.cwnd = cwnd]
    BY <1>2, <2>1 DEF ConsumeFragmentAck, TransportRecord
  <2> HIDE DEF acked, t
  <2>4. out \in Seq(Fragment) /\ r.queuedBytes - bytes \in Nat /\ r.bytesInFlight - bytes \in Nat
        /\ bytes \in Nat
    <3>1. /\ out \in Seq(Fragment) /\ bytes \in Nat
          /\ TotalSize(ToSet(out)) = TotalSize(ToSet(r.outbound)) - bytes
          /\ TotalSize(SentOf(ToSet(out))) = TotalSize(SentOf(ToSet(r.outbound))) - bytes
          /\ TotalSize(ToSet(out)) \in Nat /\ TotalSize(SentOf(ToSet(out))) \in Nat
      BY <2>1, <2>2, DropFacts
    <3> HIDE DEF out, bytes
    <3> QED
      BY <2>1, <3>1
  <2>5. flight \in Seq(Channel \X Nat)
    BY <2>1, OnlyType
  <2>6. cwnd \in MinimumCwnd .. MaximumCwnd
    BY <2>1, <2>4, OpenCwndType
  <2> HIDE DEF out, flight, cwnd
  <2>7. /\ t \in TransportRecord /\ t.outbound = out
        /\ t.channels = r.channels /\ t.ackChannels = r.ackChannels
        /\ t.queuedBytes = r.queuedBytes - bytes /\ t.bytesInFlight = r.bytesInFlight - bytes
        /\ t.reassemblyBytes = r.reassemblyBytes
        /\ t.reassemblyCount = r.reassemblyCount
        /\ t.reassemblyParts = r.reassemblyParts
    BY <2>1, <2>3, <2>4, <2>5, <2>6 DEF TransportRecord
  <2> QED
    BY <2>2, <2>7, DropSound DEF out, t
<1> QED
  BY <1>1, <1>2

\* discardOutboundChannel.
LEMMA DiscardOutboundSound ==
    ASSUME NEW r, Sound(r), NEW c
    PROVE  Sound(DiscardOutboundChannel(r, c))
<1> DEFINE gone == OutboundOn(r, c)
           out == Only(r.outbound, ToSet(r.outbound) \ gone)
           flight == Only(r.flight, ToSet(r.flight) \ {FragmentKey(f) : f \in gone})
           queuedBytes == r.queuedBytes - TotalSize(gone)
           bytesInFlight == r.bytesInFlight - TotalSize(SentOf(gone))
           t == DiscardOutboundChannel(r, c)
<1>1. r \in TransportRecord /\ r.outbound \in Seq(Fragment) /\ Distinct(r.outbound)
      /\ r.flight \in Seq(Channel \X Nat)
      /\ r.queuedBytes = TotalSize(ToSet(r.outbound))
      /\ r.bytesInFlight = TotalSize(SentOf(ToSet(r.outbound)))
  BY DEF Sound, OutboundSound, OutboundExact, TransportRecord
<1>2. gone \in SUBSET ToSet(r.outbound)
  BY DEF OutboundOn
<1>3. t = [r EXCEPT !.outbound = out, !.flight = flight, !.queuedBytes = queuedBytes,
                    !.bytesInFlight = bytesInFlight]
  BY <1>1 DEF DiscardOutboundChannel, SentOf, TransportRecord
<1> HIDE DEF gone, t
<1>4. out \in Seq(Fragment) /\ queuedBytes \in Nat /\ bytesInFlight \in Nat
  <2>1. /\ out \in Seq(Fragment)
        /\ TotalSize(ToSet(out)) = TotalSize(ToSet(r.outbound)) - TotalSize(gone)
        /\ TotalSize(SentOf(ToSet(out))) =
              TotalSize(SentOf(ToSet(r.outbound))) - TotalSize(SentOf(gone))
        /\ TotalSize(ToSet(out)) \in Nat /\ TotalSize(SentOf(ToSet(out))) \in Nat
    BY <1>1, <1>2, DropFacts
  <2> HIDE DEF out
  <2> QED
    BY <1>1, <2>1
<1>5. flight \in Seq(Channel \X Nat)
  BY <1>1, OnlyType
<1> HIDE DEF out, flight, queuedBytes, bytesInFlight
<1>6. /\ t \in TransportRecord /\ t.outbound = out
      /\ t.channels = r.channels /\ t.ackChannels = r.ackChannels
      /\ t.queuedBytes = queuedBytes /\ t.bytesInFlight = bytesInFlight
      /\ t.reassemblyBytes = r.reassemblyBytes
      /\ t.reassemblyCount = r.reassemblyCount
      /\ t.reassemblyParts = r.reassemblyParts
  BY <1>1, <1>3, <1>4, <1>5 DEF TransportRecord
<1> QED
  BY <1>2, <1>6, DropSound DEF out, queuedBytes, bytesInFlight, t

-----------------------------------------------------------------------------
(* Receiving *)

\* accept keeps the shape of the struct.
LEMMA AcceptType ==
    ASSUME NEW w \in Window, NEW s \in Nat
    PROVE  Accept(w, s) \in Window
BY WindowBitsAssumption DEF Window, Accept, MayAccept, ShiftLeft, Bits

\* A finite set of numbers has a greatest one.
LEMMA Greatest ==
    ASSUME NEW S \in SUBSET Nat, IsFiniteSet(S), S # {}
    PROVE  \E m \in S : \A k \in S : k <= m
<1> DEFINE f == [k \in S |-> k]
           above == {u \in Nat : \A k \in S : k <= u}
<1>1. \A k \in S : f[k] = k /\ f[k] \in Nat
  OBVIOUS
<1> HIDE DEF f
<1>2. SumFunctionOnSet(f, S) \in above
  <2>1. SumFunctionOnSet(f, S) \in Nat
    BY <1>1, SumType
  <2>2. ASSUME NEW k \in S
        PROVE  k <= SumFunctionOnSet(f, S)
    <3>1. SumFunctionOnSet(f, S) = f[k] + SumFunctionOnSet(f, S \ {k})
      <4>1. \A x \in S : f[x] \in Nat
        BY <1>1
      <4> QED
        BY <4>1, SumRemove, ZenonT(60)
    <3>2. SumFunctionOnSet(f, S \ {k}) \in Nat
      BY <1>1, SumType, FS_Subset
    <3> QED
      BY <1>1, <3>1, <3>2
  <2> QED
    BY <2>1, <2>2
<1>3. PICK m \in above : \A u \in above : m <= u
  <2>1. above \in SUBSET Nat /\ above # {}
    BY <1>2
  <2> HIDE DEF above
  <2> QED
    BY <2>1, Least
<1>4. m \in S
  <2> SUFFICES ASSUME m \notin S
               PROVE  FALSE
    OBVIOUS
  <2>1. PICK k \in S : TRUE
    OBVIOUS
  <2>2. m \in Nat /\ \A x \in S : x < m
    BY <1>3
  <2>3. m - 1 \in Nat /\ \A x \in S : x <= m - 1
    BY <2>1, <2>2
  <2>4. m - 1 \in above
    BY <2>3
  <2> QED
    BY <1>3, <2>2, <2>4
<1> QED
  BY <1>3, <1>4

\* What leaves the outbound side alone.
LEMMA OutboundKept ==
    ASSUME NEW r, Sound(r), NEW s,
           s.outbound = r.outbound, s.ackChannels = r.ackChannels,
           s.queuedBytes = r.queuedBytes, s.bytesInFlight = r.bytesInFlight,
           \A d \in Channel : s.channels[d].next = r.channels[d].next
    PROVE  OutboundSound(s)
<1>1. r.outbound \in Seq(Fragment)
  BY DEF Sound, TransportRecord
<1>2. \A f \in ToSet(r.outbound) : f \in Fragment
  BY <1>1, ToSetFacts
<1>3. \A f \in Fragment : f.channel \in Channel
  BY DEF Fragment
<1>4. Known(s)
  BY <1>2, <1>3 DEF Sound, OutboundSound, Known
<1> QED
  BY <1>4 DEF Sound, OutboundSound, OutboundExact

\* One more fragment is held.
LEMMA HoldMore ==
    ASSUME NEW H \in SUBSET HeldFragment, IsFiniteSet(H), NEW f \in HeldFragment, f \notin H
    PROVE  /\ H \cup {f} \in SUBSET HeldFragment /\ IsFiniteSet(H \cup {f})
           /\ Cardinality(H \cup {f}) = Cardinality(H) + 1
           /\ TotalSize(H \cup {f}) = TotalSize(H) + f.size
           /\ Cardinality(Starts(H \cup {f})) =
                IF Start(f) \in Starts(H) THEN Cardinality(Starts(H))
                ELSE Cardinality(Starts(H)) + 1
<1>1. /\ Sized(H) /\ IsFiniteSet(Starts(H)) /\ Cardinality(Starts(H)) \in Nat
  BY HeldSized
<1>2. IsFiniteSet(H \cup {f}) /\ Cardinality(H \cup {f}) = Cardinality(H) + 1
  BY FS_AddElement
<1>3. TotalSize(H \cup {f}) = TotalSize(H) + f.size
  <2>1. f.size \in Nat
    BY DEF HeldFragment
  <2>2. Sized({f}) /\ TotalSize({f}) = f.size /\ H \cap {f} = {}
    BY <2>1, TotalSizeOne
  <2> QED
    BY <1>1, <2>2, TotalSizeAdd
<1>4. Starts(H \cup {f}) = Starts(H) \cup {Start(f)}
  BY DEF Starts
<1>5. CASE Start(f) \in Starts(H)
  <2>1. Starts(H \cup {f}) = Starts(H)
    BY <1>4, <1>5
  <2> QED
    BY <1>2, <1>3, <1>5, <2>1
<1>6. CASE Start(f) \notin Starts(H)
  <2>1. Cardinality(Starts(H) \cup {Start(f)}) = Cardinality(Starts(H)) + 1
    BY <1>1, <1>6, FS_AddElement
  <2> QED
    BY <1>2, <1>3, <1>4, <1>6, <2>1
<1> QED
  BY <1>5, <1>6

LEMMA CardinalityMinus ==
    ASSUME NEW S, IsFiniteSet(S), NEW T, T \subseteq S
    PROVE  IsFiniteSet(S \ T) /\ Cardinality(S \ T) = Cardinality(S) - Cardinality(T)
<1>1. S \cap T = T
  OBVIOUS
<1>2. IsFiniteSet(S \ T) /\ Cardinality(S \ T) = Cardinality(S) - Cardinality(S \cap T)
  BY FS_Difference, Zenon
<1> QED
  BY <1>1, <1>2

\* The messages that start in the given places are no longer held.
LEMMA HoldLess ==
    ASSUME NEW H \in SUBSET HeldFragment, IsFiniteSet(H), NEW starts, NEW gone \in SUBSET H,
           \A f \in H : f \in gone <=> Start(f) \in starts
    PROVE  /\ H \ gone \in SUBSET HeldFragment /\ IsFiniteSet(H \ gone)
           /\ Cardinality(H \ gone) = Cardinality(H) - Cardinality(gone)
           /\ TotalSize(H \ gone) = TotalSize(H) - TotalSize(gone)
           /\ Cardinality(Starts(H \ gone)) =
                 Cardinality(Starts(H)) - Cardinality(Starts(gone))
<1>1. Sized(H) /\ IsFiniteSet(Starts(H))
  BY HeldSized
<1>2. IsFiniteSet(H \ gone) /\ Cardinality(H \ gone) = Cardinality(H) - Cardinality(gone)
  BY <1>1, CardinalityMinus
<1>3. TotalSize(H \ gone) = TotalSize(H) - TotalSize(gone)
  BY <1>1, TotalSizeMinus
<1>4. Starts(H \ gone) = Starts(H) \ Starts(gone) /\ Starts(gone) \subseteq Starts(H)
  BY DEF Starts
<1>5. Cardinality(Starts(H \ gone)) = Cardinality(Starts(H)) - Cardinality(Starts(gone))
  BY <1>1, <1>4, CardinalityMinus
<1> QED
  BY <1>2, <1>3, <1>5

\* The state of one channel is replaced by one that numbers and counts the same
\* way; the reassembly counters follow what is held.
LEMMA ChannelReplaced ==
    ASSUME NEW r, Sound(r), NEW c \in Channel, NEW k \in ChannelRecord, NEW s,
           s \in TransportRecord,
           k.next = r.channels[c].next, IsFiniteSet(k.held),
           s.channels = [r.channels EXCEPT ![c] = k],
           s.outbound = r.outbound, s.ackChannels = r.ackChannels,
           s.queuedBytes = r.queuedBytes, s.bytesInFlight = r.bytesInFlight,
           s.reassemblyParts = r.reassemblyParts
               + Cardinality(k.held) - Cardinality(r.channels[c].held),
           s.reassemblyBytes = r.reassemblyBytes
               + TotalSize(k.held) - TotalSize(r.channels[c].held),
           s.reassemblyCount = r.reassemblyCount
               + Cardinality(Starts(k.held)) - Cardinality(Starts(r.channels[c].held))
    PROVE  Sound(s)
<1>1. r.channels \in [Channel -> ChannelRecord] /\ HeldExact(r)
  BY DEF Sound, TransportRecord
<1>2. s.channels[c] = k /\ \A d \in Channel \ {c} : s.channels[d] = r.channels[d]
  BY <1>1
<1>3. /\ \A d \in Channel : r.channels[d].held \in SUBSET HeldFragment
      /\ k.held \in SUBSET HeldFragment
  <2>1. \A x \in ChannelRecord : x.held \in SUBSET HeldFragment
    BY DEF ChannelRecord
  <2> QED
    BY <1>1, <2>1
<1>4. HeldExact(s)
  BY <1>1, <1>2, <1>3, ConstantFacts, HeldChanged
<1>5. \A d \in Channel : s.channels[d].next = r.channels[d].next
  BY <1>2
<1>6. OutboundSound(s)
  BY <1>5, OutboundKept
<1> QED
  BY <1>4, <1>6 DEF Sound

\* receive keeps a new fragment, within the limits, and counts it.
LEMMA RetainSound ==
    ASSUME NEW r, Sound(r), NEW pkt \in Packet, Retainable(r, pkt)
    PROVE  Sound(Retain(r, pkt))
<1> DEFINE c == pkt.channel
           f == [seq |-> pkt.seq, index |-> pkt.index, count |-> pkt.count, size |-> pkt.size]
           H == r.channels[c].held
           k == [r.channels[c] EXCEPT !.held = H \cup {f},
                                      !.received = Accept(r.channels[c].received, pkt.seq)]
           ch == [r.channels EXCEPT ![c] = k]
           count == IF Assembly(r.channels[c], Start(pkt)) = {}
                    THEN r.reassemblyCount + 1 ELSE r.reassemblyCount
           t == Retain(r, pkt)
<1>1. /\ r \in TransportRecord /\ r.channels \in [Channel -> ChannelRecord]
      /\ r.reassemblyCount \in Nat /\ r.reassemblyBytes \in Nat /\ r.reassemblyParts \in Nat
      /\ HeldExact(r)
  BY DEF Sound, TransportRecord
<1>2. /\ c \in Channel /\ pkt.seq \in Nat \ {0} /\ pkt.size \in Nat /\ f \in HeldFragment
  BY DEF Packet, HeldFragment, Retainable, MayAccept
<1>3. r.channels[c] \in ChannelRecord
  BY <1>1, <1>2
<1>4. /\ H \in SUBSET HeldFragment /\ IsFiniteSet(H) /\ r.channels[c].received \in Window
  BY <1>1, <1>2, <1>3 DEF ChannelRecord, HeldExact
<1>5. Start(f) = Start(pkt)
  BY DEF Start
<1>6. Assembly(r.channels[c], Start(pkt)) = {} <=> Start(f) \notin Starts(H)
  BY <1>5 DEF Assembly, Starts
<1>7. f \notin H
  <2> SUFFICES ASSUME f \in H
               PROVE  FALSE
    OBVIOUS
  <2>1. f \in Assembly(r.channels[c], Start(pkt))
    BY <1>5 DEF Assembly
  <2>2. f.index # pkt.index
    BY <2>1 DEF Retainable
  <2> QED
    BY <2>2
<1>8. t = [r EXCEPT !.channels = ch, !.reassemblyCount = count,
                    !.reassemblyBytes = r.reassemblyBytes + pkt.size,
                    !.reassemblyParts = r.reassemblyParts + 1]
  <2> DEFINE x == r.channels[c]
             kept == [x EXCEPT !.held = @ \cup {f}, !.received = Accept(@, pkt.seq)]
  <2>1. kept = k
    BY <1>3 DEF ChannelRecord
  <2>3. t = [r EXCEPT !.channels[c] = kept, !.reassemblyCount = count,
                      !.reassemblyBytes = r.reassemblyBytes + pkt.size,
                      !.reassemblyParts = r.reassemblyParts + 1]
    BY DEF Retain
  <2> HIDE DEF kept, count, f
  <2>2. t = [r EXCEPT !.channels = [r.channels EXCEPT ![c] = kept], !.reassemblyCount = count,
                      !.reassemblyBytes = r.reassemblyBytes + pkt.size,
                      !.reassemblyParts = r.reassemblyParts + 1]
    BY <1>1, <2>3 DEF TransportRecord
  <2> QED
    BY <2>1, <2>2
<1>9. f.size = pkt.size
  OBVIOUS
<1> HIDE DEF f, c, t
<1>10. Accept(r.channels[c].received, pkt.seq) \in Window
  BY <1>2, <1>4, AcceptType
<1>11. /\ H \cup {f} \in SUBSET HeldFragment /\ IsFiniteSet(H \cup {f})
       /\ Cardinality(H \cup {f}) = Cardinality(H) + 1
       /\ TotalSize(H \cup {f}) = TotalSize(H) + f.size
       /\ Cardinality(Starts(H \cup {f})) =
                IF Start(f) \in Starts(H) THEN Cardinality(Starts(H))
                ELSE Cardinality(Starts(H)) + 1
  BY <1>2, <1>4, <1>7, HoldMore
<1>12. k \in ChannelRecord /\ k.held = H \cup {f} /\ k.next = r.channels[c].next
  BY <1>3, <1>10, <1>11 DEF ChannelRecord
<1> HIDE DEF k
<1>13. ch \in [Channel -> ChannelRecord]
  BY <1>1, <1>12
<1>14. count \in Nat /\ r.reassemblyBytes + pkt.size \in Nat /\ r.reassemblyParts + 1 \in Nat
  BY <1>1, <1>2
<1>15. /\ TotalSize(H) \in Nat /\ Cardinality(H) \in Nat /\ Cardinality(Starts(H)) \in Nat
  BY <1>4, HeldSized
<1>16. count = r.reassemblyCount + Cardinality(Starts(k.held)) - Cardinality(Starts(H))
  BY <1>1, <1>6, <1>11, <1>12, <1>15
<1>17. r.reassemblyBytes + pkt.size = r.reassemblyBytes + TotalSize(k.held) - TotalSize(H)
  BY <1>1, <1>2, <1>9, <1>11, <1>12, <1>15
<1>18. r.reassemblyParts + 1 = r.reassemblyParts + Cardinality(k.held) - Cardinality(H)
  BY <1>1, <1>11, <1>12, <1>15
<1>19. /\ t \in TransportRecord
       /\ t.channels = ch /\ t.outbound = r.outbound /\ t.ackChannels = r.ackChannels
       /\ t.queuedBytes = r.queuedBytes /\ t.bytesInFlight = r.bytesInFlight
       /\ t.reassemblyCount = count
       /\ t.reassemblyBytes = r.reassemblyBytes + pkt.size
       /\ t.reassemblyParts = r.reassemblyParts + 1
  <2> HIDE DEF ch, count
  <2> DEFINE bytes == r.reassemblyBytes + pkt.size
             parts == r.reassemblyParts + 1
  <2>1. t = [r EXCEPT !.channels = ch, !.reassemblyCount = count,
                      !.reassemblyBytes = bytes, !.reassemblyParts = parts]
    BY <1>8
  <2>2. bytes \in Nat /\ parts \in Nat
    BY <1>14
  <2> HIDE DEF bytes, parts
  <2>3. /\ t \in TransportRecord
        /\ t.channels = ch /\ t.outbound = r.outbound /\ t.ackChannels = r.ackChannels
        /\ t.queuedBytes = r.queuedBytes /\ t.bytesInFlight = r.bytesInFlight
        /\ t.reassemblyCount = count /\ t.reassemblyBytes = bytes /\ t.reassemblyParts = parts
    BY <1>1, <1>13, <1>14, <2>1, <2>2 DEF TransportRecord
  <2> QED
    BY <2>3 DEF bytes, parts
<1> HIDE DEF count
<1>20. IsFiniteSet(k.held)
  BY <1>11, <1>12
<1> QED
  BY <1>2, <1>12, <1>16, <1>17, <1>18, <1>19, <1>20, ChannelReplaced, ZenonT(60) DEF c, t

\* removeAssembly takes a whole message out of the counters, and never more than
\* was put in.
LEMMA RemoveAssembliesSound ==
    ASSUME NEW r, Sound(r), NEW c \in Channel, NEW starts
    PROVE  /\ Sound(RemoveAssemblies(r, c, starts))
           /\ RemoveAssemblies(r, c, starts).channels[c].nextDelivered = r.channels[c].nextDelivered
<1> DEFINE s == RemoveAssemblies(r, c, starts)
           H == r.channels[c].held
           gone == {f \in H : Start(f) \in starts}
           k == [r.channels[c] EXCEPT !.held = H \ gone]
           ch == [r.channels EXCEPT ![c] = k]
           count == r.reassemblyCount - Cardinality(Starts(gone))
           bytes == r.reassemblyBytes - TotalSize(gone)
           parts == r.reassemblyParts - Cardinality(gone)
<1>1. /\ r \in TransportRecord /\ r.channels \in [Channel -> ChannelRecord]
      /\ r.reassemblyCount \in Nat /\ r.reassemblyBytes \in Nat /\ r.reassemblyParts \in Nat
      /\ HeldExact(r)
  BY DEF Sound, TransportRecord
<1>2. r.channels[c] \in ChannelRecord
  BY <1>1
<1>3. H \in SUBSET HeldFragment /\ IsFiniteSet(H)
  BY <1>1, <1>2 DEF ChannelRecord, HeldExact
<1>4. s = [r EXCEPT !.channels = ch, !.reassemblyCount = count,
                    !.reassemblyBytes = bytes, !.reassemblyParts = parts]
  BY <1>1, <1>2 DEF RemoveAssemblies, TransportRecord, ChannelRecord
<1>5. /\ H \ gone \in SUBSET HeldFragment /\ IsFiniteSet(H \ gone)
      /\ Cardinality(H \ gone) = Cardinality(H) - Cardinality(gone)
      /\ TotalSize(H \ gone) = TotalSize(H) - TotalSize(gone)
      /\ Cardinality(Starts(H \ gone)) = Cardinality(Starts(H)) - Cardinality(Starts(gone))
  <2>1. gone \in SUBSET H /\ \A f \in H : f \in gone <=> Start(f) \in starts
    OBVIOUS
  <2> HIDE DEF gone, H, s
  <2> QED
    BY <1>3, <2>1, HoldLess
<1>6. /\ TotalSize(H) \in Nat /\ Cardinality(H) \in Nat /\ Cardinality(Starts(H)) \in Nat
      /\ TotalSize(gone) \in Nat /\ Cardinality(gone) \in Nat /\ Cardinality(Starts(gone)) \in Nat
  <2>1. gone \in SUBSET HeldFragment /\ IsFiniteSet(gone)
    BY <1>3, FS_Subset
  <2> HIDE DEF gone, H
  <2> QED
    BY <1>3, <2>1, HeldSized
<1> HIDE DEF gone, s
<1>7. k \in ChannelRecord /\ k.held = H \ gone /\ k.next = r.channels[c].next
      /\ k.nextDelivered = r.channels[c].nextDelivered
  BY <1>2, <1>5 DEF ChannelRecord
<1> HIDE DEF k
<1>8. /\ count = r.reassemblyCount + Cardinality(Starts(k.held)) - Cardinality(Starts(H))
      /\ bytes = r.reassemblyBytes + TotalSize(k.held) - TotalSize(H)
      /\ parts = r.reassemblyParts + Cardinality(k.held) - Cardinality(H)
  BY <1>1, <1>5, <1>6, <1>7
<1>9. ch \in [Channel -> ChannelRecord] /\ ch[c] = k
      /\ \A d \in Channel \ {c} : ch[d] = r.channels[d]
  BY <1>1, <1>7
<1>10. count \in Nat /\ bytes \in Nat /\ parts \in Nat
  <2> DEFINE u == [channels |-> ch, reassemblyCount |-> count, reassemblyBytes |-> bytes,
                   reassemblyParts |-> parts]
  <2> HIDE DEF count, bytes, parts, ch, H
  <2>1. /\ u.channels = ch /\ u.reassemblyCount = count /\ u.reassemblyBytes = bytes
        /\ u.reassemblyParts = parts
    OBVIOUS
  <2> HIDE DEF u
  <2>2. \A d \in Channel : r.channels[d].held \in SUBSET HeldFragment
    <3>1. \A x \in ChannelRecord : x.held \in SUBSET HeldFragment
      BY DEF ChannelRecord
    <3> QED
      BY <1>1, <3>1
  <2>3. /\ u.reassemblyCount = r.reassemblyCount + Cardinality(Starts(u.channels[c].held))
                               - Cardinality(Starts(r.channels[c].held))
        /\ u.reassemblyBytes = r.reassemblyBytes + TotalSize(u.channels[c].held)
                               - TotalSize(r.channels[c].held)
        /\ u.reassemblyParts = r.reassemblyParts + Cardinality(u.channels[c].held)
                               - Cardinality(r.channels[c].held)
    BY <1>8, <1>9, <2>1 DEF H
  <2>4. /\ u.channels[c].held \in SUBSET HeldFragment /\ IsFiniteSet(u.channels[c].held)
        /\ \A d \in Channel \ {c} : u.channels[d].held = r.channels[d].held
    BY <1>5, <1>7, <1>9, <2>1
  <2>5. u.reassemblyParts \in Nat /\ u.reassemblyBytes \in Nat /\ u.reassemblyCount \in Nat
    BY <1>1, <2>2, <2>3, <2>4, ConstantFacts, HeldChanged, Zenon
  <2> QED
    BY <2>1, <2>5
<1> HIDE DEF count, bytes, parts
<1>11. /\ s \in TransportRecord
       /\ s.channels = ch /\ s.outbound = r.outbound /\ s.ackChannels = r.ackChannels
       /\ s.queuedBytes = r.queuedBytes /\ s.bytesInFlight = r.bytesInFlight
       /\ s.reassemblyCount = count /\ s.reassemblyBytes = bytes /\ s.reassemblyParts = parts
  <2> HIDE DEF ch
  <2> QED
    BY <1>1, <1>4, <1>9, <1>10 DEF TransportRecord
<1>12. IsFiniteSet(k.held)
  BY <1>5, <1>7
<1>13. s.channels = [r.channels EXCEPT ![c] = k]
  BY <1>11
<1> HIDE DEF ch
<1>14. /\ s.outbound = r.outbound /\ s.ackChannels = r.ackChannels
       /\ s.queuedBytes = r.queuedBytes /\ s.bytesInFlight = r.bytesInFlight
       /\ s.reassemblyCount = r.reassemblyCount + Cardinality(Starts(k.held))
                              - Cardinality(Starts(r.channels[c].held))
       /\ s.reassemblyBytes = r.reassemblyBytes + TotalSize(k.held) - TotalSize(r.channels[c].held)
       /\ s.reassemblyParts = r.reassemblyParts + Cardinality(k.held)
                              - Cardinality(r.channels[c].held)
  BY <1>8, <1>11
<1>15. Sound(s)
  BY <1>7, <1>11, <1>12, <1>13, <1>14, ChannelReplaced, Zenon
<1>16. s.channels[c] = k
  BY <1>9, <1>11
<1> QED
  BY <1>7, <1>15, <1>16 DEF s

\* A channel expects another message than before.
LEMMA NextDeliveredSound ==
    ASSUME NEW r, Sound(r), NEW c \in Channel, NEW n \in Nat \ {0}
    PROVE  Sound([r EXCEPT !.channels[c].nextDelivered = n])
<1> DEFINE ch == [r.channels EXCEPT ![c].nextDelivered = n]
           t == [r EXCEPT !.channels = ch]
<1>1. r \in TransportRecord /\ r.channels \in [Channel -> ChannelRecord]
  BY DEF Sound, TransportRecord
<1>2. [r EXCEPT !.channels[c].nextDelivered = n] = t
  BY <1>1 DEF TransportRecord
<1>3. ASSUME NEW k \in ChannelRecord
      PROVE  LET j == [k EXCEPT !.nextDelivered = n]
             IN j \in ChannelRecord /\ j.held = k.held /\ j.next = k.next
  BY DEF ChannelRecord
<1>4. ch = [d \in Channel |-> IF d = c THEN [r.channels[d] EXCEPT !.nextDelivered = n]
                              ELSE r.channels[d]]
  BY <1>1
<1> HIDE DEF ch
<1>5. /\ ch \in [Channel -> ChannelRecord]
      /\ \A d \in Channel : ch[d].held = r.channels[d].held /\ ch[d].next = r.channels[d].next
  BY <1>1, <1>3, <1>4
<1>6. /\ t \in TransportRecord
      /\ t.outbound = r.outbound /\ t.channels = ch /\ t.ackChannels = r.ackChannels
      /\ t.queuedBytes = r.queuedBytes /\ t.bytesInFlight = r.bytesInFlight
      /\ t.reassemblyBytes = r.reassemblyBytes
      /\ t.reassemblyCount = r.reassemblyCount
      /\ t.reassemblyParts = r.reassemblyParts
  BY <1>1, <1>5 DEF TransportRecord
<1> HIDE DEF t
<1>7. HeldExact(t)
  BY <1>5, <1>6, HeldKept DEF Sound
<1>8. OutboundSound(t)
  BY <1>5, <1>6, OutboundKept
<1> QED
  BY <1>2, <1>6, <1>7, <1>8 DEF Sound

\* receive and deliverOrdered hand up and remove.
LEMMA HandUpSound ==
    ASSUME NEW r, Sound(r), NEW c \in Channel,
           NEW starts \in SUBSET Starts(r.channels[c].held)
    PROVE  Sound(HandUp(r, c, starts))
<1> DEFINE H == r.channels[c].held
           past == {f.seq + 1 : f \in {g \in H : Start(g) \in starts}}
           greatest == CHOOSE n \in past : \A m \in past : m <= n
           s == RemoveAssemblies(r, c, starts)
           n == IF c \in OrderedChannel /\ starts # {} THEN greatest
                ELSE s.channels[c].nextDelivered
<1>1. Sound(s) /\ s.channels[c].nextDelivered = r.channels[c].nextDelivered
  BY RemoveAssembliesSound
<1>2. r.channels[c] \in ChannelRecord /\ HeldExact(r)
  BY DEF Sound, TransportRecord
<1>3. H \in SUBSET HeldFragment /\ IsFiniteSet(H) /\ r.channels[c].nextDelivered \in Nat \ {0}
  BY <1>2 DEF ChannelRecord, HeldExact
<1>4. ASSUME starts # {}
      PROVE  greatest \in Nat \ {0}
  <2> DEFINE G == {g \in H : Start(g) \in starts}
             h == [f \in G |-> f.seq + 1]
  <2>1. \A f \in G : h[f] = f.seq + 1 /\ h[f] \in Nat \ {0}
    BY <1>3 DEF HeldFragment
  <2>2. IsFiniteSet(G)
    BY <1>3, FS_Subset
  <2>3. G # {}
    <3>1. PICK x \in starts : TRUE
      BY <1>4
    <3>2. PICK g \in H : x = Start(g)
      BY <3>1 DEF Starts
    <3> QED
      BY <3>1, <3>2
  <2>4. past = {h[f] : f \in G}
    OBVIOUS
  <2> HIDE DEF G, h
  <2>5. IsFiniteSet({h[f] : f \in G})
    BY <2>2, ImageFinite
  <2>6. past \in SUBSET (Nat \ {0}) /\ past # {} /\ IsFiniteSet(past)
    BY <2>1, <2>3, <2>4, <2>5
  <2> HIDE DEF past
  <2>7. \E m \in past : \A k \in past : k <= m
    <3>1. past \in SUBSET Nat
      BY <2>6
    <3> QED
      BY <2>6, <3>1, Greatest
  <2>8. greatest \in past
    BY <2>7
  <2> HIDE DEF greatest
  <2> QED
    BY <2>6, <2>8
<1> HIDE DEF greatest
<1>5. n \in Nat \ {0}
  BY <1>1, <1>3, <1>4
<1>6. HandUp(r, c, starts) = [s EXCEPT !.channels[c].nextDelivered = n]
  BY DEF HandUp, greatest
<1> HIDE DEF s, n
<1>7. Sound([s EXCEPT !.channels[c].nextDelivered = n])
  BY <1>1, <1>5, NextDeliveredSound, Zenon
<1> QED
  BY <1>6, <1>7, Zenon

\* receive, for an acknowledgment alone, a fragment refused and a fragment kept.
LEMMA ReceivePacketSound ==
    ASSUME NEW r, Sound(r), NEW pkt \in Packet
    PROVE  Sound(ReceivePacket(r, pkt).transport)
<1> DEFINE c == pkt.channel
           acked == ConsumeFragmentAck(r, c, pkt.base, pkt.bitmap)
           added == AddChannel(acked, c)
           known == [added EXCEPT !.channels[c].ackDirty = TRUE]
           held == Retain(known, pkt)
           up == Deliverable(held, pkt)
           inOrder == SetToSortSeq(up, <)
<1>1. c \in Channel
  BY DEF Packet
<1>2. Sound(acked)
  BY ConsumeFragmentAckSound
<1>3. Sound(added)
  <2> HIDE DEF acked, c
  <2> QED
    BY <1>1, <1>2, AddChannelSound
<1>4. Sound(known)
  <2> HIDE DEF added, c
  <2>1. TRUE \in BOOLEAN
    OBVIOUS
  <2> QED
    BY <1>1, <1>3, <2>1, AckDirtySound, Zenon
<1>5. ReceivePacket(r, pkt) =
        IF pkt.seq = 0 THEN [transport |-> acked, up |-> <<>>]
        ELSE IF ~Retainable(known, pkt) THEN [transport |-> known, up |-> <<>>]
        ELSE [transport |-> HandUp(held, c, up), up |-> inOrder]
  BY DEF ReceivePacket
<1> HIDE DEF known
<1>6. ASSUME Retainable(known, pkt)
      PROVE  Sound(HandUp(held, c, up))
  <2>1. Sound(held)
    BY <1>4, <1>6, RetainSound
  <2>2. up \in SUBSET Starts(held.channels[c].held)
    BY DEF Deliverable
  <2> HIDE DEF up, held, c
  <2> QED
    BY <1>1, <2>1, <2>2, HandUpSound
<1> HIDE DEF acked, held, up, inOrder
<1> QED
  BY <1>2, <1>4, <1>5, <1>6

-----------------------------------------------------------------------------
(* The invariant *)

WorkloadRecord ==
    [load : [Peer -> [Channel -> Seq(Nat)]], capacity : Nat, losses : Nat, refuses : BOOLEAN]

\* Both ends are sound, and what is on the path is made of packets.
TransportIInv ==
    /\ transport \in [Peer -> TransportRecord]
    /\ \A p \in Peer : Sound(transport[p])
    /\ DOMAIN path = Peer /\ \A p \in Peer : BagToSet(path[p]) \subseteq Packet
    /\ workload \in WorkloadRecord
    /\ queued \in [Peer -> [Channel -> Seq(Nat)]]

LEMMA OtherPeer ==
    ASSUME NEW p \in Peer
    PROVE  Other(p) \in Peer
<1>1. \E q \in Peer : q # p
  <2> SUFFICES ASSUME \A q \in Peer : q = p
               PROVE  FALSE
    OBVIOUS
  <2>1. Peer = {p}
    OBVIOUS
  <2>2. Cardinality(Peer) = 1
    BY <2>1, FS_Singleton
  <2> QED
    BY <2>2, ReliableAssumption
<1> QED
  BY <1>1 DEF Other

LEMMA TransportStarts == TransportInit => TransportIInv
<1> SUFFICES ASSUME TransportInit
             PROVE  TransportIInv
  OBVIOUS
<1> DEFINE r == NewTransport
<1>1. NewChannel \in ChannelRecord /\ NewChannel.held = {}
  <2>1. EmptyWindow \in Window
    BY DEF EmptyWindow, Window
  <2> QED
    BY <2>1 DEF NewChannel, ChannelRecord
<1>2. r \in TransportRecord
  <2>1. InitialCwnd \in MinimumCwnd .. MaximumCwnd /\ MaximumCwnd \in Nat
    BY ConstantFacts
  <2>2. [c \in Channel |-> NewChannel] \in [Channel -> ChannelRecord]
    BY <1>1
  <2> DEFINE ch == [c \in Channel |-> NewChannel]
  <2> HIDE DEF ch
  <2>3. /\ <<>> \in Seq(Channel) /\ <<>> \in Seq(Fragment) /\ <<>> \in Seq(Channel \X Nat)
    OBVIOUS
  <2> QED
    BY <2>1, <2>2, <2>3 DEF NewTransport, TransportRecord, ch
<1>3. /\ r.outbound = <<>> /\ r.queuedBytes = 0 /\ r.bytesInFlight = 0
      /\ r.channels = [c \in Channel |-> NewChannel]
      /\ r.reassemblyBytes = 0 /\ r.reassemblyCount = 0 /\ r.reassemblyParts = 0
  BY DEF NewTransport
<1> HIDE DEF r
<1>4. ToSet(<<>>) = {} /\ SentOf({}) = {} /\ Starts({}) = {} /\ DOMAIN <<>> = {}
  BY DEF ToSet, SentOf, Starts
<1>5. OutboundSound(r)
  BY <1>3, <1>4, TotalSizeEmpty DEF OutboundSound, Known, Distinct, OutboundExact
<1>6. HeldExact(r)
  <2>1. \A c \in Channel : r.channels[c].held = {}
    BY <1>1, <1>3
  <2>2. IsFiniteSet({}) /\ Cardinality({}) = 0
    BY FS_EmptySet
  <2> DEFINE zero == [c \in Channel |-> 0]
  <2>3. PartsHeld(r) = zero /\ BytesHeld(r) = zero /\ MessagesHeld(r) = zero
    BY <1>4, <2>1, <2>2, TotalSizeEmpty DEF PartsHeld, BytesHeld, MessagesHeld
  <2>4. DOMAIN zero = Channel /\ \A c \in Channel : zero[c] = 0
    OBVIOUS
  <2> HIDE DEF zero
  <2>5. SumFunction(zero) = 0
    BY <2>4, ConstantFacts, SumZero DEF SumFunction
  <2> QED
    BY <1>3, <2>1, <2>2, <2>3, <2>5 DEF HeldExact
<1>7. transport = [p \in Peer |-> r]
  BY DEF TransportInit, r
<1>8. DOMAIN path = Peer /\ \A p \in Peer : BagToSet(path[p]) \subseteq Packet
  BY DEF TransportInit, EmptyBag, SetToBag, BagToSet
<1>9. workload \in WorkloadRecord
  BY ReliableAssumption DEF TransportInit, WorkloadRecord
<1>10. queued \in [Peer -> [Channel -> Seq(Nat)]]
  <2>1. <<>> \in Seq(Nat)
    OBVIOUS
  <2> QED
    BY <2>1 DEF TransportInit
<1> QED
  BY <1>2, <1>5, <1>6, <1>7, <1>8, <1>9, <1>10 DEF TransportIInv, Sound

\* What the steps have in common.
LEMMA TransportStep ==
    ASSUME TransportIInv,
           NEW p \in Peer, NEW r, Sound(r), transport' = [transport EXCEPT ![p] = r],
           NEW q \in Peer, NEW bag, BagToSet(bag) \subseteq Packet,
           path' = path \/ path' = [path EXCEPT ![q] = bag],
           workload' \in WorkloadRecord,
           queued' \in [Peer -> [Channel -> Seq(Nat)]]
    PROVE  TransportIInv'
<1>1. r \in TransportRecord
  BY DEF Sound
<1>2. transport' \in [Peer -> TransportRecord] /\ \A x \in Peer : Sound(transport'[x])
  BY <1>1 DEF TransportIInv
<1>3. DOMAIN path' = Peer /\ \A x \in Peer : BagToSet(path'[x]) \subseteq Packet
  BY DEF TransportIInv
<1> QED
  BY <1>2, <1>3 DEF TransportIInv, Sound, OutboundSound, Known, Distinct, OutboundExact, HeldExact

\* What is put on the path, or taken off it, is a packet.
LEMMA PathGains ==
    ASSUME NEW bag, BagToSet(bag) \subseteq Packet, NEW pkt \in Packet
    PROVE  BagToSet(bag (+) SetToBag({pkt})) \subseteq Packet
BY DEF BagToSet, SetToBag, (+)

LEMMA PathLoses ==
    ASSUME NEW bag, NEW S
    PROVE  BagToSet(bag (-) S) \subseteq BagToSet(bag)
BY DEF BagToSet, (-)

\* One turn of sendReliable.
LEMMA SendKeeps ==
    ASSUME TransportIInv, NEW p \in Peer, Send(p)
    PROVE  TransportIInv'
<1> DEFINE r == transport[p]
<1>1. PICK k \in 0 .. Len(r.flight) :
        LET expired == {r.flight[i] : i \in 1 .. k}
        IN \E reservation \in {NextSend(r, expired)} \ {NoReservation} :
              /\ transport' = [transport EXCEPT ![p] = Commit(r, reservation, expired)]
              /\ path' = [path EXCEPT ![p] =
                             path[p] (+) SetToBag({PacketFor(r, reservation)})]
              /\ UNCHANGED <<workload, queued, delivered>>
  BY DEF Send, TransportIInv
<1> DEFINE expired == {r.flight[i] : i \in 1 .. k}
           reservation == NextSend(r, expired)
           bag == path[p] (+) SetToBag({PacketFor(r, reservation)})
<1>2. /\ reservation # NoReservation
      /\ transport' = [transport EXCEPT ![p] = Commit(r, reservation, expired)]
      /\ path' = [path EXCEPT ![p] = bag]
      /\ workload' = workload /\ queued' = queued
  BY <1>1
<1>3. Sound(r) /\ BagToSet(path[p]) \subseteq Packet
  BY DEF TransportIInv
<1> HIDE DEF r, expired
<1>4. Reserves(r, reservation)
  BY <1>2, <1>3, NextSendFacts
<1> HIDE DEF reservation
<1>5. Sound(Commit(r, reservation, expired))
  BY <1>3, <1>4, CommitSound
<1>6. PacketFor(r, reservation) \in Packet
  BY <1>3, <1>4, PacketForType
<1>7. BagToSet(bag) \subseteq Packet
  BY <1>3, <1>6, PathGains
<1> HIDE DEF bag
<1>8. workload' \in WorkloadRecord /\ queued' \in [Peer -> [Channel -> Seq(Nat)]]
  BY <1>2 DEF TransportIInv
<1> QED
  BY <1>2, <1>5, <1>7, <1>8, TransportStep, Zenon

LEMMA LossType ==
    ASSUME workload \in WorkloadRecord, workload.losses > 0,
           workload' = [workload EXCEPT !.losses = @ - 1]
    PROVE  workload' \in WorkloadRecord
BY DEF WorkloadRecord

\* One turn of sendReliable that the socket refuses.
LEMMA SendRefusedKeeps ==
    ASSUME TransportIInv, NEW p \in Peer, SendRefused(p)
    PROVE  TransportIInv'
<1> DEFINE r == transport[p]
<1>1. PICK k \in 0 .. Len(r.flight) :
        LET reservation == NextSend(r, {r.flight[i] : i \in 1 .. k})
        IN /\ reservation # NoReservation
           /\ transport' = [transport EXCEPT ![p] = Advance(r, reservation)]
           /\ UNCHANGED <<path, queued, delivered>>
  BY DEF SendRefused
<1> DEFINE expired == {r.flight[i] : i \in 1 .. k}
           reservation == NextSend(r, expired)
<1>2. /\ reservation # NoReservation
      /\ transport' = [transport EXCEPT ![p] = Advance(r, reservation)]
      /\ path' = path /\ queued' = queued
  BY <1>1
<1>3. Sound(r) /\ BagToSet(path[p]) \subseteq Packet
  BY DEF TransportIInv
<1> HIDE DEF r, expired
<1>4. reservation.channel \in ToSet(r.ackChannels)
  BY <1>2, <1>3, NextSendFacts DEF Reserves
<1> HIDE DEF reservation
<1>5. Sound(Advance(r, reservation))
  BY <1>3, <1>4, AdvanceSound
<1>6. workload' \in WorkloadRecord
  BY LossType DEF SendRefused, TransportIInv
<1>7. queued' \in [Peer -> [Channel -> Seq(Nat)]]
  BY <1>2 DEF TransportIInv
<1> QED
  BY <1>2, <1>3, <1>5, <1>6, <1>7, TransportStep, Zenon

\* handleReliablePacketOnPath.
LEMMA ReceiveReliableKeeps ==
    ASSUME TransportIInv, NEW p \in Peer, ReceiveReliable(p)
    PROVE  TransportIInv'
<1> DEFINE r == transport[p]
           q == Other(p)
<1>1. PICK pkt \in BagToSet(path[q]) :
        /\ path' = [path EXCEPT ![q] = path[q] (-) SetToBag({pkt})]
        /\ transport' = [transport EXCEPT ![p] = ReceivePacket(r, pkt).transport]
        /\ UNCHANGED <<workload, queued>>
  BY DEF ReceiveReliable, TransportIInv
<1> DEFINE bag == path[q] (-) SetToBag({pkt})
           s == ReceivePacket(r, pkt).transport
<1>2. q \in Peer
  BY OtherPeer
<1>3. Sound(r) /\ BagToSet(path[q]) \subseteq Packet
  BY <1>2 DEF TransportIInv
<1> HIDE DEF r, q
<1>4. Sound(s)
  BY <1>3, ReceivePacketSound
<1>5. BagToSet(bag) \subseteq Packet
  BY <1>3, PathLoses
<1>6. workload' \in WorkloadRecord /\ queued' \in [Peer -> [Channel -> Seq(Nat)]]
  BY <1>1 DEF TransportIInv
<1>7. transport' = [transport EXCEPT ![p] = s] /\ path' = [path EXCEPT ![q] = bag]
  BY <1>1
<1> HIDE DEF bag, s
<1> QED
  BY <1>2, <1>4, <1>5, <1>6, <1>7, TransportStep, Zenon

LEMMA LoseKeeps ==
    ASSUME TransportIInv, NEW p \in Peer, Lose(p)
    PROVE  TransportIInv'
<1>1. PICK pkt \in BagToSet(path[p]) :
        path' = [path EXCEPT ![p] = path[p] (-) SetToBag({pkt})]
  BY DEF Lose, TransportIInv
<1> DEFINE bag == path[p] (-) SetToBag({pkt})
           r == transport[p]
<1>2. BagToSet(bag) \subseteq Packet
  BY PathLoses DEF TransportIInv
<1>3. Sound(r) /\ transport' = [transport EXCEPT ![p] = r]
  BY DEF TransportIInv, Lose
<1>4. workload' \in WorkloadRecord
  BY LossType DEF Lose, TransportIInv
<1>5. queued' \in [Peer -> [Channel -> Seq(Nat)]]
  BY DEF Lose, TransportIInv
<1>6. path' = [path EXCEPT ![p] = bag]
  BY <1>1
<1> HIDE DEF bag, r
<1> QED
  BY <1>2, <1>3, <1>4, <1>5, <1>6, TransportStep, Zenon

\* The application queues a message.
LEMMA QueueReliableKeeps ==
    ASSUME TransportIInv, NEW p \in Peer, NEW c \in Channel, QueueReliable(p, c)
    PROVE  TransportIInv'
<1> DEFINE r == transport[p]
           k == Len(queued[p][c]) + 1
           size == workload.load[p][c][k]
           s == QueueMessage(r, c, size)
           number == r.channels[c].next + 1
<1>1. /\ k <= Len(workload.load[p][c]) /\ CanQueue(r, c, size)
      /\ transport' = [transport EXCEPT ![p] = s]
      /\ queued' = [queued EXCEPT ![p][c] = Append(@, number)]
      /\ path' = path /\ workload' = workload
  BY DEF QueueReliable
<1>2. Sound(r) /\ BagToSet(path[p]) \subseteq Packet
  BY DEF TransportIInv
<1>3. size \in Nat \ {0}
  <2>1. queued[p][c] \in Seq(Nat) /\ workload.load[p][c] \in Seq(Nat)
    BY DEF TransportIInv, WorkloadRecord
  <2>2. k \in 1 .. Len(workload.load[p][c])
    BY <1>1, <2>1
  <2>3. size \in Nat
    <3> DEFINE l == workload.load[p][c]
    <3>1. l \in Seq(Nat) /\ k \in 1 .. Len(l)
      BY <2>1, <2>2
    <3> HIDE DEF l, k
    <3>2. l[k] \in Nat
      BY <3>1
    <3> QED
      BY <3>2 DEF l
  <2> QED
    BY <1>1, <2>3 DEF CanQueue
<1>4. queued' \in [Peer -> [Channel -> Seq(Nat)]]
  <2>1. r.channels \in [Channel -> ChannelRecord]
    BY <1>2 DEF Sound, TransportRecord
  <2>2. number \in Nat
    BY <2>1 DEF ChannelRecord
  <2>3. queued \in [Peer -> [Channel -> Seq(Nat)]]
    BY DEF TransportIInv
  <2> HIDE DEF number
  <2> QED
    BY <1>1, <2>2, <2>3
<1>5. Sound(s)
  <2> HIDE DEF r, size
  <2> QED
    BY <1>2, <1>3, QueueMessageSound
<1>6. workload' \in WorkloadRecord
  BY <1>1 DEF TransportIInv
<1> HIDE DEF s
<1> QED
  BY <1>1, <1>2, <1>4, <1>5, <1>6, TransportStep, Zenon

\* A file transfer ends, at the sender or at the receiver.
LEMMA DiscardKeeps ==
    ASSUME TransportIInv, NEW p \in Peer, NEW c \in Channel,
           DiscardOutbound(p, c) \/ DiscardInbound(p, c)
    PROVE  TransportIInv'
<1> DEFINE r == transport[p]
<1>1. Sound(r) /\ BagToSet(path[p]) \subseteq Packet
  BY DEF TransportIInv
<1>2. PICK s : Sound(s) /\ transport' = [transport EXCEPT ![p] = s]
  <2>1. CASE DiscardOutbound(p, c)
    BY <1>1, <2>1, DiscardOutboundSound DEF DiscardOutbound
  <2>2. CASE DiscardInbound(p, c)
    <3>1. Sound(DiscardInboundChannel(r, c))
      <4> HIDE DEF r
      <4> QED
        BY <1>1, RemoveAssembliesSound DEF DiscardInboundChannel
    <3> QED
      BY <2>2, <3>1 DEF DiscardInbound
  <2> QED
    BY <2>1, <2>2
<1>3. path' = path /\ workload' \in WorkloadRecord /\ queued' \in [Peer -> [Channel -> Seq(Nat)]]
  BY DEF DiscardOutbound, DiscardInbound, TransportIInv
<1> QED
  BY <1>1, <1>2, <1>3, TransportStep, Zenon

\* The invariant is inductive.
LEMMA TransportStays == TransportIInv /\ [TransportNext]_transportVars => TransportIInv'
<1> SUFFICES ASSUME TransportIInv, [TransportNext]_transportVars
             PROVE  TransportIInv'
  OBVIOUS
<1>1. CASE UNCHANGED transportVars
  BY <1>1 DEF transportVars, TransportIInv, Sound, OutboundSound, Known, Distinct,
     OutboundExact, HeldExact
<1>2. CASE TransportNext
  BY <1>2, SendKeeps, SendRefusedKeeps, ReceiveReliableKeeps, LoseKeeps,
     QueueReliableKeeps, DiscardKeeps DEF TransportNext
<1> QED
  BY <1>1, <1>2

\* In every reachable state both transports are sound: no method of
\* reliable.go, in any order, under loss, timeouts, late acknowledgments and
\* discards, makes a counter drift from what the transport holds.
THEOREM TransportInvariance == TransportSpec => []TransportIInv
<1>1. TransportInit => TransportIInv
  BY TransportStarts
<1>2. TransportIInv /\ [TransportNext]_transportVars => TransportIInv'
  BY TransportStays
<1> QED
  BY <1>1, <1>2, PTL DEF TransportSpec

\* The fields of reliableTransport and of what it keeps of a channel stay in
\* their types: no counter becomes negative, no list names an unknown channel, and
\* consumeFragmentAck and the timeouts keep cwnd within its limits.
THEOREM TransportTypeCorrect == TransportSpec => []TransportTypeOK
<1>1. TransportIInv => TransportTypeOK
  <2> SUFFICES ASSUME TransportIInv
               PROVE  TransportTypeOK
    OBVIOUS
  <2>1. ASSUME NEW p \in Peer
        PROVE  LET r == transport[p] IN
               /\ ToSet(r.outbound) \subseteq Fragment
               /\ ToSet(r.ackChannels) \subseteq Channel
               /\ \A c \in Channel : /\ r.channels[c].received \in Window
                                     /\ r.channels[c].next \in Nat
                                     /\ r.channels[c].nextDelivered \in Nat \ {0}
               /\ {r.queuedBytes, r.bytesInFlight, r.reassemblyBytes, r.reassemblyCount,
                   r.reassemblyParts, r.ackCursor, r.dataCursor} \subseteq Nat
               /\ r.cwnd \in MinimumCwnd .. MaximumCwnd
    <3> DEFINE r == transport[p]
    <3>1. r \in TransportRecord
      BY DEF TransportIInv
    <3> HIDE DEF r
    <3>2. ToSet(r.outbound) \subseteq Fragment /\ ToSet(r.ackChannels) \subseteq Channel
      <4>1. r.outbound \in Seq(Fragment) /\ r.ackChannels \in Seq(Channel)
        BY <3>1 DEF TransportRecord
      <4> QED
        BY <4>1 DEF ToSet
    <3>3. ASSUME NEW c \in Channel
          PROVE  /\ r.channels[c].received \in Window
                 /\ r.channels[c].next \in Nat
                 /\ r.channels[c].nextDelivered \in Nat \ {0}
      <4>1. r.channels[c] \in ChannelRecord
        BY <3>1 DEF TransportRecord
      <4> QED
        BY <4>1 DEF ChannelRecord
    <3>4. /\ {r.queuedBytes, r.bytesInFlight, r.reassemblyBytes, r.reassemblyCount,
              r.reassemblyParts, r.ackCursor, r.dataCursor} \subseteq Nat
          /\ r.cwnd \in MinimumCwnd .. MaximumCwnd
      BY <3>1 DEF TransportRecord
    <3> QED
      BY <3>2, <3>3, <3>4 DEF r
  <2>2. workload.losses \in Nat
    BY DEF TransportIInv, WorkloadRecord
  <2> QED
    BY <2>1, <2>2 DEF TransportTypeOK
<1> QED
  BY <1>1, TransportInvariance, PTL

\* queuedBytes, bytesInFlight and the three reassembly counters (queue, commit,
\* consumeFragmentAck, receive, removeAssembly, discardOutboundChannel) are exact
\* in every reachable state, for any number of channels, any messages, limits and
\* losses: sending, queueing and reassembly are never closed, or left open, by a
\* counter that drifted.
THEOREM CountersStayExact == TransportSpec => []CountersAreExact
<1>1. TransportIInv => CountersAreExact
  BY DEF TransportIInv, Sound, OutboundSound, OutboundExact, HeldExact, PartsHeld, BytesHeld,
     MessagesHeld, SentOf, CountersAreExact
<1> QED
  BY <1>1, TransportInvariance, PTL
=============================================================================
