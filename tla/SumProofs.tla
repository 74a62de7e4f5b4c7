------------------------------ MODULE SumProofs -----------------------------
(***************************************************************************)
(* What the proofs need to know about sums of numbers: how the sum of a    *)
(* function over a finite set (SumFunctionOnSet of the community modules)  *)
(* changes with the set and with the function.  Induction is by way of the *)
(* least counterexample.                                                   *)
(***************************************************************************)
EXTENDS TLAPS, FiniteSetTheorems

LEMMA LeastNumber ==
  ASSUME NEW T \in SUBSET Nat, T # {}
  PROVE  \E m \in T : \A n \in T : m <= n
<1>1. PICK m \in T : \A n \in T : ~(<<n, m>> \in OpToRel(<, Nat))
  BY NatLessThanWellFounded, WFMin
<1>2. \A n \in T : ~(n < m)
  BY <1>1 DEF OpToRel
<1>3. QED
  BY <1>2

-----------------------------------------------------------------------------
(* The library's definition, spelled out: one element after another.       *)
Some(s) == CHOOSE x \in s : TRUE
Turn(w, f, s) == IF s = {} THEN 0 ELSE w[Some(s)] + f[s \ {Some(s)}]
Iterates(f, w, S) == f = [s \in SUBSET S |-> Turn(w, f, s)]
Iter(w, S) == CHOOSE f : Iterates(f, w, S)

Numbers(w, S) == \A x \in S : w[x] \in Nat

LEMMA SumIsIter ==
  ASSUME NEW w, NEW S
  PROVE  SumFunctionOnSet(w, S) = Iter(w, S)[S]
BY DEF SumFunctionOnSet, FoldFunctionOnSet, MapThenFoldSet, Iter, Iterates, Turn, Some

(* A set without one of its elements.                                      *)
LEMMA Without ==
  ASSUME NEW S, IsFiniteSet(S), NEW s \in SUBSET S
  PROVE  /\ Cardinality(s) \in Nat /\ (Cardinality(s) = 0 <=> s = {})
         /\ s # {} => Some(s) \in s
         /\ \A x \in s : s \ {x} \in SUBSET S /\ Cardinality(s \ {x}) = Cardinality(s) - 1
<1>1. IsFiniteSet(s)
  BY FS_Subset
<1>2. Cardinality(s) \in Nat /\ (Cardinality(s) = 0 <=> s = {})
  BY <1>1, FS_CardinalityType, FS_EmptySet
<1>3. s # {} => Some(s) \in s
  BY DEF Some
<1>4. \A x \in s : s \ {x} \in SUBSET S /\ Cardinality(s \ {x}) = Cardinality(s) - 1
  BY <1>1, FS_RemoveElement
<1>5. QED
  BY <1>2, <1>3, <1>4

(* The recursion defines a function: it does on the sets of up to n        *)
(* elements, for every n.                                                  *)
LEMMA IterExists ==
  ASSUME NEW S, IsFiniteSet(S), NEW w, Numbers(w, S)
  PROVE  Iterates(Iter(w, S), w, S)
<1> DEFINE Small(n) == {s \in SUBSET S : Cardinality(s) <= n}
           Good(n) == \E f \in [Small(n) -> Nat] : \A s \in Small(n) : f[s] = Turn(w, f, s)
           Bad == {n \in Nat : ~Good(n)}
<1>1. Good(0)
  <2> DEFINE f == [s \in Small(0) |-> 0]
  <2>1. f \in [Small(0) -> Nat]
    OBVIOUS
  <2>2. ASSUME NEW s \in Small(0) PROVE f[s] = Turn(w, f, s)
    <3>1. s = {}
      BY Without
    <3>2. QED
      BY <3>1 DEF Turn
  <2>3. QED
    BY <2>1, <2>2
<1>2. ASSUME NEW n \in Nat, Good(n) PROVE Good(n + 1)
  <2>1. PICK f \in [Small(n) -> Nat] : \A s \in Small(n) : f[s] = Turn(w, f, s)
    BY <1>2
  <2> DEFINE g == [s \in Small(n + 1) |-> Turn(w, f, s)]
  <2>2. ASSUME NEW s \in Small(n + 1), s # {}
        PROVE  Some(s) \in s /\ w[Some(s)] \in Nat /\ s \ {Some(s)} \in Small(n)
    <3>1. Some(s) \in s /\ s \ {Some(s)} \in SUBSET S /\ Cardinality(s) \in Nat
          /\ Cardinality(s \ {Some(s)}) = Cardinality(s) - 1
      BY <2>2, Without
    <3>2. QED
      BY <3>1 DEF Numbers
  <2>3. ASSUME NEW s \in Small(n + 1) PROVE Turn(w, f, s) \in Nat
    BY <2>2 DEF Turn
  <2>4. g \in [Small(n + 1) -> Nat]
    BY <2>3
  <2>5. ASSUME NEW s \in Small(n) PROVE s \in Small(n + 1) /\ g[s] = f[s]
    <3>1. s \in Small(n + 1)
      BY Without
    <3>2. QED
      BY <2>1, <3>1
  <2>6. ASSUME NEW s \in Small(n + 1) PROVE g[s] = Turn(w, g, s)
    <3>1. CASE s = {}
      BY <3>1 DEF Turn
    <3>2. CASE s # {}
      <4>1. g[s \ {Some(s)}] = f[s \ {Some(s)}]
        BY <3>2, <2>2, <2>5
      <4>2. QED
        BY <3>2, <4>1 DEF Turn
    <3>3. QED
      BY <3>1, <3>2
  <2> HIDE DEF g
  <2>7. QED
    BY <2>4, <2>6
<1>3. Bad = {}
  <2>1. SUFFICES ASSUME Bad # {} PROVE FALSE
    OBVIOUS
  <2>2. Bad \in SUBSET Nat
    OBVIOUS
  <2> HIDE DEF Good
  <2>3. PICK m \in Bad : \A n \in Bad : m <= n
    BY <2>1, <2>2, LeastNumber
  <2>4. m \in Nat /\ m # 0
    BY <1>1, <2>3
  <2>5. m - 1 \in Nat /\ m - 1 \notin Bad
    BY <2>3, <2>4
  <2>6. Good(m)
    BY <2>4, <2>5, <1>2
  <2>7. QED
    BY <2>6
<1>4. Cardinality(S) \in Nat /\ \A s \in SUBSET S : Cardinality(s) <= Cardinality(S)
  BY FS_CardinalityType, FS_Subset
<1>5. Good(Cardinality(S)) /\ Small(Cardinality(S)) = SUBSET S
  BY <1>3, <1>4
<1>6. PICK f \in [SUBSET S -> Nat] : \A s \in SUBSET S : f[s] = Turn(w, f, s)
  BY <1>5
<1>7. Iterates(f, w, S)
  BY <1>6 DEF Iterates
<1>8. QED
  BY <1>7 DEF Iter

(* The order of the elements does not matter.                              *)
LEMMA AnyOrder ==
  ASSUME NEW S, IsFiniteSet(S), NEW w, Numbers(w, S), NEW f, Iterates(f, w, S)
  PROVE  \A s \in SUBSET S :
           /\ f[s] \in Nat /\ (s = {} => f[s] = 0)
           /\ \A x \in s : f[s] = w[x] + f[s \ {x}]
<1> DEFINE Fine(s) == /\ f[s] \in Nat /\ (s = {} => f[s] = 0)
                      /\ \A x \in s : f[s] = w[x] + f[s \ {x}]
           Bad == {n \in Nat : \E s \in SUBSET S : Cardinality(s) = n /\ ~Fine(s)}
<1>1. ASSUME NEW s \in SUBSET S PROVE f[s] = Turn(w, f, s)
  BY DEF Iterates
<1>2. ASSUME NEW s \in SUBSET S,
             \A u \in SUBSET S : Cardinality(u) < Cardinality(s) => Fine(u)
      PROVE  Fine(s)
  <2>1. CASE s = {}
    BY <2>1, <1>1 DEF Turn
  <2>2. CASE s # {}
    <3> DEFINE y == Some(s)
    <3>1. y \in s /\ s \ {y} \in SUBSET S /\ Cardinality(s \ {y}) < Cardinality(s)
          /\ w[y] \in Nat
      BY <2>2, Without DEF Numbers
    <3>2. f[s] = w[y] + f[s \ {y}] /\ Fine(s \ {y})
      BY <2>2, <3>1, <1>1, <1>2 DEF Turn
    <3>3. f[s] \in Nat
      BY <3>1, <3>2
    <3> HIDE DEF y
    <3>4. ASSUME NEW x \in s PROVE f[s] = w[x] + f[s \ {x}]
      <4>1. CASE x = y
        BY <4>1, <3>2
      <4>2. CASE x # y
        <5>1. PICK u \in SUBSET S : u = s \ {x}
          OBVIOUS
        <5>2. PICK t \in SUBSET S : t = s \ {y}
          OBVIOUS
        <5>3. PICK r \in SUBSET S : r = u \ {y} /\ r = t \ {x}
          BY <5>1, <5>2
        <5>4. y \in u /\ x \in t /\ w[x] \in Nat
          BY <3>1, <4>2, <5>1, <5>2 DEF Numbers
        <5>5. /\ Cardinality(u) = Cardinality(s) - 1 /\ Cardinality(r) = Cardinality(u) - 1
              /\ Cardinality(s) \in Nat
          BY <5>1, <5>3, <5>4, Without
        <5>a. Cardinality(u) < Cardinality(s) /\ Cardinality(r) < Cardinality(s)
          BY <5>5
        <5>b. Fine(u)
          BY <5>a, <1>2
        <5>c. Fine(r)
          BY <5>a, <1>2
        <5>6. Fine(u) /\ Fine(r)
          BY <5>b, <5>c
        <5>7. f[t] = w[x] + f[r] /\ f[u] = w[y] + f[r] /\ f[r] \in Nat
          BY <3>2, <5>2, <5>3, <5>4, <5>6
        <5>8. f[s] = w[y] + (w[x] + f[r]) /\ f[u] = w[y] + f[r]
          BY <3>2, <5>2, <5>7
        <5>9. f[s] = w[x] + f[u]
          BY <3>1, <5>4, <5>7, <5>8
        <5>10. QED
          BY <5>1, <5>9
      <4>3. QED
        BY <4>1, <4>2
    <3>5. QED
      BY <2>2, <3>3, <3>4
  <2>3. QED
    BY <2>1, <2>2
<1> HIDE DEF Fine
<1>3. Bad = {}
  <2>1. SUFFICES ASSUME Bad # {} PROVE FALSE
    OBVIOUS
  <2>2. PICK m \in Bad : \A n \in Bad : m <= n
    BY <2>1, LeastNumber
  <2>3. PICK s \in SUBSET S : Cardinality(s) = m /\ ~Fine(s)
    BY <2>2
  <2>4. \A u \in SUBSET S : Cardinality(u) < Cardinality(s) => Fine(u)
    BY <2>2, <2>3, Without
  <2>5. QED
    BY <2>3, <2>4, <1>2
<1>4. \A s \in SUBSET S : Fine(s)
  BY <1>3, Without
<1>5. QED
  BY <1>4 DEF Fine

(* Sums over a part of two sets do not depend on which of them it is seen  *)
(* as a part of, or on the function elsewhere.                             *)
LEMMA SamePart ==
  ASSUME NEW S, IsFiniteSet(S), NEW w, Numbers(w, S), NEW f, Iterates(f, w, S),
         NEW T, IsFiniteSet(T), NEW v, Numbers(v, T), NEW g, Iterates(g, v, T),
         NEW r, r \subseteq S, r \subseteq T, \A x \in r : w[x] = v[x]
  PROVE  f[r] = g[r]
<1> DEFINE Bad == {n \in Nat : \E s \in SUBSET r : Cardinality(s) = n /\ f[s] # g[s]}
<1>1. ASSUME NEW s \in SUBSET r,
             \A u \in SUBSET r : Cardinality(u) < Cardinality(s) => f[u] = g[u]
      PROVE  f[s] = g[s]
  <2>1. s \in SUBSET S /\ s \in SUBSET T
    OBVIOUS
  <2>2. CASE s = {}
    BY <2>1, <2>2, AnyOrder
  <2>3. CASE s # {}
    <3>1. PICK x \in s : x \in r
      BY <2>3
    <3>2. s \ {x} \in SUBSET r /\ Cardinality(s \ {x}) < Cardinality(s)
      BY <2>1, <3>1, Without
    <3>3. f[s] = w[x] + f[s \ {x}] /\ g[s] = v[x] + g[s \ {x}]
      BY <2>1, AnyOrder
    <3>4. QED
      BY <3>1, <3>2, <3>3, <1>1
  <2>4. QED
    BY <2>2, <2>3
<1>2. Bad = {}
  <2>1. SUFFICES ASSUME Bad # {} PROVE FALSE
    OBVIOUS
  <2>2. PICK m \in Bad : \A n \in Bad : m <= n
    BY <2>1, LeastNumber
  <2>3. PICK s \in SUBSET r : Cardinality(s) = m /\ f[s] # g[s]
    BY <2>2
  <2>4. ASSUME NEW u \in SUBSET r, Cardinality(u) < Cardinality(s) PROVE f[u] = g[u]
    <3>1. Cardinality(u) \in Nat /\ Cardinality(s) \in Nat
      BY Without
    <3>2. QED
      BY <2>2, <2>3, <2>4, <3>1
  <2>5. QED
    BY <2>3, <2>4, <1>1
<1>3. Cardinality(r) \in Nat
  BY Without
<1>4. QED
  BY <1>2, <1>3

-----------------------------------------------------------------------------
(* The facts about sums.                                                   *)

(* Nothing adds up to 0.                                                   *)
THEOREM SumEmpty == \A w : SumFunctionOnSet(w, {}) = 0
<1> SUFFICES ASSUME NEW w PROVE SumFunctionOnSet(w, {}) = 0
  OBVIOUS
<1>1. IsFiniteSet({}) /\ Numbers(w, {})
  BY FS_EmptySet DEF Numbers
<1>2. QED
  BY <1>1, IterExists, AnyOrder, SumIsIter

(* Any element can be taken out.                                           *)
THEOREM SumSplit ==
  ASSUME NEW S, IsFiniteSet(S), NEW w, Numbers(w, S)
  PROVE  /\ SumFunctionOnSet(w, S) \in Nat
         /\ \A x \in S : SumFunctionOnSet(w, S) = w[x] + SumFunctionOnSet(w, S \ {x})
<1> DEFINE f == Iter(w, S)
<1>1. Iterates(f, w, S)
  BY IterExists
<1>2. SumFunctionOnSet(w, S) = f[S]
  BY SumIsIter
<1> HIDE DEF f
<1>3. f[S] \in Nat /\ \A x \in S : f[S] = w[x] + f[S \ {x}]
  BY <1>1, AnyOrder
<1>4. ASSUME NEW x \in S PROVE f[S \ {x}] = SumFunctionOnSet(w, S \ {x})
  <2> DEFINE T == S \ {x}
             g == Iter(w, T)
  <2>1. IsFiniteSet(T) /\ Numbers(w, T) /\ T \subseteq S
    BY FS_Subset DEF Numbers
  <2> HIDE DEF T
  <2>2. Iterates(g, w, T) /\ SumFunctionOnSet(w, T) = g[T]
    BY <2>1, IterExists, SumIsIter
  <2> HIDE DEF g
  <2>3. f[T] = g[T]
    BY <1>1, <2>1, <2>2, SamePart
  <2>4. QED
    BY <2>2, <2>3 DEF T
<1>5. QED
  BY <1>2, <1>3, <1>4

(* The sum depends on nothing but the numbers it adds.                     *)
THEOREM SumAgree ==
  ASSUME NEW S, IsFiniteSet(S), NEW w, NEW v, Numbers(w, S), \A x \in S : w[x] = v[x]
  PROVE  SumFunctionOnSet(w, S) = SumFunctionOnSet(v, S)
<1> DEFINE f == Iter(w, S)
           g == Iter(v, S)
<1>1. Numbers(v, S)
  BY DEF Numbers
<1>2. Iterates(f, w, S) /\ Iterates(g, v, S)
  BY <1>1, IterExists
<1>3. SumFunctionOnSet(w, S) = f[S] /\ SumFunctionOnSet(v, S) = g[S]
  BY SumIsIter
<1> HIDE DEF f, g
<1>4. f[S] = g[S]
  BY <1>1, <1>2, SamePart
<1>5. QED
  BY <1>3, <1>4

(* One number changes.                                                     *)
THEOREM SumChange ==
  ASSUME NEW S, IsFiniteSet(S), NEW w, NEW v, Numbers(w, S), Numbers(v, S), NEW x \in S,
         \A y \in S \ {x} : w[y] = v[y]
  PROVE  SumFunctionOnSet(v, S) = SumFunctionOnSet(w, S) - w[x] + v[x]
<1> DEFINE T == S \ {x}
<1>1. IsFiniteSet(T) /\ Numbers(w, T) /\ \A y \in T : w[y] = v[y]
  BY FS_Subset DEF Numbers
<1>2. /\ SumFunctionOnSet(w, S) = w[x] + SumFunctionOnSet(w, T)
      /\ SumFunctionOnSet(v, S) = v[x] + SumFunctionOnSet(v, T)
  BY SumSplit
<1> HIDE DEF T
<1>3. SumFunctionOnSet(w, T) = SumFunctionOnSet(v, T) /\ SumFunctionOnSet(w, T) \in Nat
  BY <1>1, SumAgree, SumSplit
<1>4. QED
  BY <1>2, <1>3 DEF Numbers

(* One more number.                                                        *)
THEOREM SumMore ==
  ASSUME NEW S, IsFiniteSet(S), NEW x, x \notin S, NEW T, T = S \cup {x},
         NEW w, NEW v, Numbers(w, S), v[x] \in Nat, \A y \in S : w[y] = v[y]
  PROVE  SumFunctionOnSet(v, T) = SumFunctionOnSet(w, S) + v[x]
<1>1. IsFiniteSet(T) /\ Numbers(v, T) /\ x \in T /\ T \ {x} = S
  BY FS_AddElement DEF Numbers
<1>2. SumFunctionOnSet(v, T) = v[x] + SumFunctionOnSet(v, S)
  BY <1>1, SumSplit
<1>3. SumFunctionOnSet(w, S) = SumFunctionOnSet(v, S) /\ SumFunctionOnSet(w, S) \in Nat
  BY SumAgree, SumSplit
<1>4. QED
  BY <1>2, <1>3

(* Zeros add up to 0.                                                      *)
THEOREM SumZero ==
  ASSUME NEW S, IsFiniteSet(S), NEW w, \A x \in S : w[x] = 0
  PROVE  SumFunctionOnSet(w, S) = 0
<1> DEFINE Bad == {n \in Nat : \E s \in SUBSET S :
                                 Cardinality(s) = n /\ SumFunctionOnSet(w, s) # 0}
<1>1. SUFFICES ASSUME Bad # {} PROVE FALSE
  BY Without
<1>2. PICK m \in Bad : \A n \in Bad : m <= n
  BY <1>1, LeastNumber
<1>3. PICK s \in SUBSET S : Cardinality(s) = m /\ SumFunctionOnSet(w, s) # 0
  BY <1>2
<1>4. s # {}
  BY <1>3, SumEmpty
<1>5. PICK x \in s : w[x] = 0
  BY <1>4
<1>a. s \ {x} \in SUBSET S /\ Cardinality(s \ {x}) = Cardinality(s) - 1
  BY <1>5, Without
<1>6. PICK t \in SUBSET S : t = s \ {x} /\ Cardinality(t) = Cardinality(s) - 1
  BY <1>a
<1>7. Cardinality(t) \in Nat /\ Cardinality(t) < m
  BY <1>3, <1>6, Without
<1>8. SumFunctionOnSet(w, t) = 0
  BY <1>2, <1>6, <1>7
<1>9. IsFiniteSet(s) /\ Numbers(w, s)
  BY FS_Subset DEF Numbers
<1>10. SumFunctionOnSet(w, s) = w[x] + SumFunctionOnSet(w, t)
  BY <1>5, <1>6, <1>9, SumSplit
<1>11. QED
  BY <1>3, <1>5, <1>8, <1>10

=============================================================================
