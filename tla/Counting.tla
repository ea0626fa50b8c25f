------------------------------- MODULE Counting -------------------------------
(***************************************************************************)
(* Lemmas the other proofs count with: least elements of sets of numbers,  *)
(* sums over finite sets, and finite sets listed in order.  They speak of  *)
(* no module of the model.                                                 *)
(***************************************************************************)
EXTENDS Integers, FiniteSets, Functions, FiniteSetTheorems, WellFoundedInduction, TLAPS

----------------------------------------------------------------------------
(* Least elements, and sums over finite sets.                              *)

LessThan == {p \in Nat \X Nat : p[1] < p[2]}

\* A set of numbers that is not empty has a least element.
LEMMA LeastOf ==
  ASSUME NEW T, T \subseteq Nat, T # {}
  PROVE  \E x \in T : \A y \in T : ~(y < x)
<1>1. IsWellFoundedOn(LessThan, Nat)
  BY NatLessThanWellFounded DEF OpToRel, LessThan
<1>2. PICK x \in T : \A y \in T : ~(<<y, x>> \in LessThan)
  BY <1>1, WFMin, Zenon
<1>3. QED
  BY <1>2 DEF LessThan

\* What holds at 0 and of the next of every number it holds of, holds up to n.
LEMMA Upwards ==
  ASSUME NEW n \in Nat, NEW G, 0 \in G, \A i \in 1..n : i - 1 \in G => i \in G
  PROVE  \A i \in 0..n : i \in G
<1> DEFINE Bad == {i \in 0..n : i \notin G}
<1> SUFFICES ASSUME Bad # {} PROVE FALSE
  OBVIOUS
<1>1. PICK i \in Bad : \A j \in Bad : ~(j < i)
  <2>1. Bad \subseteq Nat
    OBVIOUS
  <2> HIDE DEF Bad
  <2> QED
    BY <2>1, LeastOf
<1>2. i \in 1..n /\ i \notin G
  BY <1>1
<1>3. i - 1 \in G
  BY <1>1, <1>2
<1> QED
  BY <1>2, <1>3

\* The equation of a sum over the subsets of S: g adds up f, element by element.
SumStep(f, S, g) ==
  [s \in SUBSET S |-> IF s = {} THEN 0
                      ELSE LET x == CHOOSE y \in s : TRUE IN f[x] + g[s \ {x}]]
Sums(f, S, g) == g = SumStep(f, S, g)
Total(f, S) == (CHOOSE g : Sums(f, S, g))[S]

\* Subsets, smallest first: a claim about all subsets of a finite set that fails
\* fails at one all of whose proper subsets it holds of.
LEMMA SmallestSubset ==
  ASSUME NEW S, IsFiniteSet(S), NEW Bad, Bad \subseteq SUBSET S, Bad # {}
  PROVE  \E B \in Bad : \A s : s \subseteq B /\ s # B => s \notin Bad
<1> DEFINE sizes == {Cardinality(s) : s \in Bad}
<1>1. \A s \in SUBSET S : IsFiniteSet(s) /\ Cardinality(s) \in Nat
  BY FS_Subset, FS_CardinalityType
<1>2. sizes \subseteq Nat /\ sizes # {}
  BY <1>1
<1>3. PICK n \in sizes : \A m \in sizes : ~(m < n)
  BY <1>2, LeastOf
<1>4. PICK B \in Bad : Cardinality(B) = n
  BY <1>3
<1>5. ASSUME NEW s, s \subseteq B, s # B, s \in Bad PROVE FALSE
  <2>1. Cardinality(s) <= Cardinality(B) /\ (Cardinality(s) = Cardinality(B) => s = B)
    BY <1>1, <1>4, <1>5, FS_Subset
  <2>2. Cardinality(s) \in sizes
    BY <1>5
  <2>3. QED
    BY <1>1, <1>3, <1>4, <1>5, <2>1, <2>2
<1>6. QED
  BY <1>4, <1>5

\* A finite set has a sum.
LEMMA SumExists ==
  ASSUME NEW S, IsFiniteSet(S), NEW f
  PROVE  \E g : Sums(f, S, g)
<1> DEFINE n == Cardinality(S)
           level(i) == {s \in SUBSET S : Cardinality(s) <= i}
           fits(i, g) == \A s \in level(i) :
                           g[s] = IF s = {} THEN 0
                                  ELSE f[CHOOSE y \in s : TRUE] + g[s \ {CHOOSE y \in s : TRUE}]
           Bad == {i \in Nat : ~\E g : fits(i, g)}
<1>1. \A s \in SUBSET S : IsFiniteSet(s) /\ Cardinality(s) \in Nat /\ Cardinality(s) <= n
  BY FS_Subset, FS_CardinalityType
<1>2. \A s \in SUBSET S : \A x \in s : Cardinality(s \ {x}) = Cardinality(s) - 1
  BY <1>1, FS_RemoveElement
<1>3. \A s \in SUBSET S : Cardinality(s) = 0 <=> s = {}
  BY <1>1, FS_EmptySet
<1>4. 0 \notin Bad
  <2>1. fits(0, [s \in {{}} |-> 0])
    BY <1>1, <1>3
  <2>2. QED
    BY <2>1
<1>5. Bad \subseteq Nat /\ (\A i \in Nat : i \notin Bad <=> \E g : fits(i, g))
  OBVIOUS
<1> HIDE DEF Bad
<1>6. ASSUME Bad # {} PROVE FALSE
  <2>1. Bad \subseteq Nat
    BY <1>5
  <2>2. PICK i \in Bad : \A j \in Bad : ~(j < i)
    BY <1>6, <2>1, LeastOf
  <2>3. i \in Nat /\ i - 1 \in Nat /\ i - 1 \notin Bad
    <3>1. i \in Nat /\ i # 0
      BY <1>4, <2>1, <2>2
    <3>2. i - 1 \in Nat /\ i - 1 < i
      BY <3>1
    <3>3. QED
      BY <2>2, <3>1, <3>2
  <2>4. PICK g : fits(i - 1, g)
    BY <1>5, <2>3
  <2> DEFINE h == [s \in level(i) |->
                     IF s = {} THEN 0
                     ELSE IF s \in level(i - 1) THEN g[s]
                     ELSE f[CHOOSE y \in s : TRUE] + g[s \ {CHOOSE y \in s : TRUE}]]
  <2>5. \A s \in level(i - 1) : h[s] = g[s] /\ s \in level(i)
    <3>1. \A s \in level(i - 1) : s \in level(i)
      BY <1>1, <2>3
    <3>2. {} \in level(i - 1) => g[{}] = 0
      BY <2>4
    <3>3. QED
      BY <3>1, <3>2
  <2>6. ASSUME NEW s \in level(i), s # {}
        PROVE  h[s] = f[CHOOSE y \in s : TRUE] + h[s \ {CHOOSE y \in s : TRUE}]
    <3> DEFINE c == CHOOSE y \in s : TRUE
    <3>1. c \in s
      BY <2>6
    <3>2. s \ {c} \in level(i - 1)
      <4>1. s \in SUBSET S /\ Cardinality(s) <= i /\ s \ {c} \in SUBSET S
        BY <2>6
      <4>2. Cardinality(s \ {c}) = Cardinality(s) - 1 /\ Cardinality(s) \in Nat
        BY <1>1, <1>2, <3>1, <4>1
      <4> HIDE DEF c
      <4>3. QED
        BY <2>3, <4>1, <4>2
    <3>3. h[s \ {c}] = g[s \ {c}]
      BY <2>5, <3>2
    <3>4. h[s] = f[c] + g[s \ {c}]
      BY <2>4, <2>6
    <3>5. QED
      BY <3>3, <3>4
  <2>7. {} \in level(i) => h[{}] = 0
    OBVIOUS
  <2> HIDE DEF h
  <2>8. fits(i, h)
    BY <2>6, <2>7
  <2> HIDE DEF fits
  <2>9. \E k : fits(i, k)
    BY <2>8
  <2>10. QED
    BY <1>5, <2>2, <2>3, <2>9
<1>7. PICK g : fits(n, g)
  <2>1. n \in Nat
    BY <1>1
  <2>2. n \notin Bad
    BY <1>6
  <2>3. QED
    BY <1>5, <2>1, <2>2
<1> DEFINE w == SumStep(f, S, g)
<1>8. \A s \in SUBSET S : w[s] = g[s]
  BY <1>1, <1>7 DEF SumStep
<1>9. SumStep(f, S, w) = w
  <2>1. ASSUME NEW s \in SUBSET S, s # {}
        PROVE  w[s \ {CHOOSE y \in s : TRUE}] = g[s \ {CHOOSE y \in s : TRUE}]
    BY <1>8
  <2> HIDE DEF w
  <2>2. SumStep(f, S, w) = SumStep(f, S, g)
    BY <2>1 DEF SumStep
  <2>3. QED
    BY <2>2 DEF w
<1>10. QED
  BY <1>9 DEF Sums

\* And one only: the sums of a set and of a part of it agree on the part.
LEMMA SumUnique ==
  ASSUME NEW S, IsFiniteSet(S), NEW T \in SUBSET S, NEW f, NEW g, NEW h,
         Sums(f, S, g), Sums(f, T, h)
  PROVE  \A s \in SUBSET T : g[s] = h[s]
<1> DEFINE Bad == {s \in SUBSET T : g[s] # h[s]}
<1> SUFFICES ASSUME Bad # {} PROVE FALSE
  OBVIOUS
<1>1. IsFiniteSet(T) /\ Bad \subseteq SUBSET T
  BY FS_Subset
<1>2. PICK B \in Bad : \A s : s \subseteq B /\ s # B => s \notin Bad
  <2>1. Bad # {}
    OBVIOUS
  <2> HIDE DEF Bad
  <2>2. QED
    BY <1>1, <2>1, SmallestSubset
<1>3. \A s \in SUBSET S : s # {} =>
        g[s] = f[CHOOSE y \in s : TRUE] + g[s \ {CHOOSE y \in s : TRUE}]
  BY DEF Sums, SumStep
<1>4. \A s \in SUBSET T : s # {} =>
        h[s] = f[CHOOSE y \in s : TRUE] + h[s \ {CHOOSE y \in s : TRUE}]
  BY DEF Sums, SumStep
<1>5. g[{}] = 0 /\ h[{}] = 0
  BY DEF Sums, SumStep
<1>6. B # {} /\ B \in SUBSET T /\ B \in SUBSET S /\ g[B] # h[B]
  BY <1>2, <1>5
<1> DEFINE c == CHOOSE y \in B : TRUE
<1>7. c \in B
  BY <1>6
<1>8. g[B \ {c}] = h[B \ {c}]
  <2>1. B \ {c} \subseteq B /\ B \ {c} # B /\ B \ {c} \in SUBSET T
    BY <1>6, <1>7
  <2>2. B \ {c} \notin Bad
    BY <1>2, <2>1
  <2>3. QED
    BY <2>1, <2>2
<1>9. QED
  BY <1>3, <1>4, <1>6, <1>8

\* A sum of numbers is a number, and does not depend on the order of adding.
LEMMA SumRemoves ==
  ASSUME NEW S, IsFiniteSet(S), NEW f, \A x \in S : f[x] \in Nat, NEW g, Sums(f, S, g)
  PROVE  \A s \in SUBSET S : /\ g[s] \in Nat
                             /\ \A x \in s : g[s] = f[x] + g[s \ {x}]
<1> DEFINE Good(s) == g[s] \in Nat /\ \A x \in s : g[s] = f[x] + g[s \ {x}]
           Bad == {s \in SUBSET S : ~Good(s)}
<1> SUFFICES ASSUME Bad # {} PROVE FALSE
  OBVIOUS
<1>1. Bad \subseteq SUBSET S
  OBVIOUS
<1>2. PICK B \in Bad : \A s : s \subseteq B /\ s # B => s \notin Bad
  <2>1. Bad # {}
    OBVIOUS
  <2> HIDE DEF Bad
  <2>2. QED
    BY <1>1, <2>1, SmallestSubset
<1>3. \A s \in SUBSET S : s # {} =>
        g[s] = f[CHOOSE y \in s : TRUE] + g[s \ {CHOOSE y \in s : TRUE}]
  BY DEF Sums, SumStep
<1>4. g[{}] = 0
  BY DEF Sums, SumStep
<1>5. B # {} /\ B \in SUBSET S /\ ~Good(B)
  <2>1. Good({})
    BY <1>4
  <2>2. QED
    BY <1>2, <2>1
<1>6. \A s \in SUBSET B : s # B => Good(s)
  BY <1>2, <1>5
<1> HIDE DEF Bad, Good
<1> DEFINE c == CHOOSE y \in B : TRUE
<1>7. c \in B /\ g[B] = f[c] + g[B \ {c}]
  BY <1>3, <1>5
<1> HIDE DEF c
<1>8. Good(B \ {c}) /\ f[c] \in Nat
  BY <1>5, <1>6, <1>7
<1>9. g[B \ {c}] \in Nat
  BY <1>8 DEF Good
<1>10. g[B] \in Nat
  BY <1>7, <1>8, <1>9
<1>11. ASSUME NEW x \in B PROVE g[B] = f[x] + g[B \ {x}]
  <2>1. CASE x = c
    BY <1>7, <2>1
  <2>2. CASE x # c
    <3>1. x \in B \ {c} /\ c \in B \ {x} /\ (B \ {c}) \ {x} = (B \ {x}) \ {c}
      BY <1>7, <2>2
    <3>2. Good(B \ {x}) /\ Good((B \ {x}) \ {c}) /\ f[x] \in Nat
      BY <1>5, <1>6, <3>1
    <3>3. g[B \ {c}] = f[x] + g[(B \ {x}) \ {c}]
      BY <1>8, <3>1 DEF Good
    <3>4. g[B \ {x}] = f[c] + g[(B \ {x}) \ {c}] /\ g[(B \ {x}) \ {c}] \in Nat
      BY <3>1, <3>2 DEF Good
    <3>5. \A a, b, d, p, q, r, t \in Nat : a = b + p /\ p = d + q /\ r = b + q => a = d + r
      OBVIOUS
    <3>6. QED
      BY <1>7, <1>8, <1>9, <1>10, <3>2, <3>3, <3>4
  <2>3. QED
    BY <2>1, <2>2
<1>12. QED
  BY <1>5, <1>10, <1>11 DEF Good

\* Any sum of a larger set tells the total of its part.
LEMMA TotalIs ==
  ASSUME NEW S, IsFiniteSet(S), NEW f, NEW g, Sums(f, S, g)
  PROVE  \A T \in SUBSET S : Total(f, T) = g[T]
<1> SUFFICES ASSUME NEW T \in SUBSET S PROVE Total(f, T) = g[T]
  OBVIOUS
<1> DEFINE h == CHOOSE k : Sums(f, T, k)
<1>1. IsFiniteSet(T)
  BY FS_Subset
<1>2. Sums(f, T, h)
  BY <1>1, SumExists
<1> HIDE DEF h
<1>3. g[T] = h[T]
  BY <1>2, SumUnique
<1>4. QED
  BY <1>3 DEF Total, h

\* The total of a set is that of the set without one of its elements and that element.
LEMMA TotalRemoves ==
  ASSUME NEW S, IsFiniteSet(S), NEW f, \A x \in S : f[x] \in Nat
  PROVE  /\ Total(f, S) \in Nat
         /\ \A x \in S : Total(f, S) = f[x] + Total(f, S \ {x})
         /\ Total(f, {}) = 0
<1>1. PICK g : Sums(f, S, g)
  BY SumExists
<1>2. Total(f, S) = g[S] /\ Total(f, {}) = g[{}] /\ \A x \in S : Total(f, S \ {x}) = g[S \ {x}]
  BY <1>1, TotalIs
<1>3. g[{}] = 0
  BY <1>1 DEF Sums, SumStep
<1>4. g[S] \in Nat /\ \A x \in S : g[S] = f[x] + g[S \ {x}]
  BY <1>1, SumRemoves
<1>5. QED
  BY <1>2, <1>3, <1>4

\* Adding an element.
LEMMA TotalAdds ==
  ASSUME NEW S, IsFiniteSet(S), NEW x, x \notin S, NEW f, f[x] \in Nat, \A y \in S : f[y] \in Nat
  PROVE  Total(f, S \cup {x}) = Total(f, S) + f[x] /\ Total(f, S) \in Nat
<1>1. IsFiniteSet(S \cup {x}) /\ (S \cup {x}) \ {x} = S
  BY FS_AddElement
<1>2. Total(f, S \cup {x}) = f[x] + Total(f, S)
  BY <1>1, TotalRemoves
<1>3. Total(f, S) \in Nat
  BY TotalRemoves
<1>4. QED
  BY <1>2, <1>3

\* The total of two sets without a common element.
LEMMA TotalUnion ==
  ASSUME NEW A, IsFiniteSet(A), NEW B, IsFiniteSet(B), A \cap B = {},
         NEW f, \A x \in A \cup B : f[x] \in Nat
  PROVE  Total(f, A \cup B) = Total(f, A) + Total(f, B)
<1> DEFINE Bad == {s \in SUBSET B : Total(f, A \cup s) # Total(f, A) + Total(f, s)}
<1> SUFFICES ASSUME Bad # {} PROVE FALSE
  OBVIOUS
<1>1. PICK s \in Bad : \A t : t \subseteq s /\ t # s => t \notin Bad
  <2>1. Bad \subseteq SUBSET B
    OBVIOUS
  <2>2. Bad # {}
    OBVIOUS
  <2> HIDE DEF Bad
  <2>3. QED
    BY <2>1, <2>2, SmallestSubset
<1>2. Total(f, A) \in Nat /\ Total(f, {}) = 0
  BY TotalRemoves
<1>3. s # {} /\ s \in SUBSET B
  <2>1. Total(f, A \cup {}) = Total(f, A) + Total(f, {})
    BY <1>2
  <2>2. QED
    BY <1>1, <2>1
<1>4. PICK x \in s : TRUE
  BY <1>3
<1> DEFINE r == s \ {x}
<1>5. Total(f, A \cup r) = Total(f, A) + Total(f, r)
  <2>1. r \subseteq s /\ r # s /\ r \in SUBSET B
    BY <1>3, <1>4
  <2>2. r \notin Bad
    BY <1>1, <2>1
  <2>3. QED
    BY <2>1, <2>2
<1>6. IsFiniteSet(r) /\ IsFiniteSet(A \cup r)
  BY <1>3, FS_Subset, FS_Union
<1>7. x \notin A \cup r /\ f[x] \in Nat /\ (\A y \in A \cup r : f[y] \in Nat) /\ (\A y \in r : f[y] \in Nat)
  BY <1>3, <1>4
<1>8. r \cup {x} = s /\ (A \cup r) \cup {x} = A \cup s /\ x \notin r
  BY <1>4
<1>9. Total(f, A \cup s) = Total(f, A \cup r) + f[x]
  BY <1>6, <1>7, <1>8, TotalAdds
<1>10. Total(f, s) = Total(f, r) + f[x] /\ Total(f, r) \in Nat
  BY <1>6, <1>7, <1>8, TotalAdds
<1>11. QED
  BY <1>1, <1>2, <1>5, <1>7, <1>9, <1>10

\* Adding up class by class.
LEMMA TotalByClass ==
  ASSUME NEW R, IsFiniteSet(R), NEW f, \A e \in R : f[e] \in Nat, NEW class,
         NEW D, IsFiniteSet(D), \A e \in R : class[e] \in D,
         NEW part, \A d \in D : part[d] = {e \in R : class[e] = d},
         NEW t, \A d \in D : t[d] = Total(f, part[d])
  PROVE  Total(t, D) = Total(f, R)
<1>1. \A d \in D : t[d] = Total(f, {e \in R : class[e] = d})
  OBVIOUS
<1>2. R = {e \in R : class[e] \in D}
  OBVIOUS
<1> SUFFICES Total(t, D) = Total(f, {e \in R : class[e] \in D})
  BY <1>2
<1> DEFINE Of(s) == {e \in R : class[e] \in s}
           Bad == {s \in SUBSET D : Total(t, s) # Total(f, Of(s))}
<1> SUFFICES ASSUME Bad # {} PROVE FALSE
  OBVIOUS
<1>3. PICK s \in Bad : \A b : b \subseteq s /\ b # s => b \notin Bad
  <2>1. Bad \subseteq SUBSET D
    OBVIOUS
  <2>2. Bad # {}
    OBVIOUS
  <2> HIDE DEF Bad
  <2>3. QED
    BY <2>1, <2>2, SmallestSubset
<1>4. \A b : IsFiniteSet(Of(b)) /\ Total(f, Of(b)) \in Nat
  <2>1. SUFFICES ASSUME NEW b PROVE IsFiniteSet(Of(b)) /\ Total(f, Of(b)) \in Nat
    OBVIOUS
  <2>2. Of(b) \in SUBSET R /\ \A e \in Of(b) : f[e] \in Nat
    OBVIOUS
  <2> HIDE DEF Of
  <2>3. IsFiniteSet(Of(b))
    BY <2>2, FS_Subset
  <2>4. QED
    BY <2>2, <2>3, TotalRemoves
<1>5. \A d \in D : t[d] \in Nat
  <2>1. SUFFICES ASSUME NEW d \in D PROVE t[d] \in Nat
    OBVIOUS
  <2>2. Of({d}) = {e \in R : class[e] = d}
    OBVIOUS
  <2>3. t[d] = Total(f, {e \in R : class[e] = d})
    BY <1>1
  <2>4. Total(f, Of({d})) \in Nat
    BY <1>4
  <2> HIDE DEF Of
  <2>5. QED
    BY <2>2, <2>3, <2>4
<1>6. s # {} /\ s \in SUBSET D
  <2>1. Of({}) = {}
    OBVIOUS
  <2>2. Total(t, {}) = 0 /\ Total(f, {}) = 0
    BY TotalRemoves, FS_EmptySet
  <2>3. QED
    BY <1>3, <2>1, <2>2
<1>7. PICK d \in s : TRUE
  BY <1>6
<1> DEFINE r == s \ {d}
<1>8. Total(t, r) = Total(f, Of(r))
  <2>1. r \subseteq s /\ r # s /\ r \in SUBSET D
    BY <1>6, <1>7
  <2>2. r \notin Bad
    BY <1>3, <2>1
  <2>3. QED
    BY <2>1, <2>2
<1>9. IsFiniteSet(r) /\ d \notin r /\ r \cup {d} = s /\ \A x \in r : t[x] \in Nat
  <2>1. r \in SUBSET D
    BY <1>6
  <2>2. QED
    BY <1>5, <1>7, <2>1, FS_Subset
<1>10. Total(t, s) = Total(t, r) + t[d] /\ t[d] \in Nat
  <2>1. t[d] \in Nat
    BY <1>5, <1>6, <1>7
  <2> HIDE DEF Of, Bad, r
  <2>2. QED
    BY <1>9, <2>1, TotalAdds
<1>11. Of(s) = Of(r) \cup Of({d}) /\ Of(r) \cap Of({d}) = {}
  BY <1>7
<1>12. Of({d}) = {e \in R : class[e] = d} /\ \A e \in Of(r) \cup Of({d}) : f[e] \in Nat
  OBVIOUS
<1>13. t[d] = Total(f, Of({d}))
  <2>1. d \in D /\ Of({d}) = {e \in R : class[e] = d}
    BY <1>6, <1>7, <1>12
  <2>2. t[d] = Total(f, {e \in R : class[e] = d})
    BY <1>1, <2>1
  <2> HIDE DEF Of
  <2>3. QED
    BY <2>1, <2>2
<1>14. Total(t, s) # Total(f, Of(s))
  BY <1>3
<1> HIDE DEF Of, Bad, r
<1>15. Total(f, Of(s)) = Total(f, Of(r)) + Total(f, Of({d}))
  <2>1. IsFiniteSet(Of(r)) /\ IsFiniteSet(Of({d}))
    BY <1>4
  <2>2. Total(f, Of(r) \cup Of({d})) = Total(f, Of(r)) + Total(f, Of({d}))
    <3> DEFINE X == Of(r)
               Y == Of({d})
    <3>1. X \cap Y = {} /\ (\A e \in X \cup Y : f[e] \in Nat) /\ IsFiniteSet(X) /\ IsFiniteSet(Y)
      BY <1>11, <1>12, <2>1
    <3> HIDE DEF X, Y
    <3>2. Total(f, X \cup Y) = Total(f, X) + Total(f, Y)
      BY <3>1, TotalUnion
    <3>3. QED
      BY <3>2 DEF X, Y
  <2>3. QED
    BY <1>11, <2>2
<1>16. QED
  BY <1>8, <1>10, <1>13, <1>14, <1>15

\* A set whose elements are all nothing adds up to nothing.
LEMMA TotalZero ==
  ASSUME NEW S, IsFiniteSet(S), NEW f, \A x \in S : f[x] = 0
  PROVE  Total(f, S) = 0
<1> DEFINE Bad == {s \in SUBSET S : Total(f, s) # 0}
<1> SUFFICES ASSUME Bad # {} PROVE FALSE
  OBVIOUS
<1>1. PICK s \in Bad : \A t : t \subseteq s /\ t # s => t \notin Bad
  <2>1. Bad \subseteq SUBSET S
    OBVIOUS
  <2>2. Bad # {}
    OBVIOUS
  <2> HIDE DEF Bad
  <2> QED
    BY <2>1, <2>2, SmallestSubset
<1>2. s \subseteq S /\ IsFiniteSet(s) /\ \A x \in s : f[x] \in Nat
  BY <1>1, FS_Subset
<1>3. s # {}
  BY <1>1, <1>2, TotalRemoves
<1>4. PICK x \in s : TRUE
  BY <1>3
<1>5. Total(f, s) = f[x] + Total(f, s \ {x})
  BY <1>2, TotalRemoves
<1>6. Total(f, s \ {x}) = 0
  BY <1>1, <1>2, <1>4
<1> QED
  BY <1>1, <1>2, <1>5, <1>6

\* A total depends on the elements of its set only.
LEMMA TotalSame ==
  ASSUME NEW S, IsFiniteSet(S), NEW f, NEW g, \A x \in S : f[x] = g[x]
  PROVE  Total(f, S) = Total(g, S)
<1>1. PICK h : Sums(f, S, h)
  BY SumExists
<1>2. SumStep(f, S, h) = SumStep(g, S, h)
  BY DEF SumStep
<1>3. Sums(g, S, h)
  BY <1>1, <1>2 DEF Sums
<1> QED
  BY <1>1, <1>3, TotalIs

\* A larger set has no smaller total.
LEMMA TotalGrows ==
  ASSUME NEW S, IsFiniteSet(S), NEW T \in SUBSET S, NEW f, \A x \in S : f[x] \in Nat
  PROVE  Total(f, T) <= Total(f, S) /\ Total(f, T) \in Nat /\ Total(f, S) \in Nat
<1> DEFINE R == S \ T
<1>1. IsFiniteSet(T) /\ IsFiniteSet(R) /\ T \cap R = {} /\ T \cup R = S
  BY FS_Subset
<1> HIDE DEF R
<1>2. Total(f, T \cup R) = Total(f, T) + Total(f, R)
  BY <1>1, TotalUnion
<1>3. Total(f, T) \in Nat /\ Total(f, R) \in Nat /\ Total(f, S) \in Nat
  BY <1>1, TotalRemoves
<1>4. Total(f, S) = Total(f, T) + Total(f, R)
  BY <1>1, <1>2
<1> QED
  BY <1>3, <1>4

\* What is not zero in a set lies in two others: its total is at most theirs.
LEMMA TotalCovered ==
  ASSUME NEW A, IsFiniteSet(A), NEW B, IsFiniteSet(B), NEW C, IsFiniteSet(C), NEW f,
         \A x \in A \cup B \cup C : f[x] \in Nat,
         \A x \in A : f[x] = 0 \/ x \in B \/ x \in C
  PROVE  Total(f, A) <= Total(f, B) + Total(f, C)
<1> DEFINE Z == {x \in A : x \notin B /\ x \notin C}
           P == A \cap B
           Q == (A \cap C) \ B
<1>1. /\ IsFiniteSet(Z) /\ IsFiniteSet(P) /\ IsFiniteSet(Q) /\ IsFiniteSet(P \cup Q)
      /\ P \subseteq B /\ Q \subseteq C
      /\ P \cap Q = {} /\ Z \cap (P \cup Q) = {} /\ Z \cup (P \cup Q) = A
      /\ \A x \in Z : f[x] = 0
  <2>1. Z \subseteq A /\ P \subseteq A /\ Q \subseteq A /\ P \cup Q \subseteq A
    OBVIOUS
  <2> QED
    BY <2>1, FS_Subset
<1>2. /\ \A x \in Z \cup (P \cup Q) : f[x] \in Nat
      /\ \A x \in P \cup Q : f[x] \in Nat
      /\ \A x \in B : f[x] \in Nat
      /\ \A x \in C : f[x] \in Nat
  BY <1>1
<1> HIDE DEF Z, P, Q
<1>3. Total(f, Z \cup (P \cup Q)) = Total(f, Z) + Total(f, P \cup Q)
  BY <1>1, <1>2, TotalUnion
<1>4. Total(f, P \cup Q) = Total(f, P) + Total(f, Q)
  BY <1>1, <1>2, TotalUnion
<1>5. Total(f, Z) = 0
  BY <1>1, TotalZero
<1>6. Total(f, P) <= Total(f, B) /\ Total(f, P) \in Nat /\ Total(f, B) \in Nat
  BY <1>1, <1>2, TotalGrows
<1>7. Total(f, Q) <= Total(f, C) /\ Total(f, Q) \in Nat /\ Total(f, C) \in Nat
  BY <1>1, <1>2, TotalGrows
<1>8. Total(f, A) = 0 + (Total(f, P) + Total(f, Q))
  BY <1>1, <1>3, <1>4, <1>5
<1> QED
  BY <1>6, <1>7, <1>8

\* Adding to one element adds to the total of the sets it is in.
LEMMA TotalBumped ==
  ASSUME NEW S, IsFiniteSet(S), NEW c, NEW f, NEW g, NEW n \in Nat, \A x \in S : f[x] \in Nat,
         \A x \in S : g[x] = IF x = c THEN f[x] + n ELSE f[x]
  PROVE  Total(g, S) = Total(f, S) + (IF c \in S THEN n ELSE 0)
<1>1. CASE c \notin S
  <2>1. Total(g, S) = Total(f, S)
    BY <1>1, TotalSame
  <2>2. Total(f, S) \in Nat
    BY TotalRemoves
  <2> QED
    BY <1>1, <2>1, <2>2
<1>2. CASE c \in S
  <2> DEFINE T == S \ {c}
  <2>1. /\ IsFiniteSet(T) /\ (\A x \in T : f[x] = g[x]) /\ (\A x \in T : f[x] \in Nat)
        /\ \A x \in S : g[x] \in Nat
    BY FS_Subset
  <2>2. Total(f, S) = f[c] + Total(f, T) /\ Total(g, S) = g[c] + Total(g, T)
    BY <1>2, <2>1, TotalRemoves
  <2> HIDE DEF T
  <2>3. Total(g, T) = Total(f, T)
    BY <2>1, TotalSame
  <2>4. Total(f, T) \in Nat /\ f[c] \in Nat /\ g[c] = f[c] + n
    BY <1>2, <2>1, TotalRemoves
  <2> QED
    BY <1>2, <2>2, <2>3, <2>4
<1> QED
  BY <1>1, <1>2

----------------------------------------------------------------------------
(* Sets in order.                                                          *)

\* The pairs of R order the set strictly.
Orders(R, S) ==
  /\ \A x \in S : <<x, x>> \notin R
  /\ \A x, y, z \in S : <<x, y>> \in R /\ <<y, z>> \in R => <<x, z>> \in R
  /\ \A x, y \in S : x # y => <<x, y>> \in R \/ <<y, x>> \in R

\* r is the set in order: its k-th element is the one with k - 1 before it.
RanksBy(r, R, S) ==
  /\ r = [k \in 1..Cardinality(S) |-> r[k]]
  /\ \A k \in 1..Cardinality(S) :
       LET AtPlace(x) == x \in S /\ Cardinality({y \in S : <<y, x>> \in R}) = k - 1
       IN (\E x \in S : AtPlace(x)) => AtPlace(r[k])

\* It enumerates the set, from the first to the last.
LEMMA RankedEnumerates ==
  ASSUME NEW S, IsFiniteSet(S), NEW R, Orders(R, S), NEW r, RanksBy(r, R, S)
  PROVE  /\ Cardinality(S) \in Nat
         /\ r \in [1..Cardinality(S) -> S]
         /\ \A i, j \in 1..Cardinality(S) : i < j => <<r[i], r[j]>> \in R
         /\ \A x \in S : \E k \in 1..Cardinality(S) : r[k] = x
<1> DEFINE n == Cardinality(S)
           Before(x) == {y \in S : <<y, x>> \in R}
           rank == [x \in S |-> Cardinality(Before(x))]
<1>1. n \in Nat
  BY FS_CardinalityType
<1>2. \A x \in S : IsFiniteSet(Before(x)) /\ rank[x] \in Nat
  BY FS_Subset, FS_CardinalityType
<1>3. \A x, y \in S : <<x, y>> \in R => rank[x] < rank[y]
  <2>1. SUFFICES ASSUME NEW x \in S, NEW y \in S, <<x, y>> \in R PROVE rank[x] < rank[y]
    OBVIOUS
  <2>2. Before(x) \cup {x} \subseteq Before(y) /\ x \notin Before(x)
    BY <2>1 DEF Orders
  <2>3. Cardinality(Before(x) \cup {x}) = Cardinality(Before(x)) + 1
    BY <1>2, <2>2, FS_AddElement
  <2>4. Cardinality(Before(x) \cup {x}) <= Cardinality(Before(y))
    BY <1>2, <2>2, FS_Subset
  <2>5. rank[x] = Cardinality(Before(x)) /\ rank[y] = Cardinality(Before(y))
    OBVIOUS
  <2> HIDE DEF Before
  <2>6. QED
    BY <1>2, <2>3, <2>4, <2>5
<1>4. \A x \in S : rank[x] \in 0..(n - 1)
  <2>1. SUFFICES ASSUME NEW x \in S PROVE rank[x] \in 0..(n - 1)
    OBVIOUS
  <2>2. Before(x) \subseteq S \ {x}
    BY DEF Orders
  <2>3. IsFiniteSet(S \ {x}) /\ Cardinality(S \ {x}) = n - 1
    BY FS_RemoveElement
  <2>4. Cardinality(Before(x)) <= n - 1
    <3>1. Before(x) \in SUBSET (S \ {x})
      BY <2>2
    <3> HIDE DEF Before
    <3>2. QED
      BY <2>3, <3>1, FS_Subset
  <2>5. QED
    BY <1>1, <1>2, <2>4
<1>5. \A x, y \in S : rank[x] = rank[y] => x = y
  <2>1. SUFFICES ASSUME NEW x \in S, NEW y \in S, rank[x] = rank[y], x # y PROVE FALSE
    OBVIOUS
  <2>2. rank[x] < rank[y] \/ rank[y] < rank[x]
    BY <1>3, <2>1 DEF Orders
  <2>3. QED
    BY <1>2, <2>1, <2>2
<1>6. \A k \in 0..(n - 1) : \E x \in S : rank[x] = k
  <2>1. rank \in Injection(S, 0..(n - 1))
    <3>1. rank \in [S -> 0..(n - 1)]
      BY <1>4
    <3> HIDE DEF rank
    <3>2. QED
      BY <1>5, <3>1 DEF Injection, IsInjective
  <2>2. IsFiniteSet(0..(n - 1)) /\ Cardinality(0..(n - 1)) = n
    BY <1>1, FS_Interval
  <2> HIDE DEF rank
  <2>3. rank \in Surjection(S, 0..(n - 1))
    BY <2>1, <2>2, FS_Injection
  <2>4. QED
    BY <2>3 DEF Surjection
<1>7. \A k \in 1..n : r[k] \in S /\ rank[r[k]] = k - 1
  <2>1. SUFFICES ASSUME NEW k \in 1..n
        PROVE  r[k] \in S /\ rank[r[k]] = k - 1
    OBVIOUS
  <2>3. \E x \in S : rank[x] = k - 1
    <3>1. k - 1 \in 0..(n - 1)
      BY <1>1
    <3>2. QED
      BY <1>6, <3>1, Zenon
  <2>4. \E x \in S : Cardinality(Before(x)) = k - 1
    BY <2>3
  <2>5. QED
    BY <2>4 DEF RanksBy
<1>8. r = [k \in 1..n |-> r[k]]
  BY DEF RanksBy
<1> HIDE DEF rank
<1>9. \A i, j \in 1..n : i < j => <<r[i], r[j]>> \in R
  <2>1. SUFFICES ASSUME NEW i \in 1..n, NEW j \in 1..n, i < j
        PROVE  <<r[i], r[j]>> \in R
    OBVIOUS
  <2> DEFINE x == r[i]
             y == r[j]
  <2>2. x \in S /\ y \in S /\ rank[x] = i - 1 /\ rank[y] = j - 1
    BY <1>7
  <2> HIDE DEF x, y
  <2>3. x # y /\ ~(rank[y] < rank[x])
    BY <2>1, <2>2
  <2>4. <<x, y>> \in R
    BY <1>3, <2>2, <2>3 DEF Orders
  <2>5. QED
    BY <2>4 DEF x, y
<1>10. \A x \in S : \E k \in 1..n : r[k] = x
  <2>1. SUFFICES ASSUME NEW x \in S PROVE \E k \in 1..n : r[k] = x
    OBVIOUS
  <2>2. rank[x] + 1 \in 1..n
    BY <1>1, <1>4
  <2>3. QED
    BY <1>1, <1>4, <1>5, <1>7, <2>2
<1>11. QED
  BY <1>1, <1>7, <1>8, <1>9, <1>10
===============================================================================
