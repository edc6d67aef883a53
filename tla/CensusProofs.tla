---------------------------- MODULE CensusProofs ----------------------------
(***************************************************************************)
(* The counters of subscribers, for any number of workers, channels,       *)
(* subscribers, deaths and shutdowns: a channel never counts fewer than    *)
(* it has, a worker counts what it has, and when the censuses are over     *)
(* nobody is counted who is not there.                                     *)
(*                                                                         *)
(* For the last, follow a count that is too high because of a dead worker. *)
(* The worker that takes its place asks at least as many as the answers it *)
(* sets out to wait for, and whatever answer comes in, an older one too,   *)
(* takes one from both. So the questions cannot run out before the answers *)
(* that are awaited do, and then the counts are taken anew.                *)
(***************************************************************************)
EXTENDS Census, FiniteSetTheorems, WellFoundedInduction, TLAPS

----------------------------------------------------------------------------
(* What MapThenSumSet computes, for natural numbers. The recursive function *)
(* that defines it exists: a function on the smaller sets is extended to   *)
(* the next size, and "by induction" means here that the set of the sizes  *)
(* where a claim fails has no least element.                               *)

(* A set of natural numbers has a least element.                           *)
LEMMA Smallest ==
  ASSUME NEW T \in SUBSET Nat, T # {}
  PROVE  \E x \in T : \A y \in T : x <= y
<1>1. PICK x \in T : \A y \in T : <<y, x>> \notin OpToRel(<, Nat)
  BY NatLessThanWellFounded, WFMin
<1>2. ASSUME NEW y \in T PROVE x <= y
  <2>1. ~(y < x)
    BY <1>1 DEF OpToRel
  <2> QED
    BY <2>1
<1> QED
  BY <1>2

SumOver(f, S) == MapThenSumSet(LAMBDA c : f[c], S)

First(s)  == CHOOSE x \in s : TRUE
RestOf(s) == s \ {First(s)}
SumStep(f, s, g) == IF s = {} THEN 0 ELSE f[First(s)] + g[RestOf(s)]

IsSum(f, S, sum) ==
  /\ sum \in [SUBSET S -> Nat]
  /\ SumOver(f, S) = sum[S]
  /\ sum[{}] = 0
  /\ \A s \in SUBSET S : s # {} => sum[s] = f[First(s)] + sum[RestOf(s)]

(* The function that defines a sum exists: its values are natural numbers, *)
(* each the sum of an element and of the value for the others.             *)
LEMMA SumRecursion ==
  ASSUME NEW S, IsFiniteSet(S), NEW f, \A c \in S : f[c] \in Nat
  PROVE  \E sum : IsSum(f, S, sum)
<1> USE DEF RestOf, SumStep
<1> DEFINE Upto(k) == {s \in SUBSET S : Cardinality(s) <= k}
           Summed(g, D) == g = [s \in D |-> SumStep(f, s, g)]
           Good(k) == \E g \in [Upto(k) -> Nat] : Summed(g, Upto(k))
           sum == CHOOSE iter : iter = [s \in SUBSET S |-> SumStep(f, s, iter)]
<1>1. SumOver(f, S) = sum[S]
  BY DEF SumOver, MapThenSumSet, MapThenFoldSet, First
<1>2. ASSUME NEW s \in SUBSET S
      PROVE  /\ IsFiniteSet(s)
             /\ Cardinality(s) \in Nat /\ Cardinality(s) <= Cardinality(S)
             /\ s # {} => /\ First(s) \in S
                          /\ RestOf(s) \in SUBSET S
                          /\ Cardinality(RestOf(s)) = Cardinality(s) - 1
  <2>1. IsFiniteSet(s) /\ Cardinality(s) <= Cardinality(S)
    BY FS_Subset
  <2>2. Cardinality(s) \in Nat /\ Cardinality(S) \in Nat
    BY <2>1, FS_CardinalityType
  <2>3. s # {} => First(s) \in s
    BY DEF First
  <2>4. s # {} => Cardinality(RestOf(s)) = Cardinality(s) - 1
    BY <2>1, <2>3, FS_RemoveElement
  <2> QED
    BY <2>1, <2>2, <2>3, <2>4
<1> HIDE DEF Good
<1>3. Good(0)
  <2>1. ASSUME NEW s \in Upto(0) PROVE s = {}
    <3>1. IsFiniteSet(s) /\ Cardinality(s) \in Nat /\ Cardinality(s) <= 0
      BY <1>2
    <3> QED
      BY <3>1, FS_EmptySet
  <2>2. Summed([s \in Upto(0) |-> 0], Upto(0))
    BY <2>1
  <2> QED
    BY <2>2 DEF Good
<1>4. ASSUME NEW k \in Nat, Good(k) PROVE Good(k + 1)
  <2>1. PICK g \in [Upto(k) -> Nat] : Summed(g, Upto(k))
    BY <1>4 DEF Good
  <2> DEFINE h == [s \in Upto(k + 1) |-> SumStep(f, s, g)]
  <2>2. ASSUME NEW s \in Upto(k + 1), s # {} PROVE RestOf(s) \in Upto(k) /\ RestOf(s) \in Upto(k + 1)
    <3>1. RestOf(s) \in SUBSET S /\ Cardinality(RestOf(s)) = Cardinality(s) - 1
      BY <1>2, <2>2
    <3>2. Cardinality(s) \in Nat /\ Cardinality(s) <= k + 1
      BY <1>2
    <3>3. Cardinality(RestOf(s)) <= k /\ Cardinality(RestOf(s)) <= k + 1
      <4> HIDE DEF RestOf
      <4> QED
        BY <3>1, <3>2
    <3> HIDE DEF RestOf
    <3> QED
      BY <3>1, <3>3
  <2>3. ASSUME NEW s \in Upto(k + 1) PROVE h[s] \in Nat
    <3>1. s # {} => f[First(s)] \in Nat /\ g[RestOf(s)] \in Nat
      <4>1. s # {} => First(s) \in S
        BY <1>2
      <4>2. s # {} => RestOf(s) \in Upto(k)
        BY <2>2
      <4> HIDE DEF RestOf, Upto
      <4> QED
        BY <4>1, <4>2
    <3>2. h[s] = SumStep(f, s, g)
      OBVIOUS
    <3> HIDE DEF RestOf, h
    <3> QED
      BY <3>1, <3>2
  <2>4. ASSUME NEW s \in Upto(k + 1) PROVE SumStep(f, s, g) = SumStep(f, s, h)
    <3>1. s # {} => RestOf(s) \in Upto(k) /\ RestOf(s) \in Upto(k + 1)
      BY <2>2
    <3>2. s # {} => g[RestOf(s)] = SumStep(f, RestOf(s), g)
      <4> HIDE DEF RestOf, Upto
      <4> QED
        BY <2>1, <3>1
    <3>3. s # {} => h[RestOf(s)] = SumStep(f, RestOf(s), g)
      <4> HIDE DEF RestOf, Upto
      <4> QED
        BY <3>1
    <3> HIDE DEF RestOf, Upto, h
    <3> QED
      BY <3>2, <3>3
  <2>5. Summed(h, Upto(k + 1))
    <3> HIDE DEF SumStep
    <3> QED BY <2>4
  <2>6. h \in [Upto(k + 1) -> Nat]
    <3> HIDE DEF Upto
    <3> QED BY <2>3
  <2> HIDE DEF Upto, h, SumStep
  <2> QED
    BY <2>5, <2>6 DEF Good
<1>5. ASSUME NEW n \in Nat PROVE Good(n)
  <2> DEFINE T == {k \in Nat : ~Good(k)}
  <2> SUFFICES ASSUME T # {} PROVE FALSE
    OBVIOUS
  <2>1. PICK k \in T : \A y \in T : k <= y
    <3> HIDE DEF T
    <3>1. T \in SUBSET Nat
      BY DEF T
    <3> QED
      BY <3>1, Smallest
  <2>2. k # 0 /\ k \in Nat
    BY <1>3
  <2>3. k - 1 \in Nat /\ k - 1 \notin T
    BY <2>1, <2>2
  <2>4. Good((k - 1) + 1)
    BY <1>4, <2>3
  <2>5. (k - 1) + 1 = k
    BY <2>2
  <2> QED
    BY <2>4, <2>5
<1>6. Upto(Cardinality(S)) = SUBSET S
  BY <1>2
<1>7. \E iter : Summed(iter, SUBSET S)
  <2>1. Good(Cardinality(S))
    BY <1>5, FS_CardinalityType
  <2> HIDE DEF Upto, Summed
  <2> QED
    BY <1>6, <2>1 DEF Good
<1>8. Summed(sum, SUBSET S)
  <2> HIDE DEF SumStep
  <2> QED
  BY <1>7
<1>9. \A s \in SUBSET S : sum[s] \in Nat
  <2> DEFINE T == {k \in Nat : \E s \in SUBSET S : Cardinality(s) = k /\ sum[s] \notin Nat}
  <2> HIDE DEF sum
  <2> SUFFICES ASSUME T # {} PROVE FALSE
    <3>1. \A s \in SUBSET S : Cardinality(s) \in Nat
      BY <1>2
    <3> QED
      BY <3>1
  <2>1. PICK k \in T : \A y \in T : k <= y
    <3> HIDE DEF T
    <3>1. T \in SUBSET Nat
      BY DEF T
    <3> QED
      BY <3>1, Smallest
  <2>2. PICK s \in SUBSET S : Cardinality(s) = k /\ sum[s] \notin Nat
    OBVIOUS
  <2>3. sum[s] = SumStep(f, s, sum)
    <3> HIDE DEF SumStep
    <3> QED
      BY <1>8
  <2>4. s # {}
    BY <2>2, <2>3
  <2>5. /\ First(s) \in S /\ RestOf(s) \in SUBSET S
        /\ Cardinality(RestOf(s)) = k - 1
    BY <1>2, <2>2, <2>4
  <2>6. k - 1 \in Nat
    <3>1. Cardinality(RestOf(s)) \in Nat
      BY <1>2, <2>5
    <3> QED
      BY <2>5, <3>1
  <2>7. sum[RestOf(s)] \in Nat
    <3> HIDE DEF RestOf
    <3> QED
      BY <2>1, <2>5, <2>6
  <2> HIDE DEF RestOf
  <2> QED
    BY <2>2, <2>3, <2>4, <2>5, <2>7
<1>10. sum \in [SUBSET S -> Nat]
  <2> HIDE DEF SumStep, sum
  <2>1. sum = [s \in SUBSET S |-> SumStep(f, s, sum)]
    BY <1>8
  <2> QED
    BY <1>9, <2>1
<1>11. \A s \in SUBSET S : sum[s] = SumStep(f, s, sum)
  <2> HIDE DEF SumStep, sum
  <2> QED
    BY <1>8
<1>12. sum[{}] = 0 /\ \A s \in SUBSET S : s # {} => sum[s] = f[First(s)] + sum[RestOf(s)]
  <2> HIDE DEF RestOf, sum
  <2> QED
    BY <1>11
<1> HIDE DEF sum, SumStep, RestOf
<1>13. IsSum(f, S, sum)
  BY <1>1, <1>10, <1>12 DEF IsSum
<1> QED
  BY <1>13

(* The sum of natural numbers over a finite set is one, too.               *)
LEMMA SumType ==
  ASSUME NEW S, IsFiniteSet(S), NEW f, \A c \in S : f[c] \in Nat
  PROVE  SumOver(f, S) \in Nat
<1>1. PICK sum : IsSum(f, S, sum)
  BY SumRecursion
<1> QED
  BY <1>1 DEF IsSum

(* Nothing adds up to 0.                                                   *)
LEMMA SumEmpty == ASSUME NEW f PROVE SumOver(f, {}) = 0
<1>1. IsFiniteSet({})
  BY FS_EmptySet
<1>2. PICK sum : IsSum(f, {}, sum)
  BY <1>1, SumRecursion
<1> QED
  BY <1>2 DEF IsSum

(* The order does not matter: any element can be taken out first.          *)
LEMMA SumRemove ==
  ASSUME NEW S, IsFiniteSet(S), NEW f, \A c \in S : f[c] \in Nat, NEW d \in S
  PROVE  SumOver(f, S) = f[d] + SumOver(f, S \ {d})
<1>0. PICK sum : IsSum(f, S, sum)
  BY SumRecursion
<1>1. /\ sum \in [SUBSET S -> Nat] /\ SumOver(f, S) = sum[S] /\ sum[{}] = 0
      /\ \A s \in SUBSET S : s # {} => sum[s] = f[First(s)] + sum[RestOf(s)]
  BY <1>0 DEF IsSum
<1>2. ASSUME NEW s \in SUBSET S
      PROVE  IsFiniteSet(s) /\ Cardinality(s) \in Nat
             /\ \A x \in s : Cardinality(s \ {x}) = Cardinality(s) - 1
  BY FS_Subset, FS_CardinalityType, FS_RemoveElement
<1> DEFINE Failing(s) == \E x \in s : sum[s] # f[x] + sum[s \ {x}]
           Sizes == {k \in Nat : \E s \in SUBSET S : Cardinality(s) = k /\ Failing(s)}
<1>3. \A s \in SUBSET S : ~Failing(s)
  <2> SUFFICES ASSUME Sizes # {} PROVE FALSE
    <3> HIDE DEF Failing
    <3> QED
      BY <1>2
  <2>1. PICK k \in Sizes : \A y \in Sizes : k <= y
    <3> HIDE DEF Sizes
    <3>1. Sizes \in SUBSET Nat
      BY DEF Sizes
    <3> QED
      BY <3>1, Smallest
  <2>2. PICK s \in SUBSET S : Cardinality(s) = k /\ Failing(s)
    OBVIOUS
  <2>3. PICK x \in s : sum[s] # f[x] + sum[s \ {x}]
    BY <2>2
  <2> DEFINE y == First(s)
  <2>4. y \in s /\ sum[s] = f[y] + sum[s \ {y}]
    BY <1>1, <2>3 DEF First, RestOf
  <2> HIDE DEF y
  <2>5. x # y
    BY <2>3, <2>4
  <2>6. k \in Nat /\ Cardinality(s \ {x}) = k - 1 /\ Cardinality(s \ {y}) = k - 1 /\ k - 1 \in Nat
    <3>1. Cardinality(s \ {x}) \in Nat
      BY <1>2
    <3> QED
      BY <1>2, <2>2, <2>3, <2>4, <3>1
  <2>7. ~Failing(s \ {y})
    <3> HIDE DEF Failing
    <3> QED
      BY <2>1, <2>6
  <2>8. sum[s \ {y}] = f[x] + sum[(s \ {y}) \ {x}]
    BY <2>3, <2>5, <2>7
  <2>9. ~Failing(s \ {x})
    <3> HIDE DEF Failing
    <3> QED
      BY <2>1, <2>6
  <2>10. sum[s \ {x}] = f[y] + sum[(s \ {x}) \ {y}]
    BY <2>4, <2>5, <2>9
  <2>11. sum[(s \ {x}) \ {y}] = sum[(s \ {y}) \ {x}]
    <3>1. (s \ {x}) \ {y} = (s \ {y}) \ {x}
      OBVIOUS
    <3> QED
      BY <3>1, Zenon
  <2>12. f[x] \in Nat /\ f[y] \in Nat /\ sum[(s \ {x}) \ {y}] \in Nat
    BY <1>1, <2>3, <2>4
  <2> HIDE DEF Failing
  <2> QED
    BY <2>3, <2>4, <2>8, <2>10, <2>11, <2>12
<1>4. sum[S] = f[d] + sum[S \ {d}]
  BY <1>3
<1>5. sum[S \ {d}] = SumOver(f, S \ {d})
  <2> DEFINE T == S \ {d}
  <2>1. IsFiniteSet(T)
    BY <1>2
  <2>0. PICK sub : IsSum(f, T, sub)
    <3>1. \A c \in T : f[c] \in Nat
      OBVIOUS
    <3> HIDE DEF T
    <3> QED
      BY <2>1, <3>1, SumRecursion
  <2>2. /\ sub \in [SUBSET T -> Nat] /\ SumOver(f, T) = sub[T] /\ sub[{}] = 0
        /\ \A s \in SUBSET T : s # {} => sub[s] = f[First(s)] + sub[RestOf(s)]
    BY <2>0 DEF IsSum
  <2> DEFINE Apart == {k \in Nat : \E s \in SUBSET T : Cardinality(s) = k /\ sum[s] # sub[s]}
  <2>3. Apart = {}
    <3> SUFFICES ASSUME Apart # {} PROVE FALSE
      OBVIOUS
    <3>1. PICK k \in Apart : \A y \in Apart : k <= y
      <4> HIDE DEF Apart
      <4>1. Apart \in SUBSET Nat
        BY DEF Apart
      <4> QED
        BY <4>1, Smallest
    <3>2. PICK s \in SUBSET T : Cardinality(s) = k /\ sum[s] # sub[s]
      OBVIOUS
    <3>3. s \in SUBSET S
      OBVIOUS
    <3>4. s # {}
      BY <1>1, <2>2, <3>2
    <3> DEFINE y == First(s)
    <3>5. y \in s /\ sum[s] = f[y] + sum[s \ {y}] /\ sub[s] = f[y] + sub[s \ {y}]
      BY <1>1, <2>2, <3>3, <3>4 DEF First, RestOf
    <3> HIDE DEF y
    <3>6. Cardinality(s \ {y}) = k - 1 /\ k - 1 \in Nat
      <4>1. Cardinality(s \ {y}) \in Nat
        BY <1>2
      <4> QED
        BY <1>2, <3>2, <3>5, <4>1
    <3>7. sum[s \ {y}] = sub[s \ {y}]
      <4>1. k - 1 \notin Apart
        <5> HIDE DEF Apart
        <5>1. k \in Nat
          BY DEF Apart
        <5> QED
          BY <3>1, <3>6, <5>1
      <4> QED
        BY <3>6, <4>1
    <3> QED
      BY <3>2, <3>5, <3>7
  <2>4. Cardinality(T) \in Nat
    BY <1>2
  <2> QED
    BY <2>2, <2>3, <2>4
<1> QED
  BY <1>1, <1>4, <1>5

(* Less of each, of fewer, is less in total.                               *)
LEMMA SumMonotone ==
  ASSUME NEW S, IsFiniteSet(S), NEW T \in SUBSET S,
         NEW f, \A c \in T : f[c] \in Nat, NEW g, \A c \in S : g[c] \in Nat,
         \A c \in T : f[c] <= g[c]
  PROVE  SumOver(f, T) <= SumOver(g, S)
<1> DEFINE More(s, t) == s \subseteq t /\ ~(SumOver(f, s) <= SumOver(g, t))
           Sizes == {k \in Nat : \E s \in SUBSET T : \E t \in SUBSET S :
                                   Cardinality(s) = k /\ More(s, t)}
<1>1. ASSUME NEW s \in SUBSET S
      PROVE  IsFiniteSet(s) /\ Cardinality(s) \in Nat
             /\ \A x \in s : Cardinality(s \ {x}) = Cardinality(s) - 1
  BY FS_Subset, FS_CardinalityType, FS_RemoveElement
<1>2. Sizes = {}
  <2> SUFFICES ASSUME Sizes # {} PROVE FALSE
    OBVIOUS
  <2>1. PICK k \in Sizes : \A y \in Sizes : k <= y
    <3> HIDE DEF Sizes
    <3>1. Sizes \in SUBSET Nat
      BY DEF Sizes
    <3> QED
      BY <3>1, Smallest
  <2>2. PICK s \in SUBSET T, t \in SUBSET S : Cardinality(s) = k /\ More(s, t)
    <3> HIDE DEF More
    <3> QED
      OBVIOUS
  <2>3. IsFiniteSet(t) /\ IsFiniteSet(s)
    BY <1>1
  <2>4. SumOver(g, t) \in Nat
    BY <2>3, SumType
  <2>5. s # {}
    BY <2>2, <2>4, SumEmpty
  <2>6. PICK x \in s : TRUE
    BY <2>5
  <2>7. SumOver(f, s) = f[x] + SumOver(f, s \ {x})
    BY <2>3, SumRemove
  <2>8. SumOver(g, t) = g[x] + SumOver(g, t \ {x})
    BY <2>2, <2>3, <2>6, SumRemove
  <2>9. IsFiniteSet(s \ {x}) /\ IsFiniteSet(t \ {x})
    BY <1>1
  <2>10. SumOver(f, s \ {x}) \in Nat /\ SumOver(g, t \ {x}) \in Nat
    BY <2>9, SumType
  <2>11. f[x] \in Nat /\ g[x] \in Nat /\ f[x] <= g[x]
    BY <2>2, <2>6
  <2>12. More(s \ {x}, t \ {x})
    BY <2>2, <2>7, <2>8, <2>10, <2>11
  <2>13. Cardinality(s \ {x}) = k - 1 /\ k - 1 \in Nat /\ k \in Nat
    <3>1. Cardinality(s \ {x}) \in Nat
      BY <1>1
    <3> HIDE DEF More
    <3> QED
      BY <1>1, <2>2, <2>6, <3>1
  <2>14. k - 1 \in Sizes
    <3> HIDE DEF More
    <3> QED
      BY <2>12, <2>13
  <2> HIDE DEF Sizes
  <2> QED
    BY <2>1, <2>13, <2>14
<1>3. Cardinality(T) \in Nat
  BY <1>1
<1> QED
  BY <1>2, <1>3

(* A sum changes as much as one of its elements does.                      *)
LEMMA SumChange ==
  ASSUME NEW S, IsFiniteSet(S), NEW d \in S,
         NEW f, \A c \in S : f[c] \in Nat, NEW g, \A c \in S : g[c] \in Nat,
         \A c \in S \ {d} : f[c] = g[c]
  PROVE  SumOver(g, S) + f[d] = SumOver(f, S) + g[d]
<1>1. SumOver(f, S) = f[d] + SumOver(f, S \ {d}) /\ SumOver(g, S) = g[d] + SumOver(g, S \ {d})
  BY SumRemove
<1>2. IsFiniteSet(S \ {d})
  BY FS_Subset
<1>3. /\ SumOver(f, S \ {d}) <= SumOver(g, S \ {d})
      /\ SumOver(g, S \ {d}) <= SumOver(f, S \ {d})
  <2>1. \A c \in S \ {d} : f[c] <= g[c] /\ g[c] <= f[c]
    OBVIOUS
  <2> QED
    BY <1>2, <2>1, SumMonotone
<1>4. SumOver(f, S \ {d}) \in Nat /\ SumOver(g, S \ {d}) \in Nat
  BY <1>2, SumType
<1> QED
  BY <1>1, <1>3, <1>4

(* An element is not more than the total.                                  *)
LEMMA SumHasAll ==
  ASSUME NEW S, IsFiniteSet(S), NEW f, \A c \in S : f[c] \in Nat, NEW d \in S
  PROVE  f[d] <= SumOver(f, S)
<1>1. SumOver(f, S) = f[d] + SumOver(f, S \ {d})
  BY SumRemove
<1>2. SumOver(f, S \ {d}) \in Nat
  BY FS_Subset, SumType
<1> QED
  BY <1>1, <1>2

(* Zeros add up to zero, and as many ones as elements to their number.     *)
LEMMA SumConstant ==
  ASSUME NEW S, IsFiniteSet(S), NEW f, NEW b \in {0, 1}, \A c \in S : f[c] = b
  PROVE  SumOver(f, S) = IF b = 0 THEN 0 ELSE Cardinality(S)
<1> DEFINE Value(s) == IF b = 0 THEN 0 ELSE Cardinality(s)
           Sizes == {k \in Nat : \E s \in SUBSET S : Cardinality(s) = k /\ SumOver(f, s) # Value(s)}
<1>1. ASSUME NEW s \in SUBSET S
      PROVE  IsFiniteSet(s) /\ Cardinality(s) \in Nat
             /\ \A x \in s : Cardinality(s \ {x}) = Cardinality(s) - 1
  BY FS_Subset, FS_CardinalityType, FS_RemoveElement
<1>2. Sizes = {}
  <2> SUFFICES ASSUME Sizes # {} PROVE FALSE
    OBVIOUS
  <2>1. PICK k \in Sizes : \A y \in Sizes : k <= y
    <3> HIDE DEF Sizes
    <3>1. Sizes \in SUBSET Nat
      BY DEF Sizes
    <3> QED
      BY <3>1, Smallest
  <2>2. PICK s \in SUBSET S : Cardinality(s) = k /\ SumOver(f, s) # Value(s)
    OBVIOUS
  <2>3. s # {}
    BY <2>2, SumEmpty, FS_EmptySet
  <2>4. PICK x \in s : TRUE
    BY <2>3
  <2>5. SumOver(f, s) = b + SumOver(f, s \ {x})
    BY <1>1, <2>4, SumRemove
  <2>6. Cardinality(s \ {x}) = k - 1 /\ k - 1 \in Nat /\ k \in Nat
    <3>1. Cardinality(s \ {x}) \in Nat
      BY <1>1
    <3> QED
      BY <1>1, <2>2, <2>4, <3>1
  <2>7. SumOver(f, s \ {x}) = Value(s \ {x})
    <3>1. k - 1 \notin Sizes
      <4> HIDE DEF Sizes
      <4> QED
        BY <2>1, <2>6
    <3> HIDE DEF Value
    <3> QED
      BY <2>6, <3>1
  <2> QED
    BY <2>2, <2>5, <2>6, <2>7
<1>3. Cardinality(S) \in Nat
  BY <1>1
<1> QED
  BY <1>2, <1>3

----------------------------------------------------------------------------
(* The inductive invariant.                                                *)

(* Where a worker holds the mutex of the global zone.                      *)
MutexInv ==
  \A w \in Workers :
    pc[w] \in {"enrol", "count", "answer", "total", "channels"} <=> global_mutex = w

(* The subscriptions of a worker, by channel.                              *)
SubscriptionsOf(w) == [c \in Channels |-> subscribed[c][w]]

(* One subscriber may be without a subscription, when it comes or goes.    *)
Without(w) == IF pc[w] \in {"register", "assign", "leave", "evict"} THEN 1 ELSE 0

JoinedInv ==
  \A w \in Workers : joined[w] = SumOver(SubscriptionsOf(w), Channels) + Without(w)

(* What a worker counts of its own subscribers at each point.              *)
OwnInv ==
  \A w \in Workers :
    /\ pc[w] \in {"start", "enrol", "alert", "exit", "gone", "dead"} => joined[w] = 0
    /\ pc[w] \in {"enrol", "count"} =>
         worker_count[w] = 0 /\ \A c \in Channels : sentinel[c][w] = 0
    /\ pc[w] \notin {"start", "count", "dead"} =>
         /\ \A c \in Channels : sentinel[c][w] = subscribed[c][w]
         /\ worker_count[w] = joined[w] - (IF pc[w] = "register" THEN 1 ELSE 0)
    /\ pc[w] \in {"register", "assign"} => wanted[w] \in Channels
    /\ pc[w] = "alert" => todo[w] \subseteq Workers
    /\ pc[w] = "channels" => todo[w] \subseteq Channels

(* Who is in the registries.                                               *)
RegistryInv ==
  /\ pid \subseteq global_pid
  /\ \A w \in Workers :
       /\ pc[w] = "enrol" => w \in global_pid
       /\ pc[w] \in {"exit", "gone"} => w \notin pid

(* A worker is missing, or has not begun its census yet.                   *)
Disturbed == \E w \in Workers : pc[w] \in {"start", "enrol", "exit", "gone", "dead"}

(* The answers that are still to come from a worker.                       *)
Owed(w) ==
  commands[w] + (IF pc[w] \in {"count", "answer"} THEN 1 ELSE 0)
  + (IF w \in global_pid /\ \E v \in Workers : pc[v] = "alert" /\ w \in todo[v] THEN 1 ELSE 0)

OwedByAll == [w \in Workers |-> Owed(w)]

(* More answers are to come than are awaited.                              *)
CensusUnderWay == slots_for_census >= 1 /\ SumOver(OwedByAll, Workers) >= slots_for_census

Pending == Disturbed \/ CensusUnderWay \/ \E w \in Workers : pc[w] = "total"

(* A count that is too high will be taken anew.                            *)
CensusInv ==
  /\ total > SumOver(joined, Workers) => Pending
  /\ \A c \in Channels :
       subscribers[c] > SumOver(subscribed[c], Workers) =>
         Pending \/ \E w \in Workers : pc[w] = "channels" /\ c \in todo[w]

IInv == TypeOK /\ MutexInv /\ JoinedInv /\ OwnInv /\ RegistryInv /\ NeverUndercounted

----------------------------------------------------------------------------
(* Sums and types                                                          *)

(* The sums of the module are those of the lemmas.                         *)
LEMMA Sums ==
  /\ \A f : InWorkers(f) = SumOver(f, Workers)
  /\ OfRegistered = SumOver(worker_count, pid)
BY DEF InWorkers, OfRegistered, SumOver, MapThenSumSet, MapThenFoldSet

(* NGX_HTTP_PUSH_STREAM_DECREMENT_COUNTER does not go below zero.          *)
LEMMA DecrementType ==
  ASSUME NEW n \in Nat
  PROVE  Decrement(n) \in Nat /\ (n >= 1 => Decrement(n) = n - 1) /\ Decrement(n) <= n
BY DEF Decrement

(* A subscriber that has or changes a subscription is among the worker's.  *)
LEMMA Joined ==
  ASSUME TypeOK, JoinedInv, NEW w \in Workers
  PROVE  /\ SumOver(SubscriptionsOf(w), Channels) \in Nat
         /\ pc[w] \in {"register", "assign", "leave", "evict"} => joined[w] >= 1
         /\ \A c \in Channels : subscribed[c][w] <= joined[w]
<1>1. \A c \in Channels : SubscriptionsOf(w)[c] = subscribed[c][w] /\ subscribed[c][w] \in Nat
  BY DEF TypeOK, SubscriptionsOf
<1>2. /\ SumOver(SubscriptionsOf(w), Channels) \in Nat
      /\ \A c \in Channels : subscribed[c][w] <= SumOver(SubscriptionsOf(w), Channels)
  BY <1>1, ConstantsAssumption, SumType, SumHasAll
<1> QED
  BY <1>1, <1>2 DEF JoinedInv, Without, TypeOK

(* Every step keeps the types.                                             *)
LEMMA TypePreserved == TypeOK /\ JoinedInv /\ OwnInv /\ [Next]_vars => TypeOK'
<1> SUFFICES ASSUME TypeOK, JoinedInv, OwnInv, [Next]_vars PROVE TypeOK'
  OBVIOUS
<1> USE DEF TypeOK, Goto, Lock, Free, Unlock, Labels
<1>1. ASSUME NEW w \in Workers, CleanWorkerData(w) PROVE TypeOK'
  <2>1. (global_pid \subseteq Workers)'
    BY <1>1 DEF CleanWorkerData
  <2>2. (pid \subseteq Workers)'
    BY <1>1 DEF CleanWorkerData
  <2>3. (worker_count \in [Workers -> Nat])'
    BY <1>1 DEF CleanWorkerData
  <2>4. (sentinel \in [Channels -> [Workers -> Nat]])'
    BY <1>1 DEF CleanWorkerData
  <2>5. (pc \in [Workers -> Labels])'
    BY <1>1 DEF CleanWorkerData
  <2>6. (global_mutex \in Workers \cup {None})'
    BY <1>1 DEF CleanWorkerData
  <2> QED
    BY <1>1, <2>1, <2>2, <2>3, <2>4, <2>5, <2>6 DEF CleanWorkerData, counters, own, census,
       registry, faults, locals
<1>2. ASSUME NEW w \in Workers, Enrol(w) PROVE TypeOK'
  <2>1. (pid \subseteq Workers)'
    BY <1>2 DEF Enrol
  <2>2. (slots_for_census \in 0..(Modulus - 1))'
    <3>1. /\ Cardinality(pid') \in Nat /\ Cardinality(Workers) \in Nat
          /\ Cardinality(pid') <= Cardinality(Workers)
      BY <2>1, FS_CardinalityType, FS_Subset, ConstantsAssumption
    <3> QED
      <4>1. slots_for_census' = Cardinality(pid')
        BY <1>2, Zenon DEF Enrol
      <4>2. Cardinality(Workers) < 64
        BY ConstantsAssumption DEF Modulus
      <4> HIDE DEF TypeOK
      <4>3. slots_for_census' \in 0..63
        BY <3>1, <4>1, <4>2
      <4> QED
        BY <4>3 DEF Modulus
  <2>3. (todo \in [Workers -> SUBSET (Workers \cup Channels)])'
    BY <1>2 DEF Enrol
  <2>4. (pc \in [Workers -> Labels])'
    BY <1>2 DEF Enrol
  <2>5. (global_mutex \in Workers \cup {None})'
    BY <1>2 DEF Enrol
  <2> QED
    BY <1>2, <2>1, <2>2, <2>3, <2>4, <2>5 DEF Enrol, counters, own, census, registry, faults,
       locals
<1>3. ASSUME NEW w \in Workers, Alert(w) PROVE TypeOK'
  <2>1. (commands \in [Workers -> Nat])'
    <3>1. PICK v \in todo[w] :
            commands' = [commands EXCEPT ![v] = IF Asks(w, v) THEN @ + 1 ELSE @]
      BY <1>3 DEF Alert
    <3>2. CASE Asks(w, v)
      BY <3>1, <3>2 DEF Asks
    <3>3. CASE ~Asks(w, v)
      BY <3>1, <3>3
    <3> QED
      BY <3>2, <3>3
  <2>2. (todo \in [Workers -> SUBSET (Workers \cup Channels)])'
    BY <1>3 DEF Alert
  <2>3. (pc \in [Workers -> Labels])'
    BY <1>3 DEF Alert
  <2> QED
    BY <1>3, <2>1, <2>2, <2>3 DEF Alert, counters, own, census, registry, faults, locals
<1>4. ASSUME NEW w \in Workers, CensusWorkerSubscribers(w) PROVE TypeOK'
  <2>1. (commands \in [Workers -> Nat])'
    BY <1>4 DEF CensusWorkerSubscribers
  <2>2. (worker_count \in [Workers -> Nat])'
    BY <1>4 DEF CensusWorkerSubscribers, Zeroed
  <2>3. (sentinel \in [Channels -> [Workers -> Nat]])'
    BY <1>4 DEF CensusWorkerSubscribers
  <2>4. (pc \in [Workers -> Labels])'
    BY <1>4 DEF CensusWorkerSubscribers
  <2>5. (global_mutex \in Workers \cup {None})'
    BY <1>4 DEF CensusWorkerSubscribers, LockForCensus
  <2> QED
    BY <1>4, <2>1, <2>2, <2>3, <2>4, <2>5 DEF CensusWorkerSubscribers, counters, own, census,
       registry, faults, locals
<1>5. ASSUME NEW w \in Workers, Count(w) PROVE TypeOK'
  <2>1. (worker_count \in [Workers -> Nat])'
    BY <1>5 DEF Count
  <2>2. (sentinel \in [Channels -> [Workers -> Nat]])'
    BY <1>5 DEF Count
  <2>3. (pc \in [Workers -> Labels])'
    BY <1>5 DEF Count
  <2> QED
    BY <1>5, <2>1, <2>2, <2>3 DEF Count, counters, own, census, registry, faults, locals
<1>6. ASSUME NEW w \in Workers, Answer(w) PROVE TypeOK'
  <2>1. (slots_for_census \in 0..(Modulus - 1))'
    BY <1>6 DEF Answer, Modulus
  <2>2. (pc \in [Workers -> Labels])'
    BY <1>6 DEF Answer
  <2>3. (global_mutex \in Workers \cup {None})'
    BY <1>6 DEF Answer
  <2> QED
    BY <1>6, <2>1, <2>2, <2>3 DEF Answer, counters, own, census, registry, faults, locals
<1>7. ASSUME NEW w \in Workers, RecountTotal(w) PROVE TypeOK'
  <2>1. (total \in Nat)'
    BY <1>7, Sums, SumType, FS_Subset, ConstantsAssumption DEF RecountTotal
  <2>2. (todo \in [Workers -> SUBSET (Workers \cup Channels)])'
    BY <1>7 DEF RecountTotal
  <2>3. (pc \in [Workers -> Labels])'
    BY <1>7 DEF RecountTotal
  <2> QED
    BY <1>7, <2>1, <2>2, <2>3 DEF RecountTotal, counters, own, census, registry, faults, locals
<1>8. ASSUME NEW w \in Workers, RecountChannel(w) PROVE TypeOK'
  <2>1. (subscribers \in [Channels -> Nat])'
    <3>1. \A c \in Channels : InWorkers(sentinel[c]) \in Nat
      <4>1. ASSUME NEW c \in Channels PROVE SumOver(sentinel[c], Workers) \in Nat
        BY SumType, ConstantsAssumption
      <4> QED
        BY <4>1, Sums
    <3>2. PICK c \in todo[w] : subscribers' = [subscribers EXCEPT ![c] = InWorkers(sentinel[c])]
      BY <1>8 DEF RecountChannel
    <3> QED
      BY <3>1, <3>2
  <2>2. (todo \in [Workers -> SUBSET (Workers \cup Channels)])'
    BY <1>8 DEF RecountChannel
  <2>3. (pc \in [Workers -> Labels])'
    BY <1>8 DEF RecountChannel
  <2>4. (global_mutex \in Workers \cup {None})'
    BY <1>8 DEF RecountChannel
  <2> QED
    BY <1>8, <2>1, <2>2, <2>3, <2>4 DEF RecountChannel, counters, own, census, registry, faults,
       locals
<1>9. ASSUME NEW w \in Workers, CountInWorker(w) PROVE TypeOK'
  <2>1. (worker_count \in [Workers -> Nat])'
    BY <1>9 DEF CountInWorker
  <2>2. (pc \in [Workers -> Labels])'
    BY <1>9 DEF CountInWorker
  <2> QED
    BY <1>9, <2>1, <2>2 DEF CountInWorker, counters, own, census, registry, faults, locals
<1>10. ASSUME NEW w \in Workers, Assign(w) PROVE TypeOK'
  <2>1. (subscribers \in [Channels -> Nat])'
    BY <1>10 DEF Assign, OwnInv
  <2>2. (sentinel \in [Channels -> [Workers -> Nat]])'
    BY <1>10 DEF Assign, OwnInv
  <2>3. (subscribed \in [Channels -> [Workers -> Nat]])'
    BY <1>10 DEF Assign, OwnInv
  <2>4. (wanted \in [Workers -> Channels \cup {None}])'
    BY <1>10 DEF Assign
  <2>5. (pc \in [Workers -> Labels])'
    BY <1>10 DEF Assign
  <2> QED
    BY <1>10, <2>1, <2>2, <2>3, <2>4, <2>5 DEF Assign, counters, own, census, registry, faults,
       locals
<1>11. ASSUME NEW w \in Workers, Unregister(w) PROVE TypeOK'
  <2>1. (joined \in [Workers -> 0..MaxSubscribers])'
    <3>1. joined[w] >= 1 /\ joined[w] \in 0..MaxSubscribers /\ MaxSubscribers \in Nat
      BY <1>11, Joined, ConstantsAssumption DEF Unregister
    <3> QED
      BY <1>11, <3>1 DEF Unregister
  <2>2. (total \in Nat)'
    BY <1>11, DecrementType DEF Unregister
  <2>3. (worker_count \in [Workers -> Nat])'
    BY <1>11, DecrementType DEF Unregister
  <2>4. (pc \in [Workers -> Labels])'
    BY <1>11 DEF Unregister
  <2> QED
    BY <1>11, <2>1, <2>2, <2>3, <2>4 DEF Unregister, counters, own, census, registry, faults,
       locals
<1>12. ASSUME NEW w \in Workers, CleanOwnData(w) PROVE TypeOK'
  <2>1. (sentinel \in [Channels -> [Workers -> Nat]])'
    BY <1>12 DEF CleanOwnData
  <2>2. (pid \subseteq Workers)'
    BY <1>12 DEF CleanOwnData
  <2>3. (worker_count \in [Workers -> Nat])'
    BY <1>12 DEF CleanOwnData
  <2>4. (pc \in [Workers -> Labels])'
    BY <1>12 DEF CleanOwnData
  <2> QED
    BY <1>12, <2>1, <2>2, <2>3, <2>4 DEF CleanOwnData, counters, own, census, registry, faults,
       locals
<1>13. ASSUME NEW w \in Workers, Exit(w) PROVE TypeOK'
  <2>1. (global_pid \subseteq Workers)'
    BY <1>13 DEF Exit
  <2>2. (pc \in [Workers -> Labels])'
    BY <1>13 DEF Exit
  <2> QED
    BY <1>13, <2>1, <2>2 DEF Exit, counters, own, census, registry, faults, locals
<1>14. ASSUME NEW w \in Workers, ShutDown(w) PROVE TypeOK'
  <2>1. (pc \in [Workers -> Labels])'
    BY <1>14 DEF ShutDown
  <2> QED
    BY <1>14, <2>1 DEF ShutDown, counters, own, census, registry, faults, locals
<1>15. ASSUME NEW w \in Workers, Crash(w) PROVE TypeOK'
  <2>1. (joined \in [Workers -> 0..MaxSubscribers])'
    BY <1>15, ConstantsAssumption DEF Crash
  <2>2. (subscribed \in [Channels -> [Workers -> Nat]])'
    BY <1>15 DEF Crash
  <2>3. (todo \in [Workers -> SUBSET (Workers \cup Channels)])'
    BY <1>15 DEF Crash
  <2>4. (wanted \in [Workers -> Channels \cup {None}])'
    BY <1>15 DEF Crash
  <2>5. (global_mutex \in Workers \cup {None})'
    BY <1>15 DEF Crash
  <2>6. (pc \in [Workers -> Labels])'
    BY <1>15 DEF Crash
  <2> QED
    BY <1>15, <2>1, <2>2, <2>3, <2>4, <2>5, <2>6 DEF Crash, counters, own, census, registry,
       faults, locals
<1>16. ASSUME NEW w \in Workers, Respawn(w) PROVE TypeOK'
  <2>1. (pc \in [Workers -> Labels])'
    BY <1>16 DEF Respawn
  <2> QED
    BY <1>16, <2>1 DEF Respawn, counters, own, census, registry, faults, locals
<1>17. ASSUME NEW w \in Workers, NEW c \in Channels, Register(w, c) PROVE TypeOK'
  <2>1. (joined \in [Workers -> 0..MaxSubscribers])'
    BY <1>17, ConstantsAssumption DEF Register
  <2>2. (total \in Nat)'
    BY <1>17 DEF Register
  <2>3. (wanted \in [Workers -> Channels \cup {None}])'
    BY <1>17 DEF Register
  <2>4. (pc \in [Workers -> Labels])'
    BY <1>17 DEF Register
  <2> QED
    BY <1>17, <2>1, <2>2, <2>3, <2>4 DEF Register, counters, own, census, registry, faults, locals
<1>18. ASSUME NEW w \in Workers, NEW c \in Channels, Unsubscribe(w, c) PROVE TypeOK'
  <2>1. (subscribers \in [Channels -> Nat])'
    BY <1>18, DecrementType DEF Unsubscribe
  <2>2. (sentinel \in [Channels -> [Workers -> Nat]])'
    BY <1>18, DecrementType DEF Unsubscribe
  <2>3. (subscribed \in [Channels -> [Workers -> Nat]])'
    BY <1>18 DEF Unsubscribe
  <2>4. (pc \in [Workers -> Labels])'
    BY <1>18 DEF Unsubscribe, After
  <2> QED
    BY <1>18, <2>1, <2>2, <2>3, <2>4 DEF Unsubscribe, counters, own, census, registry, faults,
       locals
<1>19. CASE UNCHANGED vars
  BY <1>19 DEF vars, counters, own, census, registry, faults, locals
<1> QED
  BY <1>1, <1>2, <1>3, <1>4, <1>5, <1>6, <1>7, <1>8, <1>9, <1>10, <1>11, <1>12, <1>13, <1>14,
     <1>15, <1>16, <1>17, <1>18, <1>19 DEF Next, Work

----------------------------------------------------------------------------
(* The mutex and the registries                                            *)

(* Only one worker is at a point where the mutex is held.                  *)
LEMMA MutexPreserved == TypeOK /\ MutexInv /\ [Next]_vars => MutexInv'
<1> SUFFICES ASSUME TypeOK, MutexInv, [Next]_vars PROVE MutexInv'
  OBVIOUS
<1> USE ConstantsAssumption DEF TypeOK, MutexInv, Goto, Lock, LockForCensus, Free, Unlock, After
<1>1. ASSUME NEW w \in Workers, CleanWorkerData(w) PROVE MutexInv'
  BY <1>1 DEF CleanWorkerData, counters, own, census, registry, faults, locals
<1>2. ASSUME NEW w \in Workers, Enrol(w) PROVE MutexInv'
  BY <1>2 DEF Enrol, counters, own, census, registry, faults, locals
<1>3. ASSUME NEW w \in Workers, Alert(w) PROVE MutexInv'
  BY <1>3 DEF Alert, counters, own, census, registry, faults, locals
<1>4. ASSUME NEW w \in Workers, CensusWorkerSubscribers(w) PROVE MutexInv'
  BY <1>4 DEF CensusWorkerSubscribers, counters, own, census, registry, faults, locals
<1>5. ASSUME NEW w \in Workers, Count(w) PROVE MutexInv'
  BY <1>5 DEF Count, counters, own, census, registry, faults, locals
<1>6. ASSUME NEW w \in Workers, Answer(w) PROVE MutexInv'
  BY <1>6 DEF Answer, counters, own, census, registry, faults, locals
<1>7. ASSUME NEW w \in Workers, RecountTotal(w) PROVE MutexInv'
  BY <1>7 DEF RecountTotal, counters, own, census, registry, faults, locals
<1>8. ASSUME NEW w \in Workers, RecountChannel(w) PROVE MutexInv'
  BY <1>8 DEF RecountChannel, counters, own, census, registry, faults, locals
<1>9. ASSUME NEW w \in Workers, CountInWorker(w) PROVE MutexInv'
  BY <1>9 DEF CountInWorker, counters, own, census, registry, faults, locals
<1>10. ASSUME NEW w \in Workers, Assign(w) PROVE MutexInv'
  BY <1>10 DEF Assign, counters, own, census, registry, faults, locals
<1>11. ASSUME NEW w \in Workers, Unregister(w) PROVE MutexInv'
  BY <1>11 DEF Unregister, counters, own, census, registry, faults, locals
<1>12. ASSUME NEW w \in Workers, CleanOwnData(w) PROVE MutexInv'
  BY <1>12 DEF CleanOwnData, counters, own, census, registry, faults, locals
<1>13. ASSUME NEW w \in Workers, Exit(w) PROVE MutexInv'
  BY <1>13 DEF Exit, counters, own, census, registry, faults, locals
<1>14. ASSUME NEW w \in Workers, ShutDown(w) PROVE MutexInv'
  BY <1>14 DEF ShutDown, counters, own, census, registry, faults, locals
<1>15. ASSUME NEW w \in Workers, Crash(w) PROVE MutexInv'
  BY <1>15 DEF Crash, counters, own, census, registry, faults, locals
<1>16. ASSUME NEW w \in Workers, Respawn(w) PROVE MutexInv'
  BY <1>16 DEF Respawn, counters, own, census, registry, faults, locals
<1>17. ASSUME NEW w \in Workers, NEW c \in Channels, Register(w, c) PROVE MutexInv'
  BY <1>17 DEF Register, counters, own, census, registry, faults, locals
<1>18. ASSUME NEW w \in Workers, NEW c \in Channels, Unsubscribe(w, c) PROVE MutexInv'
  BY <1>18 DEF Unsubscribe, counters, own, census, registry, faults, locals
<1>19. CASE UNCHANGED vars
  BY <1>19 DEF vars, counters, own, census, registry, faults, locals
<1> QED
  BY <1>1, <1>2, <1>3, <1>4, <1>5, <1>6, <1>7, <1>8, <1>9, <1>10, <1>11, <1>12, <1>13, <1>14,
     <1>15, <1>16, <1>17, <1>18, <1>19 DEF Next, Work

(* The registry of the zone has no worker that the global one has not.     *)
LEMMA RegistryPreserved == TypeOK /\ RegistryInv /\ [Next]_vars => RegistryInv'
<1> SUFFICES ASSUME TypeOK, RegistryInv, [Next]_vars PROVE RegistryInv'
  OBVIOUS
<1> USE DEF TypeOK, RegistryInv, Goto, After
<1>1. ASSUME NEW w \in Workers, CleanWorkerData(w) PROVE RegistryInv'
  BY <1>1 DEF CleanWorkerData, counters, own, census, registry, faults, locals
<1>2. ASSUME NEW w \in Workers, Enrol(w) PROVE RegistryInv'
  BY <1>2 DEF Enrol, counters, own, census, registry, faults, locals
<1>3. ASSUME NEW w \in Workers, Alert(w) PROVE RegistryInv'
  BY <1>3 DEF Alert, counters, own, census, registry, faults, locals
<1>4. ASSUME NEW w \in Workers, CensusWorkerSubscribers(w) PROVE RegistryInv'
  BY <1>4 DEF CensusWorkerSubscribers, counters, own, census, registry, faults, locals
<1>5. ASSUME NEW w \in Workers, Count(w) PROVE RegistryInv'
  BY <1>5 DEF Count, counters, own, census, registry, faults, locals
<1>6. ASSUME NEW w \in Workers, Answer(w) PROVE RegistryInv'
  BY <1>6 DEF Answer, counters, own, census, registry, faults, locals
<1>7. ASSUME NEW w \in Workers, RecountTotal(w) PROVE RegistryInv'
  BY <1>7 DEF RecountTotal, counters, own, census, registry, faults, locals
<1>8. ASSUME NEW w \in Workers, RecountChannel(w) PROVE RegistryInv'
  BY <1>8 DEF RecountChannel, counters, own, census, registry, faults, locals
<1>9. ASSUME NEW w \in Workers, CountInWorker(w) PROVE RegistryInv'
  BY <1>9 DEF CountInWorker, counters, own, census, registry, faults, locals
<1>10. ASSUME NEW w \in Workers, Assign(w) PROVE RegistryInv'
  BY <1>10 DEF Assign, counters, own, census, registry, faults, locals
<1>11. ASSUME NEW w \in Workers, Unregister(w) PROVE RegistryInv'
  BY <1>11 DEF Unregister, counters, own, census, registry, faults, locals
<1>12. ASSUME NEW w \in Workers, CleanOwnData(w) PROVE RegistryInv'
  BY <1>12 DEF CleanOwnData, counters, own, census, registry, faults, locals
<1>13. ASSUME NEW w \in Workers, Exit(w) PROVE RegistryInv'
  BY <1>13 DEF Exit, counters, own, census, registry, faults, locals
<1>14. ASSUME NEW w \in Workers, ShutDown(w) PROVE RegistryInv'
  BY <1>14 DEF ShutDown, counters, own, census, registry, faults, locals
<1>15. ASSUME NEW w \in Workers, Crash(w) PROVE RegistryInv'
  BY <1>15 DEF Crash, counters, own, census, registry, faults, locals
<1>16. ASSUME NEW w \in Workers, Respawn(w) PROVE RegistryInv'
  BY <1>16 DEF Respawn, counters, own, census, registry, faults, locals
<1>17. ASSUME NEW w \in Workers, NEW c \in Channels, Register(w, c) PROVE RegistryInv'
  BY <1>17 DEF Register, counters, own, census, registry, faults, locals
<1>18. ASSUME NEW w \in Workers, NEW c \in Channels, Unsubscribe(w, c) PROVE RegistryInv'
  BY <1>18 DEF Unsubscribe, counters, own, census, registry, faults, locals
<1>19. CASE UNCHANGED vars
  BY <1>19 DEF vars, counters, own, census, registry, faults, locals
<1> QED
  BY <1>1, <1>2, <1>3, <1>4, <1>5, <1>6, <1>7, <1>8, <1>9, <1>10, <1>11, <1>12, <1>13, <1>14,
     <1>15, <1>16, <1>17, <1>18, <1>19 DEF Next, Work

----------------------------------------------------------------------------
(* What a worker has and counts                                            *)

(* The subscriptions of a worker change one at a time.                     *)
LEMMA SubscriptionsChange ==
  ASSUME TypeOK, TypeOK', NEW w \in Workers, NEW c \in Channels,
         \A d \in Channels \ {c} : subscribed'[d][w] = subscribed[d][w]
  PROVE  /\ SumOver(SubscriptionsOf(w), Channels) \in Nat
         /\ SumOver(SubscriptionsOf(w), Channels)' \in Nat
         /\ SumOver(SubscriptionsOf(w), Channels)'
              = SumOver(SubscriptionsOf(w), Channels) + subscribed'[c][w] - subscribed[c][w]
<1> DEFINE f == SubscriptionsOf(w)
           g == [d \in Channels |-> subscribed'[d][w]]
<1>1. \A d \in Channels : f[d] \in Nat /\ g[d] \in Nat /\ (d # c => f[d] = g[d])
  BY DEF SubscriptionsOf, TypeOK
<1>2. f[c] = subscribed[c][w] /\ g[c] = subscribed'[c][w]
  BY DEF SubscriptionsOf
<1>3. SumOver(SubscriptionsOf(w), Channels)' = SumOver(g, Channels)
  BY DEF SubscriptionsOf, SumOver, MapThenSumSet, MapThenFoldSet
<1> HIDE DEF f, g
<1>4. SumOver(f, Channels) \in Nat /\ SumOver(g, Channels) \in Nat
  BY <1>1, SumType, ConstantsAssumption
<1>5. SumOver(g, Channels) + f[c] = SumOver(f, Channels) + g[c]
  BY <1>1, SumChange, ConstantsAssumption
<1> QED
  BY <1>1, <1>2, <1>3, <1>4, <1>5 DEF f

(* Subscriptions that stay are as many.                                    *)
LEMMA SubscriptionsStay ==
  ASSUME NEW w \in Workers, \A c \in Channels : subscribed'[c][w] = subscribed[c][w]
  PROVE  SumOver(SubscriptionsOf(w), Channels)' = SumOver(SubscriptionsOf(w), Channels)
<1>1. SubscriptionsOf(w)' = SubscriptionsOf(w)
  BY DEF SubscriptionsOf
<1>2. SumOver(SubscriptionsOf(w), Channels)' = SumOver(SubscriptionsOf(w)', Channels)
  BY DEF SumOver, MapThenSumSet, MapThenFoldSet
<1> QED
  BY <1>1, <1>2, Zenon

(* A worker that has no subscriber has no subscription.                    *)
LEMMA JoinedPreserved == TypeOK /\ TypeOK' /\ JoinedInv /\ OwnInv /\ [Next]_vars => JoinedInv'
<1> SUFFICES ASSUME TypeOK, TypeOK', JoinedInv, OwnInv, [Next]_vars PROVE JoinedInv'
  OBVIOUS
<1> USE DEF Without
<1>0. ASSUME \A v \in Workers : /\ \A c \in Channels : subscribed'[c][v] = subscribed[c][v]
                                /\ joined'[v] - Without(v)' = joined[v] - Without(v)
      PROVE  JoinedInv'
  <2> SUFFICES ASSUME NEW v \in Workers
               PROVE  joined'[v] = SumOver(SubscriptionsOf(v), Channels)' + Without(v)'
    BY DEF JoinedInv
  <2>1. SumOver(SubscriptionsOf(v), Channels)' = SumOver(SubscriptionsOf(v), Channels)
    BY <1>0, SubscriptionsStay
  <2>2. SumOver(SubscriptionsOf(v), Channels) \in Nat /\ joined[v] \in Nat /\ joined'[v] \in Nat
    BY Joined, ConstantsAssumption DEF TypeOK
  <2> QED
    BY <1>0, <2>1, <2>2 DEF JoinedInv
<1>1. ASSUME NEW w \in Workers, CleanWorkerData(w) PROVE JoinedInv'
  BY <1>1, <1>0 DEF CleanWorkerData, counters, own, census, registry, faults, locals, TypeOK,
     Goto, Lock, Unlock
<1>2. ASSUME NEW w \in Workers, Enrol(w) PROVE JoinedInv'
  BY <1>2, <1>0 DEF Enrol, counters, own, census, registry, faults, locals, TypeOK, Goto, Lock,
     Unlock
<1>3. ASSUME NEW w \in Workers, Alert(w) PROVE JoinedInv'
  BY <1>3, <1>0 DEF Alert, counters, own, census, registry, faults, locals, TypeOK, Goto, Lock,
     Unlock
<1>4. ASSUME NEW w \in Workers, CensusWorkerSubscribers(w) PROVE JoinedInv'
  BY <1>4, <1>0 DEF CensusWorkerSubscribers, counters, own, census, registry, faults, locals,
     TypeOK, Goto, Lock, Unlock
<1>5. ASSUME NEW w \in Workers, Count(w) PROVE JoinedInv'
  BY <1>5, <1>0 DEF Count, counters, own, census, registry, faults, locals, TypeOK, Goto, Lock,
     Unlock
<1>6. ASSUME NEW w \in Workers, Answer(w) PROVE JoinedInv'
  BY <1>6, <1>0 DEF Answer, counters, own, census, registry, faults, locals, TypeOK, Goto, Lock,
     Unlock
<1>7. ASSUME NEW w \in Workers, RecountTotal(w) PROVE JoinedInv'
  BY <1>7, <1>0 DEF RecountTotal, counters, own, census, registry, faults, locals, TypeOK, Goto,
     Lock, Unlock
<1>8. ASSUME NEW w \in Workers, RecountChannel(w) PROVE JoinedInv'
  BY <1>8, <1>0 DEF RecountChannel, counters, own, census, registry, faults, locals, TypeOK,
     Goto, Lock, Unlock
<1>9. ASSUME NEW w \in Workers, CountInWorker(w) PROVE JoinedInv'
  BY <1>9, <1>0 DEF CountInWorker, counters, own, census, registry, faults, locals, TypeOK,
     Goto, Lock, Unlock
<1>10. ASSUME NEW w \in Workers, Assign(w) PROVE JoinedInv'
  <2> DEFINE c == wanted[w]
  <2>1. c \in Channels
    BY <1>10 DEF OwnInv, Assign
  <2>2. \A d \in Channels : \A v \in Workers :
          subscribed'[d][v] = IF d = c /\ v = w THEN subscribed[d][v] + 1 ELSE subscribed[d][v]
    BY <1>10 DEF Assign, TypeOK
  <2> HIDE DEF c
  <2> SUFFICES ASSUME NEW v \in Workers
               PROVE  joined'[v] = SumOver(SubscriptionsOf(v), Channels)' + Without(v)'
    BY DEF JoinedInv
  <2>3. joined' = joined /\ pc' = [pc EXCEPT ![w] = "idle"] /\ pc[w] = "assign"
    BY <1>10 DEF Assign, Goto
  <2>4. CASE v = w
    <3>1. /\ SumOver(SubscriptionsOf(w), Channels) \in Nat
          /\ SumOver(SubscriptionsOf(w), Channels)' = SumOver(SubscriptionsOf(w), Channels) + 1
      BY <2>1, <2>2, SubscriptionsChange DEF TypeOK
    <3> QED
      BY <2>3, <2>4, <3>1 DEF JoinedInv, TypeOK
  <2>5. CASE v # w
    <3>1. SumOver(SubscriptionsOf(v), Channels)' = SumOver(SubscriptionsOf(v), Channels)
      BY <2>2, <2>5, SubscriptionsStay
    <3> QED
      BY <2>3, <2>5, <3>1 DEF JoinedInv, TypeOK
  <2> QED
    BY <2>4, <2>5
<1>11. ASSUME NEW w \in Workers, Unregister(w) PROVE JoinedInv'
  BY <1>11, <1>0 DEF Unregister, counters, own, census, registry, faults, locals, TypeOK, Goto,
     Lock, Unlock
<1>12. ASSUME NEW w \in Workers, CleanOwnData(w) PROVE JoinedInv'
  BY <1>12, <1>0 DEF CleanOwnData, counters, own, census, registry, faults, locals, TypeOK,
     Goto, Lock, Unlock
<1>13. ASSUME NEW w \in Workers, Exit(w) PROVE JoinedInv'
  BY <1>13, <1>0 DEF Exit, counters, own, census, registry, faults, locals, TypeOK, Goto, Lock,
     Unlock
<1>14. ASSUME NEW w \in Workers, ShutDown(w) PROVE JoinedInv'
  BY <1>14, <1>0 DEF ShutDown, counters, own, census, registry, faults, locals, TypeOK, Goto,
     Lock, Unlock
<1>15. ASSUME NEW w \in Workers, Crash(w) PROVE JoinedInv'
  <2>2. \A d \in Channels : \A v \in Workers :
          subscribed'[d][v] = IF v = w THEN 0 ELSE subscribed[d][v]
    BY <1>15 DEF Crash, TypeOK
  <2> SUFFICES ASSUME NEW v \in Workers
               PROVE  joined'[v] = SumOver(SubscriptionsOf(v), Channels)' + Without(v)'
    BY DEF JoinedInv
  <2>3. joined' = [joined EXCEPT ![w] = 0] /\ pc' = [pc EXCEPT ![w] = "dead"]
    BY <1>15 DEF Crash, Goto
  <2>4. CASE v = w
    <3>1. \A c \in Channels : SubscriptionsOf(w)'[c] = 0
      BY <2>2 DEF SubscriptionsOf
    <3>2. SumOver(SubscriptionsOf(w)', Channels) = 0
      BY <3>1, SumConstant, ConstantsAssumption
    <3>3. SumOver(SubscriptionsOf(w), Channels)' = SumOver(SubscriptionsOf(w)', Channels)
      BY DEF SumOver, MapThenSumSet, MapThenFoldSet
    <3> QED
      BY <2>3, <2>4, <3>2, <3>3 DEF TypeOK
  <2>5. CASE v # w
    <3>1. SumOver(SubscriptionsOf(v), Channels)' = SumOver(SubscriptionsOf(v), Channels)
      BY <2>2, <2>5, SubscriptionsStay
    <3> QED
      BY <2>3, <2>5, <3>1 DEF JoinedInv, TypeOK
  <2> QED
    BY <2>4, <2>5
<1>16. ASSUME NEW w \in Workers, Respawn(w) PROVE JoinedInv'
  BY <1>16, <1>0 DEF Respawn, counters, own, census, registry, faults, locals, TypeOK, Goto,
     Lock, Unlock
<1>17. ASSUME NEW w \in Workers, NEW c \in Channels, Register(w, c) PROVE JoinedInv'
  BY <1>17, <1>0 DEF Register, counters, own, census, registry, faults, locals, TypeOK, Goto,
     Lock, Unlock
<1>18. ASSUME NEW w \in Workers, NEW c \in Channels, Unsubscribe(w, c) PROVE JoinedInv'
  <2>2. \A d \in Channels : \A v \in Workers :
          subscribed'[d][v] = IF d = c /\ v = w THEN subscribed[d][v] - 1 ELSE subscribed[d][v]
    BY <1>18 DEF Unsubscribe, TypeOK
  <2> SUFFICES ASSUME NEW v \in Workers
               PROVE  joined'[v] = SumOver(SubscriptionsOf(v), Channels)' + Without(v)'
    BY DEF JoinedInv
  <2>3. /\ joined' = joined /\ \A u \in Workers \ {w} : pc'[u] = pc[u]
        /\ pc[w] \in {"idle", "shutdown"} /\ pc'[w] \in {"leave", "evict"}
    BY <1>18 DEF Unsubscribe, Goto, After, TypeOK
  <2>4. CASE v = w
    <3>1. /\ SumOver(SubscriptionsOf(w), Channels) \in Nat
          /\ SumOver(SubscriptionsOf(w), Channels)' = SumOver(SubscriptionsOf(w), Channels) - 1
      BY <2>2, SubscriptionsChange DEF TypeOK
    <3>2. joined[w] = SumOver(SubscriptionsOf(w), Channels)
      <4>1. pc[w] \notin {"register", "assign", "leave", "evict"}
        BY <2>3
      <4> QED
        BY <3>1, <4>1 DEF JoinedInv
    <3>3. joined'[w] = SumOver(SubscriptionsOf(w), Channels)' + 1
      BY <2>3, <3>1, <3>2
    <3> QED
      BY <2>3, <2>4, <3>3
  <2>5. CASE v # w
    <3>1. SumOver(SubscriptionsOf(v), Channels)' = SumOver(SubscriptionsOf(v), Channels)
      BY <2>2, <2>5, SubscriptionsStay
    <3> QED
      BY <2>3, <2>5, <3>1 DEF JoinedInv, TypeOK
  <2> QED
    BY <2>4, <2>5
<1>19. CASE UNCHANGED vars
  BY <1>0, <1>19 DEF vars, counters, own, census, registry, faults, locals
<1> QED
  BY <1>1, <1>2, <1>3, <1>4, <1>5, <1>6, <1>7, <1>8, <1>9, <1>10, <1>11, <1>12, <1>13, <1>14,
     <1>15, <1>16, <1>17, <1>18, <1>19 DEF Next, Work

(* A worker counts what it has, except in the middle of a change.          *)
LEMMA OwnPreserved == TypeOK /\ MutexInv /\ JoinedInv /\ OwnInv /\ [Next]_vars => OwnInv'
<1> SUFFICES ASSUME TypeOK, MutexInv, JoinedInv, OwnInv, [Next]_vars PROVE OwnInv'
  OBVIOUS
<1> USE DEF TypeOK, OwnInv, Goto
<1>1. ASSUME NEW w \in Workers, CleanWorkerData(w) PROVE OwnInv'
  BY <1>1, Joined DEF CleanWorkerData, counters, own, census, registry, faults, locals
<1>2. ASSUME NEW w \in Workers, Enrol(w) PROVE OwnInv'
  BY <1>2 DEF Enrol, counters, own, census, registry, faults, locals
<1>3. ASSUME NEW w \in Workers, Alert(w) PROVE OwnInv'
  BY <1>3 DEF Alert, counters, own, census, registry, faults, locals
<1>4. ASSUME NEW w \in Workers, CensusWorkerSubscribers(w) PROVE OwnInv'
  BY <1>4 DEF CensusWorkerSubscribers, counters, own, census, registry, faults, locals, Zeroed
<1>5. ASSUME NEW w \in Workers, Count(w) PROVE OwnInv'
  BY <1>5 DEF Count, counters, own, census, registry, faults, locals
<1>6. ASSUME NEW w \in Workers, Answer(w) PROVE OwnInv'
  BY <1>6 DEF Answer, counters, own, census, registry, faults, locals
<1>7. ASSUME NEW w \in Workers, RecountTotal(w) PROVE OwnInv'
  BY <1>7 DEF RecountTotal, counters, own, census, registry, faults, locals
<1>8. ASSUME NEW w \in Workers, RecountChannel(w) PROVE OwnInv'
  BY <1>8 DEF RecountChannel, counters, own, census, registry, faults, locals
<1>9. ASSUME NEW w \in Workers, CountInWorker(w) PROVE OwnInv'
  BY <1>9 DEF CountInWorker, counters, own, census, registry, faults, locals
<1>10. ASSUME NEW w \in Workers, Assign(w) PROVE OwnInv'
  BY <1>10 DEF Assign, counters, own, census, registry, faults, locals
<1>11. ASSUME NEW w \in Workers, Unregister(w) PROVE OwnInv'
  BY <1>11, DecrementType, Joined DEF Unregister, counters, own, census, registry, faults, locals
<1>12. ASSUME NEW w \in Workers, CleanOwnData(w) PROVE OwnInv'
  BY <1>12, Joined DEF CleanOwnData, counters, own, census, registry, faults, locals
<1>13. ASSUME NEW w \in Workers, Exit(w) PROVE OwnInv'
  BY <1>13 DEF Exit, counters, own, census, registry, faults, locals
<1>14. ASSUME NEW w \in Workers, ShutDown(w) PROVE OwnInv'
  BY <1>14 DEF ShutDown, counters, own, census, registry, faults, locals
<1>15. ASSUME NEW w \in Workers, Crash(w) PROVE OwnInv'
  BY <1>15 DEF Crash, counters, own, census, registry, faults, locals
<1>16. ASSUME NEW w \in Workers, Respawn(w) PROVE OwnInv'
  BY <1>16 DEF Respawn, counters, own, census, registry, faults, locals
<1>17. ASSUME NEW w \in Workers, NEW c \in Channels, Register(w, c) PROVE OwnInv'
  BY <1>17 DEF Register, counters, own, census, registry, faults, locals
<1>18. ASSUME NEW w \in Workers, NEW c \in Channels, Unsubscribe(w, c) PROVE OwnInv'
  BY <1>18, DecrementType DEF Unsubscribe, counters, own, census, registry, faults, locals, After
<1>19. CASE UNCHANGED vars
  BY <1>19 DEF vars, counters, own, census, registry, faults, locals
<1> QED
  BY <1>1, <1>2, <1>3, <1>4, <1>5, <1>6, <1>7, <1>8, <1>9, <1>10, <1>11, <1>12, <1>13, <1>14,
     <1>15, <1>16, <1>17, <1>18, <1>19 DEF Next, Work

----------------------------------------------------------------------------
(* No channel counts too few                                               *)

(* Whoever adds up has the mutex, so no worker is in the middle of setting *)
(* its counts; only the counts of one that is missing may be too high.     *)
LEMMA Counted ==
  ASSUME TypeOK, MutexInv, JoinedInv, OwnInv,
         NEW v \in Workers, pc[v] \in {"total", "channels"}, NEW w \in Workers
  PROVE  /\ \A c \in Channels : subscribed[c][w] <= sentinel[c][w]
         /\ ~Disturbed => /\ \A c \in Channels : sentinel[c][w] = subscribed[c][w]
                          /\ worker_count[w] <= joined[w]
<1> USE DEF TypeOK
<1>1. pc[w] # "count"
  BY DEF MutexInv
<1>2. CASE pc[w] \in {"start", "dead"}
  <2>1. joined[w] = 0 /\ Disturbed
    BY <1>2 DEF OwnInv, Disturbed
  <2>2. \A c \in Channels : subscribed[c][w] <= 0
    BY <2>1, Joined
  <2> QED
    BY <2>1, <2>2
<1>3. CASE pc[w] \notin {"start", "dead"}
  BY <1>1, <1>3 DEF OwnInv
<1> QED
  BY <1>2, <1>3

(* What is there and what is counted change together.                      *)
LEMMA UndercountPreserved ==
  /\ TypeOK /\ TypeOK' /\ MutexInv /\ JoinedInv /\ OwnInv /\ NeverUndercounted /\ [Next]_vars
  => NeverUndercounted'
<1> SUFFICES ASSUME TypeOK, TypeOK', MutexInv, JoinedInv, OwnInv, NeverUndercounted, [Next]_vars,
                    NEW c \in Channels
             PROVE  subscribers'[c] >= SumOver(subscribed'[c], Workers)
  BY Sums DEF NeverUndercounted
<1>a. subscribers[c] >= SumOver(subscribed[c], Workers)
  BY Sums DEF NeverUndercounted
<1>b. /\ \A w \in Workers : subscribed[c][w] \in Nat /\ subscribed'[c][w] \in Nat
      /\ SumOver(subscribed[c], Workers) \in Nat /\ SumOver(subscribed'[c], Workers) \in Nat
  <2>1. \A w \in Workers : subscribed[c][w] \in Nat /\ subscribed'[c][w] \in Nat
    BY DEF TypeOK
  <2> QED
    BY <2>1, SumType, ConstantsAssumption
<1>c. ASSUME subscribers' = subscribers, subscribed' = subscribed
      PROVE  subscribers'[c] >= SumOver(subscribed'[c], Workers)
  BY <1>a, <1>c
<1>1. ASSUME NEW w \in Workers, RecountChannel(w)
      PROVE  subscribers'[c] >= SumOver(subscribed'[c], Workers)
  <2>1. /\ pc[w] = "channels" /\ subscribed' = subscribed
        /\ subscribers'[c] \in {subscribers[c], SumOver(sentinel[c], Workers)}
    <3>1. PICK d \in todo[w] : subscribers' = [subscribers EXCEPT ![d] = InWorkers(sentinel[d])]
      BY <1>1 DEF RecountChannel
    <3>2. subscribers'[c] \in {subscribers[c], InWorkers(sentinel[c])}
      BY <3>1 DEF TypeOK
    <3> QED
      BY <1>1, <3>2, Sums DEF RecountChannel, own
  <2>2. \A v \in Workers : subscribed[c][v] <= sentinel[c][v] /\ sentinel[c][v] \in Nat
    BY <2>1, Counted DEF TypeOK
  <2>3. SumOver(sentinel[c], Workers) >= SumOver(subscribed[c], Workers)
    <3>1. SumOver(subscribed[c], Workers) <= SumOver(sentinel[c], Workers)
      BY <1>b, <2>2, SumMonotone, ConstantsAssumption
    <3>2. SumOver(sentinel[c], Workers) \in Nat
      BY <2>2, SumType, ConstantsAssumption
    <3> QED
      BY <1>b, <3>1, <3>2
  <2> QED
    BY <1>a, <2>1, <2>3
<1>2. ASSUME NEW w \in Workers, Assign(w)
      PROVE  subscribers'[c] >= SumOver(subscribed'[c], Workers)
  <2>1. CASE wanted[w] # c
    <3>1. subscribers'[c] = subscribers[c] /\ subscribed'[c] = subscribed[c]
      BY <1>2, <2>1 DEF Assign, TypeOK
    <3> QED
      BY <1>a, <3>1
  <2>2. CASE wanted[w] = c
    <3>1. /\ subscribers'[c] = subscribers[c] + 1
          /\ subscribed'[c][w] = subscribed[c][w] + 1
          /\ \A v \in Workers \ {w} : subscribed[c][v] = subscribed'[c][v]
      BY <1>2, <2>2 DEF Assign, TypeOK
    <3>2. SumOver(subscribed'[c], Workers) + subscribed[c][w]
            = SumOver(subscribed[c], Workers) + subscribed'[c][w]
      BY <1>b, <3>1, SumChange, ConstantsAssumption
    <3>3. subscribers[c] \in Nat
      BY DEF TypeOK
    <3> QED
      BY <1>a, <1>b, <3>1, <3>2, <3>3
  <2> QED
    BY <2>1, <2>2
<1>3. ASSUME NEW w \in Workers, NEW d \in Channels, Unsubscribe(w, d)
      PROVE  subscribers'[c] >= SumOver(subscribed'[c], Workers)
  <2>1. CASE d # c
    <3>1. subscribers'[c] = subscribers[c] /\ subscribed'[c] = subscribed[c]
      BY <1>3, <2>1 DEF Unsubscribe, TypeOK
    <3> QED
      BY <1>a, <3>1
  <2>2. CASE d = c
    <3>1. /\ subscribers'[c] = Decrement(subscribers[c])
          /\ subscribed[c][w] > 0
          /\ subscribed'[c][w] = subscribed[c][w] - 1
          /\ \A v \in Workers \ {w} : subscribed[c][v] = subscribed'[c][v]
      BY <1>3, <2>2 DEF Unsubscribe, TypeOK
    <3>2. SumOver(subscribed'[c], Workers) + subscribed[c][w]
            = SumOver(subscribed[c], Workers) + subscribed'[c][w]
      BY <1>b, <3>1, SumChange, ConstantsAssumption
    <3>3. subscribed[c][w] <= SumOver(subscribed[c], Workers)
      BY <1>b, SumHasAll, ConstantsAssumption
    <3>4. subscribers[c] \in Nat /\ subscribers[c] >= 1
      BY <1>a, <1>b, <3>1, <3>3 DEF TypeOK
    <3>5. subscribers'[c] = subscribers[c] - 1
      BY <3>1, <3>4, DecrementType
    <3> QED
      BY <1>a, <1>b, <3>1, <3>2, <3>4, <3>5
  <2> QED
    BY <2>1, <2>2
<1>4. ASSUME NEW w \in Workers, Crash(w)
      PROVE  subscribers'[c] >= SumOver(subscribed'[c], Workers)
  <2>1. subscribers' = subscribers /\ \A v \in Workers : subscribed'[c][v] <= subscribed[c][v]
    BY <1>4, <1>b DEF Crash, counters, TypeOK
  <2>2. SumOver(subscribed'[c], Workers) <= SumOver(subscribed[c], Workers)
    BY <1>b, <2>1, SumMonotone, ConstantsAssumption
  <2>3. subscribers[c] \in Nat
    BY DEF TypeOK
  <2> QED
    BY <1>a, <1>b, <2>1, <2>2, <2>3
<1>5. ASSUME NEW w \in Workers,
             \/ CleanWorkerData(w) \/ Enrol(w) \/ Alert(w)
             \/ CensusWorkerSubscribers(w) \/ Count(w) \/ Answer(w) \/ RecountTotal(w)
             \/ CountInWorker(w) \/ Unregister(w) \/ CleanOwnData(w) \/ Exit(w)
             \/ ShutDown(w) \/ Respawn(w) \/ \E d \in Channels : Register(w, d)
      PROVE  subscribers'[c] >= SumOver(subscribed'[c], Workers)
  <2>1. subscribers' = subscribers /\ subscribed' = subscribed
    BY <1>5 DEF CleanWorkerData, Enrol, Alert, CensusWorkerSubscribers, Count, Answer,
                RecountTotal, CountInWorker, Unregister, CleanOwnData, Exit, ShutDown, Respawn,
                Register, counters, own
  <2> QED
    BY <1>c, <2>1
<1>6. CASE UNCHANGED vars
  BY <1>c, <1>6 DEF vars, counters, own
<1> QED
  BY <1>1, <1>2, <1>3, <1>4, <1>5, <1>6 DEF Next, Work

----------------------------------------------------------------------------
(* The census                                                              *)

(* What is owed by one and by all.                                         *)
LEMMA OwedTypes ==
  ASSUME TypeOK
  PROVE  /\ \A w \in Workers : OwedByAll[w] = Owed(w) /\ OwedByAll[w] \in Nat
         /\ SumOver(OwedByAll, Workers) \in Nat
<1>1. \A w \in Workers : OwedByAll[w] = Owed(w) /\ OwedByAll[w] \in Nat
  BY DEF OwedByAll, Owed, TypeOK
<1> QED
  BY <1>1, SumType, ConstantsAssumption

(* The sum of the next state is that of the next answers owed.             *)
LEMMA OwedNext ==
  /\ SumOver(OwedByAll, Workers)' = SumOver(OwedByAll', Workers)
  /\ TypeOK' => /\ \A w \in Workers : OwedByAll'[w] = Owed(w)' /\ OwedByAll'[w] \in Nat
                /\ SumOver(OwedByAll', Workers) \in Nat
<1>1. SumOver(OwedByAll, Workers)' = SumOver(OwedByAll', Workers)
  BY DEF SumOver, MapThenSumSet, MapThenFoldSet
<1>2. ASSUME TypeOK' PROVE \A w \in Workers : OwedByAll'[w] = Owed(w)' /\ OwedByAll'[w] \in Nat
  BY <1>2 DEF OwedByAll, Owed, TypeOK
<1>3. TypeOK' => SumOver(OwedByAll', Workers) \in Nat
  BY <1>2, SumType, ConstantsAssumption
<1> QED
  BY <1>1, <1>2, <1>3

(* As long as no one owes less, the census goes on.                        *)
LEMMA OwedStays ==
  ASSUME TypeOK, TypeOK', slots_for_census' = slots_for_census,
         \A w \in Workers : Owed(w)' >= Owed(w)
  PROVE  CensusUnderWay => CensusUnderWay'
<1>1. \A w \in Workers : /\ OwedByAll[w] \in Nat /\ OwedByAll'[w] \in Nat
                          /\ OwedByAll[w] <= OwedByAll'[w]
  BY OwedTypes, OwedNext
<1>2. SumOver(OwedByAll, Workers) <= SumOver(OwedByAll', Workers)
  BY <1>1, SumMonotone, ConstantsAssumption
<1>3. slots_for_census \in Nat
  BY DEF TypeOK, Modulus
<1> QED
  BY <1>2, <1>3, OwedTypes, OwedNext DEF CensusUnderWay

(* The start of a worker leaves more questions on the way than answers     *)
(* are awaited.                                                            *)
LEMMA EnrolBegins ==
  ASSUME TypeOK, TypeOK', RegistryInv, NEW w \in Workers, Enrol(w)
  PROVE  CensusUnderWay'
<1>1. /\ pid' = pid \cup {w} /\ w \in Workers
      /\ pid' \subseteq global_pid' /\ pid' \subseteq Workers
      /\ pc'[w] = "alert" /\ todo'[w] = Workers
  BY DEF Enrol, Goto, TypeOK, RegistryInv, registry
<1>2. slots_for_census' = Cardinality(pid')
  BY Zenon DEF Enrol
<1> DEFINE one == [v \in pid' |-> 1]
<1>3. \A v \in pid' : one[v] = 1 /\ one[v] \in Nat /\ one[v] <= OwedByAll'[v]
  <2> SUFFICES ASSUME NEW v \in pid' PROVE one[v] <= OwedByAll'[v]
    OBVIOUS
  <2>1. /\ v \in Workers /\ v \in global_pid'
        /\ \E u \in Workers : pc'[u] = "alert" /\ v \in todo'[u]
    BY <1>1
  <2>2. commands'[v] \in Nat
    BY <2>1 DEF TypeOK
  <2>3. Owed(v)' >= 1
    BY <2>1, <2>2 DEF Owed
  <2>4. OwedByAll'[v] = Owed(v)'
    BY <2>1, OwedNext
  <2> QED
    BY <2>3, <2>4
<1> HIDE DEF one
<1>4. IsFiniteSet(pid') /\ Cardinality(pid') \in Nat /\ Cardinality(pid') >= 1
  <2>1. IsFiniteSet(pid') /\ Cardinality(pid') \in Nat
    BY <1>1, FS_Subset, FS_CardinalityType, ConstantsAssumption
  <2>2. Cardinality(pid') # 0
    BY <1>1, <2>1, FS_EmptySet
  <2> QED
    BY <2>1, <2>2
<1>5. SumOver(one, pid') = Cardinality(pid')
  BY <1>3, <1>4, SumConstant
<1>6. SumOver(one, pid') <= SumOver(OwedByAll', Workers)
  <2>1. \A v \in Workers : OwedByAll'[v] \in Nat
    BY OwedNext
  <2> QED
    BY <1>1, <1>3, <2>1, SumMonotone, ConstantsAssumption
<1> QED
  BY <1>2, <1>4, <1>5, <1>6, OwedNext DEF CensusUnderWay

(* An answer is one less that is owed and one less that is awaited.        *)
LEMMA AnswerCounts ==
  ASSUME TypeOK, TypeOK', NEW w \in Workers, Answer(w), slots_for_census' # 0, CensusUnderWay
  PROVE  CensusUnderWay'
<1>1. slots_for_census' = slots_for_census - 1 /\ slots_for_census \in Nat
  <2>1. slots_for_census \in 1..63
    BY DEF CensusUnderWay, TypeOK, Modulus
  <2> QED
    BY <2>1 DEF Answer, Modulus
<1>2. /\ pc[w] = "answer" /\ pc' = [pc EXCEPT ![w] = "idle"]
      /\ commands' = commands /\ global_pid' = global_pid /\ todo' = todo
  BY DEF Answer, Goto, registry, locals
<1>3. /\ Owed(w)' = Owed(w) - 1
      /\ \A v \in Workers \ {w} : Owed(v)' = Owed(v)
  <2>1. \A v \in Workers : (\E u \in Workers : pc'[u] = "alert" /\ v \in todo'[u])
                            <=> \E u \in Workers : pc[u] = "alert" /\ v \in todo[u]
    BY <1>2 DEF TypeOK
  <2> QED
    BY <1>2, <2>1 DEF Owed, TypeOK
<1>4. \A v \in Workers : OwedByAll[v] \in Nat /\ OwedByAll'[v] \in Nat
  BY OwedTypes, OwedNext
<1>5. OwedByAll'[w] = OwedByAll[w] - 1 /\ \A v \in Workers \ {w} : OwedByAll[v] = OwedByAll'[v]
  BY <1>3, OwedTypes, OwedNext
<1>6. SumOver(OwedByAll', Workers) + OwedByAll[w] = SumOver(OwedByAll, Workers) + OwedByAll'[w]
  BY <1>4, <1>5, SumChange, ConstantsAssumption
<1> QED
  BY <1>1, <1>4, <1>5, <1>6, OwedTypes, OwedNext DEF CensusUnderWay

(* Every other step of a worker that has begun keeps what is owed.         *)
LEMMA StepsKeepOwed ==
  ASSUME TypeOK, TypeOK', NEW w \in Workers,
         \/ Alert(w) \/ CensusWorkerSubscribers(w) \/ Count(w) \/ RecountTotal(w)
         \/ RecountChannel(w) \/ CountInWorker(w) \/ Assign(w) \/ Unregister(w) \/ ShutDown(w)
         \/ \E c \in Channels : Register(w, c) \/ Unsubscribe(w, c)
  PROVE  /\ Disturbed => Disturbed'
         /\ CensusUnderWay => CensusUnderWay'
<1> USE DEF TypeOK
<1> DEFINE Asked(v) == \E u \in Workers : pc[u] = "alert" /\ v \in todo[u]
<1>1. /\ slots_for_census' = slots_for_census /\ global_pid' = global_pid
      /\ \A u \in Workers \ {w} : pc'[u] = pc[u] /\ todo'[u] = todo[u]
  BY DEF Alert, CensusWorkerSubscribers, Count, RecountTotal, RecountChannel, CountInWorker,
     Assign,
         Unregister, ShutDown, Register, Unsubscribe, Goto, census, registry, locals
<1>2. Disturbed => Disturbed'
  <2>1. pc[w] \notin {"start", "enrol", "exit", "gone", "dead"}
    BY DEF Alert, CensusWorkerSubscribers, Count, RecountTotal, RecountChannel, CountInWorker,
           Assign, Unregister, ShutDown, Register, Unsubscribe
  <2> QED
    BY <1>1, <2>1 DEF Disturbed
<1>3. CASE Alert(w)
  <2>1. PICK v \in todo[w] :
          /\ commands' = [commands EXCEPT ![v] = IF Asks(w, v) THEN @ + 1 ELSE @]
          /\ todo' = [todo EXCEPT ![w] = @ \ {v}]
          /\ Goto(w, IF todo[w] = {v} THEN "idle" ELSE "alert")
    BY <1>3 DEF Alert
  <2>2. ASSUME NEW u \in Workers PROVE Owed(u)' >= Owed(u)
    <3>1. pc[w] = "alert"
      BY <1>3 DEF Alert
    <3>2. pc'[u] \in {"count", "answer"} <=> pc[u] \in {"count", "answer"}
      BY <2>1, <3>1 DEF Goto
    <3>3. CASE u = v /\ u \in global_pid
      <4>1. commands'[u] = commands[u] + 1
        BY <2>1, <3>3 DEF Asks
      <4> QED
        BY <3>2, <4>1 DEF Owed
    <3>4. CASE u # v
      <4>1. commands'[u] = commands[u]
        BY <2>1, <3>4
      <4>2. Asked(u) => Asked(u)'
        <5>1. pc'[w] = IF todo[w] = {v} THEN "idle" ELSE "alert"
          BY <2>1 DEF Goto
        <5>2. todo'[w] = todo[w] \ {v}
          BY <2>1
        <5> QED
          BY <1>1, <3>1, <3>4, <5>1, <5>2
      <4> QED
        BY <1>1, <3>2, <4>1, <4>2 DEF Owed
    <3>5. CASE u = v /\ u \notin global_pid
      <4>1. commands'[u] = commands[u]
        BY <2>1, <3>5 DEF Asks
      <4> QED
        BY <1>1, <3>2, <3>5, <4>1 DEF Owed
    <3> QED
      BY <3>3, <3>4, <3>5
  <2> QED
    BY <1>1, <1>2, <2>2, OwedStays
<1>4. CASE ~Alert(w)
  <2>1. /\ pc[w] # "alert"
        /\ \/ /\ commands' = commands
              /\ pc[w] \in {"count", "answer"} <=> pc'[w] \in {"count", "answer"}
           \/ /\ commands' = [commands EXCEPT ![w] = @ - 1] /\ commands[w] > 0
              /\ pc[w] = "idle" /\ pc'[w] = "count"
    BY <1>4 DEF CensusWorkerSubscribers, Count, RecountTotal, RecountChannel, CountInWorker,
       Assign,
                Unregister, ShutDown, Register, Unsubscribe, Goto, After, census
  <2>2. ASSUME NEW u \in Workers PROVE Owed(u)' >= Owed(u)
    <3>1. Asked(u) => Asked(u)'
      BY <1>1, <2>1
    <3>2. CASE u = w
      BY <1>1, <2>1, <3>1, <3>2 DEF Owed
    <3>3. CASE u # w
      <4>1. commands'[u] = commands[u] /\ pc'[u] = pc[u]
        BY <1>1, <2>1, <3>3
      <4> QED
        BY <1>1, <3>1, <4>1 DEF Owed
    <3> QED
      BY <3>2, <3>3
  <2> QED
    BY <1>1, <1>2, <2>2, OwedStays
<1> QED
  BY <1>3, <1>4

(* A count that is too high stays on the way to being taken anew.          *)
LEMMA CensusPreserved == IInv /\ IInv' /\ CensusInv /\ [Next]_vars => CensusInv'
<1> SUFFICES ASSUME IInv, IInv', CensusInv, [Next]_vars PROVE CensusInv'
  OBVIOUS
<1>a. TypeOK /\ TypeOK' /\ MutexInv /\ JoinedInv /\ OwnInv /\ RegistryInv
  BY DEF IInv
<1> DEFINE Excess == total > SumOver(joined, Workers)
           ExcessIn(c) == subscribers[c] > SumOver(subscribed[c], Workers)
           Waiting(c) == Pending \/ \E w \in Workers : pc[w] = "channels" /\ c \in todo[w]
           ExcessNext(c) == subscribers'[c] > SumOver(subscribed'[c], Workers)
<1>b. (Excess => Pending) /\ \A c \in Channels : ExcessIn(c) => Waiting(c)
  BY DEF CensusInv
<1>c. ASSUME Pending' PROVE CensusInv'
  BY <1>c DEF CensusInv
<1>d. ASSUME Excess' => Pending',
             \A c \in Channels :
               ExcessNext(c) => Pending' \/ \E w \in Workers : pc'[w] = "channels" /\ c \in todo'[w]
      PROVE  CensusInv'
  BY <1>d DEF CensusInv
<1>e. /\ \A w \in Workers : joined[w] \in Nat /\ joined'[w] \in Nat
      /\ SumOver(joined, Workers) \in Nat /\ SumOver(joined', Workers) \in Nat
  <2>1. \A w \in Workers : joined[w] \in Nat /\ joined'[w] \in Nat
    BY <1>a, ConstantsAssumption DEF TypeOK
  <2> QED
    BY <2>1, SumType, ConstantsAssumption
<1>f. \A c \in Channels :
        /\ \A w \in Workers : subscribed[c][w] \in Nat /\ subscribed'[c][w] \in Nat
        /\ SumOver(subscribed[c], Workers) \in Nat /\ SumOver(subscribed'[c], Workers) \in Nat
  <2> SUFFICES ASSUME NEW c \in Channels
               PROVE  /\ \A w \in Workers : subscribed[c][w] \in Nat /\ subscribed'[c][w] \in Nat
                      /\ SumOver(subscribed[c], Workers) \in Nat
                      /\ SumOver(subscribed'[c], Workers) \in Nat
    OBVIOUS
  <2>1. \A w \in Workers : subscribed[c][w] \in Nat /\ subscribed'[c][w] \in Nat
    BY <1>a DEF TypeOK
  <2> QED
    BY <2>1, SumType, ConstantsAssumption
<1>1. ASSUME NEW w \in Workers,
             CleanWorkerData(w) \/ CleanOwnData(w) \/ Exit(w) \/ Crash(w) \/ Respawn(w)
      PROVE  CensusInv'
  <2>1. pc'[w] \in {"start", "enrol", "exit", "gone", "dead"}
    BY <1>a, <1>1 DEF CleanWorkerData, CleanOwnData, Exit, Crash, Respawn, Goto, TypeOK
  <2> QED
    BY <1>c, <2>1 DEF Pending, Disturbed
<1>2. ASSUME NEW w \in Workers, Enrol(w) PROVE CensusInv'
  BY <1>a, <1>c, <1>2, EnrolBegins DEF Pending
<1>3. ASSUME NEW w \in Workers,
             \/ Alert(w) \/ CensusWorkerSubscribers(w) \/ Count(w) \/ CountInWorker(w)
             \/ ShutDown(w)
      PROVE  CensusInv'
  <2>1. (Disturbed => Disturbed') /\ (CensusUnderWay => CensusUnderWay')
    BY <1>a, <1>3, StepsKeepOwed
  <2>2. /\ total' = total /\ joined' = joined /\ subscribers' = subscribers
        /\ subscribed' = subscribed
        /\ \A v \in Workers :
             pc[v] \in {"total", "channels"} => pc'[v] = pc[v] /\ todo'[v] = todo[v]
    BY <1>a, <1>3 DEF Alert, CensusWorkerSubscribers, Count, CountInWorker, ShutDown, Goto,
       TypeOK,
                      counters, own, locals
  <2>3. Pending => Pending'
    BY <2>1, <2>2 DEF Pending
  <2> QED
    BY <1>b, <1>d, <2>2, <2>3
<1>4. ASSUME NEW w \in Workers, Answer(w) PROVE CensusInv'
  <2>1. CASE slots_for_census' = 0
    <3>1. pc'[w] = "total"
      BY <1>a, <1>4, <2>1 DEF Answer, Goto, TypeOK
    <3> QED
      BY <1>c, <3>1 DEF Pending
  <2>2. CASE slots_for_census' # 0
    <3>1. /\ total' = total /\ joined' = joined /\ subscribers' = subscribers
          /\ subscribed' = subscribed /\ todo' = todo
          /\ pc[w] = "answer" /\ pc' = [pc EXCEPT ![w] = "idle"]
      BY <1>4, <2>2 DEF Answer, Goto, counters, own, locals
    <3>2. CensusUnderWay => CensusUnderWay'
      BY <1>a, <1>4, <2>2, AnswerCounts
    <3>3. Disturbed => Disturbed'
      BY <1>a, <3>1 DEF Disturbed, TypeOK
    <3>4. Pending => Pending'
      BY <1>a, <3>1, <3>2, <3>3 DEF Pending, TypeOK
    <3> QED
      BY <1>a, <1>b, <1>d, <3>1, <3>4 DEF TypeOK
  <2> QED
    BY <2>1, <2>2
<1>5. ASSUME NEW w \in Workers, RecountTotal(w) PROVE CensusInv'
  <2>1. (Disturbed => Disturbed')
    BY <1>a, <1>5, StepsKeepOwed
  <2>2. /\ pc[w] = "total" /\ total' = OfRegistered /\ joined' = joined
        /\ pc'[w] = "channels" /\ todo'[w] = Channels
    BY <1>a, <1>5 DEF RecountTotal, Goto, TypeOK, own
  <2>3. CASE Disturbed
    BY <1>c, <2>1, <2>3 DEF Pending
  <2>4. CASE ~Disturbed
    <3>1. \A v \in Workers : worker_count[v] \in Nat /\ worker_count[v] <= joined[v]
      BY <1>a, <2>2, <2>4, Counted DEF TypeOK
    <3>2. pid \in SUBSET Workers
      BY <1>a DEF TypeOK
    <3>3. SumOver(worker_count, pid) <= SumOver(joined, Workers)
      BY <1>e, <3>1, <3>2, SumMonotone, ConstantsAssumption
    <3>4. total' <= SumOver(joined', Workers) /\ total' \in Nat
      BY <1>a, <2>2, <3>3, Sums DEF TypeOK
    <3> QED
      BY <1>d, <1>e, <2>2, <3>4
  <2> QED
    BY <2>3, <2>4
<1>6. ASSUME NEW w \in Workers, RecountChannel(w) PROVE CensusInv'
  <2>1. (Disturbed => Disturbed') /\ (CensusUnderWay => CensusUnderWay')
    BY <1>a, <1>6, StepsKeepOwed
  <2>2. CASE Disturbed
    BY <1>c, <2>1, <2>2 DEF Pending
  <2>3. CASE ~Disturbed
    <3>1. PICK d \in todo[w] :
            /\ subscribers' = [subscribers EXCEPT ![d] = InWorkers(sentinel[d])]
            /\ todo' = [todo EXCEPT ![w] = @ \ {d}]
            /\ IF todo[w] = {d} THEN Goto(w, "idle") /\ Unlock ELSE UNCHANGED <<pc, global_mutex>>
      BY <1>6 DEF RecountChannel
    <3>2. /\ total' = total /\ joined' = joined /\ subscribed' = subscribed /\ pc[w] = "channels"
      BY <1>6 DEF RecountChannel, own
    <3>3. d \in Channels
      BY <1>a, <3>1, <3>2 DEF OwnInv
    <3>4. \A v \in Workers \ {w} : pc'[v] = pc[v] /\ todo'[v] = todo[v]
      BY <1>a, <3>1 DEF Goto, TypeOK
    <3>5. Pending => Pending'
      BY <2>1, <3>2, <3>4 DEF Pending
    <3>6. subscribers'[d] = SumOver(subscribed'[d], Workers)
      <4>1. \A v \in Workers : sentinel[d][v] = subscribed[d][v]
        BY <1>a, <2>3, <3>2, <3>3, Counted
      <4>2. sentinel[d] = subscribed[d]
        BY <1>a, <3>3, <4>1 DEF TypeOK
      <4>3. subscribers'[d] = SumOver(sentinel[d], Workers)
        BY <1>a, <3>1, <3>3, Sums DEF TypeOK
      <4> QED
        BY <3>2, <4>2, <4>3
    <3>7. \A c \in Channels \ {d} : subscribers'[c] = subscribers[c]
      BY <1>a, <3>1 DEF TypeOK
    <3>8. ASSUME NEW c \in Channels, ExcessNext(c)
          PROVE  Pending' \/ \E v \in Workers : pc'[v] = "channels" /\ c \in todo'[v]
      <4>1. c # d
        BY <1>f, <3>3, <3>6, <3>8
      <4>2. Waiting(c)
        BY <1>b, <3>2, <3>7, <3>8, <4>1
      <4>3. ASSUME NEW v \in Workers, pc[v] = "channels", c \in todo[v]
            PROVE  pc'[v] = "channels" /\ c \in todo'[v]
        <5>1. CASE v = w
          <6>1. todo[w] # {d}
            BY <4>1, <4>3, <5>1
          <6> QED
            BY <1>a, <3>1, <4>1, <4>3, <5>1, <6>1 DEF TypeOK
        <5>2. CASE v # w
          BY <3>4, <4>3, <5>2
        <5> QED
          BY <5>1, <5>2
      <4> QED
        BY <3>5, <4>2, <4>3
    <3> QED
      BY <1>b, <1>d, <3>2, <3>5, <3>8
  <2> QED
    BY <2>2, <2>3
<1>7. ASSUME NEW w \in Workers,
             \/ Assign(w) \/ Unregister(w)
             \/ \E c \in Channels : Register(w, c) \/ Unsubscribe(w, c)
      PROVE  CensusInv'
  <2>1. (Disturbed => Disturbed') /\ (CensusUnderWay => CensusUnderWay')
    BY <1>a, <1>7, StepsKeepOwed
  <2>2. \A v \in Workers : pc[v] \in {"total", "channels"} => pc'[v] = pc[v] /\ todo'[v] = todo[v]
    BY <1>a, <1>7 DEF Assign, Unregister, Register, Unsubscribe, Goto, TypeOK, locals
  <2>3. Pending => Pending'
    BY <2>1, <2>2 DEF Pending
  <2>4. Excess' => Excess
    <3>1. CASE total' = total /\ joined' = joined
      BY <3>1
    <3>2. CASE \E c \in Channels : Register(w, c)
      <4>1. /\ total' = total + 1 /\ joined'[w] = joined[w] + 1 /\ total \in Nat
            /\ \A v \in Workers \ {w} : joined[v] = joined'[v]
        BY <1>a, <3>2 DEF Register, TypeOK
      <4>2. SumOver(joined', Workers) + joined[w] = SumOver(joined, Workers) + joined'[w]
        BY <1>e, <4>1, SumChange, ConstantsAssumption
      <4> QED
        BY <1>e, <4>1, <4>2
    <3>3. CASE Unregister(w)
      <4>1. /\ total' = Decrement(total) /\ joined'[w] = joined[w] - 1 /\ total \in Nat
            /\ \A v \in Workers \ {w} : joined[v] = joined'[v]
        BY <1>a, <3>3 DEF Unregister, TypeOK
      <4>2. SumOver(joined', Workers) + joined[w] = SumOver(joined, Workers) + joined'[w]
        BY <1>e, <4>1, SumChange, ConstantsAssumption
      <4>3. total' \in Nat /\ (total >= 1 => total' = total - 1) /\ total' <= total
        BY <4>1, DecrementType
      <4> QED
        BY <1>e, <4>1, <4>2, <4>3
    <3> QED
      BY <1>7, <3>1, <3>2, <3>3 DEF Assign, Unsubscribe
  <2>5. ASSUME NEW e \in Channels, ExcessNext(e) PROVE ExcessIn(e)
    <3>0. /\ \A v \in Workers : subscribed[e][v] \in Nat /\ subscribed'[e][v] \in Nat
          /\ SumOver(subscribed[e], Workers) \in Nat /\ SumOver(subscribed'[e], Workers) \in Nat
      BY <1>f
    <3>1. CASE subscribers'[e] = subscribers[e] /\ subscribed'[e] = subscribed[e]
      BY <2>5, <3>1
    <3>2. CASE Assign(w) /\ wanted[w] = e
      <4>1. /\ subscribers'[e] = subscribers[e] + 1 /\ subscribed'[e][w] = subscribed[e][w] + 1
            /\ \A v \in Workers \ {w} : subscribed[e][v] = subscribed'[e][v]
            /\ subscribers[e] \in Nat
        BY <1>a, <3>2 DEF Assign, TypeOK
      <4>2. SumOver(subscribed'[e], Workers) + subscribed[e][w]
              = SumOver(subscribed[e], Workers) + subscribed'[e][w]
        BY <3>0, <4>1, SumChange, ConstantsAssumption, SMTT(60)
      <4> QED
        BY <3>0, <2>5, <4>1, <4>2
    <3>3. CASE Unsubscribe(w, e)
      <4>1. /\ subscribers'[e] = Decrement(subscribers[e])
            /\ subscribed'[e][w] = subscribed[e][w] - 1
            /\ \A v \in Workers \ {w} : subscribed[e][v] = subscribed'[e][v]
            /\ subscribers[e] \in Nat
        BY <1>a, <3>3 DEF Unsubscribe, TypeOK
      <4>2. SumOver(subscribed'[e], Workers) + subscribed[e][w]
              = SumOver(subscribed[e], Workers) + subscribed'[e][w]
        BY <3>0, <4>1, SumChange, ConstantsAssumption
      <4>3. /\ subscribers'[e] \in Nat
            /\ subscribers[e] >= 1 => subscribers'[e] = subscribers[e] - 1
            /\ subscribers'[e] <= subscribers[e]
        BY <4>1, DecrementType
      <4> QED
        BY <3>0, <2>5, <4>1, <4>2, <4>3, SMTT(60)
    <3> QED
      BY <1>7, <1>a, <3>1, <3>2, <3>3 DEF Assign, Unsubscribe, Register, Unregister, TypeOK, own
  <2> QED
    BY <1>b, <1>d, <2>2, <2>3, <2>4, <2>5
<1>8. CASE UNCHANGED vars
  <2>1. /\ total' = total /\ joined' = joined /\ subscribers' = subscribers
        /\ subscribed' = subscribed /\ pc' = pc /\ todo' = todo /\ commands' = commands
        /\ slots_for_census' = slots_for_census /\ global_pid' = global_pid
    BY <1>8 DEF vars, counters, own, census, registry, locals
  <2>2. \A v \in Workers : Owed(v)' = Owed(v) /\ Owed(v) \in Nat
    BY <1>a, <2>1 DEF Owed, TypeOK
  <2>3. Pending => Pending'
    BY <1>a, <2>1, <2>2, OwedStays DEF Pending, Disturbed
  <2>4. Excess' => Excess
    BY <2>1
  <2>5. ASSUME NEW c \in Channels, ExcessNext(c) PROVE ExcessIn(c)
    BY <2>1, <2>5
  <2>6. ASSUME NEW c \in Channels, Waiting(c)
        PROVE  Pending' \/ \E w \in Workers : pc'[w] = "channels" /\ c \in todo'[w]
    BY <2>1, <2>3, <2>6
  <2> HIDE DEF Excess, ExcessIn, Waiting, ExcessNext
  <2> QED
    BY <1>b, <1>d, <2>3, <2>4, <2>5, <2>6
<1> QED
  BY <1>1, <1>2, <1>3, <1>4, <1>5, <1>6, <1>7, <1>8 DEF Next, Work

----------------------------------------------------------------------------
(* The theorems                                                            *)

(* Nobody is there at first.                                               *)
LEMMA InitIInv == Init => IInv /\ CensusInv
<1> SUFFICES ASSUME Init PROVE IInv /\ CensusInv
  OBVIOUS
<1> USE DEF Init
<1>1. TypeOK
  BY ConstantsAssumption DEF TypeOK, Labels, Modulus
<1>2. MutexInv /\ OwnInv /\ RegistryInv
  BY ConstantsAssumption DEF MutexInv, OwnInv, RegistryInv
<1>3. JoinedInv
  <2> SUFFICES ASSUME NEW w \in Workers
               PROVE  joined[w] = SumOver(SubscriptionsOf(w), Channels) + 0
    BY DEF JoinedInv, Without
  <2>1. \A c \in Channels : SubscriptionsOf(w)[c] = 0
    BY DEF SubscriptionsOf
  <2>2. SumOver(SubscriptionsOf(w), Channels) = 0
    BY <2>1, SumConstant, ConstantsAssumption
  <2> QED
    BY <2>2
<1>4. NeverUndercounted
  <2> SUFFICES ASSUME NEW c \in Channels PROVE subscribers[c] >= SumOver(subscribed[c], Workers)
    BY Sums DEF NeverUndercounted
  <2>1. \A w \in Workers : subscribed[c][w] = 0
    OBVIOUS
  <2>2. SumOver(subscribed[c], Workers) = 0
    BY <2>1, SumConstant, ConstantsAssumption
  <2> QED
    BY <2>2
<1>5. CensusInv
  <2>1. SumOver(joined, Workers) \in Nat
    BY SumType, ConstantsAssumption
  <2>2. ASSUME NEW c \in Channels PROVE SumOver(subscribed[c], Workers) \in Nat
    <3>1. \A w \in Workers : subscribed[c][w] \in Nat
      OBVIOUS
    <3> QED
      BY <3>1, SumType, ConstantsAssumption
  <2>3. total = 0 /\ \A c \in Channels : subscribers[c] = 0
    OBVIOUS
  <2> HIDE DEF Init
  <2> QED
    BY <2>1, <2>2, <2>3 DEF CensusInv
<1> QED
  BY <1>1, <1>2, <1>3, <1>4, <1>5 DEF IInv

(* The invariant, by its parts.                                            *)
LEMMA Invariance == Spec => [](IInv /\ CensusInv)
<1>1. IInv /\ CensusInv /\ [Next]_vars => (IInv /\ CensusInv)'
  <2> SUFFICES ASSUME IInv, CensusInv, [Next]_vars PROVE IInv' /\ CensusInv'
    OBVIOUS
  <2>1. TypeOK' /\ MutexInv' /\ OwnInv' /\ RegistryInv'
    BY TypePreserved, MutexPreserved, OwnPreserved, RegistryPreserved DEF IInv
  <2>2. JoinedInv' /\ NeverUndercounted'
    BY <2>1, JoinedPreserved, UndercountPreserved DEF IInv
  <2>3. IInv'
    BY <2>1, <2>2 DEF IInv
  <2> QED
    BY <2>3, CensusPreserved
<1> QED
  BY <1>1, InitIInv, PTL DEF Spec

(* All variables have their types: no counter goes below zero, and what is *)
(* awaited fits in its word.                                               *)
THEOREM TypeCorrect == Spec => []TypeOK
<1>1. IInv => TypeOK
  BY DEF IInv
<1> QED
  BY <1>1, Invariance, PTL

(* A channel with subscribers is never taken for an empty one: what        *)
(* register, unregister and the census of other workers do to the counter  *)
(* leaves it at least at what is there.                                    *)
THEOREM NeverTooFew == Spec => []NeverUndercounted
<1>1. IInv => NeverUndercounted
  BY DEF IInv
<1> QED
  BY <1>1, Invariance, PTL

(* When the questions of all censuses have been answered, no channel and   *)
(* no zone counts a subscriber of a worker that died or stopped.           *)
THEOREM ExactAfterCensus == Spec => []CountsExact
<1>1. ASSUME IInv, CensusInv PROVE CountsExact
  <2>1. TypeOK /\ OwnInv /\ NeverUndercounted
    BY <1>1 DEF IInv
  <2>2. WorkerCountsExact
    <3> SUFFICES ASSUME NEW w \in Workers, pc[w] = "idle"
                 PROVE  /\ worker_count[w] = joined[w]
                        /\ \A c \in Channels : sentinel[c][w] = subscribed[c][w]
      BY DEF WorkerCountsExact
    <3>1. joined[w] \in Nat
      BY <2>1, ConstantsAssumption DEF TypeOK
    <3> QED
      BY <2>1, <3>1 DEF OwnInv
  <2>3. ASSUME AtRest
        PROVE  /\ \A c \in Channels : subscribers[c] = SumOver(subscribed[c], Workers)
               /\ total <= SumOver(joined, Workers)
    <3>1. \A w \in Workers : OwedByAll[w] = 0
      BY <2>1, <2>3 DEF AtRest, OwedByAll, Owed, TypeOK
    <3>2. SumOver(OwedByAll, Workers) = 0
      BY <3>1, SumConstant, ConstantsAssumption
    <3>3. slots_for_census \in Nat
      BY <2>1 DEF TypeOK, Modulus
    <3>4. ~Pending /\ ~\E w \in Workers : pc[w] = "channels"
      BY <2>3, <3>2, <3>3 DEF AtRest, Pending, Disturbed, CensusUnderWay
    <3>5. ASSUME NEW c \in Channels PROVE subscribers[c] = SumOver(subscribed[c], Workers)
      <4>1. subscribers[c] >= SumOver(subscribed[c], Workers)
        BY <2>1, Sums DEF NeverUndercounted
      <4>2. ~(subscribers[c] > SumOver(subscribed[c], Workers))
        BY <1>1, <3>4 DEF CensusInv
      <4>3. SumOver(subscribed[c], Workers) \in Nat /\ subscribers[c] \in Nat
        <5>1. \A w \in Workers : subscribed[c][w] \in Nat
          BY <2>1 DEF TypeOK
        <5> QED
          BY <2>1, <5>1, SumType, ConstantsAssumption DEF TypeOK
      <4> QED
        BY <4>1, <4>2, <4>3
    <3>6. total <= SumOver(joined, Workers)
      <4>1. \A w \in Workers : joined[w] \in Nat
        BY <2>1, ConstantsAssumption DEF TypeOK
      <4>2. SumOver(joined, Workers) \in Nat /\ total \in Nat
        BY <2>1, <4>1, SumType, ConstantsAssumption DEF TypeOK
      <4>3. ~(total > SumOver(joined, Workers))
        BY <1>1, <3>4 DEF CensusInv
      <4> QED
        BY <4>2, <4>3
    <3> QED
      BY <3>5, <3>6
  <2> QED
    BY <2>2, <2>3, Sums DEF CountsExact, ExactAtRest
<1> QED
  BY <1>1, Invariance, PTL
=============================================================================
