--------------------------- MODULE ConnectionProofs ---------------------------
(***************************************************************************)
(* Proofs about Connection, for any requests, channels and times: nothing  *)
(* that the worker keeps outlives the request it is for. A request that    *)
(* names a channel twice has two subscriptions side by side in a list, and *)
(* the walk of respond_to_subscribers may stand on the second when both    *)
(* go; this is proved to be the only way in which a walk leaves its list,  *)
(* and what is proved of the rest holds up to then.                        *)
(***************************************************************************)
EXTENDS Connection, FiniteSetTheorems, SequenceTheorems, WellFoundedInduction, TLAPS

----------------------------------------------------------------------------
(* The inductive invariant.                                                *)

(* A subscriber is in the list of the worker for as long as it is in the   *)
(* context of its request; long polls are not pinged.                      *)
KeptInv ==
  \A r \in Requests :
    /\ request[r].subscriber <=> r \in ToSet(subscribers_queue)
    /\ request[r].phase = "kept" => request[r].subscriber
    /\ Mode[r] = "long poll" => request[r].ping = Off

(* A subscription is in the list of its channel.                           *)
PlacesInv ==
  \A c \in Channels : \A s \in ToSet(sentinel[c]) : Wanted[s[1]][s[2]] = c

(* What is known of the requests and of the lists of the worker, whatever  *)
(* handler runs.                                                           *)
RequestsInv ==
  /\ request \in [Requests -> Contexts]
  /\ subscribers_queue \in Seq(Requests)
  /\ subscribers \in Nat
  /\ sentinel \in [Channels -> Seq(AllSubscriptions)]
  /\ TimersAreLive
  /\ KeptInv
  /\ NoGhosts
  /\ PlacesInv
  /\ NeverOvercounted

(* A walk about a message has its message in the queue.                    *)
WalkInv == OnlyDoublesAreLost /\ (walk.list = "respond" => messages_queue # <<>>)

(* Nothing was written to a request that is not open yet.                  *)
UnansweredInv ==
  /\ KeptIsUnanswered
  /\ \A r \in Requests : request[r].phase = "new" => sent[r] = <<>>

(* All of it.                                                              *)
IInv ==
  /\ TypeOK
  /\ RequestsInv
  /\ WalkInv
  /\ UnansweredInv

----------------------------------------------------------------------------
(* What FlattenSeq computes. The recursive function that defines it exists: *)
(* a function on the first indices is extended by one, and "by induction"  *)
(* means here that the set of the indices where a claim fails has no least  *)
(* element.                                                                *)

(* A set of natural numbers has a least element.                           *)
LEMMA Smallest ==
  ASSUME NEW T \in SUBSET Nat, T # {}
  PROVE  \E x \in T : \A y \in T : x <= y
<1>1. PICK x \in T : \A y \in T : <<y, x>> \notin OpToRel(<, Nat)
  BY NatLessThanWellFounded, WFMin
<1>2. ASSUME NEW y \in T PROVE x <= y
  <2>1. ~(y < x)
    BY <1>1 DEF OpToRel
  <2> QED
    BY <2>1
<1> QED
  BY <1>2

(* Induction up to n, for a set P.                                         *)
LEMMA FiniteInduction ==
  ASSUME NEW n \in Nat, NEW P, 0 \in P, \A k \in 0..n - 1 : k \in P => k + 1 \in P
  PROVE  \A k \in 0..n : k \in P
<1> DEFINE Missing == {k \in 0..n : k \notin P}
<1> SUFFICES ASSUME Missing # {} PROVE FALSE
  OBVIOUS
<1>1. PICK k \in Missing : \A y \in Missing : k <= y
  <2>1. Missing \in SUBSET Nat
    OBVIOUS
  <2> HIDE DEF Missing
  <2> QED
    BY <2>1, Smallest
<1>2. k # 0 /\ k \in 0..n /\ k \notin P
  OBVIOUS
<1>3. k - 1 \in 0..n - 1 /\ k - 1 \notin Missing
  BY <1>1, <1>2
<1>4. k - 1 \in P /\ (k - 1) + 1 = k
  BY <1>2, <1>3
<1> QED
  BY <1>2, <1>3, <1>4

(* f gives the sequences that FlattenSeq builds up, one more at a time.    *)
IsFlattening(seqs, T, f) ==
  /\ f \in [1..Len(seqs) -> Seq(T)]
  /\ FlattenSeq(seqs) = f[Len(seqs)]
  /\ f[1] = seqs[1]
  /\ \A i \in 2..Len(seqs) : f[i] = f[i - 1] \o seqs[i]

(* The function that defines FlattenSeq exists.                            *)
LEMMA FlattenRecursion ==
  ASSUME NEW T, NEW seqs \in Seq(Seq(T)), Len(seqs) # 0
  PROVE  \E f : IsFlattening(seqs, T, f)
<1> DEFINE n == Len(seqs)
           Step(g, i) == IF i = 1 THEN seqs[i] ELSE g[i - 1] \o seqs[i]
           Flat(g, k) == g = [i \in 1..k |-> Step(g, i)]
           Good(k) == \E g \in [1..k -> Seq(T)] : Flat(g, k)
           flatten == CHOOSE g : g = [i \in 1..n |-> Step(g, i)]
<1>1. FlattenSeq(seqs) = flatten[n]
  BY DEF FlattenSeq
<1>2. n \in Nat \ {0} /\ \A i \in 1..n : seqs[i] \in Seq(T)
  OBVIOUS
<1> HIDE DEF n, Good
<1>3. Good(1)
  <2>1. Flat([i \in 1..1 |-> seqs[1]], 1)
    OBVIOUS
  <2>2. [i \in 1..1 |-> seqs[1]] \in [1..1 -> Seq(T)]
    BY <1>2
  <2> QED
    BY <2>1, <2>2 DEF Good
<1>4. ASSUME NEW k \in Nat \ {0}, k < n, Good(k) PROVE Good(k + 1)
  <2>1. PICK g \in [1..k -> Seq(T)] : Flat(g, k)
    BY <1>4 DEF Good
  <2> DEFINE h == [i \in 1..k + 1 |-> Step(g, i)]
  <2>2. ASSUME NEW i \in 1..k + 1 PROVE h[i] \in Seq(T) /\ Step(g, i) = Step(h, i)
    <3>1. i \in 1..n /\ (i # 1 => i - 1 \in 1..k /\ i - 1 \in 1..k + 1)
      BY <1>2, <1>4
    <3>2. i # 1 => g[i - 1] \in Seq(T) /\ g[i - 1] = Step(g, i - 1)
      BY <2>1, <3>1
    <3>3. i # 1 => h[i - 1] = Step(g, i - 1)
      BY <3>1
    <3>4. seqs[i] \in Seq(T)
      BY <1>2, <3>1
    <3>5. i # 1 => g[i - 1] = h[i - 1]
      BY <3>2, <3>3
    <3>6. h[i] = Step(g, i)
      OBVIOUS
    <3> HIDE DEF h
    <3> QED
      BY <3>2, <3>4, <3>5, <3>6
  <2>3. h \in [1..k + 1 -> Seq(T)]
    BY <2>2
  <2>4. Flat(h, k + 1)
    <3> HIDE DEF Step
    <3> QED BY <2>2
  <2> QED
    BY <2>3, <2>4 DEF Good
<1>5. ASSUME NEW k \in 1..n PROVE Good(k)
  <2> DEFINE T0 == {j \in 1..n : ~Good(j)}
  <2> SUFFICES ASSUME T0 # {} PROVE FALSE
    OBVIOUS
  <2>1. PICK j \in T0 : \A y \in T0 : j <= y
    <3>1. T0 \in SUBSET Nat
      OBVIOUS
    <3> HIDE DEF T0
    <3> QED
      BY <3>1, Smallest
  <2>2. j # 1 /\ j \in 1..n
    BY <1>3
  <2>3. j - 1 \in 1..n /\ j - 1 \notin T0
    BY <1>2, <2>1, <2>2
  <2>4. j - 1 \in Nat \ {0} /\ j - 1 < n /\ (j - 1) + 1 = j
    BY <1>2, <2>2
  <2>5. Good((j - 1) + 1)
    BY <1>4, <2>3, <2>4
  <2> QED
    BY <2>4, <2>5
<1>6. PICK g \in [1..n -> Seq(T)] : Flat(g, n)
  <2>1. Good(n)
    BY <1>2, <1>5
  <2> HIDE DEF Flat
  <2> QED
    BY <2>1 DEF Good
<1>7. Flat(flatten, n)
  <2> HIDE DEF Step
  <2> QED
    BY <1>6
<1> HIDE DEF flatten
<1>8. ASSUME NEW i \in 1..n PROVE flatten[i] = Step(flatten, i)
  <2> HIDE DEF Step
  <2> QED
    BY <1>7
<1>9. ASSUME NEW i \in 1..n PROVE flatten[i] \in Seq(T)
  <2> DEFINE T0 == {j \in 1..n : flatten[j] \notin Seq(T)}
  <2> SUFFICES ASSUME T0 # {} PROVE FALSE
    OBVIOUS
  <2>1. PICK j \in T0 : \A y \in T0 : j <= y
    <3>1. T0 \in SUBSET Nat
      OBVIOUS
    <3> HIDE DEF T0
    <3> QED
      BY <3>1, Smallest
  <2>2. j \in 1..n /\ seqs[j] \in Seq(T) /\ flatten[j] = Step(flatten, j)
    BY <1>2, <1>8
  <2>3. j # 1
    BY <2>2
  <2>4. j - 1 \in 1..n /\ j - 1 \notin T0
    BY <1>2, <2>1, <2>2, <2>3, SMTT(60)
  <2>5. flatten[j - 1] \in Seq(T) /\ flatten[j] = flatten[j - 1] \o seqs[j]
    BY <2>2, <2>3, <2>4
  <2>6. flatten[j] \in Seq(T)
    BY <2>2, <2>5
  <2> QED
    BY <2>6
<1>10. flatten \in [1..n -> Seq(T)]
  <2> DEFINE F == [i \in 1..n |-> Step(flatten, i)]
  <2>1. flatten = F
    BY <1>7
  <2>2. \A i \in 1..n : Step(flatten, i) \in Seq(T)
    BY <1>8, <1>9
  <2>3. F \in [1..n -> Seq(T)]
    <3> HIDE DEF Step
    <3> QED
      BY <2>2
  <2> HIDE DEF F
  <2> QED
    BY <2>1, <2>3
<1>11. flatten[1] = seqs[1]
  <2>1. 1 \in 1..n
    BY <1>2
  <2>2. flatten[1] = Step(flatten, 1)
    <3> HIDE DEF Step
    <3> QED
      BY <1>8, <2>1
  <2> QED
    BY <2>2
<1>12. ASSUME NEW i \in 2..n PROVE flatten[i] = flatten[i - 1] \o seqs[i]
  <2>1. i \in 1..n /\ i # 1
    BY <1>2
  <2>2. flatten[i] = Step(flatten, i)
    <3> HIDE DEF Step
    <3> QED
      BY <1>8, <2>1
  <2> QED
    BY <2>1, <2>2
<1> QED
  BY <1>1, <1>10, <1>11, <1>12 DEF IsFlattening, n

(* FlattenSeq joins sequences over T to one.                               *)
LEMMA FlattenType ==
  ASSUME NEW T, NEW seqs \in Seq(Seq(T))
  PROVE  FlattenSeq(seqs) \in Seq(T)
<1>1. CASE Len(seqs) = 0
  BY <1>1 DEF FlattenSeq
<1>2. CASE Len(seqs) # 0
  <2>1. PICK f : IsFlattening(seqs, T, f)
    BY <1>2, FlattenRecursion
  <2> QED
    BY <1>2, <2>1 DEF IsFlattening
<1> QED
  BY <1>1, <1>2

(* The list s without the elements of S.                                   *)
Omit(s, S) == FlattenSeq([k \in DOMAIN s |-> IF s[k] \in S THEN <<>> ELSE <<s[k]>>])

(* f[i] is what is left of the first i elements of s without those in S.   *)
IsSelection(s, S, T, f) ==
  /\ f \in [0..Len(s) -> Seq(T)]
  /\ Omit(s, S) = f[Len(s)]
  /\ f[0] = <<>>
  /\ \A i \in 1..Len(s) : f[i] = IF s[i] \in S THEN f[i - 1] ELSE Append(f[i - 1], s[i])

(* A function that selects.                                                *)
LEMMA SelectionExists ==
  ASSUME NEW T, NEW s \in Seq(T), NEW S
  PROVE  \E f : IsSelection(s, S, T, f)
<1> DEFINE Kept(k) == IF s[k] \in S THEN <<>> ELSE <<s[k]>>
           kept == [k \in DOMAIN s |-> Kept(k)]
<1>1. Omit(s, S) = FlattenSeq(kept)
  BY DEF Omit
<1>2. \A k \in 1..Len(s) : Kept(k) \in Seq(T)
  OBVIOUS
<1>3. kept \in Seq(Seq(T)) /\ Len(kept) = Len(s) /\ \A k \in 1..Len(s) : kept[k] = Kept(k)
  <2> HIDE DEF Kept
  <2> QED
    BY <1>2, SMTT(60)
<1>4. CASE Len(s) = 0
  <2> DEFINE f == [i \in 0..0 |-> <<>>]
  <2>1. Omit(s, S) = <<>>
    <3> HIDE DEF kept
    <3> QED
      BY <1>1, <1>3, <1>4 DEF FlattenSeq
  <2>2. f \in [0..Len(s) -> Seq(T)] /\ f[0] = <<>> /\ f[Len(s)] = <<>>
    BY <1>4
  <2> HIDE DEF f
  <2>3. IsSelection(s, S, T, f)
    BY <1>4, <2>1, <2>2 DEF IsSelection
  <2> QED
    BY <2>3
<1>5. CASE Len(s) # 0
  <2> HIDE DEF kept
  <2>1. PICK g : IsFlattening(kept, T, g)
    BY <1>3, <1>5, FlattenRecursion
  <2>2. /\ g \in [1..Len(s) -> Seq(T)]
        /\ Omit(s, S) = g[Len(s)]
        /\ g[1] = kept[1]
        /\ \A i \in 2..Len(s) : g[i] = g[i - 1] \o kept[i]
    BY <1>1, <1>3, <2>1 DEF IsFlattening
  <2> DEFINE f == [i \in 0..Len(s) |-> IF i = 0 THEN <<>> ELSE g[i]]
  <2>3. f \in [0..Len(s) -> Seq(T)] /\ f[0] = <<>> /\ \A i \in 1..Len(s) : f[i] = g[i]
    BY <2>2
  <2> HIDE DEF f
  <2>4. f[Len(s)] = Omit(s, S)
    BY <1>5, <2>2, <2>3
  <2>5. ASSUME NEW i \in 1..Len(s)
        PROVE  f[i] = IF s[i] \in S THEN f[i - 1] ELSE Append(f[i - 1], s[i])
    <3>1. /\ f[i] = g[i] /\ f[i - 1] \in Seq(T) /\ s[i] \in T
          /\ kept[i] = Kept(i) /\ kept[i] \in Seq(T)
      <4>1. i - 1 \in 0..Len(s) /\ i \in 0..Len(s)
        OBVIOUS
      <4>2. kept[i] = Kept(i) /\ kept[i] \in Seq(T)
        <5> HIDE DEF Kept
        <5> QED
          BY <1>3
      <4>3. f[i] = g[i] /\ f[i - 1] \in Seq(T) /\ s[i] \in T
        BY <2>3, <4>1
      <4> QED
        BY <4>2, <4>3
    <3>2. g[i] = f[i - 1] \o kept[i]
      <4>1. CASE i = 1
        <5>1. f[i - 1] = <<>> /\ g[i] = kept[i]
          BY <2>2, <2>3, <4>1
        <5>2. <<>> \o kept[i] = kept[i]
          BY <3>1, ConcatEmptySeq
        <5> QED
          BY <5>1, <5>2
      <4>2. CASE i # 1
        <5>1. i \in 2..Len(s) /\ i - 1 \in 1..Len(s)
          BY <4>2
        <5> QED
          BY <2>2, <2>3, <5>1
      <4> QED
        BY <4>1, <4>2
    <3>3. f[i - 1] \o <<>> = f[i - 1] /\ f[i - 1] \o <<s[i]>> = Append(f[i - 1], s[i])
      BY <3>1
    <3> QED
      BY <3>1, <3>2, <3>3
  <2>6. IsSelection(s, S, T, f)
    BY <2>3, <2>4, <2>5 DEF IsSelection
  <2> QED
    BY <2>6
<1> QED
  BY <1>4, <1>5

(* What Omit leaves  : the other elements, each as often as before.       *)
LEMMA OmitElements ==
  ASSUME NEW T, NEW s \in Seq(T), NEW S
  PROVE  /\ Omit(s, S) \in Seq(T)
         /\ ToSet(Omit(s, S)) = ToSet(s) \ S
         /\ IsInjective(s) => IsInjective(Omit(s, S))
<1>1. PICK f : IsSelection(s, S, T, f)
  BY SelectionExists
<1>2. /\ f \in [0..Len(s) -> Seq(T)]
      /\ Omit(s, S) = f[Len(s)]
      /\ f[0] = <<>>
      /\ \A i \in 1..Len(s) : f[i] = IF s[i] \in S THEN f[i - 1] ELSE Append(f[i - 1], s[i])
  BY <1>1 DEF IsSelection
<1> DEFINE Exact(i) ==
      /\ \A k \in 1..i : s[k] \notin S => \E j \in DOMAIN f[i] : f[i][j] = s[k]
      /\ \A j \in DOMAIN f[i] : \E k \in 1..i : s[k] \notin S /\ f[i][j] = s[k]
      /\ IsInjective(s) => IsInjective(f[i])
<1> DEFINE P == {i \in 0..Len(s) : Exact(i)}
<1>3. 0 \in P
  BY <1>2 DEF IsInjective
<1>4. ASSUME NEW i \in 0..Len(s) - 1, i \in P PROVE i + 1 \in P
  <2>1. /\ i + 1 \in 1..Len(s) /\ i \in 0..Len(s) /\ (i + 1) - 1 = i
        /\ f[i] \in Seq(T) /\ s[i + 1] \in T
    BY <1>2
  <2>2. Exact(i)
    BY <1>4
  <2>3. f[i + 1] = IF s[i + 1] \in S THEN f[i] ELSE Append(f[i], s[i + 1])
    BY <1>2, <2>1
  <2>4. \A k : k \in 1..i + 1 <=> k \in 1..i \/ k = i + 1
    BY <2>1
  <2>5. CASE s[i + 1] \in S
    <3>1. f[i + 1] = f[i]
      BY <2>3, <2>5
    <3>2. Exact(i + 1)
      BY <2>2, <2>4, <2>5, <3>1
    <3> QED
      BY <2>1, <3>2
  <2>6. CASE s[i + 1] \notin S
    <3> DEFINE t == f[i]
               u == f[i + 1]
               n == Len(t) + 1
    <3>1. /\ u = Append(t, s[i + 1]) /\ n \in DOMAIN u /\ u[n] = s[i + 1]
          /\ \A j \in DOMAIN t : j \in DOMAIN u /\ u[j] = t[j]
          /\ \A j \in DOMAIN u : j \in DOMAIN t \/ j = n
      BY <2>1, <2>3, <2>6
    <3> HIDE DEF t, u, n
    <3>2. /\ \A k \in 1..i : s[k] \notin S => \E j \in DOMAIN t : t[j] = s[k]
          /\ \A j \in DOMAIN t : \E k \in 1..i : s[k] \notin S /\ t[j] = s[k]
          /\ IsInjective(s) => IsInjective(t)
      BY <2>2 DEF t
    <3>3. \A k \in 1..i + 1 : s[k] \notin S => \E j \in DOMAIN u : u[j] = s[k]
      BY <2>4, <3>1, <3>2
    <3>4. ASSUME NEW j \in DOMAIN u PROVE \E k \in 1..i + 1 : s[k] \notin S /\ u[j] = s[k]
      <4>1. CASE j = n
        BY <2>1, <2>4, <2>6, <3>1, <4>1
      <4>2. CASE j \in DOMAIN t
        <5>1. PICK k \in 1..i : s[k] \notin S /\ t[j] = s[k]
          BY <3>2, <4>2
        <5> QED
          BY <2>4, <3>1, <4>2, <5>1
      <4> QED
        BY <3>1, <4>1, <4>2
    <3>5. ASSUME IsInjective(s) PROVE IsInjective(u)
      <4>1. \A j \in DOMAIN t : t[j] # s[i + 1]
        <5> SUFFICES ASSUME NEW j \in DOMAIN t, t[j] = s[i + 1] PROVE FALSE
          OBVIOUS
        <5>1. PICK k \in 1..i : t[j] = s[k]
          BY <3>2
        <5>2. k \in DOMAIN s /\ i + 1 \in DOMAIN s /\ k # i + 1
          BY <2>1
        <5> QED
          BY <3>5, <5>1, <5>2 DEF IsInjective
      <4>2. IsInjective(t)
        BY <3>2, <3>5
      <4> SUFFICES ASSUME NEW a \in DOMAIN u, NEW b \in DOMAIN u, u[a] = u[b] PROVE a = b
        BY DEF IsInjective
      <4> QED
        BY <3>1, <4>1, <4>2 DEF IsInjective
    <3>6. Exact(i + 1)
      BY <3>3, <3>4, <3>5 DEF u
    <3> QED
      BY <2>1, <3>6
  <2> QED
    BY <2>5, <2>6
<1>5. Len(s) \in 0..Len(s) /\ Len(s) \in Nat
  OBVIOUS
<1>6. Len(s) \in P
  <2> HIDE DEF P
  <2> QED
    BY <1>3, <1>4, <1>5, FiniteInduction
<1>7. Exact(Len(s)) /\ DOMAIN s = 1..Len(s)
  <2>1. DOMAIN s = 1..Len(s)
    OBVIOUS
  <2> HIDE DEF Exact
  <2>2. Exact(Len(s))
    BY <1>6
  <2> QED
    BY <2>1, <2>2
<1>8. ToSet(f[Len(s)]) = ToSet(s) \ S
  <2> DEFINE t == f[Len(s)]
             D == 1..Len(s)
  <2>1. /\ \A k \in D : s[k] \notin S => \E j \in DOMAIN t : t[j] = s[k]
        /\ \A j \in DOMAIN t : \E k \in D : s[k] \notin S /\ t[j] = s[k]
        /\ DOMAIN s = D
    BY <1>7
  <2> HIDE DEF t, D
  <2>2. ToSet(t) = ToSet(s) \ S
    BY <2>1 DEF ToSet
  <2> QED
    BY <2>2 DEF t
<1>9. f[Len(s)] \in Seq(T)
  BY <1>2, <1>5
<1> QED
  BY <1>2, <1>7, <1>8, <1>9

(* Taking one element out of a list that has it once, or not at all.       *)
LEMMA OmitLength ==
  ASSUME NEW T, NEW s \in Seq(T), NEW x, IsInjective(s)
  PROVE  Len(Omit(s, {x})) = IF x \in ToSet(s) THEN Len(s) - 1 ELSE Len(s)
<1>1. PICK f : IsSelection(s, {x}, T, f)
  BY SelectionExists
<1>2. /\ f \in [0..Len(s) -> Seq(T)]
      /\ Omit(s, {x}) = f[Len(s)]
      /\ f[0] = <<>>
      /\ \A i \in 1..Len(s) : f[i] = IF s[i] \in {x} THEN f[i - 1] ELSE Append(f[i - 1], s[i])
  BY <1>1 DEF IsSelection
<1> DEFINE Found(i) == \E k \in 1..i : s[k] = x
           Exact(i) == Len(f[i]) = IF Found(i) THEN i - 1 ELSE i
           P == {i \in 0..Len(s) : Exact(i)}
<1>3. 0 \in P
  BY <1>2
<1>4. ASSUME NEW i \in 0..Len(s) - 1, i \in P PROVE i + 1 \in P
  <2>1. /\ i + 1 \in 1..Len(s) /\ i \in 0..Len(s) /\ (i + 1) - 1 = i
        /\ f[i] \in Seq(T) /\ s[i + 1] \in T
    BY <1>2
  <2>2. Exact(i)
    BY <1>4
  <2>3. f[i + 1] = IF s[i + 1] = x THEN f[i] ELSE Append(f[i], s[i + 1])
    BY <1>2, <2>1
  <2>4. Found(i + 1) <=> Found(i) \/ s[i + 1] = x
    <3>1. \A k : k \in 1..i + 1 <=> k \in 1..i \/ k = i + 1
      BY <2>1
    <3> QED
      BY <3>1
  <2>5. ~(Found(i) /\ s[i + 1] = x)
    <3> SUFFICES ASSUME NEW k \in 1..i, s[k] = x, s[i + 1] = x PROVE FALSE
      OBVIOUS
    <3>1. k \in DOMAIN s /\ i + 1 \in DOMAIN s /\ k # i + 1
      BY <2>1
    <3> QED
      BY <3>1 DEF IsInjective
  <2> HIDE DEF Found
  <2>6. Exact(i + 1)
    <3>1. CASE s[i + 1] = x
      BY <2>1, <2>2, <2>3, <2>4, <2>5, <3>1
    <3>2. CASE s[i + 1] # x
      <4>1. Len(f[i + 1]) = Len(f[i]) + 1
        BY <2>1, <2>3, <3>2
      <4> QED
        BY <2>1, <2>2, <2>4, <4>1, <3>2
    <3> QED
      BY <3>1, <3>2
  <2> QED
    BY <2>1, <2>6
<1>5. Len(s) \in 0..Len(s) /\ Len(s) \in Nat
  OBVIOUS
<1>6. Len(s) \in P
  <2> HIDE DEF P
  <2> QED
    BY <1>3, <1>4, <1>5, FiniteInduction
<1>7. Found(Len(s)) <=> x \in ToSet(s)
  BY DEF ToSet
<1> HIDE DEF Found
<1> QED
  BY <1>2, <1>6, <1>7

----------------------------------------------------------------------------
(* What ngx_queue_remove leaves: the other elements, each as often as      *)
(* before.                                                                 *)
LEMMA WithoutElements ==
  ASSUME NEW T, NEW s \in Seq(T), NEW S
  PROVE  /\ Without(s, S) \in Seq(T)
         /\ ToSet(Without(s, S)) = ToSet(s) \ S
         /\ IsInjective(s) => IsInjective(Without(s, S))
<1>1. Without(s, S) = Omit(s, S)
  BY DEF Without, Omit
<1> QED
  BY <1>1, OmitElements

(* Taking one element out of a list that has it once, or not at all.       *)
LEMMA WithoutLength ==
  ASSUME NEW T, NEW s \in Seq(T), NEW x, IsInjective(s)
  PROVE  Len(Without(s, {x})) = IF x \in ToSet(s) THEN Len(s) - 1 ELSE Len(s)
<1>1. Without(s, {x}) = Omit(s, {x})
  BY DEF Without, Omit
<1> QED
  BY <1>1, OmitLength

(* SetToSeq lists a finite set, each element once.                         *)
LEMMA ListOfSet ==
  ASSUME NEW T, NEW S \in SUBSET T, IsFiniteSet(S)
  PROVE  /\ SetToSeq(S) \in Seq(T)
         /\ ToSet(SetToSeq(S)) \subseteq S
         /\ IsInjective(SetToSeq(S))
<1> DEFINE n == Cardinality(S)
<1>1. n \in Nat /\ ExistsBijection(1..n, S)
  BY FS_CardinalityType
<1> HIDE DEF n
<1>2. \E f \in [1..n -> S] : IsInjective(f)
  BY <1>1 DEF ExistsBijection, Bijection, Injection
<1>3. SetToSeq(S) \in [1..n -> S] /\ IsInjective(SetToSeq(S))
  BY <1>2 DEF SetToSeq, n
<1> QED
  BY <1>1, <1>3 DEF ToSet

(* A list that gets others at its end.                                     *)
LEMMA LongerList ==
  ASSUME NEW T, NEW s \in Seq(T), NEW t \in Seq(T),
         IsInjective(s), IsInjective(t), ToSet(s) \cap ToSet(t) = {}
  PROVE  IsInjective(s \o t) /\ ToSet(s \o t) = ToSet(s) \cup ToSet(t)
<1> DEFINE u == s \o t
<1>1. /\ Len(u) = Len(s) + Len(t) /\ Len(s) \in Nat /\ Len(t) \in Nat
      /\ u \in Seq(T)
      /\ \A i \in 1..Len(u) : u[i] = IF i <= Len(s) THEN s[i] ELSE t[i - Len(s)]
  BY ConcatProperties
<1>2. ASSUME NEW i \in DOMAIN u
      PROVE  \/ i \in DOMAIN s /\ u[i] = s[i] /\ u[i] \in ToSet(s)
             \/ i - Len(s) \in DOMAIN t /\ u[i] = t[i - Len(s)] /\ u[i] \in ToSet(t)
  BY <1>1 DEF ToSet
<1>3. ASSUME NEW i \in DOMAIN s PROVE i \in DOMAIN u /\ u[i] = s[i]
  BY <1>1
<1>4. ASSUME NEW i \in DOMAIN t PROVE i + Len(s) \in DOMAIN u /\ u[i + Len(s)] = t[i]
  BY <1>1
<1> HIDE DEF u
<1>5. ToSet(u) = ToSet(s) \cup ToSet(t)
  <2>1. ToSet(u) \subseteq ToSet(s) \cup ToSet(t)
    BY <1>2 DEF ToSet
  <2>2. ToSet(s) \subseteq ToSet(u)
    BY <1>3 DEF ToSet
  <2>3. ToSet(t) \subseteq ToSet(u)
    BY <1>4 DEF ToSet
  <2> QED
    BY <2>1, <2>2, <2>3
<1>6. IsInjective(u)
  <2> SUFFICES ASSUME NEW i \in DOMAIN u, NEW j \in DOMAIN u, u[i] = u[j] PROVE i = j
    BY DEF IsInjective
  <2>1. i \in Int /\ j \in Int
    BY <1>1
  <2>2. CASE u[i] \in ToSet(s)
    <3>1. i \in DOMAIN s /\ u[i] = s[i] /\ j \in DOMAIN s /\ u[j] = s[j]
      BY <1>2, <2>2
    <3> QED
      BY <3>1 DEF IsInjective
  <2>3. CASE u[i] \in ToSet(t)
    <3>1. /\ i - Len(s) \in DOMAIN t /\ u[i] = t[i - Len(s)]
          /\ j - Len(s) \in DOMAIN t /\ u[j] = t[j - Len(s)]
      BY <1>2, <2>3
    <3>2. i - Len(s) = j - Len(s)
      BY <3>1 DEF IsInjective
    <3> QED
      BY <1>1, <2>1, <3>2
  <2> QED
    BY <1>2, <2>2, <2>3
<1> QED
  BY <1>5, <1>6 DEF u

----------------------------------------------------------------------------
(* Writing to a client, and the end of a request.                          *)

(* Output that waits is under a timer; nothing is kept of what is over.    *)
Watched(q) == q.pending # {} => q.send # Off

Over(q) ==
  /\ q \in Contexts /\ Watched(q)
  /\ q.phase \in {"ended", "gone"}
  /\ ~q.subscriber /\ q.ping = Off /\ q.disconnect = Off

(* The times are numbers, and Off is none.                                 *)
LEMMA Times ==
  /\ PingInterval \in 0..PingInterval /\ PingInterval # Off
  /\ SendTimeout \in 0..SendTimeout /\ SendTimeout # Off
  /\ ConnectionTtl \in 0..ConnectionTtl /\ ConnectionTtl # Off
  /\ ObjectsTtl \in 0..ObjectsTtl /\ ObjectsTtl # Off
  /\ \A n \in Nat : n # Off
<1>1. /\ PingInterval \in Nat /\ SendTimeout \in Nat
      /\ ConnectionTtl \in Nat /\ ObjectsTtl \in Nat
  BY ConstantsAssumption DEF ConstantsAssumption
<1>2. ASSUME NEW n \in Nat PROVE n \in 0..n /\ n # Off
  <2>1. n \in Int /\ n \in 0..n
    OBVIOUS
  <2>2. Off \notin Int
    BY ConstantsAssumption DEF ConstantsAssumption
  <2> QED
    BY <2>1, <2>2
<1> QED
  BY <1>1, <1>2

(* Output that waits is under the watch of the timer for sending.          *)
LEMMA WrittenIsWatched ==
  ASSUME NEW q \in Contexts, Watched(q), NEW bufs \in SUBSET (Messages \cup {Text}),
         NEW w \in Written(q, bufs)
  PROVE  /\ w \in Contexts /\ Watched(w)
         /\ w.phase = q.phase /\ w.subscriber = q.subscriber
         /\ w.ping = q.ping /\ w.disconnect = q.disconnect
<1> USE Times DEF Contexts, Watched, Ticks
<1>1. w \in {q, [q EXCEPT !.pending = {}, !.send = Off],
             [q EXCEPT !.pending = @ \cup bufs, !.send = SendTimeout], [q EXCEPT !.error = TRUE]}
  BY DEF Written
<1>2. CASE w = q
  BY <1>2
<1>3. CASE w = [q EXCEPT !.pending = {}, !.send = Off]
  BY <1>3
<1>4. CASE w = [q EXCEPT !.pending = @ \cup bufs, !.send = SendTimeout]
  <2>1. SendTimeout \in 0..SendTimeout /\ SendTimeout # Off
    OBVIOUS
  <2>2. q.pending \cup bufs \in SUBSET (Messages \cup {Text})
    OBVIOUS
  <2> QED
    BY <1>4, <2>1, <2>2
<1>5. CASE w = [q EXCEPT !.error = TRUE]
  BY <1>5
<1> QED
  BY <1>1, <1>2, <1>3, <1>4, <1>5

(* What is freed, and what is finalized, is over.                          *)
LEMMA GoneIsOver ==
  ASSUME NEW q \in Contexts
  PROVE  Over(Gone(q))
BY DEF Over, Gone, Cleaned, Contexts, Watched, Ticks

(* Finalizing leaves a request over, ended or gone.                        *)
LEMMA FinalizedIsOver ==
  ASSUME NEW q \in Contexts, Watched(q), NEW w \in Finalized(q)
  PROVE  Over(w)
<1>1. PICK v \in Written(Cleaned(q), {Text}) :
        w = IF v.error \/ v.pending = {} THEN Gone(v) ELSE [v EXCEPT !.phase = "ended"]
  BY DEF Finalized
<1>2. /\ Cleaned(q) \in Contexts /\ Watched(Cleaned(q)) /\ ~Cleaned(q).subscriber
      /\ Cleaned(q).ping = Off /\ Cleaned(q).disconnect = Off
  BY DEF Cleaned, Contexts, Watched, Ticks
<1>3. /\ v \in Contexts /\ Watched(v) /\ ~v.subscriber /\ v.ping = Off /\ v.disconnect = Off
  BY <1>2, WrittenIsWatched
<1>4. Over(Gone(v))
  BY <1>3, GoneIsOver
<1>5. Over([v EXCEPT !.phase = "ended"])
  BY <1>3 DEF Over, Contexts, Watched
<1> QED
  BY <1>1, <1>4, <1>5

----------------------------------------------------------------------------
(* How a request ends, goes on, or begins, and what this does to the lists *)
(* of the worker.                                                          *)

(* The subscriptions of a request in a list are those that name it.        *)
LEMMA SubscriptionsOf ==
  ASSUME NEW r \in Requests, NEW s \in AllSubscriptions
  PROVE  s \in Subscriptions(r) <=> s[1] = r
BY DEF AllSubscriptions, Subscriptions, Subscription

(* A subscription is a request and a place among those it wants.           *)
LEMMA SubscriptionParts ==
  ASSUME NEW s \in AllSubscriptions
  PROVE  s[1] \in Requests /\ s[2] \in DOMAIN Wanted[s[1]] /\ s = <<s[1], s[2]>>
BY DEF AllSubscriptions, Subscriptions, Subscription

(* What Forget leaves in the lists.                                        *)
LEMMA ForgottenLists ==
  ASSUME RequestsInv, NEW r \in Requests, Forget(r)
  PROVE  /\ subscribers_queue' \in Seq(Requests)
         /\ ToSet(subscribers_queue') = ToSet(subscribers_queue) \ {r}
         /\ IsInjective(subscribers_queue')
         /\ sentinel' \in [Channels -> Seq(AllSubscriptions)]
         /\ \A c \in Channels :
              /\ ToSet(sentinel'[c]) = ToSet(sentinel[c]) \ Subscriptions(r)
              /\ IsInjective(sentinel'[c])
         /\ Len(subscribers_queue') =
              IF r \in ToSet(subscribers_queue) THEN Len(subscribers_queue) - 1
              ELSE Len(subscribers_queue)
<1>1. /\ subscribers_queue \in Seq(Requests) /\ IsInjective(subscribers_queue)
      /\ subscribers_queue' = Without(subscribers_queue, {r})
  BY DEF RequestsInv, NoGhosts, Forget
<1>2. ASSUME NEW c \in Channels
      PROVE  /\ sentinel[c] \in Seq(AllSubscriptions) /\ IsInjective(sentinel[c])
             /\ sentinel'[c] = Without(sentinel[c], Subscriptions(r))
  BY DEF RequestsInv, NoGhosts, Forget
<1>3. ASSUME NEW c \in Channels
      PROVE  /\ sentinel'[c] \in Seq(AllSubscriptions)
             /\ ToSet(sentinel'[c]) = ToSet(sentinel[c]) \ Subscriptions(r)
             /\ IsInjective(sentinel'[c])
  BY <1>2, WithoutElements
<1>4. sentinel' = [c \in Channels |-> sentinel'[c]]
  BY DEF Forget
<1>5. sentinel' \in [Channels -> Seq(AllSubscriptions)]
  BY <1>3, <1>4
<1> QED
  BY <1>1, <1>3, <1>5, WithoutElements, WithoutLength

(* A request that ends (its memory is gone, or waits for the client) takes *)
(* all that points to it along.                                            *)
LEMMA RequestEnds ==
  ASSUME RequestsInv, NEW r \in Requests, NEW w, Over(w), Become(r, w), Cleanup(r)
  PROVE  /\ RequestsInv'
         /\ \A c \in Channels :
              ToSet(sentinel'[c]) = ToSet(sentinel[c]) \ Subscriptions(r)
<1> USE DEF RequestsInv
<1>1. /\ request' \in [Requests -> Contexts] /\ request'[r] = w
      /\ \A q \in Requests : q # r => request'[q] = request[q]
  BY DEF Become, Over
<1>2. TimersAreLive'
  BY <1>1 DEF TimersAreLive, Over, Watched
<1>3. CASE ~request[r].subscriber
  <2>1. UNCHANGED lists
    BY <1>3 DEF Cleanup
  <2>2. r \notin ToSet(subscribers_queue)
    BY <1>3 DEF KeptInv
  <2>3. KeptInv'
    BY <1>1, <1>3, <2>1, <2>2 DEF KeptInv, Over, lists
  <2>4. NoGhosts'
    <3>1. \A q \in ToSet(subscribers_queue) : q \in Requests /\ q # r
      BY <2>2 DEF ToSet
    <3> QED
      BY <1>1, <2>1, <3>1 DEF NoGhosts, lists
  <2>5. PlacesInv' /\ NeverOvercounted'
    BY <2>1 DEF PlacesInv, NeverOvercounted, lists
  <2>6. ASSUME NEW c \in Channels PROVE ToSet(sentinel[c]) \cap Subscriptions(r) = {}
    <3> SUFFICES ASSUME NEW s \in ToSet(sentinel[c]), s \in Subscriptions(r) PROVE FALSE
      OBVIOUS
    <3>1. s \in AllSubscriptions
      BY DEF ToSet
    <3> QED
      BY <2>2, <3>1, SubscriptionsOf DEF NoGhosts
  <2> QED
    BY <1>1, <1>2, <2>1, <2>3, <2>4, <2>5, <2>6 DEF lists
<1>4. CASE request[r].subscriber
  <2>1. Forget(r)
    BY <1>4 DEF Cleanup
  <2>2. /\ subscribers_queue' \in Seq(Requests)
        /\ ToSet(subscribers_queue') = ToSet(subscribers_queue) \ {r}
        /\ IsInjective(subscribers_queue')
        /\ sentinel' \in [Channels -> Seq(AllSubscriptions)]
        /\ \A c \in Channels :
             /\ ToSet(sentinel'[c]) = ToSet(sentinel[c]) \ Subscriptions(r)
             /\ IsInjective(sentinel'[c])
    BY <2>1, ForgottenLists
  <2>3. r \in ToSet(subscribers_queue)
    BY <1>4 DEF KeptInv
  <2>4. /\ Len(subscribers_queue') = Len(subscribers_queue) - 1
        /\ Len(subscribers_queue') \in Nat /\ Len(subscribers_queue) \in Nat
    BY <2>1, <2>2, <2>3, ForgottenLists
  <2>5. subscribers' \in Nat /\ NeverOvercounted'
    BY <2>1, <2>4 DEF Forget, NeverOvercounted
  <2>6. KeptInv'
    BY <1>1, <2>2 DEF KeptInv, Over
  <2>7. PlacesInv'
    BY <2>2 DEF PlacesInv
  <2>8. NoGhosts'
    <3>1. ASSUME NEW c \in Channels, NEW s \in ToSet(sentinel'[c])
          PROVE  s[1] \in ToSet(subscribers_queue')
      <4>1. s \in ToSet(sentinel[c]) /\ s \notin Subscriptions(r)
        BY <2>2
      <4>2. s \in AllSubscriptions
        BY <4>1 DEF ToSet
      <4> QED
        BY <2>2, <4>1, <4>2, SubscriptionsOf DEF NoGhosts
    <3>2. \A q \in ToSet(subscribers_queue') : request'[q].phase = "kept"
      <4>1. \A q \in ToSet(subscribers_queue) : q \in Requests
        BY DEF ToSet
      <4> QED
        BY <1>1, <2>2, <4>1 DEF NoGhosts
    <3> QED
      BY <2>2, <3>1, <3>2 DEF NoGhosts
  <2> QED
    BY <1>1, <1>2, <2>2, <2>5, <2>6, <2>7, <2>8
<1> QED
  BY <1>3, <1>4

(* A request that goes on, in the phase that it has, perhaps with a        *)
(* subscription less.                                                      *)
LEMMA RequestGoesOn ==
  ASSUME RequestsInv, NEW r \in Requests, NEW w \in Contexts, Become(r, w),
         UNCHANGED <<subscribers_queue, subscribers>>,
         sentinel' \in [Channels -> Seq(AllSubscriptions)],
         \A c \in Channels :
           ToSet(sentinel'[c]) \subseteq ToSet(sentinel[c]) /\ IsInjective(sentinel'[c]),
         Watched(w), w.phase = request[r].phase, w.subscriber = request[r].subscriber,
         w.ping = Off <=> request[r].ping = Off,
         w.disconnect = Off <=> request[r].disconnect = Off
  PROVE  RequestsInv'
<1> USE DEF RequestsInv
<1>1. /\ request' \in [Requests -> Contexts] /\ request'[r] = w
      /\ \A q \in Requests : q # r => request'[q] = request[q]
  BY DEF Become
<1>2. TimersAreLive'
  BY <1>1 DEF TimersAreLive, Watched
<1>3. KeptInv'
  BY <1>1 DEF KeptInv
<1>4. NoGhosts'
  <2>1. \A q \in ToSet(subscribers_queue) : q \in Requests
    BY DEF ToSet
  <2>2. \A q \in ToSet(subscribers_queue') : request'[q].phase = "kept"
    BY <1>1, <2>1 DEF NoGhosts
  <2>3. ASSUME NEW c \in Channels, NEW s \in ToSet(sentinel'[c])
        PROVE  s[1] \in ToSet(subscribers_queue')
    BY DEF NoGhosts
  <2> QED
    BY <2>2, <2>3 DEF NoGhosts
<1>5. PlacesInv' /\ NeverOvercounted'
  BY DEF PlacesInv, NeverOvercounted
<1> QED
  BY <1>1, <1>2, <1>3, <1>4, <1>5

(* The lists are as they were.                                             *)
LEMMA SameLists ==
  ASSUME RequestsInv, UNCHANGED lists
  PROVE  /\ UNCHANGED <<subscribers_queue, subscribers>>
         /\ sentinel' \in [Channels -> Seq(AllSubscriptions)]
         /\ \A c \in Channels :
              ToSet(sentinel'[c]) \subseteq ToSet(sentinel[c]) /\ IsInjective(sentinel'[c])
BY DEF RequestsInv, NoGhosts, lists

(* A request has finitely many subscriptions.                              *)
LEMMA FewSubscriptions ==
  ASSUME NEW r \in Requests
  PROVE  IsFiniteSet(Subscriptions(r))
<1>1. Wanted[r] \in Seq(Channels)
  BY ConstantsAssumption DEF ConstantsAssumption
<1>2. DOMAIN Wanted[r] = 1..Len(Wanted[r]) /\ Len(Wanted[r]) \in Nat
  BY <1>1
<1>3. IsFiniteSet(DOMAIN Wanted[r])
  BY <1>2, FS_Interval
<1> DEFINE f == [i \in DOMAIN Wanted[r] |-> <<r, i>>]
<1>4. f \in Surjection(DOMAIN Wanted[r], Subscriptions(r))
  BY DEF Surjection, Subscriptions, Subscription
<1> HIDE DEF f
<1> QED
  BY <1>3, <1>4, FS_Surjection

(* A request that is kept comes to the end of the lists.                   *)
LEMMA RequestBegins ==
  ASSUME RequestsInv, NEW r \in Requests, request[r].phase = "new",
         NEW q \in Contexts, Watched(q),
         NEW subscribed \in SUBSET DOMAIN Wanted[r], Register(r, q, subscribed)
  PROVE  RequestsInv'
<1> USE DEF RequestsInv
<1> DEFINE w == Registered(r, q)
           X(c) == {Subscription(r, i) : i \in {j \in subscribed : Wanted[r][j] = c}}
<1>1. /\ w \in Contexts /\ Watched(w) /\ w.phase = "kept" /\ w.subscriber = TRUE
      /\ Mode[r] = "long poll" => w.ping = Off
  BY Times DEF Registered, Contexts, Watched, Ticks, Ttl
<1> HIDE DEF w
<1>2. /\ request' \in [Requests -> Contexts] /\ request'[r] = w
      /\ \A p \in Requests : p # r => request'[p] = request[p]
  BY <1>1 DEF Register, Become, w
<1>3. /\ subscribers_queue' = Append(subscribers_queue, r)
      /\ subscribers' = subscribers + 1
      /\ sentinel' = [c \in Channels |-> sentinel[c] \o SetToSeq(X(c))]
  BY DEF Register
<1>4. \A p \in ToSet(subscribers_queue) : p \in Requests /\ p # r /\ request[p].phase = "kept"
  BY DEF NoGhosts, ToSet
<1>5. /\ subscribers_queue' \in Seq(Requests) /\ IsInjective(subscribers_queue')
      /\ ToSet(subscribers_queue') = ToSet(subscribers_queue) \cup {r}
      /\ Len(subscribers_queue') = Len(subscribers_queue) + 1
  <2> DEFINE one == <<r>>
  <2>1. one \in Seq(Requests) /\ IsInjective(one) /\ ToSet(one) = {r}
    BY DEF IsInjective, ToSet
  <2>2. subscribers_queue' = subscribers_queue \o one
    BY <1>3, AppendIsConcat
  <2> HIDE DEF one
  <2>3. ToSet(subscribers_queue) \cap ToSet(one) = {} /\ IsInjective(subscribers_queue)
    BY <1>4, <2>1 DEF NoGhosts
  <2>4. subscribers_queue' \in Seq(Requests) /\ Len(subscribers_queue') = Len(subscribers_queue) + 1
    BY <1>3
  <2>5. /\ IsInjective(subscribers_queue \o one)
        /\ ToSet(subscribers_queue \o one) = ToSet(subscribers_queue) \cup ToSet(one)
    BY <2>1, <2>3, LongerList
  <2> QED
    BY <2>1, <2>2, <2>4, <2>5
<1>6. ASSUME NEW c \in Channels
      PROVE  /\ sentinel'[c] \in Seq(AllSubscriptions) /\ IsInjective(sentinel'[c])
             /\ ToSet(sentinel'[c]) \subseteq ToSet(sentinel[c]) \cup X(c)
  <2>1. X(c) \in SUBSET Subscriptions(r) /\ Subscriptions(r) \subseteq AllSubscriptions
    BY DEF Subscriptions, AllSubscriptions
  <2>2. IsFiniteSet(X(c))
    BY <2>1, FewSubscriptions, FS_Subset
  <2>3. sentinel'[c] = sentinel[c] \o SetToSeq(X(c))
    BY <1>3
  <2>4. sentinel[c] \in Seq(AllSubscriptions) /\ IsInjective(sentinel[c])
    BY DEF NoGhosts
  <2> HIDE DEF X
  <2>5. /\ SetToSeq(X(c)) \in Seq(AllSubscriptions) /\ IsInjective(SetToSeq(X(c)))
        /\ ToSet(SetToSeq(X(c))) \subseteq X(c)
    <3>1. X(c) \in SUBSET AllSubscriptions
      BY <2>1
    <3> QED
      BY <2>2, <3>1, ListOfSet
  <2>6. ToSet(sentinel[c]) \cap ToSet(SetToSeq(X(c))) = {}
    <3> SUFFICES ASSUME NEW s \in ToSet(sentinel[c]), s \in Subscriptions(r) PROVE FALSE
      BY <2>1, <2>5
    <3>1. s \in AllSubscriptions
      BY <2>1
    <3> QED
      BY <1>4, <3>1, SubscriptionsOf DEF NoGhosts
  <2>7. sentinel[c] \o SetToSeq(X(c)) \in Seq(AllSubscriptions)
    BY <2>4, <2>5, ConcatProperties
  <2>8. /\ IsInjective(sentinel[c] \o SetToSeq(X(c)))
        /\ ToSet(sentinel[c] \o SetToSeq(X(c))) = ToSet(sentinel[c]) \cup ToSet(SetToSeq(X(c)))
    BY <2>4, <2>5, <2>6, LongerList
  <2> QED
    BY <2>3, <2>5, <2>7, <2>8
<1>7. sentinel' \in [Channels -> Seq(AllSubscriptions)]
  <2>1. sentinel' = [c \in Channels |-> sentinel'[c]]
    <3> HIDE DEF X
    <3> QED
      BY <1>3
  <2> QED
    BY <1>6, <2>1
<1>8. TimersAreLive'
  BY <1>1, <1>2 DEF TimersAreLive, Watched
<1>9. KeptInv'
  BY <1>1, <1>2, <1>5 DEF KeptInv
<1>10. PlacesInv'
  <2> SUFFICES ASSUME NEW c \in Channels, NEW s \in ToSet(sentinel'[c]) PROVE Wanted[s[1]][s[2]] = c
    BY DEF PlacesInv
  <2>1. s \in X(c) => Wanted[s[1]][s[2]] = c
    BY DEF Subscription
  <2> HIDE DEF X
  <2> QED
    BY <1>6, <2>1 DEF PlacesInv
<1>11. NoGhosts'
  <2>1. ASSUME NEW c \in Channels, NEW s \in ToSet(sentinel'[c])
        PROVE  s[1] \in ToSet(subscribers_queue')
    <3>1. s \in X(c) => s[1] = r
      BY DEF Subscription
    <3> HIDE DEF X
    <3> QED
      BY <1>5, <1>6, <3>1 DEF NoGhosts
  <2>2. \A p \in ToSet(subscribers_queue') : request'[p].phase = "kept"
    BY <1>1, <1>2, <1>4, <1>5
  <2> QED
    BY <1>5, <1>6, <2>1, <2>2 DEF NoGhosts
<1>12. subscribers' \in Nat /\ NeverOvercounted'
  BY <1>3, <1>5 DEF NeverOvercounted
<1> HIDE DEF X
<1> QED
  BY <1>2, <1>5, <1>7, <1>8, <1>9, <1>10, <1>11, <1>12

(* The lists of stored messages are read one after the other.              *)
LEMMA OldMessagesType ==
  ASSUME TypeOK, NEW r \in Requests
  PROVE  OldMessages(r) \in Seq(Messages)
<1>1. Wanted[r] \in Seq(Channels) /\ stored \in [Channels -> Seq(Messages)]
  BY ConstantsAssumption DEF ConstantsAssumption, TypeOK
<1>2. DOMAIN Wanted[r] = 1..Len(Wanted[r]) /\ \A i \in DOMAIN Wanted[r] : Wanted[r][i] \in Channels
  BY <1>1
<1>3. \A i \in 1..Len(Wanted[r]) : stored[Wanted[r][i]] \in Seq(Messages)
  BY <1>1, <1>2
<1>4. [i \in 1..Len(Wanted[r]) |-> stored[Wanted[r][i]]] \in Seq(Seq(Messages))
  BY <1>1, <1>3, IsASeq
<1> QED
  BY <1>2, <1>4, FlattenType DEF OldMessages

----------------------------------------------------------------------------
(* The actions, and what they do to the requests.                          *)

(* The context of each request is one, and watched.                        *)
LEMMA ContextOf ==
  ASSUME RequestsInv, NEW r \in Requests
  PROVE  request[r] \in Contexts /\ Watched(request[r])
BY DEF RequestsInv, TimersAreLive, Watched

(* That of a new request, too.                                             *)
LEMMA NewContext == New \in Contexts /\ Watched(New)
BY DEF New, Contexts, Watched, Ticks

(* What a step does to a request other than ending it does not matter to   *)
(* the others.                                                             *)
OnlyOf(r) ==
  /\ \A p \in Requests : p # r => request'[p] = request[p] /\ sent'[p] = sent[p]
  /\ request'[r].phase = "new" => request[r].phase = "new" /\ sent'[r] = sent[r]

(* What the steps of a request leave of the unanswered ones.               *)
LEMMA OthersUnanswered ==
  ASSUME UnansweredInv, NEW r \in Requests, OnlyOf(r),
         request'[r].phase = "kept" /\ Mode[r] = "long poll"
           => sent'[r] = <<>> /\ request'[r].pending = {}
  PROVE  UnansweredInv'
BY DEF UnansweredInv, KeptIsUnanswered, OnlyOf

(* A request that the module finalizes leaves all lists.                   *)
LEMMA FinalizeEnds ==
  ASSUME RequestsInv, UnansweredInv, NEW r \in Requests,
         NEW q \in Contexts, Watched(q), Finalize(r, q),
         \A p \in Requests : p # r => sent'[p] = sent[p]
  PROVE  /\ RequestsInv' /\ UnansweredInv'
         /\ \A c \in Channels : ToSet(sentinel'[c]) = ToSet(sentinel[c]) \ Subscriptions(r)
<1>1. PICK w \in Finalized(q) : Become(r, w)
  BY DEF Finalize
<1>2. Over(w) /\ Cleanup(r)
  BY FinalizedIsOver DEF Finalize
<1>3. request'[r] = w /\ \A p \in Requests : p # r => request'[p] = request[p]
  BY <1>1 DEF Become, RequestsInv
<1>4. UnansweredInv'
  BY <1>2, <1>3, OthersUnanswered DEF Over, OnlyOf
<1> QED
  BY <1>1, <1>2, <1>4, RequestEnds

(* So does one that nginx frees at once.                                   *)
LEMMA TerminateEnds ==
  ASSUME RequestsInv, UnansweredInv, NEW r \in Requests, Terminate(r), UNCHANGED sent
  PROVE  RequestsInv' /\ UnansweredInv'
<1>1. Over(Gone(request[r])) /\ Cleanup(r) /\ Become(r, Gone(request[r]))
  BY ContextOf, GoneIsOver DEF Terminate
<1>2. /\ request'[r] = Gone(request[r])
      /\ \A p \in Requests : p # r => request'[p] = request[p]
  BY <1>1 DEF Become, RequestsInv
<1>3. UnansweredInv'
  BY <1>1, <1>2, OthersUnanswered DEF Over, OnlyOf
<1> QED
  BY <1>1, <1>3, RequestEnds

(* The messages that are written at a time.                                *)
LEMMA WrittenBuffers ==
  ASSUME NEW s \in Seq(Messages)
  PROVE  ToSet(s) \in SUBSET (Messages \cup {Text}) /\ {Text} \cup ToSet(s) \in SUBSET (Messages \cup {Text})
BY DEF ToSet

(* A request that arrives is refused, answered, or kept and listed.        *)
LEMMA ArrivalInv ==
  ASSUME TypeOK, RequestsInv, UnansweredInv, NEW r \in Requests, Arrival(r)
  PROVE  RequestsInv' /\ UnansweredInv'
<1> USE DEF RequestsInv
<1>0. /\ request[r].phase = "new" /\ ~request[r].subscriber /\ sent[r] = <<>>
  BY DEF Arrival, Refuse, Poll, LongPoll, OpenStream, StreamFails,
         AssignmentFails, Openable, UnansweredInv, TimersAreLive
<1>1. sent \in [Requests -> Seq(Messages)]
  BY DEF TypeOK
<1>2. \A old : sent' = [sent EXCEPT ![r] = @ \o old] => \A p \in Requests : p # r => sent'[p] = sent[p]
  BY <1>1
<1>3. Over(Gone(New))
  BY NewContext, GoneIsOver
<1>4. <<>> \in Seq(Messages) /\ OldMessages(r) \in Seq(Messages)
  BY OldMessagesType
<1>5. ASSUME Refuse(r) PROVE RequestsInv' /\ UnansweredInv'
  <2>1. Become(r, Gone(New)) /\ Cleanup(r) /\ UNCHANGED sent
    BY <1>0, <1>5 DEF Refuse, Cleanup
  <2>2. request'[r] = Gone(New) /\ \A p \in Requests : p # r => request'[p] = request[p]
    BY <2>1 DEF Become
  <2>3. UnansweredInv'
    BY <1>3, <2>1, <2>2, OthersUnanswered DEF Over, OnlyOf
  <2> QED
    BY <1>3, <2>1, <2>3, RequestEnds
<1>6. ASSUME Poll(r) PROVE RequestsInv' /\ UnansweredInv'
  <2>1. PICK old \in {<<>>, OldMessages(r)} :
          /\ \E q \in Written(New, ToSet(old)) : Finalize(r, q)
          /\ sent' = [sent EXCEPT ![r] = @ \o old]
    BY <1>6 DEF Poll
  <2>2. old \in Seq(Messages)
    BY <1>4, <2>1
  <2>3. PICK q \in Written(New, ToSet(old)) : Finalize(r, q)
    BY <2>1
  <2>4. q \in Contexts /\ Watched(q)
    BY <2>2, NewContext, WrittenBuffers, WrittenIsWatched
  <2> QED
    BY <1>2, <2>1, <2>3, <2>4, FinalizeEnds
<1>7. ASSUME LongPoll(r) PROVE RequestsInv' /\ UnansweredInv'
  <2>1. PICK subscribed \in SUBSET DOMAIN Wanted[r] : Register(r, New, subscribed)
    BY <1>7 DEF LongPoll
  <2>2. RequestsInv'
    BY <1>0, <2>1, NewContext, RequestBegins
  <2>3. /\ request'[r] = Registered(r, New)
        /\ \A p \in Requests : p # r => request'[p] = request[p]
    BY <2>1 DEF Register, Become
  <2>4. request'[r].phase = "kept" /\ request'[r].pending = {}
    BY <2>3 DEF Registered, New
  <2>5. UNCHANGED sent
    BY <1>7 DEF LongPoll
  <2> QED
    BY <1>0, <2>2, <2>3, <2>4, <2>5, OthersUnanswered DEF OnlyOf
<1>8. ASSUME OpenStream(r) PROVE RequestsInv' /\ UnansweredInv'
  <2>1. PICK old \in {<<>>, OldMessages(r)} :
          /\ \E q \in Written(New, {Text} \cup ToSet(old)) : Register(r, q, DOMAIN Wanted[r])
          /\ sent' = [sent EXCEPT ![r] = @ \o old]
    BY <1>8 DEF OpenStream
  <2>2. old \in Seq(Messages)
    BY <1>4, <2>1
  <2>3. PICK q \in Written(New, {Text} \cup ToSet(old)) : Register(r, q, DOMAIN Wanted[r])
    BY <2>1
  <2>4. q \in Contexts /\ Watched(q)
    BY <2>2, NewContext, WrittenBuffers, WrittenIsWatched
  <2>5. RequestsInv'
    BY <1>0, <2>3, <2>4, RequestBegins
  <2>6. /\ request'[r] = Registered(r, q)
        /\ \A p \in Requests : p # r => request'[p] = request[p]
    BY <2>3 DEF Register, Become
  <2>7. request'[r].phase = "kept" /\ Mode[r] = "stream"
    BY <1>8, <2>4, <2>6 DEF Registered, Contexts, OpenStream
  <2> QED
    BY <1>2, <2>1, <2>5, <2>6, <2>7, OthersUnanswered DEF OnlyOf
<1>9. ASSUME StreamFails(r) PROVE RequestsInv' /\ UnansweredInv'
  <2>1. Forget(r) /\ Become(r, Gone(New)) /\ UNCHANGED sent /\ MayFail
    BY <1>9 DEF StreamFails
  <2>2. /\ request' \in [Requests -> Contexts] /\ request'[r] = Gone(New)
        /\ \A p \in Requests : p # r => request'[p] = request[p]
    BY <1>3, <2>1 DEF Become, Over
  <2>3. UnansweredInv'
    BY <1>3, <2>1, <2>2, OthersUnanswered DEF Over, OnlyOf
  <2>4. r \notin ToSet(subscribers_queue)
    BY <1>0 DEF KeptInv
  <2>5. /\ subscribers_queue' \in Seq(Requests)
        /\ ToSet(subscribers_queue') = ToSet(subscribers_queue)
        /\ IsInjective(subscribers_queue')
        /\ Len(subscribers_queue') = Len(subscribers_queue)
        /\ sentinel' \in [Channels -> Seq(AllSubscriptions)]
        /\ \A c \in Channels :
              ToSet(sentinel'[c]) \subseteq ToSet(sentinel[c]) /\ IsInjective(sentinel'[c])
    <3>1. ToSet(subscribers_queue) \ {r} = ToSet(subscribers_queue)
      BY <2>4
    <3>2. \A c \in Channels : ToSet(sentinel[c]) \ Subscriptions(r) \subseteq ToSet(sentinel[c])
      OBVIOUS
    <3> QED
      BY <2>1, <2>4, <3>1, <3>2, ForgottenLists
  <2>6. TimersAreLive'
    BY <1>3, <2>2 DEF TimersAreLive, Over, Watched
  <2>7. KeptInv'
    BY <1>3, <2>2, <2>4, <2>5 DEF KeptInv, Over
  <2>8. NoGhosts'
    <3>1. \A p \in ToSet(subscribers_queue) : p \in Requests /\ p # r
      BY <2>4 DEF ToSet
    <3>2. \A p \in ToSet(subscribers_queue') : request'[p].phase = "kept"
      BY <2>2, <2>5, <3>1 DEF NoGhosts
    <3>3. ASSUME NEW c \in Channels, NEW s \in ToSet(sentinel'[c])
          PROVE  s[1] \in ToSet(subscribers_queue')
      BY <2>5 DEF NoGhosts
    <3> QED
      BY <2>5, <3>2, <3>3 DEF NoGhosts
  <2>9. PlacesInv'
    BY <2>5 DEF PlacesInv
  <2>10. subscribers' \in Nat /\ NeverOvercounted'
    BY <2>1, <2>5 DEF Forget, NeverOvercounted
  <2> QED
    BY <2>2, <2>3, <2>5, <2>6, <2>7, <2>8, <2>9, <2>10
<1>10. ASSUME AssignmentFails(r) PROVE RequestsInv' /\ UnansweredInv'
  <2>1. PICK n \in 0..Len(OldMessages(r)) :
          sent' = [sent EXCEPT ![r] = @ \o SubSeq(OldMessages(r), 1, n)]
    BY <1>10 DEF AssignmentFails
  <2>2. Become(r, Gone(New)) /\ Cleanup(r)
    BY <1>0, <1>10 DEF AssignmentFails, Cleanup
  <2>3. request'[r] = Gone(New) /\ \A p \in Requests : p # r => request'[p] = request[p]
    BY <2>2 DEF Become
  <2>4. UnansweredInv'
    BY <1>2, <1>3, <2>1, <2>3, OthersUnanswered DEF Over, OnlyOf
  <2> QED
    BY <1>3, <2>2, <2>4, RequestEnds
<1> QED
  BY <1>5, <1>6, <1>7, <1>8, <1>9, <1>10 DEF Arrival

(* The timers of a connection, and what its client does.                   *)
LEMMA EventInv ==
  ASSUME TypeOK, RequestsInv, UnansweredInv, NEW r \in Requests, Timer(r) \/ Client(r)
  PROVE  RequestsInv' /\ UnansweredInv'
<1>1. request[r] \in Contexts /\ Watched(request[r])
  BY ContextOf
<1>2. UNCHANGED sent
  BY DEF Timer, Client, PingTimer, DisconnectTimer, SendTimer, FlushPendingOutput, ClientCloses
<1>3. \A w : Become(r, w) =>
        /\ request'[r] = w
        /\ \A p \in Requests : p # r => request'[p] = request[p]
  BY DEF Become, RequestsInv
<1>4. ASSUME PingTimer(r) PROVE RequestsInv' /\ UnansweredInv'
  <2>1. PICK q \in Written(request[r], {Text}) :
          IF q.error THEN Finalize(r, q)
          ELSE Become(r, [q EXCEPT !.ping = PingInterval]) /\ UNCHANGED lists
    BY <1>4 DEF PingTimer
  <2>2. /\ q \in Contexts /\ Watched(q) /\ q.phase = request[r].phase
        /\ q.subscriber = request[r].subscriber /\ q.disconnect = request[r].disconnect
    BY <1>1, WrittenIsWatched
  <2>3. request[r].ping = 0 /\ request[r].ping # Off
    <3>1. Off # 0
      BY Times
    <3> QED
      BY <1>4, <3>1 DEF PingTimer
  <2>4. Mode[r] # "long poll" /\ request[r].phase = "kept"
    BY <2>3 DEF RequestsInv, KeptInv, TimersAreLive
  <2>5. CASE q.error
    BY <1>2, <2>1, <2>2, <2>5, FinalizeEnds
  <2>6. CASE ~q.error
    <3> DEFINE w == [q EXCEPT !.ping = PingInterval]
    <3>1. /\ w \in Contexts /\ Watched(w) /\ w.phase = request[r].phase
          /\ w.subscriber = request[r].subscriber /\ w.disconnect = request[r].disconnect
          /\ w.ping # Off
      <4>1. PingInterval \in Ticks(PingInterval) /\ PingInterval # Off
        BY Times DEF Ticks
      <4> QED
        BY <2>2, <4>1 DEF Contexts, Watched
    <3>2. Become(r, w) /\ UNCHANGED lists
      BY <2>1, <2>6
    <3> HIDE DEF w
    <3>3. RequestsInv'
      BY <2>3, <3>1, <3>2, SameLists, RequestGoesOn
    <3>4. UnansweredInv'
      BY <1>2, <1>3, <2>4, <3>1, <3>2, OthersUnanswered DEF OnlyOf
    <3> QED
      BY <3>3, <3>4
  <2> QED
    BY <2>5, <2>6
<1>5. ASSUME DisconnectTimer(r) PROVE RequestsInv' /\ UnansweredInv'
  BY <1>1, <1>2, <1>5, FinalizeEnds DEF DisconnectTimer
<1>6. ASSUME SendTimer(r) PROVE RequestsInv' /\ UnansweredInv'
  BY <1>2, <1>6, TerminateEnds DEF SendTimer
<1>7. ASSUME ClientCloses(r) PROVE RequestsInv' /\ UnansweredInv'
  BY <1>2, <1>7, TerminateEnds DEF ClientCloses
<1>8. ASSUME FlushPendingOutput(r) PROVE RequestsInv' /\ UnansweredInv'
  <2>1. PICK rest \in (SUBSET request[r].pending) \ {request[r].pending} :
          Become(r, IF rest # {} THEN [request[r] EXCEPT !.pending = rest, !.send = SendTimeout]
                    ELSE IF request[r].phase = "ended" THEN Gone(request[r])
                    ELSE [request[r] EXCEPT !.pending = {}, !.send = Off])
    BY <1>8 DEF FlushPendingOutput
  <2>2. UNCHANGED lists /\ request[r].pending # {}
    BY <1>8 DEF FlushPendingOutput
  <2>3. CASE rest = {} /\ request[r].phase = "ended"
    <3>1. Become(r, Gone(request[r]))
      BY <2>1, <2>3
    <3>2. Cleanup(r)
      BY <2>2, <2>3 DEF Cleanup, RequestsInv, TimersAreLive
    <3> QED
      BY <1>2, <3>1, <3>2, TerminateEnds DEF Terminate
  <2>4. CASE rest # {} \/ request[r].phase # "ended"
    <3>1. PICK w \in {[request[r] EXCEPT !.pending = rest, !.send = SendTimeout],
                      [request[r] EXCEPT !.pending = {}, !.send = Off]} : Become(r, w)
      BY <2>1, <2>4
    <3>2. /\ w \in Contexts /\ Watched(w) /\ w.phase = request[r].phase
          /\ w.subscriber = request[r].subscriber
          /\ w.disconnect = request[r].disconnect /\ w.ping = request[r].ping
      <4>1. CASE w = [request[r] EXCEPT !.pending = rest, !.send = SendTimeout]
        <5>1. rest \in SUBSET (Messages \cup {Text})
          BY <1>1 DEF Contexts
        <5> QED
          BY <1>1, <4>1, <5>1, Times DEF Contexts, Watched, Ticks
      <4>2. CASE w = [request[r] EXCEPT !.pending = {}, !.send = Off]
        BY <1>1, <4>2 DEF Contexts, Watched, Ticks
      <4> QED
        BY <3>1, <4>1, <4>2
    <3>3. RequestsInv'
      BY <2>2, <3>1, <3>2, SameLists, RequestGoesOn
    <3>4. ~(request[r].phase = "kept" /\ Mode[r] = "long poll")
      BY <2>2 DEF UnansweredInv, KeptIsUnanswered
    <3>5. /\ request'[r] = w
          /\ \A p \in Requests : p # r => request'[p] = request[p]
      BY <1>3, <3>1
    <3>6. UnansweredInv'
      BY <1>2, <3>2, <3>4, <3>5, OthersUnanswered DEF OnlyOf
    <3> QED
      BY <3>3, <3>6
  <2> QED
    BY <2>3, <2>4
<1> QED
  BY <1>4, <1>5, <1>6, <1>7, <1>8 DEF Timer, Client

----------------------------------------------------------------------------
(* The handlers that go through a list.                                    *)

(* The fields of a walk, and of one that goes on.                          *)
LEMMA WalkFields ==
  ASSUME walk \in Walks
  PROVE  /\ walk.list = "respond" =>
              /\ walk.channel \in Channels /\ walk.message \in Messages
              /\ walk.at # End => walk.at \in AllSubscriptions
              /\ \A at \in AllSubscriptions \cup {End} :
                   /\ [walk EXCEPT !.at = at] \in Walks
                   /\ [walk EXCEPT !.at = at].list = "respond"
                   /\ [walk EXCEPT !.at = at].channel = walk.channel
                   /\ [walk EXCEPT !.at = at].at = at
         /\ walk.list = "delete" => walk.channel \in Channels
         /\ Idle => walk.list = "none"
BY DEF Walks, Idle, NoWalk

(* The one that comes next in a list is another one.                       *)
LEMMA NextIsAnother ==
  ASSUME RequestsInv, NEW c \in Channels, NEW s \in ToSet(sentinel[c])
  PROVE  \/ NextOf(s, c) = End
         \/ NextOf(s, c) \in ToSet(sentinel[c]) /\ NextOf(s, c) # s
<1> DEFINE l == sentinel[c]
           at == CHOOSE k \in DOMAIN l : l[k] = s
<1>1. l \in Seq(AllSubscriptions) /\ IsInjective(l) /\ \E k \in DOMAIN l : l[k] = s
  BY DEF RequestsInv, NoGhosts, ToSet
<1>2. at \in DOMAIN l /\ l[at] = s
  BY <1>1
<1>3. NextOf(s, c) = IF at < Len(l) THEN l[at + 1] ELSE End
  BY DEF NextOf, After
<1> HIDE DEF at, l
<1>4. ASSUME at < Len(l) PROVE l[at + 1] \in ToSet(l) /\ l[at + 1] # s
  <2>1. DOMAIN l = 1..Len(l) /\ Len(l) \in Nat
    BY <1>1
  <2>2. at + 1 \in DOMAIN l /\ at + 1 # at
    BY <1>2, <1>4, <2>1
  <2> QED
    BY <1>1, <1>2, <2>2 DEF ToSet, IsInjective
<1> QED
  BY <1>3, <1>4 DEF l

(* A request that names the channel once has one subscription in it, so    *)
(* what comes next is not of the same request.                             *)
LEMMA NextIsOfAnother ==
  ASSUME RequestsInv, NEW c \in Channels,
         NEW s \in ToSet(sentinel[c]), NEW t \in ToSet(sentinel[c]), s # t
  PROVE  s[1] \in Requests /\ (t \notin Subscriptions(s[1]) \/ NamesTwice(t[1], c))
<1>1. s \in AllSubscriptions /\ t \in AllSubscriptions
  BY DEF RequestsInv, ToSet
<1>2. /\ s[1] \in Requests /\ s[2] \in DOMAIN Wanted[s[1]] /\ s = <<s[1], s[2]>>
      /\ t[1] \in Requests /\ t[2] \in DOMAIN Wanted[t[1]] /\ t = <<t[1], t[2]>>
  BY <1>1, SubscriptionParts
<1>3. Wanted[s[1]][s[2]] = c /\ Wanted[t[1]][t[2]] = c
  BY DEF RequestsInv, PlacesInv
<1>4. t[1] # s[1] \/ NamesTwice(t[1], c)
  <2> SUFFICES ASSUME t[1] = s[1] PROVE NamesTwice(t[1], c)
    OBVIOUS
  <2>1. t[2] # s[2]
    BY <1>2
  <2> QED
    BY <1>2, <1>3, <2>1 DEF NamesTwice
<1> QED
  BY <1>1, <1>2, <1>4, SubscriptionsOf

(* A message for one subscription: what may end here is its own request,   *)
(* and the walk goes on with a subscription of another one, or of one that *)
(* names the channel twice.                                                *)
LEMMA RespondInv ==
  ASSUME IInv, Respond
  PROVE  RequestsInv' /\ UnansweredInv' /\ WalkInv' /\ walk' \in Walks
<1> USE DEF IInv
<1> DEFINE c == walk.channel
           s == walk.at
           r == walk.at[1]
           next == NextOf(walk.at, walk.channel)
<1>1. /\ walk.list = "respond" /\ s # End /\ s \in AllSubscriptions
      /\ c \in Channels /\ walk.message \in Messages /\ walk \in Walks
  BY WalkFields DEF Respond, TypeOK
<1>2. s \in ToSet(sentinel[c]) /\ messages_queue # <<>>
  BY <1>1 DEF WalkInv, Respond
<1>3. r \in Requests
  BY <1>1, SubscriptionParts
<1>4. request[r] \in Contexts /\ Watched(request[r]) /\ request[r].phase = "kept"
  BY <1>1, <1>2, <1>3, ContextOf DEF RequestsInv, NoGhosts
<1>5. PICK w \in Written(request[r], {walk.message}) :
        IF Mode[r] = "long poll" \/ w.error
        THEN Finalize(r, w)
        ELSE Become(r, [w EXCEPT !.ping = IF @ = Off THEN Off ELSE PingInterval]) /\ UNCHANGED lists
  BY DEF Respond
<1>6. /\ walk' = [walk EXCEPT !.at = next] /\ UNCHANGED messages_queue
      /\ sent' = [sent EXCEPT ![r] = Append(@, walk.message)]
  BY DEF Respond, messages, Write
<1>7. \A p \in Requests : p # r => sent'[p] = sent[p]
  BY <1>6 DEF TypeOK
<1>8. /\ w \in Contexts /\ Watched(w) /\ w.phase = request[r].phase
      /\ w.subscriber = request[r].subscriber
      /\ w.ping = request[r].ping /\ w.disconnect = request[r].disconnect
  BY <1>1, <1>4, WrittenIsWatched
<1>9. \/ next = End
      \/ /\ next \in ToSet(sentinel[c]) /\ next # s
         /\ next \notin Subscriptions(r) \/ NamesTwice(next[1], c)
  BY <1>1, <1>2, NextIsAnother, NextIsOfAnother
<1>10. /\ walk' \in Walks /\ walk'.list = "respond" /\ walk'.channel = c /\ walk'.at = next
  <2>1. next \in AllSubscriptions \cup {End}
    BY <1>1, <1>9 DEF RequestsInv, ToSet
  <2> HIDE DEF next
  <2> QED
    BY <1>1, <1>6, <2>1, WalkFields
<1>11. CASE Mode[r] = "long poll" \/ w.error
  <2>1. Finalize(r, w)
    BY <1>5, <1>11
  <2>2. /\ RequestsInv' /\ UnansweredInv'
        /\ ToSet(sentinel'[c]) = ToSet(sentinel[c]) \ Subscriptions(r)
    BY <1>1, <1>3, <1>7, <1>8, <2>1, FinalizeEnds
  <2>3. WalkInv'
    <3> HIDE DEF next
    <3> QED
      BY <1>2, <1>6, <1>9, <1>10, <2>2 DEF WalkInv, OnlyDoublesAreLost, WalkIsLive
  <2> QED
    BY <1>10, <2>2, <2>3
<1>12. CASE ~(Mode[r] = "long poll" \/ w.error)
  <2> DEFINE v == [w EXCEPT !.ping = IF @ = Off THEN Off ELSE PingInterval]
  <2>1. Become(r, v) /\ UNCHANGED lists
    BY <1>5, <1>12
  <2>2. /\ v \in Contexts /\ Watched(v) /\ v.phase = request[r].phase
        /\ v.subscriber = request[r].subscriber /\ v.disconnect = request[r].disconnect
        /\ v.ping = Off <=> request[r].ping = Off
    <3>1. PingInterval \in Ticks(PingInterval) /\ PingInterval # Off /\ Off \in Ticks(PingInterval)
      BY Times DEF Ticks
    <3> QED
      BY <1>8, <3>1 DEF Contexts, Watched
  <2> HIDE DEF v
  <2>3. RequestsInv'
    BY <1>3, <2>1, <2>2, SameLists, RequestGoesOn
  <2>4. UnansweredInv'
    <3>1. request'[r] = v /\ \A p \in Requests : p # r => request'[p] = request[p]
      BY <1>3, <2>1 DEF Become, RequestsInv
    <3> QED
      BY <1>3, <1>4, <1>7, <1>12, <2>2, <3>1, OthersUnanswered DEF OnlyOf
  <2>5. WalkInv'
    <3> HIDE DEF next
    <3> QED
      BY <1>2, <1>6, <1>9, <1>10, <2>1 DEF WalkInv, OnlyDoublesAreLost, WalkIsLive, lists
  <2> QED
    BY <1>10, <2>3, <2>4, <2>5
<1> QED
  BY <1>11, <1>12

(* A channel is deleted: the first subscription of its list goes, with its *)
(* request if that is a long poll or has no other channel.                 *)
LEMMA UnsubscribeInv ==
  ASSUME IInv, Unsubscribe
  PROVE  RequestsInv' /\ UnansweredInv'
<1> USE DEF IInv
<1> DEFINE c == walk.channel
           s == Head(sentinel[walk.channel])
           r == Head(sentinel[walk.channel])[1]
<1>1. c \in Channels /\ sentinel[c] \in Seq(AllSubscriptions) /\ sentinel[c] # <<>>
  BY WalkFields DEF Unsubscribe, TypeOK
<1>2. s \in AllSubscriptions /\ s \in ToSet(sentinel[c])
  BY <1>1 DEF ToSet
<1>3. r \in Requests
  BY <1>2, SubscriptionParts
<1>4. UNCHANGED sent
  BY DEF Unsubscribe
<1>5. PICK q \in Written(request[r], {Text}) :
        IF Leaves(r, OwnSubscriptions(r) \ {s})
        THEN Finalize(r, q)
        ELSE /\ sentinel' = [sentinel EXCEPT ![c] = Tail(@)]
             /\ Become(r, q)
             /\ UNCHANGED <<subscribers_queue, subscribers>>
  BY DEF Unsubscribe
<1>6. /\ q \in Contexts /\ Watched(q) /\ q.phase = request[r].phase
      /\ q.subscriber = request[r].subscriber
      /\ q.ping = request[r].ping /\ q.disconnect = request[r].disconnect
  BY <1>3, ContextOf, WrittenIsWatched
<1> HIDE DEF r, s
<1>7. CASE Leaves(r, OwnSubscriptions(r) \ {s})
  BY <1>3, <1>4, <1>5, <1>6, <1>7, FinalizeEnds
<1>8. CASE ~Leaves(r, OwnSubscriptions(r) \ {s})
  <2>1. /\ sentinel' = [sentinel EXCEPT ![c] = Tail(@)]
        /\ Become(r, q)
        /\ UNCHANGED <<subscribers_queue, subscribers>>
    BY <1>5, <1>8
  <2>2. /\ Tail(sentinel[c]) \in Seq(AllSubscriptions)
        /\ ToSet(Tail(sentinel[c])) \subseteq ToSet(sentinel[c])
        /\ IsInjective(sentinel[c]) => IsInjective(Tail(sentinel[c]))
    <3>1. /\ Tail(sentinel[c]) \in Seq(AllSubscriptions)
          /\ \A k \in DOMAIN Tail(sentinel[c]) :
               k \in Int /\ k + 1 \in DOMAIN sentinel[c] /\ Tail(sentinel[c])[k] = sentinel[c][k + 1]
      BY <1>1
    <3>2. ASSUME IsInjective(sentinel[c]) PROVE IsInjective(Tail(sentinel[c]))
      <4> SUFFICES ASSUME NEW i \in DOMAIN Tail(sentinel[c]), NEW j \in DOMAIN Tail(sentinel[c]),
                          Tail(sentinel[c])[i] = Tail(sentinel[c])[j]
                   PROVE  i = j
        BY DEF IsInjective
      <4>1. i + 1 = j + 1 /\ i \in Int /\ j \in Int
        BY <3>1, <3>2 DEF IsInjective
      <4> QED
        BY <4>1
    <3> QED
      BY <3>1, <3>2 DEF ToSet
  <2>3. /\ sentinel' \in [Channels -> Seq(AllSubscriptions)]
        /\ \A d \in Channels :
             ToSet(sentinel'[d]) \subseteq ToSet(sentinel[d]) /\ IsInjective(sentinel'[d])
    BY <1>1, <2>1, <2>2 DEF RequestsInv, NoGhosts
  <2>4. RequestsInv'
    BY <1>3, <1>6, <2>1, <2>3, RequestGoesOn
  <2>5. request'[r] = q /\ \A p \in Requests : p # r => request'[p] = request[p]
    BY <1>3, <2>1 DEF Become, RequestsInv
  <2>6. Mode[r] # "long poll"
    BY <1>8 DEF Leaves
  <2>7. UnansweredInv'
    BY <1>3, <1>4, <1>6, <2>5, <2>6, OthersUnanswered DEF OnlyOf
  <2> QED
    BY <2>4, <2>7
<1> QED
  BY <1>7, <1>8

(* The worker stops: the first subscriber of its list goes.                *)
LEMMA EvictInv ==
  ASSUME IInv, Evict
  PROVE  RequestsInv' /\ UnansweredInv'
<1> USE DEF IInv
<1>1. Head(subscribers_queue) \in Requests /\ UNCHANGED sent
      /\ Finalize(Head(subscribers_queue), request[Head(subscribers_queue)])
  BY DEF Evict, RequestsInv
<1> QED
  BY <1>1, ContextOf, FinalizeEnds

(* The end of a walk: after the last eviction the counter is reset.        *)
LEMMA WalkEndsInv ==
  ASSUME IInv, WalkEnds
  PROVE  RequestsInv' /\ UnansweredInv'
<1> USE DEF IInv
<1>1. /\ UNCHANGED <<request, subscribers_queue, sentinel, sent>>
      /\ subscribers' = subscribers \/ (subscribers' = 0 /\ subscribers_queue = <<>>)
  BY DEF WalkEnds
<1>2. NeverOvercounted' /\ subscribers' \in Nat
  <2>1. CASE subscribers' = subscribers
    BY <1>1, <2>1 DEF RequestsInv, NeverOvercounted
  <2>2. CASE subscribers' = 0 /\ subscribers_queue = <<>>
    <3>1. Len(subscribers_queue') = 0
      BY <1>1, <2>2
    <3> QED
      BY <2>2, <3>1 DEF NeverOvercounted
  <2> QED
    BY <1>1, <2>1, <2>2
<1> QED
  BY <1>1, <1>2 DEF RequestsInv, TimersAreLive, KeptInv, NoGhosts, PlacesInv,
                    UnansweredInv, KeptIsUnanswered

(* Time passes for all timers at once.                                     *)
LEMMA TickInv ==
  ASSUME IInv, Tick
  PROVE  RequestsInv' /\ UnansweredInv'
<1> USE DEF IInv
<1>1. UNCHANGED <<lists, sent>>
  BY DEF Tick
<1>2. ASSUME NEW n \in Nat, NEW t \in Ticks(n), t # 0
      PROVE  Less(t) \in Ticks(n) /\ (Less(t) = Off <=> t = Off)
  <2>1. CASE t = Off
    BY <2>1 DEF Less, Ticks
  <2>2. CASE t # Off
    <3>1. t - 1 \in 0..n /\ t - 1 \in Nat /\ Less(t) = t - 1
      BY <1>2, <2>2 DEF Less, Ticks
    <3> QED
      BY <2>2, <3>1, Times DEF Ticks
  <2> QED
    BY <2>1, <2>2
<1>3. ASSUME NEW r \in Requests
      PROVE  /\ request'[r] \in Contexts /\ Watched(request'[r])
             /\ request'[r].phase = request[r].phase
             /\ request'[r].subscriber = request[r].subscriber
             /\ request'[r].pending = request[r].pending
             /\ request'[r].ping = Off <=> request[r].ping = Off
             /\ request'[r].disconnect = Off <=> request[r].disconnect = Off
  <2> DEFINE q == request[r]
  <2>1. q \in Contexts /\ Watched(q)
    BY ContextOf
  <2>2. /\ request'[r] = [q EXCEPT !.ping = Less(q.ping), !.disconnect = Less(q.disconnect),
                                   !.send = Less(q.send)]
        /\ q.ping # 0 /\ q.disconnect # 0 /\ q.send # 0
    BY DEF Tick, Timers
  <2>3. PingInterval \in Nat /\ ConnectionTtl \in Nat /\ SendTimeout \in Nat
    BY Times
  <2> HIDE DEF q
  <2>4. /\ Less(q.ping) \in Ticks(PingInterval) /\ (Less(q.ping) = Off <=> q.ping = Off)
        /\ Less(q.disconnect) \in Ticks(ConnectionTtl)
        /\ (Less(q.disconnect) = Off <=> q.disconnect = Off)
        /\ Less(q.send) \in Ticks(SendTimeout) /\ (Less(q.send) = Off <=> q.send = Off)
    BY <1>2, <2>1, <2>2, <2>3 DEF Contexts
  <2>5. request'[r] \in Contexts
    BY <2>1, <2>2, <2>4 DEF Contexts
  <2>6. /\ request'[r].phase = q.phase /\ request'[r].subscriber = q.subscriber
        /\ request'[r].pending = q.pending /\ request'[r].ping = Less(q.ping)
        /\ request'[r].disconnect = Less(q.disconnect) /\ request'[r].send = Less(q.send)
    BY <2>1, <2>2 DEF Contexts
  <2> QED
    BY <2>1, <2>4, <2>5, <2>6 DEF Watched, q
<1>4. request' \in [Requests -> Contexts]
  <2>1. request' = [r \in Requests |-> request'[r]]
    BY DEF Tick
  <2> QED
    BY <1>3, <2>1
<1>5. \A p \in ToSet(subscribers_queue) : p \in Requests
  BY DEF RequestsInv, ToSet
<1>6. TimersAreLive'
  BY <1>3 DEF RequestsInv, TimersAreLive, Watched
<1>7. KeptInv'
  BY <1>1, <1>3 DEF RequestsInv, KeptInv, lists
<1>8. NoGhosts'
  BY <1>1, <1>3, <1>5 DEF RequestsInv, NoGhosts, lists
<1>9. PlacesInv' /\ NeverOvercounted'
  BY <1>1 DEF RequestsInv, PlacesInv, NeverOvercounted, lists
<1>10. UnansweredInv'
  BY <1>1, <1>3 DEF UnansweredInv, KeptIsUnanswered
<1> QED
  BY <1>1, <1>4, <1>6, <1>7, <1>8, <1>9, <1>10 DEF RequestsInv, lists

(* What leaves requests and lists alone.                                   *)
LEMMA QuietInv ==
  ASSUME IInv, UNCHANGED <<request, lists, sent>>
  PROVE  RequestsInv' /\ UnansweredInv'
BY DEF IInv, RequestsInv, TimersAreLive, KeptInv, NoGhosts, PlacesInv, NeverOvercounted,
       UnansweredInv, KeptIsUnanswered, lists

(* Requests and lists through all the steps.                               *)
LEMMA NextRequestsInv ==
  ASSUME IInv, [Next]_vars
  PROVE  RequestsInv' /\ UnansweredInv'
<1> USE DEF IInv
<1>1. ASSUME NEW r \in Requests, Arrival(r) \/ Timer(r) \/ Client(r)
      PROVE  RequestsInv' /\ UnansweredInv'
  BY <1>1, ArrivalInv, EventInv
<1>2. ASSUME Loop PROVE RequestsInv' /\ UnansweredInv'
  <2>1. ASSUME Release PROVE RequestsInv' /\ UnansweredInv'
    BY <2>1, QuietInv DEF Release
  <2> QED
    BY <1>2, <2>1, RespondInv, UnsubscribeInv, EvictInv, WalkEndsInv DEF Loop
<1>3. ASSUME \/ ProcessMessage \/ ShutDown \/ OtherWorkers \/ UNCHANGED vars
             \/ \E c \in Channels : DeleteChannel(c)
      PROVE  RequestsInv' /\ UnansweredInv'
  <2>1. UNCHANGED <<request, lists, sent>>
    BY <1>3 DEF ProcessMessage, ShutDown, DeleteChannel, OtherWorkers, Publish, Discard, Free,
                MarkDeleted, vars
  <2> QED
    BY <2>1, QuietInv
<1> QED
  BY <1>1, <1>2, <1>3, TickInv DEF Next

----------------------------------------------------------------------------
(* The walk, and the types of the rest.                                    *)

(* The walk through all the steps.                                         *)
LEMMA NextWalkInv ==
  ASSUME IInv, [Next]_vars
  PROVE  WalkInv' /\ walk' \in Walks
<1> USE DEF IInv
<1>0. walk \in Walks /\ messages_queue \in Seq([message : Messages, channel : Channels])
  BY DEF TypeOK
<1>1. ASSUME walk'.list # "respond", walk' \in Walks
      PROVE  WalkInv' /\ walk' \in Walks
  BY <1>1 DEF WalkInv, OnlyDoublesAreLost, WalkIsLive
<1>2. ASSUME UNCHANGED walk, walk.list # "respond"
      PROVE  WalkInv' /\ walk' \in Walks
  BY <1>0, <1>1, <1>2
<1>3. ASSUME NEW r \in Requests, Arrival(r) \/ Timer(r) \/ Client(r)
      PROVE  WalkInv' /\ walk' \in Walks
  <2>1. Idle /\ UNCHANGED walk
    BY <1>3 DEF Arrival, Refuse, Poll, LongPoll, OpenStream, StreamFails,
                AssignmentFails, Openable,
                Timer, PingTimer, DisconnectTimer, SendTimer,
                Client, FlushPendingOutput, ClientCloses
  <2> QED
    BY <1>0, <1>2, <2>1, WalkFields
<1>4. ASSUME Loop PROVE WalkInv' /\ walk' \in Walks
  <2>1. ASSUME Release \/ WalkEnds PROVE WalkInv' /\ walk' \in Walks
    <3>1. walk' = NoWalk
      BY <2>1 DEF Release, WalkEnds
    <3> QED
      BY <1>1, <3>1 DEF Walks, NoWalk
  <2>2. ASSUME Unsubscribe \/ Evict PROVE WalkInv' /\ walk' \in Walks
    BY <1>2, <2>2 DEF Unsubscribe, Evict
  <2> QED
    BY <1>4, <2>1, <2>2, RespondInv DEF Loop
<1>5. ASSUME ProcessMessage PROVE WalkInv' /\ walk' \in Walks
  <2> DEFINE next == Head(messages_queue)
             w == [list |-> "respond", channel |-> next.channel, message |-> next.message,
                   at |-> FirstOf(next.channel)]
  <2>1. messages_queue # <<>> /\ walk' = w /\ UNCHANGED <<messages_queue, lists>>
    BY <1>5 DEF ProcessMessage, messages
  <2>2. next \in [message : Messages, channel : Channels]
    <3> DEFINE T == [message : Messages, channel : Channels]
    <3>1. messages_queue \in Seq(T) /\ messages_queue # <<>>
      BY <1>0, <2>1
    <3> HIDE DEF T
    <3>2. Head(messages_queue) \in T
      BY <3>1, HeadTailProperties
    <3> QED
      BY <3>2 DEF T
  <2>3. sentinel[next.channel] \in Seq(AllSubscriptions)
    BY <2>2 DEF TypeOK
  <2> HIDE DEF next
  <2>4. FirstOf(next.channel) = End \/ FirstOf(next.channel) \in ToSet(sentinel[next.channel])
    BY <2>3 DEF FirstOf, ToSet
  <2>5. FirstOf(next.channel) \in AllSubscriptions \cup {End}
    BY <2>3, <2>4 DEF ToSet
  <2>6. walk' \in Walks
    BY <2>1, <2>2, <2>5 DEF Walks
  <2> QED
    BY <2>1, <2>4, <2>6 DEF WalkInv, OnlyDoublesAreLost, WalkIsLive, lists
<1>6. ASSUME ShutDown \/ \E c \in Channels : DeleteChannel(c)
      PROVE  WalkInv' /\ walk' \in Walks
  <2>1. walk'.list # "respond" /\ walk' \in Walks
    BY <1>6 DEF ShutDown, DeleteChannel, Walks
  <2> QED
    BY <1>1, <2>1
<1>7. ASSUME OtherWorkers \/ UNCHANGED vars PROVE WalkInv' /\ walk' \in Walks
  <2>1. /\ UNCHANGED <<walk, lists>>
        /\ messages_queue # <<>> => messages_queue' # <<>>
    <3>1. ASSUME NEW m \in Messages, NEW c \in Channels, Publish(m, c)
          PROVE  messages_queue' # <<>> /\ UNCHANGED <<walk, lists>>
      BY <1>0, <3>1 DEF Publish
    <3> QED
      BY <1>7, <3>1 DEF OtherWorkers, Discard, Free, MarkDeleted, vars, messages
  <2> QED
    BY <1>0, <2>1 DEF WalkInv, OnlyDoublesAreLost, WalkIsLive, lists
<1>8. ASSUME Tick PROVE WalkInv' /\ walk' \in Walks
  <2>1. Idle /\ UNCHANGED walk
    BY <1>8 DEF Tick
  <2> QED
    BY <1>0, <1>2, <2>1, WalkFields
<1> QED
  BY <1>3, <1>4, <1>5, <1>6, <1>7, <1>8 DEF Next

(* What the other workers and the clients see: the messages and channels.  *)
RestInv ==
  /\ deleted \subseteq Channels
  /\ messages_queue \in Seq([message : Messages, channel : Channels])
  /\ stored \in [Channels -> Seq(Messages)]
  /\ trash \in [Messages -> Ticks(ObjectsTtl)]
  /\ freed \subseteq Messages
  /\ sent \in [Requests -> Seq(Messages)]

(* Messages are published, thrown away and freed by the other workers.     *)
LEMMA OtherWorkersRest ==
  ASSUME IInv, OtherWorkers
  PROVE  RestInv'
<1> USE DEF IInv
<1>0. RestInv
  BY DEF TypeOK, RestInv
<1>1. ObjectsTtl \in Ticks(ObjectsTtl) /\ Off \in Ticks(ObjectsTtl)
  BY Times DEF Ticks
<1>2. ASSUME NEW m \in Messages, NEW c \in Channels, Publish(m, c)
      PROVE  RestInv'
  <2> DEFINE T == [message : Messages, channel : Channels]
             one == [message |-> m, channel |-> c]
  <2>1. messages_queue \in Seq(T) /\ one \in T /\ messages_queue' = Append(messages_queue, one)
    BY <1>0, <1>2 DEF RestInv, Publish
  <2>2. messages_queue' \in Seq(T)
    <3> HIDE DEF T, one
    <3> QED
      BY <2>1, AppendProperties
  <2>3. stored[c] \in Seq(Messages) /\ Append(stored[c], m) \in Seq(Messages)
    BY <1>0, AppendProperties DEF RestInv
  <2>4. stored' \in [Channels -> Seq(Messages)]
    BY <1>0, <1>2, <2>3 DEF RestInv, Publish
  <2>5. trash' \in [Messages -> Ticks(ObjectsTtl)]
    BY <1>0, <1>1, <1>2 DEF RestInv, Publish
  <2> QED
    BY <1>0, <1>2, <2>2, <2>4, <2>5 DEF RestInv, Publish
<1>3. ASSUME NEW c \in Channels, Discard(c)
      PROVE  RestInv'
  <2>1. stored[c] \in Seq(Messages) /\ stored[c] # <<>>
    BY <1>0, <1>3 DEF RestInv, Discard
  <2>2. Tail(stored[c]) \in Seq(Messages)
    BY <2>1, HeadTailProperties
  <2>3. stored' \in [Channels -> Seq(Messages)]
    BY <1>0, <1>3, <2>2 DEF RestInv, Discard
  <2>4. trash' \in [Messages -> Ticks(ObjectsTtl)]
    BY <1>0, <1>1, <1>3 DEF RestInv, Discard
  <2> QED
    BY <1>0, <1>3, <2>3, <2>4 DEF RestInv, Discard
<1>4. ASSUME NEW m \in Messages, Free(m)
      PROVE  RestInv'
  BY <1>0, <1>1, <1>4 DEF RestInv, Free
<1>5. ASSUME NEW c \in Channels, MarkDeleted(c)
      PROVE  RestInv'
  BY <1>0, <1>5 DEF RestInv, MarkDeleted, messages
<1> QED
  BY <1>2, <1>3, <1>4, <1>5 DEF OtherWorkers

(* The messages and channels through all the steps.                        *)
LEMMA NextRestInv ==
  ASSUME IInv, [Next]_vars
  PROVE  RestInv'
<1> USE DEF IInv
<1>0. RestInv
  BY DEF TypeOK, RestInv
<1>1. ObjectsTtl \in Ticks(ObjectsTtl) /\ Off \in Ticks(ObjectsTtl)
  BY Times DEF Ticks
<1>2. ASSUME UNCHANGED <<deleted, messages, sent>>
      PROVE  RestInv'
  BY <1>0, <1>2 DEF RestInv, messages
<1>3. ASSUME NEW r \in Requests, Arrival(r)
      PROVE  RestInv'
  <2>1. UNCHANGED <<deleted, messages>>
    BY <1>3 DEF Arrival, Refuse, Poll, LongPoll, OpenStream, StreamFails,
                AssignmentFails
  <2>2. ASSUME NEW old \in {<<>>, OldMessages(r)}
        PROVE  sent[r] \o old \in Seq(Messages)
    <3>1. old = <<>> \/ old = OldMessages(r)
      BY <2>2
    <3>2. old \in Seq(Messages)
      <4>1. OldMessages(r) \in Seq(Messages)
        BY OldMessagesType
      <4>2. <<>> \in Seq(Messages)
        OBVIOUS
      <4> QED
        BY <3>1, <4>1, <4>2
    <3>3. sent[r] \in Seq(Messages)
      BY <1>0 DEF RestInv
    <3> QED
      BY <3>2, <3>3, ConcatProperties
  <2>3. \/ sent' = sent
        \/ \E old \in {<<>>, OldMessages(r)} : sent' = [sent EXCEPT ![r] = @ \o old]
        \/ \E n \in 0..Len(OldMessages(r)) :
              sent' = [sent EXCEPT ![r] = @ \o SubSeq(OldMessages(r), 1, n)]
    BY <1>3 DEF Arrival, Refuse, Poll, LongPoll, OpenStream, StreamFails,
                AssignmentFails
  <2>4. ASSUME NEW n \in 0..Len(OldMessages(r))
        PROVE  sent[r] \o SubSeq(OldMessages(r), 1, n) \in Seq(Messages)
    <3> DEFINE old == OldMessages(r)
    <3>1. old \in Seq(Messages) /\ n \in 0..Len(old)
      BY OldMessagesType
    <3> HIDE DEF old
    <3>2. SubSeq(old, 1, n) \in Seq(Messages)
      <4>1. Len(old) \in Nat /\ 1..Len(old) = DOMAIN old
        BY <3>1
      <4>2. n \in Nat /\ 1..n \subseteq 1..Len(old)
        BY <3>1, <4>1
      <4> QED
        BY <3>1, <4>1, <4>2
    <3>3. sent[r] \in Seq(Messages)
      BY <1>0 DEF RestInv
    <3>4. sent[r] \o SubSeq(old, 1, n) \in Seq(Messages)
      BY <3>2, <3>3, ConcatProperties
    <3> QED
      BY <3>4 DEF old
  <2>5. sent' \in [Requests -> Seq(Messages)]
    BY <1>0, <2>2, <2>3, <2>4 DEF RestInv
  <2> QED
    BY <1>0, <2>1, <2>5 DEF RestInv, messages
<1>4. ASSUME NEW r \in Requests, Timer(r) \/ Client(r)
      PROVE  RestInv'
  BY <1>2, <1>4 DEF Timer, PingTimer, DisconnectTimer, SendTimer,
                    Client, FlushPendingOutput, ClientCloses
<1>5. ASSUME Respond
      PROVE  RestInv'
  <2>1. UNCHANGED <<deleted, messages>> /\ walk.list = "respond"
        /\ sent' = [sent EXCEPT ![walk.at[1]] = Append(@, walk.message)]
    BY <1>5 DEF Respond, Write
  <2>2. walk.message \in Messages
    BY <2>1, WalkFields DEF TypeOK
  <2>3. \A r \in Requests : Append(sent[r], walk.message) \in Seq(Messages)
    BY <1>0, <2>2, AppendProperties DEF RestInv
  <2>4. sent' \in [Requests -> Seq(Messages)]
    BY <1>0, <2>1, <2>3 DEF RestInv
  <2> QED
    BY <1>0, <2>1, <2>4 DEF RestInv, messages
<1>6. ASSUME Release
      PROVE  RestInv'
  <2> DEFINE T == [message : Messages, channel : Channels]
  <2>1. messages_queue \in Seq(T) /\ messages_queue # <<>>
    BY <1>0, <1>6 DEF RestInv, Release, WalkInv
  <2>2. messages_queue' \in Seq(T)
    <3>1. messages_queue' = Tail(messages_queue)
      BY <1>6 DEF Release
    <3> HIDE DEF T
    <3> QED
      BY <2>1, <3>1, HeadTailProperties
  <2>3. trash' \in [Messages -> Ticks(ObjectsTtl)]
    BY <1>0, <1>1, <1>6 DEF RestInv, Release
  <2> QED
    BY <1>0, <1>6, <2>2, <2>3 DEF RestInv, Release
<1>7. ASSUME Unsubscribe \/ Evict \/ ProcessMessage \/ ShutDown \/ UNCHANGED vars
             \/ \E c \in Channels : DeleteChannel(c)
      PROVE  RestInv'
  BY <1>2, <1>7 DEF Unsubscribe, Evict, ProcessMessage, ShutDown, DeleteChannel, vars
<1>8. ASSUME WalkEnds
      PROVE  RestInv'
  <2> DEFINE T == [message : Messages, channel : Channels]
  <2>1. messages_queue' \in Seq(T)
    <3>1. messages_queue \in Seq(T) /\ (messages_queue' = messages_queue \/ messages_queue' = <<>>)
      BY <1>0, <1>8 DEF RestInv, WalkEnds
    <3> HIDE DEF T
    <3>2. <<>> \in Seq(T)
      OBVIOUS
    <3> QED
      BY <3>1, <3>2
  <2>2. trash' \in [Messages -> Ticks(ObjectsTtl)]
    BY <1>0, <1>1, <1>8 DEF RestInv, WalkEnds
  <2> QED
    BY <1>0, <1>8, <2>1, <2>2 DEF RestInv, WalkEnds
<1>9. ASSUME Tick
      PROVE  RestInv'
  <2>1. ASSUME NEW m \in Messages
        PROVE  (IF trash[m] = 0 THEN 0 ELSE Less(trash[m])) \in Ticks(ObjectsTtl)
    <3>1. trash[m] \in 0..ObjectsTtl \/ trash[m] = Off
      BY <1>0 DEF RestInv, Ticks
    <3>2. ObjectsTtl \in Nat /\ 0 # Off
      BY Times
    <3> QED
      BY <3>1, <3>2 DEF Less, Ticks
  <2>2. trash' \in [Messages -> Ticks(ObjectsTtl)]
    BY <1>9, <2>1 DEF Tick
  <2> QED
    BY <1>0, <1>9, <2>2 DEF RestInv, Tick
<1> QED
  BY <1>3, <1>4, <1>5, <1>6, <1>7, <1>8, <1>9, OtherWorkersRest DEF Next, Loop

----------------------------------------------------------------------------
(* All of it holds at the start, and every step keeps it.                  *)
LEMMA InitIInv ==
  ASSUME Init
  PROVE  IInv
<1>1. /\ \A r \in Requests : request[r] = New
      /\ request = [r \in Requests |-> New]
      /\ subscribers_queue = <<>> /\ subscribers = 0
      /\ sentinel = [c \in Channels |-> <<>>]
      /\ sent = [r \in Requests |-> <<>>] /\ walk = NoWalk
  BY DEF Init
<1>2. New \in Contexts /\ Watched(New)
  BY NewContext
<1>3. ToSet(<<>>) = {} /\ IsInjective(<<>>) /\ Len(<<>>) = 0
  BY DEF ToSet, IsInjective
<1>4. \A S : <<>> \in Seq(S)
  OBVIOUS
<1>5. request \in [Requests -> Contexts] /\ sentinel \in [Channels -> Seq(AllSubscriptions)]
      /\ subscribers_queue \in Seq(Requests) /\ subscribers \in Nat
  BY <1>1, <1>2, <1>4
<1>6. RestInv
  <2>1. Off \in Ticks(ObjectsTtl)
    BY DEF Ticks
  <2> QED
    BY <1>4, <2>1 DEF Init, RestInv
<1>7. walk \in Walks /\ walk.list = "none"
  BY <1>1 DEF Walks, NoWalk
<1>8. New.phase = "new" /\ ~New.subscriber /\ New.ping = Off /\ New.disconnect = Off
      /\ New.pending = {}
  BY DEF New
<1>9. TimersAreLive /\ KeptInv /\ UnansweredInv
  BY <1>1, <1>3, <1>8 DEF TimersAreLive, KeptInv, UnansweredInv, KeptIsUnanswered
<1>10. NoGhosts /\ PlacesInv /\ NeverOvercounted
  BY <1>1, <1>3 DEF NoGhosts, PlacesInv, NeverOvercounted
<1> QED
  BY <1>5, <1>6, <1>7, <1>9, <1>10
     DEF IInv, TypeOK, RestInv, RequestsInv, WalkInv, OnlyDoublesAreLost, WalkIsLive

(* Every step keeps the invariant.                                         *)
LEMMA NextIInv ==
  ASSUME IInv, [Next]_vars
  PROVE  IInv'
<1>1. RequestsInv' /\ UnansweredInv'
  BY NextRequestsInv
<1>2. WalkInv' /\ walk' \in Walks
  BY NextWalkInv
<1>3. RestInv'
  BY NextRestInv
<1> QED
  BY <1>1, <1>2, <1>3 DEF IInv, TypeOK, RestInv, RequestsInv

(* So it holds in every behaviour.                                         *)
LEMMA Invariance == Spec => []IInv
<1>1. Init => IInv
  BY InitIInv
<1>2. IInv /\ [Next]_vars => IInv'
  BY NextIInv
<1> QED
  BY <1>1, <1>2, PTL DEF Spec

(* All variables have the types of what they stand for.                    *)
THEOREM TypeCorrect == Spec => []TypeOK
<1>1. IInv => TypeOK
  BY DEF IInv
<1> QED
  BY <1>1, Invariance, PTL

(* Timers: no timer of the module is set for a request that is not kept,   *)
(* and waiting output has its timer.                                       *)
THEOREM TimersStayLive == Spec => []TimersAreLive
<1>1. IInv => TimersAreLive
  BY DEF IInv, RequestsInv
<1> QED
  BY <1>1, Invariance, PTL

(* The walk of respond_to_subscribers over the subscriptions of a channel  *)
(* stands on one that is there, whatever the requests it ends take along   *)
(* and whoever else ends meanwhile. When it does not, it stands on one of  *)
(* a request that names that channel twice: the code does not compare the  *)
(* channels of a request (utils.c:2292), and nothing else can go wrong.    *)
THEOREM WalkLeavesForDoublesOnly == Spec => []OnlyDoublesAreLost
<1>1. IInv => OnlyDoublesAreLost
  BY DEF IInv, WalkInv
<1> QED
  BY <1>1, Invariance, PTL

(* Nothing points to a request that is over, all that is kept is listed    *)
(* once, and the counter of the worker does not exceed the list.           *)
THEOREM ListsAreExact == Spec => []ListsExact
<1>1. IInv => ListsExact
  BY DEF IInv, RequestsInv, ListsExact
<1> QED
  BY <1>1, Invariance, PTL

(* A long poll is answered once: while it is kept, nothing was sent to it. *)
THEOREM LongPollsAnsweredOnce == Spec => []KeptIsUnanswered
<1>1. IInv => KeptIsUnanswered
  BY DEF IInv, UnansweredInv
<1> QED
  BY <1>1, Invariance, PTL
=============================================================================
