------------------------------ MODULE LocksProofs ------------------------------
(* For any number of workers and of mutexes of channels: the routines of Locks *)
(* nest their mutexes in the order of Rank, so workers never wait for one      *)
(* another in a circle.                                                        *)
(*                                                                             *)
(* The first half is about the sequences, the second about the steps. Holding  *)
(* is what a position of a sequence may hold, by the kinds of mutexes; that a  *)
(* sequence has such a typing follows its structure, so each routine is a      *)
(* lemma about all callers, as its callers see it.                             *)
EXTENDS Locks, SequenceTheorems, WellFoundedInduction, TLAPS

-----------------------------------------------------------------------------
(* The mutexes of channels are of one kind.                                    *)
Kind(m) == IF m \in ChannelMutexes THEN "channel" ELSE m

Kinds == ZoneMutexes \union {"channel"}

Names == Mutexes \union {"channel"}

KindRank(k) == IF k = "channel" THEN 4 ELSE Rank[k]

(* All of H ranks below n.                                                     *)
Below(H, n) == H \in SUBSET Kinds /\ \A k \in H : KindRank(k) < n

Operations ==
    [op : {"lock", "unlock", "touch"}, on : Names]
        \union [op : {"choose", "jump"}, over : Nat]
        \union [op : {"try"}, on : Mutexes, over : Nat]

(* The operation that skips so many lands at a position of a sequence of n     *)
(* operations, or after its end, where the same is held as before it.          *)
Lands(op, hold, i, n) == i + op.over <= n /\ hold[i + 1 + op.over] = hold[i]

(* What is held before and after the operation at position i.                  *)
TypedOp(op, hold, i, n) ==
    /\ op.op = "lock" =>
         /\ Below(hold[i], KindRank(Kind(op.on)))
         /\ hold[i + 1] = hold[i] \union {Kind(op.on)}
    /\ op.op = "touch" => Below(hold[i], KindRank(Kind(op.on))) /\ hold[i + 1] = hold[i]
    /\ op.op = "unlock" => hold[i + 1] = hold[i] \ {Kind(op.on)}
    /\ op.op = "try" =>
         /\ Kind(op.on) \notin hold[i]
         /\ hold[i + 1] = hold[i] \union {Kind(op.on)}
         /\ Lands(op, hold, i, n)
    /\ op.op = "choose" => hold[i + 1] = hold[i] /\ Lands(op, hold, i, n)
    /\ op.op = "jump" => Lands(op, hold, i, n)

Holding(code, H, G, hold) ==
    /\ hold \in [1..(Len(code) + 1) -> SUBSET Kinds]
    /\ hold[1] = H /\ hold[Len(code) + 1] = G
    /\ \A i \in 1..Len(code) : TypedOp(code[i], hold, i, Len(code))

(* The sequence takes what is held from H to G.                                *)
Typed(code, H, G) == code \in Seq(Operations) /\ \E hold : Holding(code, H, G, hold)

-----------------------------------------------------------------------------
(* Names, kinds and ranks.                                                     *)
LEMMA KindRanks ==
    /\ KindRank("global_shpool") = 0 /\ KindRank("cleanup") = 0
    /\ KindRank("channels_to_delete") = 1 /\ KindRank("channels_queue") = 2
    /\ KindRank("channels_trash") = 3 /\ KindRank("channel") = 4
    /\ KindRank("messages_trash") = 5 /\ KindRank("shpool") = 6
<1> USE EventsAssumption DEF EventsAssumption, ZoneMutexes, PoolMutexes
<1>1. ASSUME NEW m \in ZoneMutexes
      PROVE  m \in Mutexes /\ m \notin ChannelMutexes /\ m # "channel"
  BY <1>1 DEF Mutexes
<1> QED
  BY <1>1 DEF KindRank, Rank

(* The rank of a mutex is that of its kind.                                    *)
LEMMA KindOfMutex ==
    ASSUME NEW m \in Mutexes
    PROVE  Kind(m) \in Kinds /\ Rank[m] = KindRank(Kind(m)) /\ Rank[m] \in 0..6
<1>1. CASE m \in ChannelMutexes
  <2>1. m \notin ZoneMutexes
    BY <1>1, EventsAssumption DEF EventsAssumption
  <2>2. Rank[m] = 4
    BY <1>1, <2>1 DEF Rank, ZoneMutexes, PoolMutexes
  <2> QED
    BY <1>1, <2>2, KindRanks DEF Kind, Kinds
<1>2. CASE m \notin ChannelMutexes
  <2>1. m \in ZoneMutexes /\ m # "channel" /\ Kind(m) = m
    BY <1>2 DEF Mutexes, Kind, ZoneMutexes, PoolMutexes
  <2>2. Kind(m) \in Kinds /\ Rank[m] = KindRank(Kind(m))
    BY <2>1 DEF Kinds, KindRank
  <2>3. KindRank(m) \in 0..6
    BY <2>1, KindRanks DEF ZoneMutexes, PoolMutexes
  <2> QED
    BY <2>1, <2>2, <2>3
<1> QED
  BY <1>1, <1>2

(* The names that routines use.                                                *)
LEMMA KindOfName ==
    /\ \A m \in Names : Kind(m) \in Kinds
    /\ \A k \in Kinds : Kind(k) = k /\ k \in Names
    /\ Kind(EventsMutex) = "channel" /\ EventsMutex \in Names
<1>1. "channel" \notin ChannelMutexes /\ \A k \in ZoneMutexes : k \notin ChannelMutexes
  BY EventsAssumption DEF EventsAssumption
<1> QED
  BY <1>1, KindOfMutex, EventsAssumption
     DEF EventsAssumption, Names, Kind, Kinds, Mutexes

-----------------------------------------------------------------------------
(* Sequences that have a typing.                                               *)

(* A typed operation is typed in any place of a longer sequence.               *)
LEMMA Shift ==
    ASSUME NEW d \in Nat, NEW n \in Nat, NEW N \in Nat, n + d <= N, NEW i \in 1..n,
           NEW op \in Operations, NEW f, NEW g,
           \A j \in 1..(n + 1) : g[j + d] = f[j],
           TypedOp(op, f, i, n)
    PROVE  TypedOp(op, g, i + d, N)
<1>1. g[i + d] = f[i] /\ g[(i + d) + 1] = f[i + 1]
  <2>1. i \in 1..(n + 1) /\ i + 1 \in 1..(n + 1) /\ (i + d) + 1 = (i + 1) + d
    OBVIOUS
  <2> QED
    BY <2>1
<1>2. ASSUME op.op \in {"try", "choose", "jump"}, Lands(op, f, i, n)
      PROVE  Lands(op, g, i + d, N)
  <2>1. op.over \in Nat
    BY <1>2 DEF Operations
  <2>2. i + 1 + op.over \in 1..(n + 1) /\ (i + d) + 1 + op.over = (i + 1 + op.over) + d
        /\ (i + d) + op.over <= N
    BY <1>2, <2>1 DEF Lands
  <2>3. g[(i + d) + 1 + op.over] = f[i + 1 + op.over]
    BY <2>2
  <2> QED
    BY <1>1, <1>2, <2>2, <2>3 DEF Lands
<1> QED
  BY <1>1, <1>2 DEF TypedOp

(* One after the other.                                                        *)
LEMMA TypedSequence ==
    ASSUME NEW a, NEW b, NEW H, NEW G, NEW K, Typed(a, H, G), Typed(b, G, K)
    PROVE  Typed(a \o b, H, K)
<1>1. PICK f : Holding(a, H, G, f)
  BY DEF Typed
<1>2. PICK g : Holding(b, G, K, g)
  BY DEF Typed
<1>3. a \in Seq(Operations) /\ b \in Seq(Operations)
  BY DEF Typed
<1> DEFINE n == Len(a)  p == Len(b)  c == a \o b
           h == [i \in 1..(n + p + 1) |-> IF i <= n THEN f[i] ELSE g[i - n]]
<1>4. n \in Nat /\ p \in Nat
  BY <1>3
<1>5. c \in Seq(Operations) /\ Len(c) = n + p
      /\ \A i \in 1..(n + p) : c[i] = IF i <= n THEN a[i] ELSE b[i - n]
  BY <1>3, ConcatProperties
<1>6. f \in [1..(n + 1) -> SUBSET Kinds] /\ f[1] = H /\ f[n + 1] = G
      /\ \A i \in 1..n : TypedOp(a[i], f, i, n)
  BY <1>1 DEF Holding
<1>7. g \in [1..(p + 1) -> SUBSET Kinds] /\ g[1] = G /\ g[p + 1] = K
      /\ \A i \in 1..p : TypedOp(b[i], g, i, p)
  BY <1>2 DEF Holding
<1>8. \A i \in 1..n : a[i] \in Operations
  BY <1>3
<1>9. \A i \in 1..p : b[i] \in Operations
  BY <1>3
<1> HIDE DEF n, p, c
<1>10. \A j \in 1..(n + 1) : h[j + 0] = f[j]
  BY <1>4, <1>6, <1>7
<1>11. \A j \in 1..(p + 1) : h[j + n] = g[j]
  BY <1>4, <1>6, <1>7
<1>12. h \in [1..((n + p) + 1) -> SUBSET Kinds] /\ h[1] = H /\ h[(n + p) + 1] = K
  <2>1. ASSUME NEW i \in 1..(n + p + 1) PROVE h[i] \in SUBSET Kinds
    <3>1. i <= n => i \in 1..(n + 1)
      BY <1>4
    <3>2. ~(i <= n) => i - n \in 1..(p + 1)
      BY <1>4
    <3> QED
      BY <1>6, <1>7, <3>1, <3>2
  <2>2. h[1 + 0] = f[1]
    BY <1>4, <1>10
  <2>3. h[(p + 1) + n] = g[p + 1] /\ (p + 1) + n = (n + p) + 1
    BY <1>4, <1>11
  <2> QED
    BY <1>6, <1>7, <2>1, <2>2, <2>3
<1> HIDE DEF h
<1>13. ASSUME NEW i \in 1..(n + p) PROVE TypedOp(c[i], h, i, n + p)
  <2>1. CASE i <= n
    <3>1. i \in 1..n /\ c[i] = a[i] /\ i + 0 = i
      BY <1>4, <1>5, <2>1
    <3> DEFINE op == a[i]  d == 0
    <3>2. op \in Operations /\ TypedOp(op, f, i, n)
      BY <1>6, <1>8, <3>1
    <3>3. d \in Nat /\ n + d <= n + p /\ n + p \in Nat /\ \A j \in 1..(n + 1) : h[j + d] = f[j]
      BY <1>4, <1>10
    <3>4. i + d = i
      BY <3>1
    <3> HIDE DEF op, d
    <3>5. TypedOp(op, h, i + d, n + p)
      BY <1>4, <3>1, <3>2, <3>3, Shift
    <3> QED
      BY <3>1, <3>4, <3>5 DEF op
  <2>2. CASE ~(i <= n)
    <3>1. i - n \in 1..p /\ c[i] = b[i - n] /\ (i - n) + n = i
      BY <1>4, <1>5, <2>2
    <3> DEFINE op == b[i - n]  k == i - n
    <3>2. k \in 1..p /\ op \in Operations /\ TypedOp(op, g, k, p)
      BY <1>7, <1>9, <3>1
    <3>3. p + n <= n + p /\ n + p \in Nat /\ k + n = i
      BY <1>4, <3>1
    <3> HIDE DEF op, k
    <3>4. TypedOp(op, h, k + n, n + p)
      BY <1>4, <1>11, <3>2, <3>3, Shift
    <3> QED
      BY <3>1, <3>3, <3>4 DEF op
  <2> QED
    BY <2>1, <2>2
<1>14. Holding(c, H, K, h)
  BY <1>5, <1>12, <1>13 DEF Holding
<1> QED
  BY <1>5, <1>14 DEF Typed, c

(* A sequence after one operation: its typing moves up by one.                 *)
LEMMA TypedAfter ==
    ASSUME NEW op \in Operations, NEW a, NEW H, NEW G, NEW K,
           Typed(a, G, K), H \in SUBSET Kinds,
           \A hold : hold[1] = H /\ hold[2] = G /\ hold[Len(a) + 2] = K
                       => TypedOp(op, hold, 1, Len(a) + 1)
    PROVE  Typed(<<op>> \o a, H, K)
<1>1. PICK f : Holding(a, G, K, f)
  BY DEF Typed
<1> DEFINE n == Len(a)  one == <<op>>  c == one \o a
           h == [i \in 1..(n + 2) |-> IF i = 1 THEN H ELSE f[i - 1]]
<1>2. a \in Seq(Operations) /\ n \in Nat /\ \A i \in 1..n : a[i] \in Operations
  BY DEF Typed
<1>3. one \in Seq(Operations) /\ Len(one) = 1 /\ one[1] = op
  OBVIOUS
<1> HIDE DEF one
<1>4. c \in Seq(Operations) /\ Len(c) = n + 1 /\ c[1] = op
      /\ \A i \in 2..(n + 1) : c[i] = a[i - 1]
  <2>1. /\ c \in Seq(Operations) /\ Len(c) = Len(one) + n
        /\ \A i \in 1..(Len(one) + n) : c[i] = IF i <= Len(one) THEN one[i] ELSE a[i - Len(one)]
    BY <1>2, <1>3, ConcatProperties
  <2> HIDE DEF c, n
  <2>2. Len(c) = n + 1 /\ \A i \in 1..(n + 1) : c[i] = IF i <= 1 THEN one[i] ELSE a[i - 1]
    BY <1>2, <1>3, <2>1, SMTT(60)
  <2>3. 1 \in 1..(n + 1) /\ \A i \in 2..(n + 1) : i \in 1..(n + 1) /\ ~(i <= 1)
    BY <1>2
  <2> QED
    BY <1>3, <2>1, <2>2, <2>3
<1>5. f \in [1..(n + 1) -> SUBSET Kinds] /\ f[1] = G /\ f[n + 1] = K
      /\ \A i \in 1..n : TypedOp(a[i], f, i, n)
  BY <1>1 DEF Holding
<1> HIDE DEF n, c
<1>6. \A j \in 1..(n + 1) : h[j + 1] = f[j]
  BY <1>2, <1>5
<1>7. h \in [1..((n + 1) + 1) -> SUBSET Kinds] /\ h[1] = H /\ h[2] = G /\ h[n + 2] = K
      /\ h[(n + 1) + 1] = K
  <2>1. \A i \in 1..(n + 2) : i # 1 => i - 1 \in 1..(n + 1)
    BY <1>2
  <2>2. (n + 1) + 1 = n + 2 /\ 1 + 1 = 2 /\ 1 \in 1..(n + 1) /\ n + 1 \in 1..(n + 1)
        /\ 1 \in 1..(n + 2)
    BY <1>2
  <2>3. h[1] = H
    BY <2>2
  <2> QED
    BY <1>5, <1>6, <2>1, <2>2, <2>3
<1> HIDE DEF h
<1>8. TypedOp(op, h, 1, n + 1)
  BY <1>7, ZenonT(60) DEF n
<1>9. ASSUME NEW i \in 1..(n + 1) PROVE TypedOp(c[i], h, i, n + 1)
  <2>1. CASE i = 1
    BY <1>4, <1>8, <2>1
  <2>2. CASE i # 1
    <3> DEFINE k == i - 1  that == a[k]
    <3>1. k \in 1..n /\ k + 1 = i /\ c[i] = that /\ n + 1 \in Nat /\ n + 1 <= n + 1
      BY <1>2, <1>4, <2>2
    <3>2. that \in Operations /\ TypedOp(that, f, k, n)
      BY <1>2, <1>5, <3>1
    <3> HIDE DEF k, that
    <3>3. TypedOp(that, h, k + 1, n + 1)
      BY <1>2, <1>6, <3>1, <3>2, Shift
    <3> QED
      BY <3>1, <3>3
  <2> QED
    BY <2>1, <2>2
<1>10. Holding(c, H, K, h)
  BY <1>4, <1>7, <1>9 DEF Holding
<1> QED
  BY <1>4, <1>10 DEF Typed, c, one

(* Nothing is done.                                                            *)
LEMMA TypedNothing ==
    ASSUME NEW H \in SUBSET Kinds
    PROVE  Typed(<<>>, H, H)
<1> DEFINE hold == [i \in 1..1 |-> H]
<1>1. Len(<<>>) = 0 /\ <<>> \in Seq(Operations)
  OBVIOUS
<1>2. Holding(<<>>, H, H, hold)
  BY <1>1 DEF Holding
<1> QED
  BY <1>1, <1>2 DEF Typed

(* The operations on one mutex.                                                *)
LEMMA TypedOne ==
    ASSUME NEW op \in Operations, NEW H \in SUBSET Kinds, NEW G \in SUBSET Kinds,
           \A hold : hold[1] = H /\ hold[2] = G => TypedOp(op, hold, 1, 1)
    PROVE  Typed(<<op>>, H, G)
<1>1. Typed(<<>>, G, G) /\ Len(<<>>) = 0
  BY TypedNothing
<1>2. Typed(<<op>> \o <<>>, H, G)
  <2> DEFINE none == <<>>
  <2>1. Typed(none, G, G) /\ Len(none) = 0
    BY <1>1
  <2> HIDE DEF none
  <2>2. Len(none) + 1 = 1
    BY <2>1
  <2>3. \A hold : hold[1] = H /\ hold[2] = G /\ hold[Len(none) + 2] = G
                    => TypedOp(op, hold, 1, Len(none) + 1)
    BY <2>2
  <2>4. Typed(<<op>> \o none, H, G)
    BY <2>1, <2>3, TypedAfter
  <2> QED
    BY <2>4 DEF none
<1>3. <<op>> \o <<>> = <<op>>
  OBVIOUS
<1> QED
  BY <1>2, <1>3

LEMMA TypedLock ==
    ASSUME NEW m \in Names, NEW H, Below(H, KindRank(Kind(m)))
    PROVE  Typed(Lock(m), H, H \union {Kind(m)})
<1> DEFINE op == [op |-> "lock", on |-> m]
<1>1. op \in Operations /\ op.op = "lock" /\ op.on = m
  BY DEF Operations
<1>2. H \in SUBSET Kinds /\ H \union {Kind(m)} \in SUBSET Kinds
  BY KindOfName DEF Below
<1>3. Lock(m) = <<op>>
  BY DEF Lock
<1> HIDE DEF op
<1>4. \A hold : hold[1] = H /\ hold[2] = H \union {Kind(m)} => TypedOp(op, hold, 1, 1)
  BY <1>1 DEF TypedOp
<1> QED
  BY <1>1, <1>2, <1>3, <1>4, TypedOne

LEMMA TypedUnlock ==
    ASSUME NEW m \in Names, NEW H \in SUBSET Kinds
    PROVE  Typed(Unlock(m), H, H \ {Kind(m)})
<1> DEFINE op == [op |-> "unlock", on |-> m]
<1>1. op \in Operations /\ op.op = "unlock" /\ op.on = m
  BY DEF Operations
<1>2. H \ {Kind(m)} \in SUBSET Kinds
  OBVIOUS
<1>3. Unlock(m) = <<op>>
  BY DEF Unlock
<1> HIDE DEF op
<1>4. \A hold : hold[1] = H /\ hold[2] = H \ {Kind(m)} => TypedOp(op, hold, 1, 1)
  BY <1>1 DEF TypedOp
<1> QED
  BY <1>1, <1>2, <1>3, <1>4, TypedOne

LEMMA TypedTouch ==
    ASSUME NEW m \in Names, NEW H, Below(H, KindRank(Kind(m)))
    PROVE  Typed(Touch(m), H, H)
<1> DEFINE op == [op |-> "touch", on |-> m]
<1>1. op \in Operations /\ op.op = "touch" /\ op.on = m
  BY DEF Operations
<1>2. H \in SUBSET Kinds
  BY DEF Below
<1>3. Touch(m) = <<op>>
  BY DEF Touch
<1> HIDE DEF op
<1>4. \A hold : hold[1] = H /\ hold[2] = H => TypedOp(op, hold, 1, 1)
  BY <1>1 DEF TypedOp
<1> QED
  BY <1>1, <1>2, <1>3, <1>4, TypedOne

(* What is held is of the kinds of mutexes, before and after.                  *)
LEMMA TypedKinds ==
    ASSUME NEW a, NEW H, NEW G, Typed(a, H, G)
    PROVE  a \in Seq(Operations) /\ Len(a) \in Nat /\ H \in SUBSET Kinds /\ G \in SUBSET Kinds
<1>1. PICK f : Holding(a, H, G, f)
  BY DEF Typed
<1>2. Len(a) \in Nat /\ a \in Seq(Operations)
  BY DEF Typed
<1>3. 1 \in 1..(Len(a) + 1) /\ Len(a) + 1 \in 1..(Len(a) + 1)
  BY <1>2
<1> QED
  BY <1>1, <1>2, <1>3 DEF Holding

(* What leaves all as it was may be skipped.                                   *)
LEMMA TypedMaybe ==
    ASSUME NEW a, NEW H, Typed(a, H, H)
    PROVE  Typed(Maybe(a), H, H)
<1> DEFINE op == [op |-> "choose", over |-> Len(a)]
<1>1. Len(a) \in Nat /\ H \in SUBSET Kinds
  BY TypedKinds
<1>2. op \in Operations /\ op.op = "choose" /\ op.over = Len(a)
  BY <1>1 DEF Operations
<1>3. Maybe(a) = <<op>> \o a
  BY DEF Maybe
<1> HIDE DEF op
<1>4. ASSUME NEW hold, hold[1] = H, hold[2] = H, hold[Len(a) + 2] = H
      PROVE  TypedOp(op, hold, 1, Len(a) + 1)
  <2>1. 1 + 1 + op.over = Len(a) + 2 /\ 1 + op.over <= Len(a) + 1 /\ 1 + 1 = 2
    BY <1>1, <1>2
  <2>2. Lands(op, hold, 1, Len(a) + 1)
    BY <1>4, <2>1 DEF Lands
  <2> QED
    BY <1>2, <1>4, <2>1, <2>2 DEF TypedOp
<1> QED
  BY <1>1, <1>2, <1>3, <1>4, TypedAfter

(* A section that may not be entered: what is in it holds the mutex, too.      *)
LEMMA TypedTry ==
    ASSUME NEW m \in Mutexes, NEW a, NEW H \in SUBSET Kinds, Kind(m) \notin H,
           Typed(a, H \union {Kind(m)}, H \union {Kind(m)})
    PROVE  Typed(TrySection(m, a), H, H)
<1> DEFINE op == [op |-> "try", on |-> m, over |-> Len(a) + 1]
           G == H \union {Kind(m)}
           rest == a \o Unlock(m)
<1>1. Len(a) \in Nat /\ a \in Seq(Operations) /\ G \in SUBSET Kinds
  BY TypedKinds
<1>2. op \in Operations /\ op.op = "try" /\ op.on = m /\ op.over = Len(a) + 1
  BY <1>1 DEF Operations
<1>3. Typed(Unlock(m), G, G \ {Kind(m)}) /\ G \ {Kind(m)} = H
  BY <1>1, TypedUnlock DEF Names
<1>4. Typed(rest, G, H)
  BY <1>3, TypedSequence
<1>5. Unlock(m) \in Seq(Operations) /\ Len(Unlock(m)) = 1
  BY <1>3, TypedKinds DEF Unlock
<1>6. Len(rest) = Len(a) + 1
  <2> DEFINE unlock == Unlock(m)
  <2>1. unlock \in Seq(Operations) /\ Len(unlock) = 1 /\ rest = a \o unlock
    BY <1>5
  <2> HIDE DEF unlock, rest
  <2>2. Len(a \o unlock) = Len(a) + Len(unlock)
    BY <1>1, <2>1, ConcatProperties
  <2> QED
    BY <2>1, <2>2
<1>7. TrySection(m, a) = <<op>> \o rest
  <2>1. <<op>> \in Seq(Operations)
    BY <1>2
  <2>2. TrySection(m, a) = (<<op>> \o a) \o Unlock(m)
    BY DEF TrySection
  <2> HIDE DEF op
  <2> QED
    BY <1>1, <1>5, <2>1, <2>2, ConcatAssociative
<1> HIDE DEF op, rest
<1>8. ASSUME NEW hold, hold[1] = H, hold[2] = G, hold[Len(rest) + 2] = H
      PROVE  TypedOp(op, hold, 1, Len(rest) + 1)
  <2>1. 1 + 1 + op.over = Len(rest) + 2 /\ 1 + op.over <= Len(rest) + 1 /\ 1 + 1 = 2
    BY <1>1, <1>2, <1>6
  <2>2. Lands(op, hold, 1, Len(rest) + 1)
    BY <1>8, <2>1 DEF Lands
  <2> QED
    BY <1>2, <1>8, <2>1, <2>2 DEF TypedOp
<1> QED
  BY <1>2, <1>4, <1>7, <1>8, TypedAfter

(* Two ways that come to the same: the first jumps over the second.            *)
LEMMA TypedEither ==
    ASSUME NEW a, NEW b, NEW H, NEW G, Typed(a, H, G), Typed(b, H, G)
    PROVE  Typed(Either(a, b), H, G)
<1>1. PICK f : Holding(a, H, G, f)
  BY DEF Typed
<1>2. PICK g : Holding(b, H, G, g)
  BY DEF Typed
<1> DEFINE n == Len(a)  p == Len(b)  N == n + p + 2
           op == [op |-> "choose", over |-> n + 1]
           jump == [op |-> "jump", over |-> p]
           one == <<op>>  two == <<jump>>
           c == ((one \o a) \o two) \o b
           h == [i \in 1..(N + 1) |-> IF i = 1 THEN H ELSE IF i <= n + 2 THEN f[i - 1] ELSE g[i - (n + 2)]]
<1>3. /\ a \in Seq(Operations) /\ n \in Nat /\ \A i \in 1..n : a[i] \in Operations
      /\ b \in Seq(Operations) /\ p \in Nat /\ \A i \in 1..p : b[i] \in Operations
      /\ H \in SUBSET Kinds
  BY TypedKinds
<1>4. /\ op \in Operations /\ op.op = "choose" /\ op.over = n + 1
      /\ jump \in Operations /\ jump.op = "jump" /\ jump.over = p
  BY <1>3 DEF Operations
<1>5. Either(a, b) = c
  BY DEF Either
<1> HIDE DEF op, jump
<1>6. /\ one \in Seq(Operations) /\ Len(one) = 1 /\ one[1] = op
      /\ two \in Seq(Operations) /\ Len(two) = 1 /\ two[1] = jump
  BY <1>4
<1> HIDE DEF one, two
<1>7. /\ c \in Seq(Operations) /\ Len(c) = N
      /\ c[1] = op /\ c[n + 2] = jump
      /\ \A i \in 2..(n + 1) : c[i] = a[i - 1]
      /\ \A i \in (n + 3)..N : c[i] = b[i - (n + 2)]
  <2> DEFINE c1 == one \o a  c2 == c1 \o two
  <2>1. /\ c1 \in Seq(Operations) /\ Len(c1) = Len(one) + Len(a)
        /\ \A i \in 1..(Len(one) + Len(a)) :
             c1[i] = IF i <= Len(one) THEN one[i] ELSE a[i - Len(one)]
    BY <1>3, <1>6, ConcatProperties
  <2> HIDE DEF c1
  <2>2. /\ c2 \in Seq(Operations) /\ Len(c2) = Len(c1) + Len(two)
        /\ \A i \in 1..(Len(c1) + Len(two)) :
             c2[i] = IF i <= Len(c1) THEN c1[i] ELSE two[i - Len(c1)]
    <3>1. c1 \in Seq(Operations) /\ two \in Seq(Operations)
      BY <1>6, <2>1
    <3> QED
      BY <3>1, ConcatProperties
  <2>3. c = c2 \o b
    BY DEF c1
  <2> HIDE DEF c2, c
  <2>4. /\ c \in Seq(Operations) /\ Len(c) = Len(c2) + Len(b)
        /\ \A i \in 1..(Len(c2) + Len(b)) :
             c[i] = IF i <= Len(c2) THEN c2[i] ELSE b[i - Len(c2)]
    BY <1>3, <2>2, <2>3, ConcatProperties
  <2> HIDE DEF n, p
  <2>5. Len(c1) = n + 1 /\ Len(c2) = n + 2 /\ Len(c) = N
    BY <1>3, <1>6, <2>1, <2>2, <2>4 DEF n, p
  <2>6. /\ \A i \in 1..(n + 1) : c1[i] = IF i = 1 THEN op ELSE a[i - 1]
        /\ \A i \in 1..(n + 2) : c2[i] = IF i = n + 2 THEN jump ELSE c1[i]
        /\ \A i \in 1..N : c[i] = IF i <= n + 2 THEN c2[i] ELSE b[i - (n + 2)]
    <3>1. \A i \in 1..(n + 1) : c1[i] = IF i = 1 THEN op ELSE a[i - 1]
      BY <1>3, <1>6, <2>1 DEF n
    <3>2. ASSUME NEW i \in 1..(n + 2) PROVE c2[i] = IF i = n + 2 THEN jump ELSE c1[i]
      <4>1. (n + 2) - (n + 1) = 1 /\ (i <= n + 1 <=> i # n + 2) /\ Len(c1) + Len(two) = n + 2
        BY <1>3, <1>6, <2>5
      <4> QED
        BY <1>6, <2>2, <2>5, <4>1
    <3>3. \A i \in 1..N : c[i] = IF i <= n + 2 THEN c2[i] ELSE b[i - (n + 2)]
      BY <1>3, <2>4, <2>5 DEF p
    <3> QED
      BY <3>1, <3>2, <3>3
  <2>7. c[1] = op /\ c[n + 2] = jump
    <3>1. 1 \in 1..(n + 1) /\ 1 \in 1..(n + 2) /\ 1 \in 1..N /\ n + 2 \in 1..(n + 2)
          /\ n + 2 \in 1..N /\ 1 <= n + 2 /\ 1 # n + 2
      BY <1>3 DEF n, p
    <3> QED
      BY <2>6, <3>1
  <2>8. ASSUME NEW i \in 2..(n + 1) PROVE c[i] = a[i - 1]
    <3>1. i \in 1..(n + 1) /\ i \in 1..(n + 2) /\ i \in 1..N /\ i # 1 /\ i # n + 2 /\ i <= n + 2
      BY <1>3 DEF n, p
    <3> QED
      BY <2>6, <3>1
  <2>9. ASSUME NEW i \in (n + 3)..N PROVE c[i] = b[i - (n + 2)]
    <3>1. i \in 1..N /\ ~(i <= n + 2)
      BY <1>3 DEF n, p
    <3> QED
      BY <2>6, <3>1
  <2> QED
    BY <2>4, <2>5, <2>7, <2>8, <2>9
<1>8. /\ f \in [1..(n + 1) -> SUBSET Kinds] /\ f[1] = H /\ f[n + 1] = G
      /\ \A i \in 1..n : TypedOp(a[i], f, i, n)
  BY <1>1 DEF Holding
<1>9. /\ g \in [1..(p + 1) -> SUBSET Kinds] /\ g[1] = H /\ g[p + 1] = G
      /\ \A i \in 1..p : TypedOp(b[i], g, i, p)
  BY <1>2 DEF Holding
<1> HIDE DEF n, p, c
<1>10. \A j \in 1..(n + 1) : h[j + 1] = f[j]
  BY <1>3, <1>8
<1>11. \A j \in 1..(p + 1) : h[j + (n + 2)] = g[j]
  BY <1>3, <1>9
<1>12. h[1] = H /\ h[2] = H /\ h[n + 2] = G /\ h[n + 3] = H /\ h[N + 1] = G
  <2>1. 1 + 1 = 2 /\ (n + 1) + 1 = n + 2 /\ 1 + (n + 2) = n + 3 /\ (p + 1) + (n + 2) = N + 1
        /\ 1 \in 1..(n + 1) /\ n + 1 \in 1..(n + 1) /\ 1 \in 1..(p + 1) /\ p + 1 \in 1..(p + 1)
        /\ 1 \in 1..(N + 1)
    BY <1>3
  <2>2. h[1] = H
    BY <2>1
  <2> HIDE DEF h
  <2> QED
    BY <1>8, <1>9, <1>10, <1>11, <2>1, <2>2
<1>13. h \in [1..(N + 1) -> SUBSET Kinds]
  <2>1. \A i \in 1..(N + 1) : /\ i # 1 /\ i <= n + 2 => i - 1 \in 1..(n + 1)
                              /\ ~(i <= n + 2) => i - (n + 2) \in 1..(p + 1)
    BY <1>3
  <2> QED
    BY <1>3, <1>8, <1>9, <2>1
<1> HIDE DEF h
<1>14. N \in Nat /\ n + 1 <= N /\ p + (n + 2) <= N /\ n + 2 \in Nat
  BY <1>3
<1>15. ASSUME NEW i \in 1..N PROVE TypedOp(c[i], h, i, N)
  <2>1. CASE i = 1
    <3>1. 1 + 1 + op.over = n + 3 /\ 1 + op.over <= N /\ 1 + 1 = 2
      BY <1>3, <1>4
    <3>2. Lands(op, h, 1, N)
      BY <1>12, <3>1 DEF Lands
    <3>3. TypedOp(op, h, 1, N)
      BY <1>4, <1>12, <3>1, <3>2 DEF TypedOp
    <3> QED
      BY <1>7, <2>1, <3>3
  <2>2. CASE i \in 2..(n + 1)
    <3> DEFINE k == i - 1  that == a[k]
    <3>1. k \in 1..n /\ k + 1 = i /\ c[i] = that
      BY <1>3, <1>7, <2>2
    <3>2. that \in Operations /\ TypedOp(that, f, k, n)
      BY <1>3, <1>8, <3>1
    <3> HIDE DEF k, that, N
    <3>3. TypedOp(that, h, k + 1, N)
      BY <1>3, <1>10, <1>14, <3>1, <3>2, Shift
    <3> QED
      BY <3>1, <3>3
  <2>3. CASE i = n + 2
    <3>1. i + 1 + jump.over = N + 1 /\ i + jump.over <= N
      BY <1>3, <1>4, <2>3
    <3>2. Lands(jump, h, i, N)
      BY <1>12, <2>3, <3>1 DEF Lands
    <3>3. TypedOp(jump, h, i, N)
      BY <1>4, <3>2 DEF TypedOp
    <3> QED
      BY <1>7, <2>3, <3>3
  <2>4. CASE i \in (n + 3)..N
    <3> DEFINE k == i - (n + 2)  that == b[k]
    <3>1. k \in 1..p /\ k + (n + 2) = i /\ c[i] = that
      <4>1. c[i] = b[i - (n + 2)]
        BY <1>7, <2>4
      <4> QED
        BY <1>3, <2>4, <4>1
    <3>2. that \in Operations /\ TypedOp(that, g, k, p)
      BY <1>3, <1>9, <3>1
    <3> DEFINE d == n + 2
    <3>3. d \in Nat /\ p + d <= N /\ \A j \in 1..(p + 1) : h[j + d] = g[j]
      BY <1>11, <1>14
    <3> HIDE DEF k, that, N, d
    <3>4. TypedOp(that, h, k + d, N)
      BY <1>3, <1>14, <3>1, <3>2, <3>3, Shift
    <3> QED
      BY <3>1, <3>4 DEF d
  <2> QED
    BY <1>3, <2>1, <2>2, <2>3, <2>4
<1>16. Holding(c, H, G, h)
  BY <1>7, <1>12, <1>13, <1>15 DEF Holding
<1> QED
  BY <1>5, <1>7, <1>16 DEF Typed

-----------------------------------------------------------------------------
(* The routines, as their callers see them: what they need of the mutexes that *)
(* are held, and that they leave the same ones.                                *)

(* What ranks below n ranks below more, and one can be added.                  *)
LEMMA BelowMore ==
    ASSUME NEW n \in Int, NEW p \in Int, n <= p, NEW H, Below(H, n)
    PROVE  Below(H, p) /\ \A k \in Kinds : KindRank(k) < p => Below(H \union {k}, p)
<1>1. \A k \in Kinds : KindRank(k) \in Int
  BY KindRanks DEF Kinds, ZoneMutexes, PoolMutexes
<1> QED
  BY <1>1 DEF Below

(* What ranks below a mutex does not contain it.                               *)
LEMMA NotBelowItself ==
    ASSUME NEW k \in Kinds, NEW H, Below(H, KindRank(k))
    PROVE  k \notin H
<1>1. KindRank(k) \in Int
  BY KindRanks DEF Kinds, ZoneMutexes, PoolMutexes
<1> QED
  BY <1>1 DEF Below

LEMMA BelowNothing == \A n : Below({}, n)
BY DEF Below

LEMMA ZoneNames ==
    \A k \in {"global_shpool", "shpool", "cleanup", "channels_to_delete", "channels_queue",
              "channels_trash", "messages_trash", "channel"} :
        k \in Kinds /\ k \in Names /\ Kind(k) = k
BY KindOfName DEF Kinds, ZoneMutexes, PoolMutexes

(* What is done under a mutex.                                                 *)
LEMMA TypedSection ==
    ASSUME NEW m \in Names, NEW H, Below(H, KindRank(Kind(m))),
           NEW a, Typed(a, H \union {Kind(m)}, H \union {Kind(m)})
    PROVE  Typed(Section(m, a), H, H)
<1> DEFINE G == H \union {Kind(m)}
<1>1. Typed(Lock(m), H, G)
  BY TypedLock
<1>2. G \in SUBSET Kinds /\ Kind(m) \notin H
  BY TypedKinds, NotBelowItself, KindOfName
<1>3. Typed(Unlock(m), G, G \ {Kind(m)}) /\ G \ {Kind(m)} = H
  BY <1>2, TypedUnlock
<1> HIDE DEF G
<1>4. Typed(Unlock(m), G, H)
  BY <1>3
<1>5. Typed(Lock(m) \o a, H, G)
  BY <1>1, TypedSequence DEF G
<1>6. Typed((Lock(m) \o a) \o Unlock(m), H, H)
  BY <1>4, <1>5, TypedSequence
<1> QED
  BY <1>6 DEF Section

(* The short sections.                                                         *)
LEMMA TypedTouches ==
    ASSUME NEW H
    PROVE  /\ Below(H, 1) => Typed(Touch("channels_to_delete"), H, H)
           /\ Below(H, 2) => Typed(Touch("channels_queue"), H, H)
           /\ Below(H, 3) => Typed(Touch("channels_trash"), H, H)
           /\ Below(H, 4) => Typed(Touch("channel"), H, H)
           /\ Below(H, 5) => Typed(Touch("messages_trash"), H, H)
           /\ Below(H, 6) => Typed(Touch("shpool"), H, H)
<1>1. ASSUME NEW k \in {"channels_to_delete", "channels_queue", "channels_trash", "channel",
                        "messages_trash", "shpool"},
             Below(H, KindRank(k))
      PROVE  Typed(Touch(k), H, H)
  <2>1. k \in Names /\ Kind(k) = k
    BY ZoneNames
  <2> QED
    BY <1>1, <2>1, TypedTouch
<1> QED
  BY <1>1, KindRanks

(* The mutex of a channel.                                                     *)
ChannelNames == {"channel", EventsMutex}

LEMMA TypedChannelSection ==
    ASSUME NEW c \in ChannelNames, NEW H, Below(H, 4),
           NEW a, Typed(a, H \union {"channel"}, H \union {"channel"})
    PROVE  Typed(Section(c, a), H, H)
<1>1. c \in Names /\ Kind(c) = "channel"
  BY ZoneNames, KindOfName DEF ChannelNames
<1> QED
  BY <1>1, KindRanks, TypedSection

(* Sections under the other mutexes.                                           *)
LEMMA TypedZoneSection ==
    ASSUME NEW k \in Kinds, NEW H, Below(H, KindRank(k)),
           NEW a, Typed(a, H \union {k}, H \union {k})
    PROVE  Typed(Section(k, a), H, H)
BY KindOfName, TypedSection

(* ensure_qtd_of_messages: throws away under the mutex of the channel.         *)
LEMMA TypedEnsure ==
    ASSUME NEW c \in ChannelNames, NEW H, Below(H, 4)
    PROVE  Typed(EnsureQtdOfMessages(c), H, H)
<1> DEFINE G == H \union {"channel"}
<1>1. Below(G, 5)
  BY BelowMore, KindRanks, ZoneNames
<1>2. Typed(Touch("messages_trash"), G, G)
  BY <1>1, TypedTouches
<1>3. Typed(Maybe(Touch("messages_trash")), G, G)
  BY <1>2, TypedMaybe
<1> QED
  BY <1>3, TypedChannelSection DEF EnsureQtdOfMessages, ThrowTheMessageAway

(* broadcast.                                                                  *)
LEMMA TypedBroadcast ==
    ASSUME NEW c \in ChannelNames, NEW H, Below(H, 4)
    PROVE  Typed(Broadcast(c), H, H)
<1> DEFINE G == H \union {"channel"}
<1>1. Below(G, 6) /\ Below(H, 5)
  BY BelowMore, KindRanks, ZoneNames
<1>2. Typed(Touch("shpool"), G, G) /\ Typed(Touch("messages_trash"), H, H)
  BY <1>1, TypedTouches
<1>3. Typed(Maybe(Touch("shpool")), G, G) /\ Typed(Maybe(Touch("messages_trash")), H, H)
  BY <1>2, TypedMaybe
<1>4. Typed(Section(c, Maybe(Touch("shpool"))), H, H)
  BY <1>3, TypedChannelSection
<1> QED
  BY <1>3, <1>4, TypedSequence DEF Broadcast, SendWorkerMessage, ThrowTheMessageAway

(* What takes and leaves the mutex of a channel at its own places.             *)
LEMMA TypedChannelLock ==
    ASSUME NEW c \in ChannelNames, NEW H, Below(H, 4)
    PROVE  /\ Typed(Lock(c), H, H \union {"channel"})
           /\ Typed(Unlock(c), H \union {"channel"}, H)
           /\ Below(H \union {"channel"}, 5) /\ Below(H \union {"channel"}, 6)
<1>1. c \in Names /\ Kind(c) = "channel"
  BY ZoneNames, KindOfName DEF ChannelNames
<1>2. Below(H, KindRank("channel")) /\ "channel" \in Kinds
  BY KindRanks, ZoneNames
<1>3. Typed(Lock(c), H, H \union {"channel"})
  BY <1>1, <1>2, TypedLock
<1>4. "channel" \notin H /\ H \union {"channel"} \in SUBSET Kinds
  BY <1>2, NotBelowItself DEF Below
<1>5. (H \union {"channel"}) \ {"channel"} = H
  BY <1>4
<1>6. Typed(Unlock(c), H \union {"channel"}, H)
  BY <1>1, <1>4, <1>5, TypedUnlock
<1>7. Below(H \union {"channel"}, 5) /\ Below(H \union {"channel"}, 6)
  BY <1>2, BelowMore, KindRanks
<1> QED
  BY <1>3, <1>6, <1>7

(* add_msg_to_channel, which counts the message with what it is given.         *)
LEMMA TypedAddMsg ==
    ASSUME NEW c \in ChannelNames, NEW H, Below(H, 4),
           NEW counted, Typed(counted, H, H)
    PROVE  Typed(AddMsgToChannel(c, counted), H, H)
<1> DEFINE G == H \union {"channel"}
           s1 == Unlock(c) \o EnsureQtdOfMessages(c)
           s2 == s1 \o counted
           stored == s2 \o Broadcast(c)
           shm == Touch("shpool")
           e == Either(Unlock(c), stored)
<1>1. Typed(Lock(c), H, G) /\ Typed(Unlock(c), G, H) /\ Typed(shm, G, G)
  BY TypedChannelLock, TypedTouches
<1>2. Typed(EnsureQtdOfMessages(c), H, H) /\ Typed(Broadcast(c), H, H)
  BY TypedEnsure, TypedBroadcast
<1> HIDE DEF G
<1>3. Typed(s1, G, H)
  BY <1>1, <1>2, TypedSequence
<1> HIDE DEF s1
<1>4. Typed(s2, G, H)
  BY <1>3, TypedSequence
<1> HIDE DEF s2
<1>5. Typed(stored, G, H)
  BY <1>2, <1>4, TypedSequence
<1> HIDE DEF stored
<1>6. Typed(e, G, H)
  BY <1>1, <1>5, TypedEither
<1> HIDE DEF e, shm
<1>7. Typed(Lock(c) \o shm, H, G)
  BY <1>1, TypedSequence
<1>8. Typed((Lock(c) \o shm) \o shm, H, G)
  BY <1>1, <1>7, TypedSequence
<1>9. Typed(((Lock(c) \o shm) \o shm) \o e, H, H)
  BY <1>6, <1>8, TypedSequence
<1> QED
  BY <1>9 DEF AddMsgToChannel, ConvertCharToMsgOnShared, e, shm, stored, s2, s1

(* send_event, from wherever no mutex of a channel is held.                    *)
LEMMA TypedSendEvent ==
    ASSUME NEW H, Below(H, 4)
    PROVE  Typed(SendEvent, H, H)
<1>1. Typed(<<>>, H, H) /\ EventsMutex \in ChannelNames
  BY TypedNothing DEF Below, ChannelNames
<1>2. Typed(AddMsgToChannel(EventsMutex, <<>>), H, H)
  BY <1>1, TypedAddMsg
<1> QED
  BY <1>2, TypedMaybe DEF SendEvent

(* The end of a subscriber: the channels, the worker's lists, the response.    *)
LEMMA TypedSubscriberEnd ==
    ASSUME NEW H, Below(H, 4)
    PROVE  Typed(WorkerSubscriberCleanup, H, H) /\ Typed(SendResponseFinalize, H, H)
<1>1. Below(H, 6)
  BY BelowMore
<1>2. Typed(Touch("channel"), H, H) /\ Typed(Touch("shpool"), H, H) /\ Typed(SendEvent, H, H)
  BY <1>1, TypedTouches, TypedSendEvent
<1>3. Typed(Touch("channel") \o SendEvent, H, H)
  BY <1>2, TypedSequence
<1>4. Typed(Maybe(Touch("channel") \o SendEvent), H, H)
  BY <1>3, TypedMaybe
<1>5. Typed(Maybe(Touch("channel") \o SendEvent) \o Touch("shpool"), H, H)
  BY <1>2, <1>4, TypedSequence
<1>6. Typed(WorkerSubscriberCleanup, H, H)
  BY <1>5 DEF WorkerSubscriberCleanup
<1> QED
  BY <1>6, TypedMaybe DEF SendResponseFinalize

(* delete_channels_data: subscribers end under the mutex of the list.          *)
LEMMA TypedDeleteChannelsData ==
    ASSUME NEW H, Below(H, 1)
    PROVE  Typed(DeleteChannelsData, H, H)
<1> DEFINE G == H \union {"channels_to_delete"}
           each == (Touch("channel") \o SendEvent) \o SendResponseFinalize
           body == Touch("channel") \o Maybe(each)
<1>1. "channels_to_delete" \in Kinds /\ Below(H, KindRank("channels_to_delete")) /\ Below(G, 4)
  BY BelowMore, KindRanks, ZoneNames
<1> HIDE DEF G
<1>2. Typed(Touch("channel"), G, G) /\ Typed(SendEvent, G, G) /\ Typed(SendResponseFinalize, G, G)
  BY <1>1, TypedTouches, TypedSendEvent, TypedSubscriberEnd
<1>3. Typed(each, G, G)
  BY <1>2, TypedSequence
<1> HIDE DEF each
<1>4. Typed(body, G, G)
  BY <1>2, <1>3, TypedMaybe, TypedSequence
<1> HIDE DEF body
<1>5. Typed(Section("channels_to_delete", Maybe(body)), H, H)
  BY <1>1, <1>4, TypedMaybe, TypedZoneSection DEF G
<1> QED
  BY <1>5 DEF DeleteChannelsData, body, each

(* collect_deleted_channels_data.                                              *)
LEMMA TypedCollectDeleted ==
    ASSUME NEW H, Below(H, 1)
    PROVE  Typed(CollectDeletedChannelsData, H, H)
<1> DEFINE G == H \union {"channels_to_delete"}
           trash == Touch("channels_trash") \o SendEvent
           queue == Touch("channels_queue")
           some == EnsureQtdOfMessages("channel") \o Maybe(queue)
           body == some \o Maybe(trash)
<1>1. /\ "channels_to_delete" \in Kinds /\ Below(H, KindRank("channels_to_delete"))
      /\ Below(G, 2) /\ Below(G, 3) /\ Below(G, 4)
  BY BelowMore, KindRanks, ZoneNames
<1> HIDE DEF G
<1>2. Typed(Touch("channels_trash"), G, G) /\ Typed(SendEvent, G, G) /\ Typed(queue, G, G)
  BY <1>1, TypedTouches, TypedSendEvent
<1>3. Typed(EnsureQtdOfMessages("channel"), G, G)
  BY <1>1, TypedEnsure DEF ChannelNames
<1>4. Typed(trash, G, G)
  BY <1>2, TypedSequence
<1> HIDE DEF trash, queue
<1>5. Typed(Maybe(trash), G, G) /\ Typed(Maybe(queue), G, G)
  BY <1>2, <1>4, TypedMaybe
<1>6. Typed(some, G, G)
  BY <1>3, <1>5, TypedSequence
<1> HIDE DEF some
<1>7. Typed(body, G, G)
  BY <1>5, <1>6, TypedSequence
<1> HIDE DEF body
<1>8. Typed(Section("channels_to_delete", Maybe(body)), H, H)
  BY <1>1, <1>7, TypedMaybe, TypedZoneSection DEF G
<1> QED
  BY <1>8 DEF CollectDeletedChannelsData, body, some, trash, queue

(* The collections under the mutex of the queue of channels.                   *)
LEMMA TypedCollections ==
    ASSUME NEW H, Below(H, 2)
    PROVE  Typed(CollectExpiredMessagesData, H, H) /\ Typed(CollectEmptyChannels, H, H)
<1> DEFINE G == H \union {"channels_queue"}
           trash == Touch("channels_trash") \o SendEvent
           ensure == EnsureQtdOfMessages("channel")
<1>1. /\ "channels_queue" \in Kinds /\ Below(H, KindRank("channels_queue"))
      /\ Below(G, 3) /\ Below(G, 4)
  BY BelowMore, KindRanks, ZoneNames
<1> HIDE DEF G
<1>2. Typed(Touch("channels_trash"), G, G) /\ Typed(SendEvent, G, G)
  BY <1>1, TypedTouches, TypedSendEvent
<1>3. Typed(trash, G, G) /\ Typed(ensure, G, G)
  BY <1>1, <1>2, TypedEnsure, TypedSequence DEF ChannelNames
<1> HIDE DEF trash, ensure
<1>4. Typed(Maybe(trash), G, G) /\ Typed(Maybe(ensure), G, G)
  BY <1>3, TypedMaybe
<1>5. Typed(Section("channels_queue", Maybe(trash)), H, H)
      /\ Typed(Section("channels_queue", Maybe(ensure)), H, H)
  BY <1>1, <1>4, TypedZoneSection DEF G
<1> QED
  BY <1>5 DEF CollectExpiredMessagesData, CollectEmptyChannels, trash, ensure

(* free_memory_of_expired_messages_and_channels.                               *)
LEMMA TypedFreeMemory ==
    ASSUME NEW H, Below(H, 3)
    PROVE  Typed(FreeMemoryOfExpiredMessagesAndChannels, H, H)
<1> DEFINE M == H \union {"messages_trash"}
           G == H \union {"channels_trash"}
           C == G \union {"channel"}
           shm == Touch("shpool")
<1>1. /\ {"messages_trash", "channels_trash", "channel"} \subseteq Kinds
      /\ Below(H, KindRank("messages_trash")) /\ Below(H, KindRank("channels_trash"))
      /\ Below(M, 6) /\ Below(G, 4)
  BY BelowMore, KindRanks, ZoneNames
<1> HIDE DEF G, M
<1>2. Below(C, 6) /\ Below(G, 6)
  BY <1>1, BelowMore, KindRanks
<1> HIDE DEF C
<1>3. Typed(shm, M, M) /\ Typed(shm, C, C) /\ Typed(shm, G, G)
  BY <1>1, <1>2, TypedTouches
<1> HIDE DEF shm
<1>4. Typed(Maybe(shm), M, M) /\ Typed(Maybe(shm), G, G)
  BY <1>3, TypedMaybe
<1>5. Typed(Section("messages_trash", Maybe(shm)), H, H)
  BY <1>1, <1>4, TypedZoneSection DEF M
<1>6. Typed(Section("channel", shm), G, G)
  BY <1>1, <1>3, TypedChannelSection DEF C, ChannelNames
<1>7. Typed(FreeChannelMemory, G, G)
  BY <1>4, <1>6, TypedSequence DEF FreeChannelMemory, FreeMessageMemory, shm
<1>8. Typed(Section("channels_trash", Maybe(FreeChannelMemory)), H, H)
  BY <1>1, <1>7, TypedMaybe, TypedZoneSection DEF G
<1>9. Typed(Section("messages_trash", Maybe(shm)) \o Section("channels_trash", Maybe(FreeChannelMemory)), H, H)
  BY <1>5, <1>8, TypedSequence
<1> QED
  BY <1>9 DEF FreeMemoryOfExpiredMessagesAndChannels, FreeMessageMemory, shm

(* Lock and unlock of the queue of channels, where returns are early.          *)
LEMMA TypedQueueLock ==
    ASSUME NEW H, Below(H, 2)
    PROVE  /\ Typed(Lock("channels_queue"), H, H \union {"channels_queue"})
           /\ Typed(Unlock("channels_queue"), H \union {"channels_queue"}, H)
           /\ Below(H \union {"channels_queue"}, 6)
<1> DEFINE k == "channels_queue"
<1>1. k \in Names /\ Kind(k) = k /\ k \in Kinds /\ Below(H, KindRank(k))
  BY ZoneNames, KindRanks
<1>2. Below(H \union {k}, 6)
  BY <1>1, BelowMore, KindRanks
<1> HIDE DEF k
<1>3. Typed(Lock(k), H, H \union {k})
  BY <1>1, TypedLock
<1>4. k \notin H /\ H \union {k} \in SUBSET Kinds /\ (H \union {k}) \ {k} = H
  BY <1>1, NotBelowItself DEF Below
<1>5. Typed(Unlock(k), H \union {k}, H)
  BY <1>1, <1>4, TypedUnlock
<1> QED
  BY <1>2, <1>3, <1>5 DEF k

(* delete_channel and find_channel.                                            *)
LEMMA TypedDeleteChannel ==
    ASSUME NEW H, Below(H, 1)
    PROVE  Typed(DeleteChannel, H, H) /\ Typed(FindChannel, H, H)
<1> DEFINE G == H \union {"channels_queue"}
           lock == Lock("channels_queue")
           unlock == Unlock("channels_queue")
           move == unlock \o Maybe(Touch("channels_to_delete"))
           text == Maybe(ConvertCharToMsgOnShared)
<1>1. Below(H, 2)
  BY BelowMore
<1>2. Typed(lock, H, G) /\ Typed(unlock, G, H) /\ Below(G, 6)
  BY <1>1, TypedQueueLock
<1> HIDE DEF G, lock, unlock
<1>3. Typed(Touch("channels_to_delete"), H, H) /\ Typed(FindChannel, H, H)
      /\ Typed(ConvertCharToMsgOnShared, G, G)
  BY <1>1, <1>2, TypedTouches DEF FindChannel, ConvertCharToMsgOnShared
<1>4. Typed(move, G, H)
  BY <1>2, <1>3, TypedMaybe, TypedSequence
<1>5. Typed(text, G, G)
  BY <1>3, TypedMaybe
<1> HIDE DEF move, text
<1>6. Typed(Either(unlock, move), G, H)
  BY <1>2, <1>4, TypedEither
<1>7. Typed(lock \o text, H, G)
  BY <1>2, <1>5, TypedSequence
<1>8. Typed((lock \o text) \o Either(unlock, move), H, H)
  BY <1>6, <1>7, TypedSequence
<1> QED
  BY <1>3, <1>8 DEF DeleteChannel, lock, unlock, move, text

(* get_channel, along all of its returns.                                      *)
LEMMA TypedGetChannel ==
    ASSUME NEW H, Below(H, 2)
    PROVE  Typed(GetChannel, H, H)
<1> DEFINE G == H \union {"channels_queue"}
           lock == Lock("channels_queue")
           unlock == Unlock("channels_queue")
           shm == Touch("shpool")
           created == unlock \o SendEvent
           again == shm \o Either(unlock, created)
           first == shm \o Either(unlock, again)
<1>1. Typed(lock, H, G) /\ Typed(unlock, G, H) /\ Below(G, 6)
  BY TypedQueueLock
<1> HIDE DEF G
<1>2. Typed(SendEvent, H, H) /\ Typed(shm, G, G)
  BY <1>1, BelowMore, TypedSendEvent, TypedTouches
<1> HIDE DEF lock, unlock, shm
<1>3. Typed(created, G, H)
  BY <1>1, <1>2, TypedSequence
<1> HIDE DEF created
<1>4. Typed(again, G, H)
  <2>1. Typed(Either(unlock, created), G, H)
    BY <1>1, <1>3, TypedEither
  <2> QED
    BY <1>2, <2>1, TypedSequence
<1> HIDE DEF again
<1>5. Typed(first, G, H)
  <2>1. Typed(Either(unlock, again), G, H)
    BY <1>1, <1>4, TypedEither
  <2> QED
    BY <1>2, <2>1, TypedSequence
<1> HIDE DEF first
<1>6. Typed(Either(unlock, first), G, H)
  BY <1>1, <1>5, TypedEither
<1>7. Typed(lock \o Either(unlock, first), H, H)
  BY <1>1, <1>6, TypedSequence
<1> QED
  BY <1>7 DEF GetChannel, lock, unlock, shm, created, again, first

(* A subscriber enters a channel; old messages are read under its mutex.       *)
LEMMA TypedSubscribe ==
    ASSUME NEW H, Below(H, 4)
    PROVE  Typed(SendOldMessages, H, H) /\ Typed(AssingSubscriptionToChannel, H, H)
<1> DEFINE G == H \union {"channel"}
           lock == Lock("channel")
           unlock == Unlock("channel")
           shm == Touch("shpool")
           read == Maybe(Touch("channel"))
<1>1. Typed(lock, H, G) /\ Typed(unlock, G, H) /\ Below(G, 6)
  BY TypedChannelLock DEF ChannelNames
<1> HIDE DEF G
<1>2. Typed(SendEvent, H, H) /\ Typed(shm, G, G) /\ Typed(Touch("channel"), H, H)
  BY <1>1, TypedSendEvent, TypedTouches
<1>3. Typed(read, H, H) /\ Typed(Maybe(shm), G, G)
  BY <1>2, TypedMaybe
<1> HIDE DEF lock, unlock, shm, read
<1>4. Typed(read \o read, H, H)
  BY <1>3, TypedSequence
<1>5. Typed(unlock \o SendEvent, G, H)
  BY <1>1, <1>2, TypedSequence
<1>6. Typed(Either(unlock, unlock \o SendEvent), G, H)
  BY <1>1, <1>5, TypedEither
<1>7. Typed(lock \o Maybe(shm), H, G)
  BY <1>1, <1>3, TypedSequence
<1>8. Typed((lock \o Maybe(shm)) \o Either(unlock, unlock \o SendEvent), H, H)
  BY <1>6, <1>7, TypedSequence
<1> QED
  BY <1>4, <1>8 DEF SendOldMessages, AssingSubscriptionToChannel, lock, unlock, shm, read

(* What a worker gives back when it stops, or for the one that died.           *)
LEMMA TypedCleanWorkerData ==
    ASSUME NEW H, Below(H, 2)
    PROVE  Typed(CleanWorkerData, H, H) /\ Typed(CensusOfChannels, H, H)
<1> DEFINE G == H \union {"channels_queue"}
           shm == Touch("shpool")
<1>1. "channels_queue" \in Kinds /\ Below(H, KindRank("channels_queue")) /\ Below(H, 6) /\ Below(G, 4)
  BY BelowMore, KindRanks, ZoneNames
<1> HIDE DEF G
<1>2. Typed(UnsubscribeWorker, G, G)
  <2>1. Below(G \union {"channel"}, 6)
    BY <1>1, BelowMore, KindRanks, ZoneNames
  <2>2. Typed(shm, G \union {"channel"}, G \union {"channel"})
    BY <2>1, TypedTouches
  <2> QED
    BY <1>1, <2>2, TypedMaybe, TypedChannelSection DEF UnsubscribeWorker, ChannelNames
<1>3. Typed(Section("channels_queue", Maybe(UnsubscribeWorker)), H, H)
  BY <1>1, <1>2, TypedMaybe, TypedZoneSection DEF G
<1>4. Typed(Maybe(shm), H, H)
  BY <1>1, TypedTouches, TypedMaybe
<1>5. Typed(CleanWorkerData, H, H)
  BY <1>3, <1>4, TypedSequence DEF CleanWorkerData, FreeWorkerMessageMemory
<1>6. Typed(Maybe(Touch("channel")), G, G)
  BY <1>1, TypedTouches, TypedMaybe
<1>7. Typed(CensusOfChannels, H, H)
  BY <1>1, <1>6, TypedZoneSection DEF CensusOfChannels, G
<1> QED
  BY <1>5, <1>7

(* What the event loop starts, holding nothing, ends so.                       *)
LEMMA TypedRequests ==
    /\ Typed(Handlers.Subscribe, {}, {}) /\ Typed(Handlers.Publish, {}, {})
    /\ Typed(Handlers.Delete, {}, {}) /\ Typed(Handlers.Statistics, {}, {})
<1> DEFINE H == {}
<1>1. \A n : Below(H, n)
  BY BelowNothing
<1> HIDE DEF H
<1>2. /\ Typed(FindChannel, H, H) /\ Typed(GetChannel, H, H) /\ Typed(DeleteChannel, H, H)
      /\ Typed(Touch("shpool"), H, H) /\ Typed(Touch("channels_queue"), H, H)
      /\ Typed(SendOldMessages, H, H) /\ Typed(AssingSubscriptionToChannel, H, H)
  BY <1>1, TypedDeleteChannel, TypedGetChannel, TypedTouches, TypedSubscribe
<1>3. Typed(Handlers.Subscribe, H, H)
  <2>1. Typed(FindChannel \o GetChannel, H, H)
    BY <1>2, TypedSequence
  <2>2. Typed((FindChannel \o GetChannel) \o Touch("shpool"), H, H)
    BY <1>2, <2>1, TypedSequence
  <2>3. Typed(((FindChannel \o GetChannel) \o Touch("shpool")) \o SendOldMessages, H, H)
    BY <1>2, <2>2, TypedSequence
  <2>4. Typed((((FindChannel \o GetChannel) \o Touch("shpool")) \o SendOldMessages)
                \o AssingSubscriptionToChannel, H, H)
    BY <1>2, <2>3, TypedSequence
  <2> QED
    BY <2>4 DEF Handlers
<1>4. Typed(Handlers.Publish, H, H)
  <2>1. Typed(AddMsgToChannel("channel", Touch("channels_queue")), H, H)
    BY <1>1, <1>2, TypedAddMsg DEF ChannelNames
  <2>2. Typed(FindChannel \o GetChannel, H, H)
    BY <1>2, TypedSequence
  <2>3. Typed((FindChannel \o GetChannel) \o AddMsgToChannel("channel", Touch("channels_queue")), H, H)
    BY <2>1, <2>2, TypedSequence
  <2> QED
    BY <2>3 DEF Handlers
<1>5. Typed(Handlers.Delete, H, H)
  <2>1. Typed(FindChannel \o DeleteChannel, H, H)
    BY <1>2, TypedSequence
  <2> QED
    BY <2>1 DEF Handlers
<1>6. Typed(Handlers.Statistics, H, H)
  BY <1>2 DEF Handlers
<1> QED
  BY <1>3, <1>4, <1>5, <1>6 DEF H

(* The events of a worker: messages, timers of requests, its start and end.    *)
LEMMA TypedWorker ==
    /\ Typed(Handlers.CheckMessages, {}, {}) /\ Typed(Handlers.CensusSubscribers, {}, {})
    /\ Typed(Handlers.CleanupShuttingDownWorker, {}, {})
    /\ Typed(Handlers.InitWorker, {}, {}) /\ Typed(Handlers.Timer, {}, {})
<1> DEFINE H == {}
           G == H \union {"global_shpool"}
           shm == Touch("shpool")
<1>1. \A n : Below(H, n)
  BY BelowNothing
<1> HIDE DEF H
<1>2. /\ "global_shpool" \in Kinds /\ Below(H, KindRank("global_shpool"))
      /\ Below(G, 2) /\ Below(G, 6)
  <2>1. Below(H, 0)
    BY <1>1
  <2> QED
    BY <1>1, <2>1, BelowMore, KindRanks, ZoneNames
<1> HIDE DEF G
<1>3. /\ Typed(SendResponseFinalize, H, H) /\ Typed(shm, H, H) /\ Typed(shm, G, G)
      /\ Typed(CleanWorkerData, H, H) /\ Typed(CleanWorkerData, G, G)
      /\ Typed(CensusOfChannels, G, G)
  BY <1>1, <1>2, TypedSubscriberEnd, TypedTouches, TypedCleanWorkerData
<1>4. Typed(Handlers.CheckMessages, H, H)
  <2>1. Typed(UnsubscribeWorker, H, H)
    <3>1. Below(H, 4) /\ Below(H \union {"channel"}, 6)
      <4>1. Below(H, 4)
        BY <1>1
      <4> QED
        BY <4>1, BelowMore, KindRanks, ZoneNames
    <3>2. Typed(shm, H \union {"channel"}, H \union {"channel"})
      BY <3>1, TypedTouches
    <3> QED
      BY <3>1, <3>2, TypedMaybe, TypedChannelSection DEF UnsubscribeWorker, ChannelNames
  <2>2. Typed(Either(SendResponseFinalize, UnsubscribeWorker), H, H)
    BY <1>3, <2>1, TypedEither
  <2>3. Typed(Either(SendResponseFinalize, UnsubscribeWorker) \o shm, H, H)
    BY <1>3, <2>2, TypedSequence
  <2> QED
    BY <2>3, TypedMaybe DEF Handlers, FreeWorkerMessageMemory
<1>5. Typed(Handlers.CensusSubscribers, H, H)
  <2>1. Typed(shm \o CensusOfChannels, G, G)
    BY <1>3, TypedSequence
  <2>2. Typed(Maybe(shm \o CensusOfChannels), G, G)
    BY <2>1, TypedMaybe
  <2>3. Typed(CensusOfChannels \o shm, G, G)
    BY <1>3, TypedSequence
  <2>4. Typed((CensusOfChannels \o shm) \o Maybe(shm \o CensusOfChannels), G, G)
    BY <2>2, <2>3, TypedSequence
  <2>5. Typed(Section("global_shpool", (CensusOfChannels \o shm) \o Maybe(shm \o CensusOfChannels)), H, H)
    BY <1>2, <2>4, TypedZoneSection DEF G
  <2> QED
    BY <2>5 DEF Handlers
<1>6. Typed(Handlers.CleanupShuttingDownWorker, H, H)
  BY <1>3, TypedSequence DEF Handlers
<1>7. Typed(Handlers.InitWorker, H, H)
  <2>1. Typed(CleanWorkerData \o shm, G, G)
    BY <1>3, TypedSequence
  <2>2. Typed(Section("global_shpool", CleanWorkerData \o shm), H, H)
    BY <1>2, <2>1, TypedZoneSection DEF G
  <2> QED
    BY <2>2 DEF Handlers
<1>8. Typed(Handlers.Timer, H, H)
  <2>1. Typed(Maybe(shm) \o SendResponseFinalize, H, H)
    BY <1>3, TypedMaybe, TypedSequence
  <2> QED
    BY <2>1 DEF Handlers, ConvertCharToMsgOnShared
<1> QED
  BY <1>4, <1>5, <1>6, <1>7, <1>8 DEF H

(* The timers of the cleanup, under a mutex that is tried and not waited for.  *)
LEMMA TypedCleanup ==
    Typed(Handlers.MemoryCleanup, {}, {}) /\ Typed(Handlers.BufferCleanup, {}, {})
<1> DEFINE H == {}
           G == H \union {"cleanup"}
           first == CollectDeletedChannelsData
           second == first \o CollectExpiredMessagesData
           third == second \o CollectEmptyChannels
           all == third \o FreeMemoryOfExpiredMessagesAndChannels
           try == TrySection("cleanup", all)
<1>1. (\A n : Below(H, n)) /\ "cleanup" \notin H /\ H \in SUBSET Kinds
  BY BelowNothing
<1> HIDE DEF H
<1>2. "cleanup" \in Mutexes /\ Kind("cleanup") = "cleanup" /\ Below(G, 1) /\ Below(G, 2) /\ Below(G, 3)
  <2>1. Below(H, 0)
    BY <1>1
  <2> QED
    BY <2>1, BelowMore, KindRanks, ZoneNames DEF Mutexes, ZoneMutexes
<1> HIDE DEF G
<1>3. /\ Typed(DeleteChannelsData, H, H) /\ Typed(first, G, G)
      /\ Typed(CollectExpiredMessagesData, G, G) /\ Typed(CollectEmptyChannels, G, G)
      /\ Typed(FreeMemoryOfExpiredMessagesAndChannels, G, G)
  BY <1>1, <1>2, TypedDeleteChannelsData, TypedCollectDeleted, TypedCollections, TypedFreeMemory
<1> HIDE DEF first
<1>4. Typed(second, G, G)
  BY <1>3, TypedSequence
<1> HIDE DEF second
<1>5. Typed(third, G, G)
  BY <1>3, <1>4, TypedSequence
<1> HIDE DEF third
<1>6. Typed(all, G, G)
  BY <1>3, <1>5, TypedSequence
<1> HIDE DEF all
<1>7. /\ Typed(try, H, H)
      /\ Typed(TrySection("cleanup", CollectExpiredMessagesData), H, H)
  BY <1>1, <1>2, <1>3, <1>6, TypedTry DEF G
<1> HIDE DEF try
<1>8. Typed(DeleteChannelsData \o Maybe(try), H, H)
  BY <1>3, <1>7, TypedMaybe, TypedSequence
<1> QED
  BY <1>7, <1>8 DEF Handlers, H, try, all, third, second, first

LEMMA TypedHandlers == \A h \in DOMAIN Handlers : Typed(Handlers[h], {}, {})
<1>1. DOMAIN Handlers = {"Subscribe", "Publish", "Delete", "Statistics", "CheckMessages",
        "CensusSubscribers", "CleanupShuttingDownWorker", "InitWorker", "MemoryCleanup",
        "BufferCleanup", "Timer"}
  BY DEF Handlers
<1> QED
  BY <1>1, TypedRequests, TypedWorker, TypedCleanup

-----------------------------------------------------------------------------
(* The workers.                                                                *)

(* What the sequence of a handler holds, position by position.                 *)
HoldingOf(h) == CHOOSE hold : Holding(Handlers[h], {}, {}, hold)

(* A worker holds no more than its position says, one mutex of each kind, and  *)
(* waits for what the operation at its position names.                         *)
WorkerInv(w) ==
    /\ \A m \in Mutexes : owner[m] = w =>
          handler[w] # Idle /\ Kind(m) \in HoldingOf(handler[w])[at[w]]
    /\ \A m, n \in Mutexes : owner[m] = w /\ owner[n] = w /\ Kind(m) = Kind(n) => m = n
    /\ wants[w] # NoMutex =>
          /\ handler[w] # Idle /\ at[w] <= Len(Handlers[handler[w]])
          /\ Current(w).op \in {"lock", "touch"}
          /\ wants[w] \in Named(w)

IInv == TypeOK /\ \A w \in Workers : WorkerInv(w)

LEMMA HandlerHolding ==
    ASSUME NEW h \in DOMAIN Handlers
    PROVE  /\ Holding(Handlers[h], {}, {}, HoldingOf(h))
           /\ Handlers[h] \in Seq(Operations) /\ Len(Handlers[h]) \in Nat
<1>1. Typed(Handlers[h], {}, {})
  BY TypedHandlers
<1>2. \E hold : Holding(Handlers[h], {}, {}, hold)
  BY <1>1 DEF Typed
<1> QED
  BY <1>1, <1>2, TypedKinds DEF HoldingOf

(* The operation that a worker is at.                                          *)
LEMMA CurrentOperation ==
    ASSUME TypeOK, NEW w \in Workers, handler[w] # Idle, at[w] <= Len(Handlers[handler[w]])
    PROVE  /\ at[w] \in 1..Len(Handlers[handler[w]]) /\ Len(Handlers[handler[w]]) \in Nat
           /\ Current(w) \in Operations
           /\ TypedOp(Current(w), HoldingOf(handler[w]), at[w], Len(Handlers[handler[w]]))
<1>1. handler[w] \in DOMAIN Handlers
  BY DEF TypeOK
<1> DEFINE h == handler[w]  code == Handlers[h]
<1>2. Holding(code, {}, {}, HoldingOf(h)) /\ code \in Seq(Operations) /\ Len(code) \in Nat
  BY <1>1, HandlerHolding
<1>3. at[w] \in 1..(Len(code) + 1)
  BY DEF TypeOK
<1> HIDE DEF code
<1>4. at[w] \in 1..Len(code)
  BY <1>2, <1>3 DEF code
<1>5. code[at[w]] \in Operations /\ TypedOp(code[at[w]], HoldingOf(h), at[w], Len(code))
  BY <1>2, <1>4 DEF Holding
<1> QED
  BY <1>2, <1>4, <1>5 DEF Current, code

(* The mutexes that an operation may stand for.                                *)
LEMMA NamedMutexes ==
    ASSUME NEW w, Current(w).on \in Names, NEW m \in Named(w)
    PROVE  m \in Mutexes /\ Kind(m) = Kind(Current(w).on) /\ Rank[m] = KindRank(Kind(m))
<1>1. m \in Mutexes /\ Kind(m) = Kind(Current(w).on)
  <2>1. CASE Current(w).on = "channel"
    <3>1. m \in ChannelMutexes /\ Kind("channel") = "channel"
      BY <2>1, ZoneNames DEF Named
    <3> QED
      BY <2>1, <3>1 DEF Kind, Mutexes
  <2>2. CASE Current(w).on # "channel"
    BY <2>2 DEF Named, Names
  <2> QED
    BY <2>1, <2>2
<1> QED
  BY <1>1, KindOfMutex

(* What a worker may wait for, or take with a lock, ranks above what it holds. *)
LEMMA LockIsAbove ==
    ASSUME IInv, NEW w \in Workers, handler[w] # Idle, at[w] <= Len(Handlers[handler[w]]),
           Current(w).op \in {"lock", "touch"}, NEW m \in Named(w)
    PROVE  m \in Mutexes /\ \A h \in Mutexes : owner[h] = w => Rank[h] < Rank[m] /\ Kind(h) # Kind(m)
<1> DEFINE op == Current(w)  hold == HoldingOf(handler[w])  k == Kind(op.on)
<1>1. op \in Operations /\ TypedOp(op, hold, at[w], Len(Handlers[handler[w]]))
  BY CurrentOperation DEF IInv
<1>2. op.on \in Names
  BY <1>1 DEF Operations, Names
<1>3. m \in Mutexes /\ Kind(m) = k /\ Rank[m] = KindRank(k)
  BY <1>2, NamedMutexes
<1>4. Below(hold[at[w]], KindRank(k))
  BY <1>1 DEF TypedOp
<1>5. ASSUME NEW h \in Mutexes, owner[h] = w
      PROVE  Rank[h] < Rank[m] /\ Kind(h) # Kind(m)
  <2>1. Kind(h) \in hold[at[w]]
    BY <1>5 DEF IInv, WorkerInv
  <2>2. Rank[h] = KindRank(Kind(h)) /\ k \in Kinds
    BY <1>2, KindOfMutex, KindOfName
  <2>3. k \notin hold[at[w]]
    BY <1>4, <2>2, NotBelowItself
  <2> QED
    BY <1>3, <1>4, <2>1, <2>2, <2>3 DEF Below
<1> QED
  BY <1>3, <1>5

(* The special owners are no workers.                                          *)
LEMMA Owners == NoWorker \notin Workers /\ Dead \notin Workers /\ NoMutex \notin Mutexes
BY RanksAssumption DEF Ordered!Proper

-----------------------------------------------------------------------------
(* A step of worker w is seen by no other one.                                 *)
StepOf(w) ==
    /\ \A v \in Workers \ {w} :
          handler'[v] = handler[v] /\ at'[v] = at[v] /\ wants'[v] = wants[v]
    /\ \A m \in Mutexes : owner'[m] # owner[m] =>
          /\ owner[m] \in {w, NoWorker}
          /\ owner'[m] \in {w, NoWorker, Dead}

LEMMA OthersKeep ==
    ASSUME NEW w \in Workers, StepOf(w), NEW v \in Workers \ {w}, WorkerInv(v)
    PROVE  WorkerInv(v)'
<1>1. \A m \in Mutexes : owner'[m] = v <=> owner[m] = v
  BY Owners DEF StepOf
<1>2. handler'[v] = handler[v] /\ at'[v] = at[v] /\ wants'[v] = wants[v]
  BY DEF StepOf
<1> QED
  BY <1>1, <1>2 DEF WorkerInv, Current, Named

(* A worker goes on, to where it may hold what it holds then.                  *)
LEMMA GoesOn ==
    ASSUME IInv, NEW w \in Workers, TypeOK', StepOf(w), WorkerInv(w)'
    PROVE  IInv'
BY OthersKeep DEF IInv

(* Nothing waits any more, and what is held is what the new position says.     *)
LEMMA NewPosition ==
    ASSUME NEW w, wants'[w] = NoMutex, handler'[w] = handler[w], handler[w] # Idle,
           \A m \in Mutexes : owner'[m] = w => Kind(m) \in HoldingOf(handler[w])[at'[w]],
           \A m, n \in Mutexes : owner'[m] = w /\ owner'[n] = w /\ Kind(m) = Kind(n) => m = n
    PROVE  WorkerInv(w)'
BY DEF WorkerInv

(* The mutex is taken: the worker moves on with one more.                      *)
LEMMA TakeInv ==
    ASSUME IInv, NEW w \in Workers, handler[w] # Idle, at[w] <= Len(Handlers[handler[w]]),
           Current(w).op \in {"lock", "try"}, NEW m \in Named(w),
           owner[m] = NoWorker, owner' = [owner EXCEPT ![m] = w],
           wants' = [wants EXCEPT ![w] = NoMutex],
           Goto(w, at[w] + 1), UNCHANGED <<handler, deaths>>
    PROVE  IInv'
<1> DEFINE op == Current(w)  hold == HoldingOf(handler[w])  i == at[w]  k == Kind(op.on)
           n == Len(Handlers[handler[w]])
<1>0. TypeOK /\ WorkerInv(w)
  BY DEF IInv
<1>1. i \in 1..n /\ n \in Nat /\ op \in Operations /\ TypedOp(op, hold, i, n)
  BY <1>0, CurrentOperation
<1>2. op.on \in Names
  BY <1>1 DEF Operations, Names
<1>3. m \in Mutexes /\ Kind(m) = k /\ k \in Kinds
  BY <1>2, NamedMutexes, KindOfName
<1>4. hold[i + 1] = hold[i] \union {k} /\ k \notin hold[i]
  <2>1. op.op = "lock" => Below(hold[i], KindRank(k))
    BY <1>1 DEF TypedOp
  <2> QED
    BY <1>1, <1>3, <2>1, NotBelowItself DEF TypedOp
<1>5. at'[w] = i + 1 /\ wants'[w] = NoMutex /\ handler'[w] = handler[w]
  BY <1>0 DEF Goto, TypeOK
<1>6. \A x \in Mutexes : owner'[x] = w => x = m \/ (x # m /\ owner[x] = w)
  BY <1>0, Owners DEF TypeOK
<1>7. \A x \in Mutexes : owner[x] = w => Kind(x) \in hold[i]
  BY <1>0 DEF WorkerInv
<1>8. WorkerInv(w)'
  <2>1. \A x \in Mutexes : owner'[x] = w => Kind(x) \in hold[at'[w]]
    BY <1>3, <1>4, <1>5, <1>6, <1>7
  <2>2. \A x, y \in Mutexes : owner'[x] = w /\ owner'[y] = w /\ Kind(x) = Kind(y) => x = y
    BY <1>0, <1>3, <1>4, <1>6, <1>7 DEF WorkerInv
  <2> QED
    BY <1>5, <2>1, <2>2, NewPosition
<1>9. StepOf(w)
  BY <1>0, <1>3 DEF StepOf, TypeOK, Goto
<1>10. TypeOK'
  <2>1. i + 1 \in 1..(n + 1) /\ i + 1 \in Nat
    BY <1>1
  <2> HIDE DEF i, n
  <2>2. owner' \in [Mutexes -> Workers \union {NoWorker, Dead}]
        /\ wants' \in [Workers -> Mutexes \union {NoMutex}]
    BY <1>0, <1>3 DEF TypeOK
  <2>3. at' \in [Workers -> Nat]
    BY <1>0, <2>1 DEF TypeOK, Goto, i
  <2>4. \A v \in Workers : handler'[v] # Idle => at'[v] \in 1..(Len(Handlers[handler'[v]]) + 1)
    BY <1>0, <1>5, <2>1 DEF TypeOK, Goto, n
  <2> QED
    BY <1>0, <2>2, <2>3, <2>4 DEF TypeOK
<1> QED
  BY <1>8, <1>9, <1>10, GoesOn

(* The worker moves on with what it holds.                                     *)
LEMMA MoveInv ==
    ASSUME IInv, NEW w \in Workers, handler[w] # Idle, at[w] <= Len(Handlers[handler[w]]),
           NEW j \in 1..(Len(Handlers[handler[w]]) + 1),
           HoldingOf(handler[w])[j] = HoldingOf(handler[w])[at[w]],
           Goto(w, j), wants' = [wants EXCEPT ![w] = NoMutex],
           UNCHANGED <<owner, handler, deaths>>
    PROVE  IInv'
<1>0. TypeOK /\ WorkerInv(w)
  BY DEF IInv
<1>1. at'[w] = j /\ wants'[w] = NoMutex /\ handler'[w] = handler[w]
  BY <1>0 DEF Goto, TypeOK
<1>2. WorkerInv(w)'
  BY <1>0, <1>1, NewPosition DEF WorkerInv
<1>3. StepOf(w)
  BY <1>0 DEF StepOf, TypeOK, Goto
<1>4. TypeOK'
  <2>1. j \in Nat
    BY <1>0, CurrentOperation
  <2>2. wants' \in [Workers -> Mutexes \union {NoMutex}] /\ at' \in [Workers -> Nat]
    BY <1>0, <2>1 DEF TypeOK, Goto
  <2>3. \A v \in Workers : handler'[v] # Idle => at'[v] \in 1..(Len(Handlers[handler'[v]]) + 1)
    BY <1>0, <1>1 DEF TypeOK, Goto
  <2> QED
    BY <1>0, <2>2, <2>3 DEF TypeOK
<1> QED
  BY <1>2, <1>3, <1>4, GoesOn

(* The worker waits.                                                           *)
LEMMA WaitInv ==
    ASSUME IInv, NEW w \in Workers, handler[w] # Idle, at[w] <= Len(Handlers[handler[w]]),
           Current(w).op \in {"lock", "touch"}, NEW m \in Named(w),
           wants' = [wants EXCEPT ![w] = m], UNCHANGED <<owner, handler, at, deaths>>
    PROVE  IInv'
<1>0. TypeOK /\ WorkerInv(w)
  BY DEF IInv
<1>1. m \in Mutexes
  BY LockIsAbove
<1>2. WorkerInv(w)'
  BY <1>0 DEF WorkerInv, Current, Named, TypeOK
<1>3. StepOf(w)
  BY <1>0 DEF StepOf, TypeOK
<1>4. TypeOK'
  BY <1>0, <1>1 DEF TypeOK
<1> QED
  BY <1>2, <1>3, <1>4, GoesOn

(* What the guards say of a worker that is at an operation.                    *)
LEMMA AtOperation ==
    ASSUME IInv, NEW w \in Workers, NEW o, AtOp(w, o)
    PROVE  /\ handler[w] # Idle /\ at[w] <= Len(Handlers[handler[w]])
           /\ Current(w).op = o /\ wants[w] = NoMutex
           /\ UNCHANGED wants => wants' = [wants EXCEPT ![w] = NoMutex]
BY DEF AtOp, Current, IInv, TypeOK

LEMMA LocksInv ==
    ASSUME IInv, NEW w \in Workers, Locks(w)
    PROVE  IInv'
<1>1. AtOp(w, "lock") /\ UNCHANGED <<handler, deaths>>
  BY DEF Locks
<1>2. PICK m \in Named(w) :
        \/ owner[m] = NoWorker /\ owner' = [owner EXCEPT ![m] = w] /\ Goto(w, at[w] + 1)
             /\ UNCHANGED wants
        \/ wants' = [wants EXCEPT ![w] = m] /\ UNCHANGED <<owner, at>>
  BY DEF Locks
<1> QED
  BY <1>1, <1>2, AtOperation, TakeInv, WaitInv

LEMMA TouchesInv ==
    ASSUME IInv, NEW w \in Workers, Touches(w)
    PROVE  IInv'
<1>1. AtOp(w, "touch") /\ UNCHANGED <<owner, handler, deaths>>
  BY DEF Touches
<1>2. PICK m \in Named(w) :
        \/ Goto(w, at[w] + 1) /\ UNCHANGED wants
        \/ wants' = [wants EXCEPT ![w] = m] /\ UNCHANGED at
  BY DEF Touches
<1>3. ASSUME Goto(w, at[w] + 1), UNCHANGED wants PROVE IInv'
  <2>1. /\ at[w] + 1 \in 1..(Len(Handlers[handler[w]]) + 1)
        /\ HoldingOf(handler[w])[at[w] + 1] = HoldingOf(handler[w])[at[w]]
    BY <1>1, AtOperation, CurrentOperation DEF IInv, TypedOp
  <2> QED
    BY <1>1, <1>3, <2>1, AtOperation, MoveInv
<1> QED
  BY <1>1, <1>2, <1>3, AtOperation, WaitInv

LEMMA ObtainInv ==
    ASSUME IInv, NEW w \in Workers, Obtain(w)
    PROVE  IInv'
<1>1. /\ wants[w] # NoMutex /\ owner[wants[w]] = NoWorker
      /\ owner' = IF Current(w).op = "lock" THEN [owner EXCEPT ![wants[w]] = w] ELSE owner
      /\ wants' = [wants EXCEPT ![w] = NoMutex]
      /\ Goto(w, at[w] + 1) /\ UNCHANGED <<handler, deaths>>
  BY DEF Obtain
<1>2. /\ handler[w] # Idle /\ at[w] <= Len(Handlers[handler[w]])
      /\ Current(w).op \in {"lock", "touch"} /\ wants[w] \in Named(w)
  BY <1>1 DEF IInv, WorkerInv
<1>3. CASE Current(w).op = "lock"
  BY <1>1, <1>2, <1>3, TakeInv
<1>4. CASE Current(w).op = "touch"
  <2>1. /\ at[w] + 1 \in 1..(Len(Handlers[handler[w]]) + 1)
        /\ HoldingOf(handler[w])[at[w] + 1] = HoldingOf(handler[w])[at[w]]
    BY <1>2, <1>4, CurrentOperation DEF IInv, TypedOp
  <2> QED
    BY <1>1, <1>2, <1>4, <2>1, MoveInv
<1> QED
  BY <1>2, <1>3, <1>4

LEMMA TriesInv ==
    ASSUME IInv, NEW w \in Workers, Tries(w)
    PROVE  IInv'
<1> DEFINE m == Current(w).on
           n == Len(Handlers[handler[w]])
           j == at[w] + 1 + Current(w).over
<1>1. AtOp(w, "try") /\ UNCHANGED <<wants, handler, deaths>>
  BY DEF Tries
<1>2. /\ handler[w] # Idle /\ at[w] <= n /\ Current(w).op = "try"
      /\ wants' = [wants EXCEPT ![w] = NoMutex]
  BY <1>1, AtOperation
<1>3. /\ at[w] \in 1..n /\ n \in Nat /\ Current(w) \in Operations
      /\ TypedOp(Current(w), HoldingOf(handler[w]), at[w], n)
  BY <1>2, CurrentOperation DEF IInv
<1>4. m \in Mutexes /\ Current(w).over \in Nat
  BY <1>2, <1>3 DEF Operations
<1>5. CASE owner[m] = NoWorker /\ owner' = [owner EXCEPT ![m] = w] /\ Goto(w, at[w] + 1)
  <2>1. m \in Named(w)
    BY <1>4, EventsAssumption
       DEF Named, EventsAssumption, Mutexes, ZoneMutexes, PoolMutexes
  <2> QED
    BY <1>1, <1>2, <1>5, <2>1, TakeInv
<1>6. CASE Goto(w, j) /\ UNCHANGED owner
  <2>1. Lands(Current(w), HoldingOf(handler[w]), at[w], n)
    BY <1>2, <1>3 DEF TypedOp
  <2>2. j \in 1..(n + 1) /\ HoldingOf(handler[w])[j] = HoldingOf(handler[w])[at[w]]
    BY <1>3, <1>4, <2>1 DEF Lands
  <2> QED
    BY <1>1, <1>2, <1>6, <2>2, MoveInv
<1> QED
  BY <1>5, <1>6 DEF Tries

LEMMA UnlocksInv ==
    ASSUME IInv, NEW w \in Workers, Unlocks(w)
    PROVE  IInv'
<1> DEFINE op == Current(w)  hold == HoldingOf(handler[w])  i == at[w]
           n == Len(Handlers[handler[w]])
<1>0. TypeOK /\ WorkerInv(w)
  BY DEF IInv
<1>1. AtOp(w, "unlock") /\ UNCHANGED <<wants, handler, deaths>> /\ Goto(w, i + 1)
  BY DEF Unlocks
<1>2. PICK m \in Named(w) : owner[m] = w /\ owner' = [owner EXCEPT ![m] = NoWorker]
  BY DEF Unlocks
<1>3. handler[w] # Idle /\ i <= n /\ op.op = "unlock" /\ wants[w] = NoMutex
  BY <1>1, AtOperation
<1>4. i \in 1..n /\ n \in Nat /\ op \in Operations /\ TypedOp(op, hold, i, n)
  BY <1>0, <1>3, CurrentOperation
<1>5. m \in Mutexes /\ Kind(m) = Kind(op.on)
  <2>1. op.on \in Names
    BY <1>3, <1>4 DEF Operations, Names
  <2> QED
    BY <2>1, NamedMutexes
<1>6. hold[i + 1] = hold[i] \ {Kind(m)}
  BY <1>3, <1>4, <1>5 DEF TypedOp
<1>7. at'[w] = i + 1 /\ wants'[w] = NoMutex /\ handler'[w] = handler[w]
  BY <1>0, <1>1, <1>3 DEF Goto, TypeOK
<1>8. \A x \in Mutexes : owner'[x] = w => x # m /\ owner[x] = w
  BY <1>0, <1>2, <1>5, Owners DEF TypeOK
<1>9. WorkerInv(w)'
  <2>1. \A x \in Mutexes : owner'[x] = w => Kind(x) \in hold[at'[w]]
    BY <1>0, <1>2, <1>5, <1>6, <1>7, <1>8 DEF WorkerInv
  <2>2. \A x, y \in Mutexes : owner'[x] = w /\ owner'[y] = w /\ Kind(x) = Kind(y) => x = y
    BY <1>0, <1>8 DEF WorkerInv
  <2> QED
    BY <1>3, <1>7, <2>1, <2>2, NewPosition
<1>10. StepOf(w)
  BY <1>0, <1>1, <1>2, <1>5 DEF StepOf, TypeOK, Goto
<1>11. TypeOK'
  <2>1. i + 1 \in 1..(n + 1) /\ i + 1 \in Nat
    BY <1>4
  <2>2. owner' \in [Mutexes -> Workers \union {NoWorker, Dead}]
    BY <1>0, <1>2, <1>5 DEF TypeOK
  <2> HIDE DEF i, n
  <2>3. at' \in [Workers -> Nat]
    BY <1>0, <1>1, <2>1 DEF TypeOK, Goto
  <2>4. \A v \in Workers : handler'[v] # Idle => at'[v] \in 1..(Len(Handlers[handler'[v]]) + 1)
    BY <1>0, <1>1, <1>7, <2>1 DEF TypeOK, Goto, n
  <2> QED
    BY <1>0, <1>1, <2>2, <2>3, <2>4 DEF TypeOK
<1> QED
  BY <1>9, <1>10, <1>11, GoesOn

LEMMA BranchesInv ==
    ASSUME IInv, NEW w \in Workers, Branches(w)
    PROVE  IInv'
<1> DEFINE n == Len(Handlers[handler[w]])  hold == HoldingOf(handler[w])
<1>1. UNCHANGED <<owner, wants, handler, deaths>>
  BY DEF Branches
<1>2. \E j : /\ Goto(w, j)
             /\ \/ AtOp(w, "choose") /\ (j = at[w] + 1 + 0 \/ j = at[w] + 1 + Current(w).over)
                \/ AtOp(w, "jump") /\ j = at[w] + 1 + Current(w).over
  BY DEF Branches
<1>3. PICK j : /\ Goto(w, j)
               /\ \/ AtOp(w, "choose") /\ (j = at[w] + 1 + 0 \/ j = at[w] + 1 + Current(w).over)
                  \/ AtOp(w, "jump") /\ j = at[w] + 1 + Current(w).over
  BY <1>2
<1>4. /\ handler[w] # Idle /\ at[w] <= n /\ Current(w).op \in {"choose", "jump"}
      /\ wants' = [wants EXCEPT ![w] = NoMutex]
  BY <1>1, <1>3, AtOperation
<1>5. /\ at[w] \in 1..n /\ n \in Nat /\ Current(w) \in Operations
      /\ TypedOp(Current(w), hold, at[w], n)
  BY <1>4, CurrentOperation DEF IInv
<1>6. Current(w).over \in Nat /\ Lands(Current(w), hold, at[w], n)
      /\ (Current(w).op = "choose" => hold[at[w] + 1] = hold[at[w]])
  BY <1>4, <1>5 DEF Operations, TypedOp
<1>7. j \in 1..(n + 1) /\ hold[j] = hold[at[w]]
  <2>1. CASE j = at[w] + 1 + Current(w).over
    BY <1>5, <1>6, <2>1 DEF Lands
  <2>2. CASE j = at[w] + 1 + 0 /\ AtOp(w, "choose")
    <3>1. Current(w).op = "choose" /\ at[w] + 1 + 0 = at[w] + 1 /\ at[w] + 1 \in 1..(n + 1)
      BY <1>5, <2>2, AtOperation
    <3> QED
      BY <1>6, <2>2, <3>1
  <2> QED
    BY <1>3, <2>1, <2>2
<1> QED
  BY <1>1, <1>3, <1>4, <1>7, MoveInv

(* A handler starts, or ends, with nothing held and nothing wanted.            *)
LEMMA StartInv ==
    ASSUME IInv, NEW w \in Workers, NEW h \in DOMAIN Handlers, Start(w, h)
    PROVE  IInv'
<1>0. TypeOK /\ WorkerInv(w)
  BY DEF IInv
<1>1. /\ handler[w] = Idle /\ handler' = [handler EXCEPT ![w] = h]
      /\ at' = [at EXCEPT ![w] = 1] /\ UNCHANGED <<owner, wants, deaths>>
  BY DEF Start
<1>2. WorkerInv(w)'
  BY <1>0, <1>1 DEF WorkerInv
<1>3. StepOf(w)
  BY <1>0, <1>1 DEF StepOf, TypeOK
<1>4. TypeOK'
  <2>1. 1 \in 1..(Len(Handlers[h]) + 1)
    BY HandlerHolding
  <2> QED
    BY <1>0, <1>1, <2>1 DEF TypeOK
<1> QED
  BY <1>2, <1>3, <1>4, GoesOn

LEMMA ReturnsInv ==
    ASSUME IInv, NEW w \in Workers, Returns(w)
    PROVE  IInv'
<1>0. TypeOK /\ WorkerInv(w)
  BY DEF IInv
<1>1. /\ handler[w] # Idle /\ at[w] > Len(Handlers[handler[w]])
      /\ handler' = [handler EXCEPT ![w] = Idle] /\ at' = [at EXCEPT ![w] = 0]
      /\ UNCHANGED <<owner, wants, deaths>>
  BY DEF Returns
<1>2. handler[w] \in DOMAIN Handlers /\ at[w] \in 1..(Len(Handlers[handler[w]]) + 1)
  BY <1>0, <1>1 DEF TypeOK
<1>3. at[w] = Len(Handlers[handler[w]]) + 1 /\ HoldingOf(handler[w])[at[w]] = {}
  BY <1>1, <1>2, HandlerHolding DEF Holding
<1>4. wants[w] = NoMutex /\ \A m \in Mutexes : owner[m] # w
  <2>1. ~(at[w] <= Len(Handlers[handler[w]]))
    BY <1>2, <1>3, HandlerHolding
  <2> QED
    BY <1>0, <1>3, <2>1 DEF WorkerInv
<1>5. WorkerInv(w)'
  BY <1>1, <1>4 DEF WorkerInv
<1>6. StepOf(w)
  BY <1>0, <1>1 DEF StepOf, TypeOK
<1>7. TypeOK'
  BY <1>0, <1>1 DEF TypeOK
<1> QED
  BY <1>5, <1>6, <1>7, GoesOn

(* The successor of a worker that died holds nothing.                          *)
LEMMA DiesInv ==
    ASSUME IInv, NEW w \in Workers, Dies(w)
    PROVE  IInv'
<1>0. TypeOK /\ WorkerInv(w)
  BY DEF IInv
<1>1. /\ owner' = [m \in Mutexes |->
           IF owner[m] # w THEN owner[m] ELSE IF m \in PoolMutexes THEN NoWorker ELSE Dead]
      /\ wants' = [wants EXCEPT ![w] = NoMutex]
      /\ handler' = [handler EXCEPT ![w] = "InitWorker"] /\ at' = [at EXCEPT ![w] = 1]
      /\ deaths < MaxDeaths /\ deaths' = deaths + 1
  BY DEF Dies
<1>2. \A m \in Mutexes : owner'[m] # w
  BY <1>1, Owners
<1>3. WorkerInv(w)'
  BY <1>0, <1>1, <1>2 DEF WorkerInv, TypeOK
<1>4. StepOf(w)
  BY <1>0, <1>1 DEF StepOf, TypeOK
<1>5. TypeOK'
  <2>1. "InitWorker" \in DOMAIN Handlers
    BY DEF Handlers
  <2>2. 1 \in 1..(Len(Handlers["InitWorker"]) + 1)
    BY <2>1, HandlerHolding
  <2>3. deaths' \in 0..MaxDeaths
    BY <1>0, <1>1, DeathsAssumption DEF TypeOK, DeathsAssumption
  <2>4. owner' \in [Mutexes -> Workers \union {NoWorker, Dead}]
    BY <1>0, <1>1 DEF TypeOK
  <2>5. handler' \in [Workers -> DOMAIN Handlers \union {Idle}]
    BY <1>0, <1>1, <2>1 DEF TypeOK
  <2>6. wants' \in [Workers -> Mutexes \union {NoMutex}] /\ at' \in [Workers -> Nat]
    BY <1>0, <1>1 DEF TypeOK
  <2>7. \A v \in Workers : handler'[v] # Idle => at'[v] \in 1..(Len(Handlers[handler'[v]]) + 1)
    BY <1>0, <1>1, <2>2 DEF TypeOK
  <2> QED
    BY <2>3, <2>4, <2>5, <2>6, <2>7 DEF TypeOK
<1> QED
  BY <1>3, <1>4, <1>5, GoesOn

LEMMA InitIInv == Init => IInv
<1> SUFFICES ASSUME Init PROVE IInv
  OBVIOUS
<1>1. \A w \in Workers : handler[w] = Idle /\ wants[w] = NoMutex
  BY DEF Init
<1>2. \A m \in Mutexes : owner[m] = NoWorker
  BY DEF Init
<1>3. \A w \in Workers : WorkerInv(w)
  BY <1>1, <1>2, Owners DEF WorkerInv
<1>4. TypeOK
  BY <1>1, DeathsAssumption DEF Init, TypeOK, DeathsAssumption
<1> QED
  BY <1>3, <1>4 DEF IInv

LEMMA NextIInv == IInv /\ [Next]_vars => IInv'
<1> SUFFICES ASSUME IInv, [Next]_vars PROVE IInv'
  OBVIOUS
<1>1. CASE UNCHANGED vars
  BY <1>1 DEF vars, IInv, TypeOK, WorkerInv, Current, Named
<1>2. CASE Next
  BY <1>2, StartInv, LocksInv, TouchesInv, TriesInv, UnlocksInv, BranchesInv, ReturnsInv,
     ObtainInv, DiesInv DEF Next, Proceeds
<1> QED
  BY <1>1, <1>2

-----------------------------------------------------------------------------
(* The steps of Locks are steps of OrderedLocks: a worker waits only for a     *)
(* mutex that ranks above what it holds.                                       *)
LEMMA StepIsOrdered ==
    ASSUME IInv, NEW w \in Workers,
           (\E h \in DOMAIN Handlers : Start(w, h)) \/ Proceeds(w) \/ Obtain(w) \/ Dies(w)
    PROVE  [Ordered!Next]_(Ordered!vars)
<1>0. TypeOK /\ WorkerInv(w)
  BY DEF IInv
<1>1. ASSUME UNCHANGED <<owner, wants>> PROVE [Ordered!Next]_(Ordered!vars)
  BY <1>1 DEF Ordered!vars
<1>2. ASSUME NEW m \in Mutexes, wants[w] = NoMutex, owner[m] = NoWorker,
             owner' = [owner EXCEPT ![m] = w], UNCHANGED wants
      PROVE  Ordered!Next
  BY <1>2 DEF Ordered!Next, Ordered!Take
<1>3. ASSUME AtOp(w, "lock") \/ AtOp(w, "touch"), NEW m \in Named(w),
             wants' = [wants EXCEPT ![w] = m], UNCHANGED owner
      PROVE  Ordered!Next
  <2>1. /\ handler[w] # Idle /\ at[w] <= Len(Handlers[handler[w]])
        /\ Current(w).op \in {"lock", "touch"} /\ wants[w] = NoMutex
    BY <1>3, AtOperation
  <2>2. m \in Mutexes /\ Ordered!Above(w, m)
    BY <2>1, LockIsAbove DEF Ordered!Above
  <2>3. Ordered!Wait(w, m)
    BY <1>3, <2>1, <2>2 DEF Ordered!Wait
  <2> QED
    BY <2>2, <2>3 DEF Ordered!Next
<1>4. CASE Locks(w)
  <2>1. AtOp(w, "lock") /\ wants[w] = NoMutex
    BY <1>4 DEF Locks, AtOp
  <2>2. PICK m \in Named(w) :
          \/ owner[m] = NoWorker /\ owner' = [owner EXCEPT ![m] = w] /\ UNCHANGED wants
          \/ wants' = [wants EXCEPT ![w] = m] /\ UNCHANGED owner
    BY <1>4 DEF Locks
  <2>3. m \in Mutexes
    BY <2>1, AtOperation, LockIsAbove
  <2> QED
    BY <1>2, <1>3, <2>1, <2>2, <2>3
<1>5. CASE Touches(w)
  <2>1. AtOp(w, "touch") /\ UNCHANGED owner
    BY <1>5 DEF Touches
  <2>2. UNCHANGED wants \/ \E m \in Named(w) : wants' = [wants EXCEPT ![w] = m]
    BY <1>5 DEF Touches
  <2> QED
    BY <1>1, <1>3, <2>1, <2>2
<1>6. CASE Obtain(w)
  <2>1. CASE Current(w).op = "lock"
    BY <1>6, <2>1 DEF Obtain, Ordered!Next, Ordered!Obtain
  <2>2. CASE Current(w).op # "lock"
    BY <1>6, <2>2 DEF Obtain, Ordered!Next, Ordered!Use
  <2> QED
    BY <2>1, <2>2
<1>7. CASE Tries(w)
  <2>1. AtOp(w, "try") /\ UNCHANGED wants
    BY <1>7 DEF Tries
  <2>2. handler[w] # Idle /\ at[w] <= Len(Handlers[handler[w]]) /\ Current(w).op = "try"
        /\ wants[w] = NoMutex
    BY <2>1, AtOperation
  <2>3. Current(w).on \in Mutexes
    BY <1>0, <2>2, CurrentOperation DEF Operations
  <2> QED
    BY <1>1, <1>2, <1>7, <2>1, <2>2, <2>3 DEF Tries
<1>8. CASE Unlocks(w)
  <2>1. AtOp(w, "unlock") /\ UNCHANGED wants
    BY <1>8 DEF Unlocks
  <2>2. PICK m \in Named(w) : owner[m] = w /\ owner' = [owner EXCEPT ![m] = NoWorker]
    BY <1>8 DEF Unlocks
  <2>3. handler[w] # Idle /\ at[w] <= Len(Handlers[handler[w]]) /\ Current(w).op = "unlock"
        /\ wants[w] = NoMutex
    BY <2>1, AtOperation
  <2>4. Current(w).on \in Names
    BY <1>0, <2>3, CurrentOperation DEF Operations
  <2>5. m \in Mutexes
    BY <2>4, NamedMutexes
  <2> QED
    BY <2>1, <2>2, <2>3, <2>5 DEF Ordered!Next, Ordered!Release
<1>9. CASE Branches(w) \/ Returns(w) \/ \E h \in DOMAIN Handlers : Start(w, h)
  BY <1>1, <1>9 DEF Branches, Returns, Start
<1>10. CASE Dies(w)
  <2>1. /\ wants' = [wants EXCEPT ![w] = NoMutex]
        /\ owner' = [m \in Mutexes |->
             IF owner[m] # w THEN owner[m] ELSE IF m \in PoolMutexes THEN NoWorker ELSE Dead]
    BY <1>10 DEF Dies
  <2>2. Ordered!Die(w)
    BY <1>0, <2>1 DEF Ordered!Die, TypeOK
  <2> QED
    BY <2>2 DEF Ordered!Next
<1> QED
  BY <1>4, <1>5, <1>6, <1>7, <1>8, <1>9, <1>10 DEF Proceeds

(* A worker that waits, waits for more than it holds.                          *)
LEMMA WaitsAbove ==
    ASSUME IInv, NEW w \in Workers, wants[w] # NoMutex
    PROVE  /\ wants[w] \in Mutexes
           /\ \A m \in Mutexes : owner[m] = w => Rank[m] < Rank[wants[w]]
<1>1. /\ handler[w] # Idle /\ at[w] <= Len(Handlers[handler[w]])
      /\ Current(w).op \in {"lock", "touch"} /\ wants[w] \in Named(w)
  BY DEF IInv, WorkerInv
<1> QED
  BY <1>1, LockIsAbove

(* Among numbers there is a least one.                                         *)
LEMMA LowestOfSome ==
    ASSUME NEW T \in SUBSET Nat, T # {}
    PROVE  \E x \in T : \A y \in T : x <= y
<1>1. \E x \in T : \A y \in T : <<y, x>> \notin OpToRel(<, Nat)
  BY NatLessThanWellFounded, WFMin
<1>2. PICK x \in T : \A y \in T : <<y, x>> \notin OpToRel(<, Nat)
  BY <1>1
<1>3. ASSUME NEW y \in T PROVE x <= y
  <2>1. x \in Nat /\ y \in Nat
    OBVIOUS
  <2>2. <<y, x>> \notin OpToRel(<, Nat)
    BY <1>2
  <2>3. ~(y < x)
    BY <2>1, <2>2 DEF OpToRel
  <2> QED
    BY <2>1, <2>3
<1> QED
  BY <1>3

(* In a circle, take the worker that waits for the highest rank: who holds     *)
(* that mutex waits for a higher one.                                          *)
LEMMA NotCircular ==
    ASSUME IInv
    PROVE  NoCircularWait
<1> SUFFICES ASSUME NEW S \in (SUBSET Workers) \ {{}},
                    \A p \in S : wants[p] # NoMutex /\ owner[wants[p]] \in S
             PROVE  FALSE
  BY DEF NoCircularWait, Ordered!NoCircularWait
<1> DEFINE Room(p) == 6 - Rank[wants[p]]
           Rooms == {Room(p) : p \in S}
<1>1. ASSUME NEW p \in S
      PROVE  wants[p] \in Mutexes /\ Rank[wants[p]] \in 0..6 /\ Room(p) \in Nat
  <2>1. wants[p] \in Mutexes
    BY WaitsAbove
  <2>2. Rank[wants[p]] \in 0..6
    BY <2>1, KindOfMutex
  <2> QED
    BY <2>1, <2>2
<1>2. Rooms \in SUBSET Nat /\ Rooms # {}
  BY <1>1
<1>3. PICK least \in Rooms : \A room \in Rooms : least <= room
  BY <1>2, LowestOfSome
<1>4. PICK p \in S : least = Room(p)
  BY <1>3
<1>5. PICK q \in S : q = owner[wants[p]]
  OBVIOUS
<1>6. Rank[wants[p]] < Rank[wants[q]]
  BY <1>1, <1>5, WaitsAbove
<1>7. Room(p) <= Room(q)
  BY <1>3, <1>4
<1> QED
  BY <1>1, <1>6, <1>7

-----------------------------------------------------------------------------
LEMMA Invariance == Spec => []IInv
<1>1. Init => IInv
  BY InitIInv
<1>2. IInv /\ [Next]_vars => IInv'
  BY NextIInv
<1> QED
  BY <1>1, <1>2, PTL DEF Spec

(* No path of a routine runs off its end, or waits for what does not exist.    *)
THEOREM TypeCorrect == Spec => []TypeOK
<1>1. IInv => TypeOK
  BY DEF IInv
<1> QED
  BY <1>1, Invariance, PTL

(* Every routine nests its mutexes in the order of Rank, along every path and  *)
(* call, for any number of workers and of mutexes of channels, whoever dies.   *)
THEOREM RoutinesAreOrdered == Spec => ImplementsOrderedLocks
<1>1. Init => Ordered!Init
  BY DEF Init, Ordered!Init
<1>2. IInv /\ [Next]_vars => [Ordered!Next]_(Ordered!vars)
  <2> SUFFICES ASSUME IInv, [Next]_vars PROVE [Ordered!Next]_(Ordered!vars)
    OBVIOUS
  <2>1. CASE UNCHANGED vars
    BY <2>1 DEF vars, Ordered!vars
  <2>2. CASE Next
    BY <2>2, StepIsOrdered DEF Next
  <2> QED
    BY <2>1, <2>2
<1> QED
  BY <1>1, <1>2, Invariance, PTL DEF Spec, ImplementsOrderedLocks, Ordered!Spec

(* So workers never wait for one another in a circle, nor one for itself.      *)
THEOREM NeverCircular == Spec => []NoCircularWait
<1>1. IInv => NoCircularWait
  BY NotCircular
<1> QED
  BY <1>1, Invariance, PTL

(* Whichever of its early returns a routine takes, a worker that is back in    *)
(* the event loop has given back all it took.                                  *)
THEOREM WhoReturnsHoldsNothing ==
    Spec => [](\A w \in Workers : handler[w] = Idle => Held(w) = {})
<1>1. IInv => \A w \in Workers : handler[w] = Idle => Held(w) = {}
  BY DEF IInv, WorkerInv, Held
<1> QED
  BY <1>1, Invariance, PTL
================================================================================
