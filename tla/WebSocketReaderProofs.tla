------------------------ MODULE WebSocketReaderProofs ------------------------
(***************************************************************************)
(* The reader of WebSocket frames, for any streams of frames of any length *)
(* cut in any pieces: it takes the frames one after the other, whole, and  *)
(* what it publishes are the texts that the client sent.                   *)
(*                                                                         *)
(* The argument turns on where the reader is in the stream: at any time it *)
(* has taken the frames that are handled, what the steps of the next frame *)
(* before this one have read, and what is in its buffer, nothing else. So  *)
(* the bytes that a step looks at are those that the client put there, and *)
(* what the steps before have kept is what that frame says.                *)
(***************************************************************************)
EXTENDS WebSocketReader, FiniteSetTheorems, SequenceTheorems,
        WellFoundedInduction, TLAPS

----------------------------------------------------------------------------
(* The inductive invariant.                                                *)

Steps == {"START", "REAL_SIZE", "MASK_KEY", "PAYLOAD"}

Up == handler # "finalized"

(* The frame of which the reader is in the middle, or which comes next.    *)
Current == sent[handled + 1]

MaskLength(f) == IF f.mask THEN 4 ELSE 0
WireLength(f) == 2 + Extension(f) + MaskLength(f) + f.len

(* The bytes of frame f before those of step s.                            *)
Passed(f, s) ==
  CASE s = "REAL_SIZE" -> 2
    [] s = "MASK_KEY"  -> 2 + Extension(f)
    [] s = "PAYLOAD"   -> 2 + Extension(f) + MaskLength(f)

(* The place in the stream where the bytes of the step begin.              *)
Base == EndOf(sent, handled) + (IF step = "START" THEN 0 ELSE Passed(Current, step))

PlaceInv ==
  /\ Len(Buffer) \in Nat
  /\ taken = Base + Len(Buffer)
  /\ Buffer = [k \in 1..Len(Buffer) |-> stream[Base + k]]
  /\ handled = Len(sent) => step = "START"

(* What is in the header is what the current frame says.                   *)
HeaderInv ==
  LET f == Current IN
  step # "START" =>
    /\ f.opcode = Continuation => begun
    /\ f.opcode # Continuation /\ f.fin => ~begun
    /\ ~begun => opcode = f.opcode
    /\ mask = f.mask
    /\ payload_len = IF step = "REAL_SIZE" THEN ShortLength(f) ELSE f.len
    /\ step = "REAL_SIZE" => f.form # 7
    /\ step = "MASK_KEY" => f.mask
    /\ step = "PAYLOAD" /\ f.mask => mask_key = [k \in 1..4 |-> MaskByte(handled + 1, k)]
    /\ last_fragment = f.fin
    /\ fragmented = (begun \/ ~f.fin)

(* A byte of a text that is not masked, or no longer.                      *)
ClearByte == [frame : Nat, part : {"payload"}, at : Nat, key : {{}}]

MessageInv ==
  /\ step = "START" => ~last_fragment /\ fragmented = begun
  /\ begun => opcode # Continuation
  /\ ~begun => consolidated = <<>>

TextInv ==
  /\ consolidated \in Seq(ClearByte)
  /\ published \in [Channels -> Seq(Seq(ClearByte))]

(* What the reader has in hand, as long as the connection is up.           *)
ReaderInv == PlaceInv /\ HeaderInv /\ MessageInv

IInv ==
  /\ TypeOK
  /\ TextInv
  /\ payload => step = "PAYLOAD"
  /\ Up => ReaderInv
  /\ PartsAreKept

----------------------------------------------------------------------------
(* The bytes of the frames.                                                *)

AnyByte == [frame : Nat, part : {"header", "length", "mask", "payload"}, at : Nat,
            key : SUBSET [frame : Nat, part : {"mask"}, at : Nat, key : {{}}]]

(* A function on 1..n is a sequence of length n.                           *)
LEMMA Listed ==
  ASSUME NEW n \in Nat, NEW T, NEW s \in [1..n -> T]
  PROVE  s \in Seq(T) /\ Len(s) = n /\ DOMAIN s = 1..n
BY LenProperties

(* What a frame is on the wire: its parts, in their order.                 *)
LEMMA WireBytes ==
  ASSUME NEW f \in Frame, NEW i \in Nat
  PROVE  /\ Extension(f) \in {0, 2, 8} /\ MaskLength(f) \in {0, 4} /\ f.len \in Nat
         /\ Wire(f, i) \in Seq(AnyByte)
         /\ Len(Wire(f, i)) = WireLength(f)
         /\ DOMAIN Wire(f, i) = 1..WireLength(f)
         /\ \A k \in 1..2 : Wire(f, i)[k] = Byte(i, "header", k, {})
         /\ \A k \in 1..Extension(f) : Wire(f, i)[2 + k] = Byte(i, "length", k, {})
         /\ \A k \in 1..MaskLength(f) : Wire(f, i)[2 + Extension(f) + k] = MaskByte(i, k)
         /\ \A k \in 1..f.len : Wire(f, i)[2 + Extension(f) + MaskLength(f) + k]
              = Byte(i, "payload", k, IF f.mask THEN {MaskByte(i, ((k - 1) % 4) + 1)} ELSE {})
<1> DEFINE e == Extension(f)
           m == MaskLength(f)
           n == f.len
           A == [at \in 1..2 |-> Byte(i, "header", at, {})]
           B == [at \in 1..e |-> Byte(i, "length", at, {})]
           C == IF f.mask THEN [at \in 1..4 |-> MaskByte(i, at)] ELSE <<>>
           Last(at) == Byte(i, "payload", at, IF f.mask THEN {MaskByte(i, ((at - 1) % 4) + 1)} ELSE {})
           D == [at \in 1..n |-> Last(at)]
<1>1. e \in {0, 2, 8} /\ m \in {0, 4} /\ n \in Nat /\ f.mask \in BOOLEAN
  BY DEF Frame, Extension, MaskLength
<1>2. Wire(f, i) = ((A \o B) \o C) \o D /\ WireLength(f) = 2 + e + m + n
  BY DEF Wire, WireLength
<1>3. \A at \in Nat : MaskByte(i, at) \in AnyByte
  BY DEF MaskByte, Byte, AnyByte
<1>4. A \in [1..2 -> AnyByte] /\ B \in [1..e -> AnyByte]
  <2>1. \A at \in Nat : Byte(i, "header", at, {}) \in AnyByte /\ Byte(i, "length", at, {}) \in AnyByte
    BY DEF Byte, AnyByte
  <2>2. \A at : (at \in 1..2 => at \in Nat) /\ (at \in 1..e => at \in Nat)
    BY <1>1
  <2> HIDE DEF e
  <2> QED
    BY <2>1, <2>2
<1>5. C \in [1..m -> AnyByte] /\ \A k \in 1..m : C[k] = MaskByte(i, k)
  <2>1. CASE f.mask
    <3>1. m = 4 /\ C = [at \in 1..4 |-> MaskByte(i, at)]
      BY <2>1 DEF MaskLength
    <3>2. \A at \in 1..4 : at \in Nat
      OBVIOUS
    <3> HIDE DEF C, m
    <3> QED
      BY <1>3, <3>1, <3>2
  <2>2. CASE ~f.mask
    <3>1. m = 0 /\ C = <<>>
      BY <2>2 DEF MaskLength
    <3> HIDE DEF C, m
    <3> QED
      BY <3>1
  <2> QED
    BY <2>1, <2>2
<1>6. ASSUME NEW at \in 1..n PROVE Last(at) \in AnyByte
  <2>1. at \in Nat /\ ((at - 1) % 4) + 1 \in Nat
    BY <1>1
  <2> DEFINE r == ((at - 1) % 4) + 1
             K == IF f.mask THEN {MaskByte(i, r)} ELSE {}
  <2>2. MaskByte(i, r) \in [frame : Nat, part : {"mask"}, at : Nat, key : {{}}]
    <3> HIDE DEF r
    <3> QED
      BY <2>1 DEF MaskByte, Byte, r
  <2> HIDE DEF r
  <2>3. K \in SUBSET [frame : Nat, part : {"mask"}, at : Nat, key : {{}}]
    BY <2>2
  <2> HIDE DEF K
  <2>4. Byte(i, "payload", at, K) \in AnyByte
    BY <2>1, <2>3 DEF Byte, AnyByte
  <2> QED
    BY <2>4 DEF K, r
<1>7. D \in [1..n -> AnyByte] /\ \A k \in 1..n : D[k] = Last(k)
  <2> HIDE DEF Last, n
  <2> QED
    BY <1>6
<1>8. /\ \A k \in 1..2 : A[k] = Byte(i, "header", k, {})
      /\ \A k \in 1..e : B[k] = Byte(i, "length", k, {})
  <2> HIDE DEF e
  <2> QED
    OBVIOUS
<1> HIDE DEF A, B, C, D, Last, e, m, n
<1> DEFINE AB == A \o B
           ABC == AB \o C
           W == ABC \o D
<1>9. /\ AB \in Seq(AnyByte) /\ Len(AB) = 2 + e
      /\ \A k \in 1..2 : AB[k] = A[k]
      /\ \A k \in 1..e : AB[2 + k] = B[k]
  <2>1. A \in Seq(AnyByte) /\ Len(A) = 2 /\ B \in Seq(AnyByte) /\ Len(B) = e
    BY <1>1, <1>4, Listed
  <2>2. /\ AB \in Seq(AnyByte) /\ Len(AB) = Len(A) + Len(B)
        /\ \A k \in 1..(Len(A) + Len(B)) : AB[k] = IF k <= Len(A) THEN A[k] ELSE B[k - Len(A)]
    BY <2>1, ConcatProperties
  <2> HIDE DEF AB
  <2>3. \A k \in 1..e : 2 + k \in 1..(2 + e) /\ ~(2 + k <= 2) /\ (2 + k) - 2 = k
    BY <1>1
  <2>4. \A k \in 1..2 : k \in 1..(2 + e) /\ k <= 2
    BY <1>1
  <2> QED
    BY <2>1, <2>2, <2>3, <2>4
<1> HIDE DEF AB
<1>10. /\ ABC \in Seq(AnyByte) /\ Len(ABC) = 2 + e + m
       /\ \A k \in 1..(2 + e) : ABC[k] = AB[k]
       /\ \A k \in 1..m : ABC[2 + e + k] = C[k]
  <2>1. C \in Seq(AnyByte) /\ Len(C) = m
    BY <1>1, <1>5, Listed
  <2>2. /\ ABC \in Seq(AnyByte) /\ Len(ABC) = Len(AB) + Len(C)
        /\ \A k \in 1..(Len(AB) + Len(C)) : ABC[k] = IF k <= Len(AB) THEN AB[k] ELSE C[k - Len(AB)]
    BY <1>9, <2>1, ConcatProperties
  <2> HIDE DEF ABC
  <2>3. \A k \in 1..m : 2 + e + k \in 1..(2 + e + m) /\ ~(2 + e + k <= 2 + e) /\ (2 + e + k) - (2 + e) = k
    BY <1>1
  <2>4. \A k \in 1..(2 + e) : k \in 1..(2 + e + m) /\ k <= 2 + e
    BY <1>1
  <2> QED
    BY <1>9, <2>1, <2>2, <2>3, <2>4
<1> HIDE DEF ABC
<1>11. /\ W \in Seq(AnyByte) /\ Len(W) = 2 + e + m + n
       /\ \A k \in 1..(2 + e + m) : W[k] = ABC[k]
       /\ \A k \in 1..n : W[2 + e + m + k] = D[k]
  <2>1. D \in Seq(AnyByte) /\ Len(D) = n
    BY <1>1, <1>7, Listed
  <2>2. /\ W \in Seq(AnyByte) /\ Len(W) = Len(ABC) + Len(D)
        /\ \A k \in 1..(Len(ABC) + Len(D)) : W[k] = IF k <= Len(ABC) THEN ABC[k] ELSE D[k - Len(ABC)]
    BY <1>10, <2>1, ConcatProperties
  <2> HIDE DEF W
  <2>3. \A k \in 1..n : /\ 2 + e + m + k \in 1..(2 + e + m + n) /\ ~(2 + e + m + k <= 2 + e + m)
                        /\ (2 + e + m + k) - (2 + e + m) = k
    BY <1>1
  <2>4. \A k \in 1..(2 + e + m) : k \in 1..(2 + e + m + n) /\ k <= 2 + e + m
    BY <1>1
  <2> DEFINE l == 2 + e + m
  <2>5. /\ Len(W) = l + n
        /\ \A k \in 1..(l + n) : W[k] = IF k <= l THEN ABC[k] ELSE D[k - l]
    BY <1>10, <2>1, <2>2
  <2>6. \A k \in 1..n : W[l + k] = D[k]
    <3> HIDE DEF l
    <3> QED
      BY <2>3, <2>5 DEF l
  <2>7. \A k \in 1..l : W[k] = ABC[k]
    <3> HIDE DEF l
    <3> QED
      BY <2>4, <2>5 DEF l
  <2> QED
    BY <2>2, <2>5, <2>6, <2>7
<1>12. Wire(f, i) = W
  BY <1>2 DEF AB, ABC
<1> HIDE DEF W
<1>13. \A k \in 1..2 : W[k] = Byte(i, "header", k, {})
  <2>1. \A k \in 1..2 : k \in 1..(2 + e) /\ k \in 1..(2 + e + m)
    BY <1>1
  <2> QED
    BY <1>8, <1>9, <1>10, <1>11, <2>1
<1>14. \A k \in 1..e : W[2 + k] = Byte(i, "length", k, {})
  <2>1. \A k \in 1..e : 2 + k \in 1..(2 + e) /\ 2 + k \in 1..(2 + e + m)
    BY <1>1
  <2> QED
    BY <1>8, <1>9, <1>10, <1>11, <2>1
<1>15. \A k \in 1..m : W[2 + e + k] = MaskByte(i, k)
  <2>1. \A k \in 1..m : 2 + e + k \in 1..(2 + e + m)
    BY <1>1
  <2> QED
    BY <1>5, <1>10, <1>11, <2>1
<1>16. \A k \in 1..n : W[2 + e + m + k] = Last(k)
  BY <1>7, <1>11
<1>17. DOMAIN W = 1..(2 + e + m + n)
  BY <1>11, LenProperties
<1> QED
  BY <1>1, <1>2, <1>11, <1>12, <1>13, <1>14, <1>15, <1>16, <1>17 DEF e, m, n, Last

(* The set whose size EndOf is.                                            *)
Places(frames, n) == UNION {{i} \X DOMAIN Wire(frames[i], i) : i \in 1..n}

LEMMA PlacesFinite ==
  ASSUME NEW frames \in Seq(Frame), NEW n \in 0..Len(frames)
  PROVE  IsFiniteSet(Places(frames, n)) /\ EndOf(frames, n) = Cardinality(Places(frames, n))
         /\ EndOf(frames, n) \in Nat
<1> DEFINE Of(i) == {i} \X DOMAIN Wire(frames[i], i)
           of == [i \in 1..n |-> Of(i)]
           All == {Of(i) : i \in 1..n}
<1>1. ASSUME NEW i \in 1..n PROVE IsFiniteSet(Of(i))
  <2>1. frames[i] \in Frame /\ i \in Nat
    OBVIOUS
  <2>2. DOMAIN Wire(frames[i], i) = 1..WireLength(frames[i]) /\ WireLength(frames[i]) \in Int /\ 1 \in Int
    BY <2>1, WireBytes DEF WireLength
  <2> DEFINE D == DOMAIN Wire(frames[i], i)
             I == {i}
             l == WireLength(frames[i])
  <2>3. D = 1..l /\ l \in Int /\ 1 \in Int
    BY <2>2
  <2>4. IsFiniteSet(I)
    BY FS_Singleton
  <2> HIDE DEF D, I, l
  <2>5. IsFiniteSet(1..l)
    BY <2>3, FS_Interval
  <2>6. IsFiniteSet(D)
    BY <2>3, <2>5
  <2>7. IsFiniteSet(I \X D)
    BY <2>4, <2>6, FS_Product
  <2> QED
    BY <2>7 DEF D, I
<1>2. IsFiniteSet(All)
  <2> HIDE DEF Of
  <2>1. of \in Surjection(1..n, All)
    BY DEF Surjection
  <2>2. IsFiniteSet(1..n)
    BY FS_Interval
  <2> HIDE DEF of, All
  <2> QED
    BY <2>1, <2>2, FS_Surjection
<1>3. \A T \in All : IsFiniteSet(T)
  <2> HIDE DEF Of
  <2> QED
    BY <1>1
<1>4. IsFiniteSet(UNION All)
  <2> HIDE DEF All
  <2> QED
    BY <1>2, <1>3, FS_UNION
<1>5. Places(frames, n) = UNION All
  BY DEF Places
<1> QED
  BY <1>4, <1>5, FS_CardinalityType DEF EndOf, Places

(* A frame ends its own length after the one before.                       *)
LEMMA EndOfNext ==
  ASSUME NEW frames \in Seq(Frame), NEW n \in 1..Len(frames)
  PROVE  EndOf(frames, n) = EndOf(frames, n - 1) + WireLength(frames[n])
<1> DEFINE P == Places(frames, n - 1)
           Q == {n} \X DOMAIN Wire(frames[n], n)
           len == WireLength(frames[n])
<1>1. IsFiniteSet(P) /\ EndOf(frames, n - 1) = Cardinality(P) /\ Cardinality(P) \in Nat
  <2>1. n - 1 \in 0..Len(frames)
    OBVIOUS
  <2> HIDE DEF P
  <2> QED
    BY <2>1, PlacesFinite DEF P
<1>2. DOMAIN Wire(frames[n], n) = 1..len /\ len \in Nat
  BY WireBytes DEF WireLength
<1>3. IsFiniteSet(Q) /\ Cardinality(Q) = len
  <2>1. 1 \in Int /\ len \in Int
    BY <1>2
  <2> HIDE DEF len
  <2>2. IsFiniteSet(1..len) /\ Cardinality(1..len) = IF 1 > len THEN 0 ELSE len - 1 + 1
    BY <2>1, FS_Interval
  <2>3. Cardinality(1..len) = len
    BY <1>2, <2>2
  <2>4. IsFiniteSet({n}) /\ Cardinality({n}) = 1
    BY FS_Singleton
  <2> DEFINE I == {n}
             L == 1..len
  <2>5. IsFiniteSet(I) /\ Cardinality(I) = 1 /\ IsFiniteSet(L) /\ Cardinality(L) = len
    BY <2>2, <2>3, <2>4
  <2> HIDE DEF I, L
  <2>6. IsFiniteSet(I \X L) /\ Cardinality(I \X L) = Cardinality(I) * Cardinality(L)
    BY <2>5, FS_Product
  <2>7. Cardinality(I \X L) = len
    BY <1>2, <2>5, <2>6
  <2> QED
    BY <1>2, <2>6, <2>7 DEF I, L
<1>4. P \cap Q = {}
  <2>1. \A x \in P : \E i \in 1..n - 1 : x[1] = i
    BY DEF Places
  <2>2. \A x \in Q : x[1] = n
    OBVIOUS
  <2>3. \A i \in 1..n - 1 : i # n
    OBVIOUS
  <2> HIDE DEF P, Q
  <2> QED
    BY <2>1, <2>2, <2>3
<1>5. Places(frames, n) = P \cup Q
  <2>1. \A i : i \in 1..n <=> i \in 1..n - 1 \/ i = n
    OBVIOUS
  <2> DEFINE Of(i) == {i} \X DOMAIN Wire(frames[i], i)
  <2>2. Places(frames, n) = UNION {Of(i) : i \in 1..n} /\ P = UNION {Of(i) : i \in 1..n - 1} /\ Q = Of(n)
    BY DEF Places
  <2> HIDE DEF Of, P, Q
  <2> QED
    BY <2>1, <2>2
<1>6. EndOf(frames, n) = Cardinality(P \cup Q)
  <2>1. n \in 0..Len(frames)
    OBVIOUS
  <2> QED
    BY <1>5, <2>1, PlacesFinite
<1> HIDE DEF P, Q, len
<1>7. Cardinality(P \cup Q) = Cardinality(P) + Cardinality(Q) - Cardinality({})
  BY <1>1, <1>3, <1>4, FS_Union
<1> QED
  BY <1>1, <1>2, <1>3, <1>6, <1>7, FS_EmptySet DEF len

(* Later frames end later.                                                 *)
LEMMA EndOfMonotone ==
  ASSUME NEW frames \in Seq(Frame), NEW m \in 0..Len(frames), NEW n \in m..Len(frames)
  PROVE  EndOf(frames, m) <= EndOf(frames, n)
<1>1. n \in 0..Len(frames) /\ \A i : i \in 1..m => i \in 1..n
  OBVIOUS
<1>2. Places(frames, m) \in SUBSET Places(frames, n)
  <2> DEFINE Of(i) == {i} \X DOMAIN Wire(frames[i], i)
  <2>1. Places(frames, m) = UNION {Of(i) : i \in 1..m} /\ Places(frames, n) = UNION {Of(i) : i \in 1..n}
    BY DEF Places
  <2> HIDE DEF Of
  <2> QED
    BY <1>1, <2>1
<1> QED
  BY <1>1, <1>2, PlacesFinite, FS_Subset

(* The bytes of the n-th frame are in their places in the stream.          *)
LEMMA StreamBytes ==
  ASSUME NEW frames \in Seq(Frame)
  PROVE  /\ EndOf(frames, 0) = 0
         /\ Stream(frames) \in Seq(AnyByte)
         /\ Len(Stream(frames)) = EndOf(frames, Len(frames))
         /\ \A n \in 1..Len(frames) : \A k \in 1..WireLength(frames[n]) :
              Stream(frames)[EndOf(frames, n - 1) + k] = Wire(frames[n], n)[k]
<1> DEFINE last == EndOf(frames, Len(frames))
           In(i, p) == EndOf(frames, i - 1) < p /\ p <= EndOf(frames, i)
           At(p) == CHOOSE i \in DOMAIN frames : In(i, p)
           Of(p) == Wire(frames[At(p)], At(p))[p - EndOf(frames, At(p) - 1)]
           s == [p \in 1..last |-> Of(p)]
<1>1. Stream(frames) = s
  BY DEF Stream
<1>2. \A n \in 0..Len(frames) : EndOf(frames, n) \in Nat
  BY PlacesFinite
<1>3. last \in Nat /\ Len(frames) \in Nat /\ DOMAIN frames = 1..Len(frames)
  BY <1>2
<1>4. EndOf(frames, 0) = 0
  <2>1. Places(frames, 0) = {}
    BY DEF Places
  <2> QED
    BY <2>1, PlacesFinite, FS_EmptySet
<1>5. ASSUME NEW n \in 1..Len(frames)
      PROVE  /\ frames[n] \in Frame /\ n \in Nat /\ n - 1 \in 0..Len(frames) /\ n \in 0..Len(frames)
             /\ WireLength(frames[n]) \in Nat
             /\ EndOf(frames, n) = EndOf(frames, n - 1) + WireLength(frames[n])
             /\ EndOf(frames, n) <= last
             /\ DOMAIN Wire(frames[n], n) = 1..WireLength(frames[n])
             /\ Wire(frames[n], n) \in Seq(AnyByte)
  <2>1. frames[n] \in Frame /\ n \in Nat /\ n - 1 \in 0..Len(frames) /\ n \in 0..Len(frames)
    OBVIOUS
  <2>2. EndOf(frames, n) = EndOf(frames, n - 1) + WireLength(frames[n])
    BY EndOfNext
  <2>3. EndOf(frames, n) <= last
    <3>1. Len(frames) \in n..Len(frames)
      OBVIOUS
    <3> QED
      BY <2>1, <3>1, EndOfMonotone
  <2>4. /\ DOMAIN Wire(frames[n], n) = 1..WireLength(frames[n])
        /\ Wire(frames[n], n) \in Seq(AnyByte) /\ WireLength(frames[n]) \in Nat
    BY <2>1, WireBytes DEF WireLength
  <2> QED
    BY <2>1, <2>2, <2>3, <2>4
<1> HIDE DEF last
<1>6. ASSUME NEW p \in 1..last, NEW i \in 1..Len(frames), In(i, p),
             NEW j \in 1..Len(frames), In(j, p)
      PROVE  i = j
  <2>1. ASSUME NEW a \in 1..Len(frames), NEW b \in 1..Len(frames), a < b, In(a, p), In(b, p)
        PROVE  FALSE
    <3>1. a \in 0..Len(frames) /\ b - 1 \in a..Len(frames) /\ b - 1 \in 0..Len(frames)
      BY <2>1
    <3>2. EndOf(frames, a) <= EndOf(frames, b - 1)
      BY <3>1, EndOfMonotone
    <3> QED
      BY <1>2, <1>3, <2>1, <3>1, <3>2
  <2>2. ~(i < j) /\ ~(j < i)
    <3> HIDE DEF In
    <3> QED
      BY <1>6, <2>1
  <2> QED
    BY <2>2
<1>7. ASSUME NEW n \in 1..Len(frames), NEW k \in 1..WireLength(frames[n])
      PROVE  /\ EndOf(frames, n - 1) + k \in 1..last
             /\ s[EndOf(frames, n - 1) + k] = Wire(frames[n], n)[k]
  <2> DEFINE p == EndOf(frames, n - 1) + k
  <2>1. EndOf(frames, n - 1) \in Nat
    BY <1>2, <1>5
  <2>2. p \in 1..last /\ In(n, p) /\ p - EndOf(frames, n - 1) = k
    BY <1>3, <1>5, <2>1
  <2> HIDE DEF p, In
  <2>3. At(p) = n
    <3>1. n \in DOMAIN frames
      BY <1>3
    <3>2. At(p) \in DOMAIN frames /\ In(At(p), p)
      BY <2>2, <3>1
    <3> HIDE DEF At
    <3> QED
      BY <1>3, <1>6, <2>2, <3>2
  <2>4. s[p] = Of(p)
    <3> HIDE DEF Of
    <3> QED
      BY <2>2
  <2> HIDE DEF At, s
  <2>5. s[p] = Wire(frames[n], n)[k]
    BY <2>2, <2>3, <2>4
  <2> QED
    BY <2>2, <2>5 DEF p
<1>8. ASSUME NEW p \in 1..last PROVE \E i \in 1..Len(frames) : In(i, p)
  <2> DEFINE Reached == {n \in 1..Len(frames) : p <= EndOf(frames, n)}
  <2>1. Len(frames) # 0 /\ Len(frames) \in Reached
    BY <1>3, <1>4 DEF last
  <2>2. PICK i \in Reached : \A n \in Reached : <<n, i>> \notin OpToRel(<, Nat)
    <3>1. Reached \in SUBSET Nat /\ Reached # {}
      BY <2>1
    <3> HIDE DEF Reached
    <3> QED
      BY <3>1, NatLessThanWellFounded, WFMin
  <2>3. i \in 1..Len(frames) /\ i \in Nat /\ p <= EndOf(frames, i)
    OBVIOUS
  <2>4. i - 1 \notin Reached
    <3> SUFFICES ASSUME i - 1 \in Reached PROVE FALSE
      OBVIOUS
    <3>1. i - 1 \in Nat /\ i - 1 < i
      BY <2>3
    <3> QED
      BY <2>2, <2>3, <3>1 DEF OpToRel
  <2>5. i - 1 \in 0..Len(frames) /\ EndOf(frames, i - 1) \in Nat /\ p \in Nat
    BY <1>2, <1>3, <2>3
  <2>6. EndOf(frames, i - 1) < p
    <3>1. CASE i = 1
      BY <1>4, <2>5, <3>1
    <3>2. CASE i # 1
      <4>1. i - 1 \in 1..Len(frames)
        BY <2>3, <3>2
      <4>2. ~(p <= EndOf(frames, i - 1))
        BY <2>4, <4>1
      <4> QED
        BY <2>5, <4>2
    <3> QED
      BY <3>1, <3>2
  <2> QED
    BY <2>3, <2>6
<1>9. ASSUME NEW p \in 1..last PROVE s[p] \in AnyByte
  <2>1. PICK i \in 1..Len(frames) : In(i, p)
    BY <1>8
  <2> DEFINE k == p - EndOf(frames, i - 1)
  <2>2. k \in 1..WireLength(frames[i]) /\ EndOf(frames, i - 1) + k = p
    <3>1. EndOf(frames, i - 1) \in Nat /\ p \in Nat
      BY <1>2, <1>3, <1>5
    <3> QED
      BY <1>5, <2>1, <3>1
  <2> HIDE DEF k, s
  <2>3. s[p] = Wire(frames[i], i)[k]
    BY <1>7, <2>2
  <2>4. Wire(frames[i], i)[k] \in AnyByte
    <3>1. Wire(frames[i], i) \in Seq(AnyByte) /\ k \in DOMAIN Wire(frames[i], i)
      BY <1>5, <2>2
    <3> QED
      BY <3>1
  <2> QED
    BY <2>3, <2>4
<1>10. s \in [1..last -> AnyByte]
  <2>1. s = [p \in 1..last |-> s[p]]
    <3> HIDE DEF Of
    <3> QED
      OBVIOUS
  <2> HIDE DEF s
  <2> QED
    BY <1>9, <2>1
<1> HIDE DEF s
<1>11. s \in Seq(AnyByte) /\ Len(s) = last
  BY <1>3, <1>10, Listed
<1> QED
  BY <1>1, <1>4, <1>7, <1>11 DEF last

----------------------------------------------------------------------------
(* Where the reader is, and what it finds there.                           *)

(* What TypeOK says of single values.                                      *)
LEMMA Types ==
  ASSUME TypeOK
  PROVE  /\ sent \in Seq(Frame) /\ Len(sent) \in Nat
         /\ stream = Stream(sent) /\ stream \in Seq(AnyByte)
         /\ Len(stream) \in Nat /\ Len(stream) = EndOf(sent, Len(sent))
         /\ taken \in Nat /\ arrived \in Nat /\ taken <= arrived /\ arrived <= Len(stream)
         /\ Available \in Nat /\ taken + Available = arrived
         /\ mask \in BOOLEAN /\ fragmented \in BOOLEAN /\ last_fragment \in BOOLEAN
         /\ payload \in BOOLEAN /\ temp_pool \in BOOLEAN /\ begun \in BOOLEAN
         /\ eof \in BOOLEAN /\ edge \in BOOLEAN
         /\ payload_len \in Nat /\ handled \in Nat /\ pongs \in Nat
         /\ handled \in 0..Len(sent)
         /\ Wanted \in Nat
<1>1. sent \in Seq(Frame)
  BY StreamsAssumption DEF TypeOK, StreamsAssumption
<1>2. stream \in Seq(AnyByte) /\ Len(stream) = EndOf(sent, Len(sent)) /\ stream = Stream(sent)
  <2>1. stream = Stream(sent)
    BY DEF TypeOK
  <2> QED
    BY <1>1, <2>1, StreamBytes
<1>3. Len(stream) \in Nat /\ Len(sent) \in Nat
  BY <1>1, <1>2, LenProperties
<1>4. taken \in Nat /\ arrived \in Nat /\ taken <= arrived /\ arrived <= Len(stream)
  BY <1>3 DEF TypeOK
<1>5. Available \in Nat /\ taken + Available = arrived
  BY <1>4 DEF Available
<1>6. payload_len \in Nat /\ handled \in Nat /\ pongs \in Nat /\ handled \in 0..Len(sent)
  BY <1>3 DEF TypeOK
<1>7. Wanted \in Nat
  BY <1>6 DEF TypeOK, Wanted
<1> QED
  BY <1>1, <1>2, <1>3, <1>4, <1>5, <1>6, <1>7 DEF TypeOK

(* The current frame has its place in the stream.                          *)
LEMMA FramePlace ==
  ASSUME TypeOK, handled < Len(sent)
  PROVE  /\ Current \in Frame /\ handled + 1 \in 1..Len(sent) /\ handled + 1 \in Nat
         /\ EndOf(sent, handled) \in Nat
         /\ WireLength(Current) \in Nat
         /\ EndOf(sent, handled + 1) = EndOf(sent, handled) + WireLength(Current)
         /\ \A k \in 1..WireLength(Current) :
              stream[EndOf(sent, handled) + k] = Wire(Current, handled + 1)[k]
<1>1. /\ sent \in Seq(Frame) /\ stream = Stream(sent) /\ Len(sent) \in Nat /\ handled \in Nat
      /\ handled \in 0..Len(sent)
  BY Types
<1>2. handled + 1 \in 1..Len(sent) /\ handled + 1 \in Nat /\ (handled + 1) - 1 = handled
  BY <1>1
<1>3. Current \in Frame
  BY <1>1, <1>2, ElementOfSeq DEF Current
<1>4. WireLength(Current) \in Nat
  BY <1>2, <1>3, WireBytes DEF WireLength
<1>5. EndOf(sent, handled) \in Nat
  BY <1>1, PlacesFinite
<1> QED
  BY <1>1, <1>2, <1>3, <1>4, <1>5, EndOfNext, StreamBytes DEF Current

(* The place of the reader is a natural number.                            *)
LEMMA BaseType ==
  ASSUME TypeOK, ReaderInv
  PROVE  /\ Base \in Nat /\ Len(Buffer) \in Nat /\ Room \in Nat /\ Len(Buffer) + Room = Wanted
         /\ taken = Base + Len(Buffer)
<1>1. Len(Buffer) \in Nat /\ Wanted \in Nat /\ Len(Buffer) <= Wanted
  BY Types DEF TypeOK, ReaderInv, PlaceInv
<1>2. Room \in Nat /\ Len(Buffer) + Room = Wanted
  <2> HIDE DEF Buffer
  <2> QED
    BY <1>1 DEF Room
<1>3. EndOf(sent, handled) \in Nat
  BY Types, PlacesFinite
<1>4. CASE step = "START"
  BY <1>1, <1>2, <1>3, <1>4 DEF Base, ReaderInv, PlaceInv
<1>5. CASE step # "START"
  <2>1. handled < Len(sent)
    BY <1>5, Types DEF ReaderInv, PlaceInv
  <2>2. Current \in Frame /\ handled + 1 \in Nat
    BY <2>1, FramePlace
  <2>3. Extension(Current) \in Nat /\ MaskLength(Current) \in Nat
    BY <2>2, WireBytes
  <2>4. Passed(Current, step) \in Nat
    BY <1>5, <2>3 DEF Passed, TypeOK
  <2>5. Base \in Nat
    BY <1>3, <1>5, <2>4 DEF Base
  <2> QED
    BY <1>1, <1>2, <2>5 DEF ReaderInv, PlaceInv
<1> QED
  BY <1>4, <1>5

(* recv puts the bytes that come next behind those that are there.         *)
LEMMA FilledBytes ==
  ASSUME TypeOK, ReaderInv, NEW n \in Nat, n <= Available
  PROVE  /\ Len(Filled(n)) = Len(Buffer) + n
         /\ Filled(n) = [k \in 1..(Len(Buffer) + n) |-> stream[Base + k]]
         /\ \A k \in 1..(Len(Buffer) + n) : stream[Base + k] \in AnyByte
<1> DEFINE l == Len(Buffer)
           b == Buffer
           t == SubSeq(stream, taken + 1, taken + n)
           base == Base
<1>1. base \in Nat /\ l \in Nat /\ taken = base + l
  BY BaseType
<1>2. /\ stream \in Seq(AnyByte) /\ Len(stream) \in Nat /\ taken \in Nat
      /\ taken + n <= Len(stream)
  BY Types
<1>3. b = [k \in 1..l |-> stream[base + k]]
  BY DEF ReaderInv, PlaceInv
<1>4. Filled(n) = b \o t
  BY DEF Filled
<1> HIDE DEF l, b, base
<1>5. \A k \in 1..(l + n) : stream[base + k] \in AnyByte
  <2>1. \A k \in 1..(l + n) : base + k \in 1..Len(stream)
    BY <1>1, <1>2
  <2> QED
    BY <1>2, <2>1, ElementOfSeq
<1>6. b \in Seq(AnyByte) /\ Len(b) = l
  <2>1. \A k \in 1..l : k \in 1..(l + n)
    BY <1>1
  <2>2. b \in [1..l -> AnyByte]
    BY <1>3, <1>5, <2>1
  <2> QED
    BY <1>1, <2>2, Listed
<1>7. t \in Seq(AnyByte) /\ Len(t) = n /\ \A k \in 1..n : t[k] = stream[taken + k]
  <2>1. taken + 1 \in 1..(Len(stream) + 1) /\ taken + n \in (taken + 1) - 1..Len(stream)
    BY <1>2
  <2>2. taken + 1 \in Int /\ taken + n \in Int
    BY <1>2
  <2>3. (taken + n) - (taken + 1) + 1 = n /\ \A k \in 1..n : (taken + 1) + k - 1 = taken + k
    BY <1>2
  <2>4. t \in Seq(AnyByte) /\ Len(t) = n /\ \A k \in 1..n : t[k] = stream[(taken + 1) + k - 1]
    BY <1>2, <2>1, <2>2, <2>3, SubSeqProperties
  <2> QED
    BY <2>3, <2>4
<1> HIDE DEF t
<1>8. /\ b \o t \in Seq(AnyByte) /\ Len(b \o t) = l + n
      /\ \A k \in 1..(l + n) : (b \o t)[k] = IF k <= l THEN b[k] ELSE t[k - l]
  BY <1>6, <1>7, ConcatProperties
<1>9. ASSUME NEW k \in 1..(l + n) PROVE (b \o t)[k] = stream[base + k]
  <2>1. CASE k <= l
    <3>1. k \in 1..l
      BY <1>1, <2>1
    <3> QED
      BY <1>3, <1>8, <2>1, <3>1
  <2>2. CASE ~(k <= l)
    <3>1. k - l \in 1..n /\ taken + (k - l) = base + k
      BY <1>1, <2>2
    <3> QED
      BY <1>7, <1>8, <2>2, <3>1
  <2> QED
    BY <2>1, <2>2
<1>10. b \o t = [k \in 1..(l + n) |-> stream[base + k]]
  <2> DEFINE u == b \o t
  <2>1. u \in Seq(AnyByte) /\ Len(u) = l + n /\ \A k \in 1..(l + n) : u[k] = stream[base + k]
    BY <1>8, <1>9
  <2> HIDE DEF u
  <2>2. u = [k \in 1..(l + n) |-> u[k]]
    BY <2>1, LenProperties
  <2>3. u = [k \in 1..(l + n) |-> stream[base + k]]
    BY <2>1, <2>2
  <2> QED
    BY <2>3 DEF u
<1> QED
  BY <1>4, <1>5, <1>8, <1>10 DEF l, b, base

(* What a step finds when it has all its bytes.                            *)
LEMMA StepBytes ==
  ASSUME TypeOK, ReaderInv, CanFill
  PROVE  /\ handled < Len(sent)
         /\ taken + Room = Base + Wanted /\ taken + Room \in Nat /\ taken + Room <= arrived
         /\ Len(Filled(Room)) = Wanted
         /\ Filled(Room) = [k \in 1..Wanted |-> stream[Base + k]]
<1>1. /\ Base \in Nat /\ Room \in Nat /\ Len(Buffer) \in Nat /\ Len(Buffer) + Room = Wanted
      /\ taken = Base + Len(Buffer)
  BY BaseType
<1>2. /\ Available \in Nat /\ taken \in Nat /\ arrived \in Nat /\ taken + Available = arrived
      /\ arrived <= Len(stream) /\ Len(stream) = EndOf(sent, Len(sent)) /\ Wanted \in Nat
      /\ handled \in 0..Len(sent) /\ Len(sent) \in Nat /\ Len(stream) \in Nat
  BY Types
<1>3. Room <= Available
  BY <1>1, <1>2 DEF CanFill
<1>4. taken + Room = Base + Wanted /\ taken + Room \in Nat /\ taken + Room <= arrived
  <2> HIDE DEF Base, Room, Buffer, Available, Wanted
  <2> QED
    BY <1>1, <1>2, <1>3
<1>5. handled < Len(sent)
  <2> SUFFICES ASSUME handled = Len(sent) PROVE FALSE
    BY <1>2
  <2>1. step = "START"
    BY DEF ReaderInv, PlaceInv
  <2>2. Base = EndOf(sent, Len(sent)) + 0 /\ Wanted = 2
    BY <2>1 DEF Base, Wanted
  <2> HIDE DEF Base, Room, Wanted
  <2> QED
    BY <1>2, <1>4, <2>2
<1>6. /\ Len(Filled(Room)) = Len(Buffer) + Room
      /\ Filled(Room) = [k \in 1..(Len(Buffer) + Room) |-> stream[Base + k]]
  BY <1>1, <1>3, FilledBytes
<1> QED
  BY <1>1, <1>4, <1>5, <1>6

(* The bytes of the steps, by the frame.                                   *)
LEMMA StartBytes ==
  ASSUME TypeOK, ReaderInv, CanFill, step = "START"
  PROVE  FrameOf(Filled(Room)[1]) = Current /\ FrameOf(Filled(Room)[2]) = Current
<1>1. /\ handled < Len(sent) /\ Filled(Room) = [k \in 1..Wanted |-> stream[Base + k]]
  BY StepBytes
<1>2. Wanted = 2 /\ Base = EndOf(sent, handled) + 0 /\ EndOf(sent, handled) \in Nat
  BY <1>1, FramePlace DEF Wanted, Base
<1>3. /\ Current \in Frame /\ handled + 1 \in Nat
      /\ \A k \in 1..WireLength(Current) :
           stream[EndOf(sent, handled) + k] = Wire(Current, handled + 1)[k]
  BY <1>1, FramePlace
<1>4. \A k \in 1..2 : k \in 1..WireLength(Current) /\ Wire(Current, handled + 1)[k].frame = handled + 1
  <2>1. /\ Extension(Current) \in Nat /\ MaskLength(Current) \in Nat /\ Current.len \in Nat
        /\ \A k \in 1..2 : Wire(Current, handled + 1)[k] = Byte(handled + 1, "header", k, {})
    BY <1>3, WireBytes
  <2>2. \A k \in 1..2 : k \in 1..WireLength(Current)
    BY <2>1 DEF WireLength
  <2> QED
    BY <2>1, <2>2 DEF Byte
<1>5. ASSUME NEW k \in 1..2 PROVE FrameOf(Filled(Room)[k]) = Current
  <2>1. Filled(Room)[k] = stream[Base + k]
    BY <1>1, <1>2
  <2>2. Base + k = EndOf(sent, handled) + k
    BY <1>2
  <2> QED
    BY <1>3, <1>4, <2>1, <2>2 DEF FrameOf, Current
<1> QED
  BY <1>5

LEMMA SizeBytes ==
  ASSUME TypeOK, ReaderInv, CanFill, step = "REAL_SIZE"
  PROVE  FrameOf(Filled(Room)[1]) = Current /\ Wanted = Extension(Current)
<1>1. /\ handled < Len(sent) /\ Filled(Room) = [k \in 1..Wanted |-> stream[Base + k]]
  BY StepBytes
<1>2. /\ Current \in Frame /\ handled + 1 \in Nat /\ EndOf(sent, handled) \in Nat
      /\ \A k \in 1..WireLength(Current) :
           stream[EndOf(sent, handled) + k] = Wire(Current, handled + 1)[k]
  BY <1>1, FramePlace
<1>3. Base = EndOf(sent, handled) + 2
  BY DEF Base, Passed
<1>4. Wanted = Extension(Current) /\ Extension(Current) \in {2, 8}
  <2>1. payload_len = ShortLength(Current) /\ Current.form \in {16, 64}
    BY <1>2 DEF ReaderInv, HeaderInv, Frame
  <2> QED
    BY <2>1 DEF Wanted, ShortLength, Extension
<1>5. 2 + 1 \in 1..WireLength(Current) /\ Wire(Current, handled + 1)[2 + 1].frame = handled + 1
  <2>1. /\ MaskLength(Current) \in Nat /\ Current.len \in Nat
        /\ \A k \in 1..Extension(Current) :
             Wire(Current, handled + 1)[2 + k] = Byte(handled + 1, "length", k, {})
    BY <1>2, WireBytes
  <2>2. 1 \in 1..Extension(Current)
    BY <1>4
  <2>3. 2 + 1 \in 1..WireLength(Current)
    BY <1>4, <2>1 DEF WireLength
  <2>4. Wire(Current, handled + 1)[2 + 1] = Byte(handled + 1, "length", 1, {})
    BY <2>1, <2>2
  <2> QED
    BY <2>3, <2>4 DEF Byte
<1>6. Filled(Room)[1] = stream[Base + 1]
  BY <1>1, <1>4
<1>7. Base + 1 = EndOf(sent, handled) + (2 + 1)
  BY <1>2, <1>3
<1> QED
  BY <1>2, <1>4, <1>5, <1>6, <1>7 DEF FrameOf, Current

LEMMA KeyBytes ==
  ASSUME TypeOK, ReaderInv, CanFill, step = "MASK_KEY"
  PROVE  Filled(Room) = [k \in 1..4 |-> MaskByte(handled + 1, k)]
<1>1. /\ handled < Len(sent) /\ Filled(Room) = [k \in 1..Wanted |-> stream[Base + k]]
  BY StepBytes
<1>2. /\ Current \in Frame /\ handled + 1 \in Nat /\ EndOf(sent, handled) \in Nat
      /\ \A k \in 1..WireLength(Current) :
           stream[EndOf(sent, handled) + k] = Wire(Current, handled + 1)[k]
  BY <1>1, FramePlace
<1> DEFINE e == Extension(Current)
<1>3. Base = EndOf(sent, handled) + (2 + e) /\ Wanted = 4
  BY DEF Base, Passed, Wanted
<1>4. /\ e \in Nat /\ MaskLength(Current) = 4 /\ Current.len \in Nat
      /\ \A k \in 1..4 : Wire(Current, handled + 1)[2 + e + k] = MaskByte(handled + 1, k)
  <2>1. MaskLength(Current) = 4
    BY DEF ReaderInv, HeaderInv, MaskLength
  <2> QED
    BY <1>2, <2>1, WireBytes
<1>5. ASSUME NEW k \in 1..4 PROVE stream[Base + k] = MaskByte(handled + 1, k)
  <2>1. 2 + e + k \in 1..WireLength(Current)
    BY <1>4 DEF WireLength
  <2> HIDE DEF e
  <2>2. Base + k = EndOf(sent, handled) + (2 + e + k)
    BY <1>2, <1>3, <1>4
  <2> QED
    BY <1>2, <1>4, <2>1, <2>2
<1> QED
  BY <1>1, <1>3, <1>5

(* The k-th byte of the payload of the current frame, as it comes.         *)
PayloadByte(k) ==
  Byte(handled + 1, "payload", k,
       IF Current.mask THEN {MaskByte(handled + 1, ((k - 1) % 4) + 1)} ELSE {})

LEMMA PayloadBytes ==
  ASSUME TypeOK, ReaderInv, CanFill, step = "PAYLOAD"
  PROVE  /\ Filled(Room) = [k \in 1..Current.len |-> PayloadByte(k)]
         /\ Len(Filled(Room)) = Current.len /\ Current.len \in Nat /\ payload_len = Current.len
         /\ EndOf(sent, handled + 1) = taken + Room
<1>1. /\ handled < Len(sent) /\ Filled(Room) = [k \in 1..Wanted |-> stream[Base + k]]
      /\ taken + Room = Base + Wanted /\ Len(Filled(Room)) = Wanted
  BY StepBytes
<1>2. /\ Current \in Frame /\ handled + 1 \in Nat /\ EndOf(sent, handled) \in Nat
      /\ \A k \in 1..WireLength(Current) :
           stream[EndOf(sent, handled) + k] = Wire(Current, handled + 1)[k]
      /\ EndOf(sent, handled + 1) = EndOf(sent, handled) + WireLength(Current)
  BY <1>1, FramePlace
<1> DEFINE e == Extension(Current)
           m == MaskLength(Current)
           n == Current.len
<1>3. Base = EndOf(sent, handled) + (2 + e + m) /\ Wanted = n /\ payload_len = n
  BY DEF Base, Passed, Wanted, ReaderInv, HeaderInv
<1>4. /\ e \in Nat /\ m \in Nat /\ n \in Nat
      /\ \A k \in 1..n : Wire(Current, handled + 1)[2 + e + m + k] = PayloadByte(k)
  <2>1. Current \in Frame /\ handled + 1 \in Nat
    BY <1>2
  <2>2. /\ e \in {0, 2, 8} /\ m \in {0, 4} /\ n \in Nat
        /\ \A k \in 1..n : Wire(Current, handled + 1)[2 + e + m + k]
             = Byte(handled + 1, "payload", k,
                    IF Current.mask THEN {MaskByte(handled + 1, ((k - 1) % 4) + 1)} ELSE {})
    BY <2>1, WireBytes
  <2> HIDE DEF e, m, n
  <2>3. e \in Nat /\ m \in Nat
    BY <2>2
  <2> QED
    BY <2>2, <2>3 DEF PayloadByte
<1>5. WireLength(Current) = 2 + e + m + n
  BY DEF WireLength
<1> HIDE DEF e, m, n
<1>6. ASSUME NEW k \in 1..n PROVE stream[Base + k] = PayloadByte(k)
  <2>1. 2 + e + m + k \in 1..WireLength(Current)
    BY <1>4, <1>5
  <2>2. Base + k = EndOf(sent, handled) + (2 + e + m + k)
    BY <1>2, <1>3, <1>4
  <2> QED
    BY <1>2, <1>4, <2>1, <2>2
<1>7. EndOf(sent, handled + 1) = Base + n
  BY <1>2, <1>3, <1>4, <1>5
<1>8. Filled(Room) = [k \in 1..n |-> PayloadByte(k)]
  <2>1. Filled(Room) = [k \in 1..n |-> stream[Base + k]]
    BY <1>1, <1>3
  <2>2. [k \in 1..n |-> stream[Base + k]] = [k \in 1..n |-> PayloadByte(k)]
    BY <1>6
  <2> QED
    BY <2>1, <2>2
<1> QED
  BY <1>1, <1>3, <1>4, <1>7, <1>8 DEF n
----------------------------------------------------------------------------
(* The steps, one after the other.                                         *)

(* The connection ends, whatever was read or published before.             *)
LEMMA Ends ==
  ASSUME IInv, Finalize, UNCHANGED <<client, arrived, eof, edge, handled, begun, pongs>>,
         taken' \in Nat, taken' <= arrived, published' \in [Channels -> Seq(Seq(ClearByte))]
  PROVE  IInv'
<1> USE DEF Finalize, client, header, parts
<1>1. /\ arrived \in Nat /\ arrived <= Len(stream) /\ Len(stream) \in Nat
  BY Types DEF IInv
<1>2. Buffer' = Buffer /\ Wanted' = Wanted
  BY DEF Buffer, Wanted
<1>3. taken' \in Nat /\ arrived' \in taken'..Len(stream')
  BY <1>1
<1>4. DOMAIN published' = Channels
  OBVIOUS
<1>5. TypeOK'
  <2>1. Len(Buffer') <= Wanted'
    BY <1>2 DEF IInv, TypeOK
  <2> QED
    BY <1>3, <1>4, <2>1 DEF IInv, TypeOK
<1>6. TextInv'
  BY DEF IInv, TextInv
<1>7. ~Up' /\ PartsAreKept' /\ (payload' => step' = "PAYLOAD")
  BY DEF IInv, Up, PartsAreKept
<1> QED
  BY <1>5, <1>6, <1>7 DEF IInv

(* Nothing happens to what the reader has in hand.                         *)
LEMMA Waits ==
  ASSUME IInv, UNCHANGED <<client, taken, step, header, buf, payload, parts, temp_pool, history>>,
         arrived' \in taken..Len(stream), eof' \in BOOLEAN, edge' \in BOOLEAN,
         handler' \in {"request", "idle", "reading", "finalized"}, Up' => Up
  PROVE  IInv'
<1> USE DEF client, header, parts, history
<1>1. Buffer' = Buffer /\ Wanted' = Wanted
  BY DEF Buffer, Wanted
<1>2. Base' = Base /\ Current' = Current
  BY DEF Base, Current
<1>3. TypeOK'
  <2>1. Len(Buffer') <= Wanted'
    BY <1>1 DEF IInv, TypeOK
  <2> QED
    BY <2>1 DEF IInv, TypeOK
<1>4. TextInv'
  BY DEF IInv, TextInv
<1>5. Up' => PlaceInv'
  BY <1>1, <1>2 DEF IInv, ReaderInv, PlaceInv
<1>6. Up' => HeaderInv'
  BY <1>2 DEF IInv, ReaderInv, HeaderInv
<1>7. Up' => MessageInv'
  BY DEF IInv, ReaderInv, MessageInv
<1>8. PartsAreKept'
  BY DEF IInv, PartsAreKept, Up
<1> QED
  BY <1>3, <1>4, <1>5, <1>6, <1>7, <1>8 DEF IInv, ReaderInv

LEMMA ArriveKeeps == ASSUME IInv, Arrive PROVE IInv'
<1>1. arrived \in Nat /\ taken \in Nat /\ taken <= arrived /\ Len(stream) \in Nat
      /\ edge \in BOOLEAN /\ eof \in BOOLEAN
  BY Types DEF IInv
<1>2. arrived' \in taken..Len(stream)
  BY <1>1 DEF Arrive
<1> QED
  BY <1>1, <1>2, Waits DEF IInv, TypeOK, Arrive, Up

LEMMA CloseByClientKeeps == ASSUME IInv, CloseByClient PROVE IInv'
<1> QED
  BY Waits DEF IInv, TypeOK, CloseByClient, Up

LEMMA HandshakeKeeps == ASSUME IInv, Handshake PROVE IInv'
<1>1. edge \in BOOLEAN /\ eof \in BOOLEAN
  BY Types DEF IInv
<1> QED
  BY <1>1, Waits DEF IInv, TypeOK, Handshake, Up, socket, client

LEMMA ReadEventKeeps == ASSUME IInv, ReadEvent PROVE IInv'
<1>1. edge \in BOOLEAN /\ eof \in BOOLEAN
  BY Types DEF IInv
<1> QED
  BY <1>1, Waits DEF IInv, TypeOK, ReadEvent, Up

(* The connection ends and nothing has been read.                          *)
LEMMA EndsAsItIs ==
  ASSUME IInv, Finalize, UNCHANGED <<socket, history>>
  PROVE  IInv'
<1>1. taken \in Nat /\ taken <= arrived
  BY Types DEF IInv
<1> QED
  BY <1>1, Ends DEF IInv, TextInv, socket, history

(* What has come of the bytes of the step is kept in the buffer.           *)
LEMMA ReadAgainKeeps == ASSUME IInv, ReadAgain PROVE IInv'
<1> USE DEF ReadAgain, client, header, parts, history
<1>1. TypeOK /\ ReaderInv
  BY DEF Reading, IInv, Up
<1>2. /\ Available \in Nat /\ Room \in Nat /\ Base \in Nat /\ Len(Buffer) \in Nat /\ Wanted \in Nat
      /\ Len(Buffer) + Room = Wanted /\ taken = Base + Len(Buffer) /\ taken \in Nat
      /\ taken + Available = arrived /\ arrived \in Nat /\ arrived <= Len(stream) /\ Len(stream) \in Nat
  BY <1>1, Types, BaseType
<1>3. /\ Len(Filled(Available)) = Len(Buffer) + Available
      /\ Filled(Available) = [k \in 1..(Len(Buffer) + Available) |-> stream[Base + k]]
  BY <1>1, <1>2, FilledBytes
<1>4. Buffer' = Filled(Available)
  <2> HIDE DEF Filled
  <2>1. buf' = Filled(Available) /\ step' = step /\ (step = "PAYLOAD" => payload' = TRUE)
    OBVIOUS
  <2> QED
    BY <2>1 DEF Buffer
<1>5. Wanted' = Wanted /\ Base' = Base /\ Current' = Current
  BY DEF Wanted, Base, Current
<1>6. ~(Available >= Room)
  BY DEF CanFill
<1>7. Len(Buffer') <= Wanted' /\ Len(Buffer') \in Nat /\ Len(Buffer') = Len(Buffer) + Available
  <2> HIDE DEF Available, Room, Wanted, Buffer, Filled
  <2> QED
    BY <1>2, <1>3, <1>4, <1>5, <1>6
<1>8. taken' = taken + Available /\ taken' \in Nat /\ arrived' \in taken'..Len(stream')
  BY <1>2 DEF Take
<1>9. TypeOK'
  <2>1. payload' \in BOOLEAN /\ temp_pool' \in BOOLEAN
    BY <1>1, Types
  <2>2. Len(Buffer)' <= Wanted'
    BY <1>7
  <2> QED
    BY <1>1, <1>8, <2>1, <2>2 DEF TypeOK
<1>10. PlaceInv'
  <2>1. Buffer' = [k \in 1..Len(Buffer') |-> stream'[Base' + k]]
    <3>1. Buffer' = [k \in 1..Len(Buffer') |-> stream[Base + k]]
      BY <1>3, <1>4, <1>7
    <3> QED
      BY <1>5, <3>1
  <2>2. taken' = Base' + Len(Buffer')
    <3> HIDE DEF Available, Room, Wanted, Buffer, Filled
    <3> QED
      BY <1>2, <1>5, <1>7, <1>8
  <2>3. handled' = Len(sent') => step' = "START"
    BY <1>1 DEF ReaderInv, PlaceInv
  <2> QED
    BY <1>7, <2>1, <2>2, <2>3 DEF PlaceInv
<1>11. HeaderInv'
  BY <1>1, <1>5 DEF ReaderInv, HeaderInv
<1>12. MessageInv' /\ TextInv' /\ (payload' => step' = "PAYLOAD")
  BY <1>1 DEF IInv, TextInv, ReaderInv, MessageInv
<1>13. PartsAreKept'
  BY <1>1 DEF IInv, PartsAreKept, Reading
<1> QED
  BY <1>9, <1>10, <1>11, <1>12, <1>13 DEF IInv, ReaderInv

(* A step is done that leaves the reader at the beginning of another one   *)
(* of the same frame, with nothing of that in its buffer.                  *)
LEMMA NextStep ==
  ASSUME IInv, Up, CanFill, UNCHANGED <<client, arrived, eof, edge, handled>>, Take(Room),
         step' \in Steps \ {"START"},
         step' = "PAYLOAD" => ~payload',
         step' # "PAYLOAD" => buf' = <<>>,
         Wanted' \in Nat, Base + Wanted = EndOf(sent, handled) + Passed(Current, step')
  PROVE  /\ PlaceInv'
         /\ taken' \in Nat /\ arrived' \in taken'..Len(stream')
         /\ Len(Buffer') <= Wanted'
<1>1. TypeOK /\ ReaderInv
  BY DEF IInv
<1>2. /\ handled < Len(sent) /\ taken + Room = Base + Wanted /\ taken + Room \in Nat
      /\ taken + Room <= arrived
  BY <1>1, StepBytes
<1>3. arrived \in Nat /\ arrived <= Len(stream) /\ Len(stream) \in Nat /\ handled \in Nat /\ Len(sent) \in Nat
  BY <1>1, Types
<1>4. taken' = taken + Room
  BY DEF Take
<1>5. Buffer' = <<>>
  BY DEF Buffer
<1>6. Base' = EndOf(sent, handled) + Passed(Current, step')
  BY DEF Base, Current, Steps, client, Passed
<1>7. PlaceInv'
  <2>1. taken' = Base' + 0
    <3> HIDE DEF Room, Wanted, Base
    <3>1. taken' = Base + Wanted
      BY <1>2, <1>4
    <3>2. Base' = Base + Wanted
      BY <1>6
    <3> QED
      BY <1>2, <1>4, <3>1, <3>2
  <2>2. Len(Buffer') = 0 /\ Buffer' = [k \in 1..Len(Buffer') |-> stream'[Base' + k]]
    BY <1>5
  <2>3. handled' # Len(sent')
    BY <1>2, <1>3 DEF client
  <2> QED
    BY <2>1, <2>2, <2>3 DEF PlaceInv
<1>8. taken' \in Nat /\ arrived' \in taken'..Len(stream')
  BY <1>2, <1>3, <1>4 DEF client
<1>9. Len(Buffer') <= Wanted'
  BY <1>5
<1> QED
  BY <1>7, <1>8, <1>9

(* The first two bytes say what comes next, or end the connection.         *)
LEMMA ReadStartKeeps == ASSUME IInv, ReadStart PROVE IInv'
<1> DEFINE f == Current
<1>1. TypeOK /\ ReaderInv /\ CanFill /\ step = "START" /\ Up /\ handler = "reading"
  BY DEF IInv, Up, ReadStart, Reading
<1>2. FrameOf(Filled(Room)[1]) = f /\ FrameOf(Filled(Room)[2]) = f
  BY <1>1, StartBytes
<1>3. handled < Len(sent) /\ taken + Room \in Nat /\ taken + Room <= arrived
  BY <1>1, StepBytes
<1>4. f \in Frame
  BY <1>1, <1>3, FramePlace
<1>5. Take(Room) /\ UNCHANGED <<client, arrived, eof, edge, handled, begun, published, pongs>>
  BY DEF ReadStart, history
<1>6. CASE OutOfSequence(f)
  <2>1. Finalize
    <3> HIDE DEF Filled, Room, f
    <3> QED
      BY <1>2, <1>6 DEF ReadStart
  <2>2. taken' \in Nat /\ taken' <= arrived
    BY <1>3, <1>5 DEF Take
  <2> QED
    BY <1>5, <2>1, <2>2, Ends DEF IInv, TextInv
<1>7. CASE ~OutOfSequence(f)
  <2>1. /\ fragmented' = (fragmented \/ ~f.fin)
        /\ last_fragment' = (last_fragment \/ f.fin)
        /\ opcode' = IF fragmented THEN opcode ELSE f.opcode
        /\ mask' = f.mask
        /\ payload_len' = ShortLength(f)
        /\ step' = LengthStep(ShortLength(f), f.mask)
        /\ step' # "PAYLOAD" => buf' = <<>>
        /\ UNCHANGED <<handler, mask_key, payload, consolidated, temp_pool>>
    <3> HIDE DEF Filled, Room, f
    <3> QED
      BY <1>2, <1>7 DEF ReadStart
  <2>2. /\ f.opcode \in 0..15 /\ f.fin \in BOOLEAN /\ f.mask \in BOOLEAN /\ f.form \in {7, 16, 64}
        /\ f.len \in Nat /\ (f.form = 7 => f.len <= 125)
    BY <1>4 DEF Frame
  <2>3. fragmented = begun /\ ~last_fragment /\ begun \in BOOLEAN /\ mask_key' = mask_key
    BY <1>1, <2>1, Types DEF ReaderInv, MessageInv
  <2>4. ~(f.opcode = Continuation /\ ~begun) /\ ~(f.opcode # Continuation /\ f.fin /\ begun)
    BY <1>7, <2>3 DEF OutOfSequence
  <2>5. ~payload /\ payload' = payload
    BY <1>1, <2>1 DEF IInv
  <2>6. ShortLength(f) \in Nat /\ (ShortLength(f) \in {126, 127} <=> f.form # 7)
        /\ (f.form = 7 => ShortLength(f) = f.len)
    <3> HIDE DEF f
    <3>1. CASE f.form = 7
      BY <2>2, <3>1 DEF ShortLength
    <3>2. CASE f.form # 7
      BY <2>2, <3>2 DEF ShortLength
    <3> QED
      BY <3>1, <3>2
  <2>7. step' = IF f.form # 7 THEN "REAL_SIZE" ELSE IF f.mask THEN "MASK_KEY" ELSE "PAYLOAD"
    <3> HIDE DEF f
    <3> QED
      BY <2>1, <2>6 DEF LengthStep
  <2>8. Base = EndOf(sent, handled) /\ Wanted = 2 /\ EndOf(sent, handled) \in Nat
    <3>1. EndOf(sent, handled) \in Nat
      BY <1>1, <1>3, FramePlace
    <3> QED
      BY <1>1, <3>1 DEF Base, Wanted
  <2>9. step' \in Steps \ {"START"} /\ Passed(f, step') = 2
    <3> HIDE DEF f
    <3> QED
      BY <2>2, <2>7 DEF Steps, Passed, Extension, MaskLength
  <2>10. Wanted' \in Nat
    <3> HIDE DEF f
    <3> QED
      BY <2>1, <2>6, <2>7 DEF Wanted
  <2>11. /\ PlaceInv' /\ taken' \in Nat /\ arrived' \in taken'..Len(stream')
         /\ Len(Buffer') <= Wanted'
    <3>1. Base + Wanted = EndOf(sent, handled) + Passed(Current, step')
      BY <2>8, <2>9
    <3> QED
      BY <1>1, <1>5, <2>1, <2>5, <2>9, <2>10, <3>1, NextStep
  <2>12. Current' = f /\ handled' = handled /\ begun' = begun
    BY <1>5 DEF Current, client
  <2> HIDE DEF f
  <2>13. opcode' \in 0..15
    BY <1>1, <2>1, <2>2 DEF TypeOK
  <2>14. TypeOK'
    <3>1. {eof, edge, mask, fragmented, last_fragment, payload, temp_pool, begun}' \subseteq BOOLEAN
      BY <1>1, <1>5, <2>1, <2>2, <2>3 DEF TypeOK
    <3>2. step' \in {"START", "REAL_SIZE", "MASK_KEY", "PAYLOAD"}
      BY <2>7
    <3>3. sent' \in Streams /\ stream' = Stream(sent)' /\ handled' <= Len(sent')
      BY <1>1, <1>5 DEF TypeOK, client
    <3>4. {payload_len, handled, pongs}' \subseteq Nat
      BY <1>1, <1>5, <2>1, <2>6 DEF TypeOK
    <3>5. handler' \in {"request", "idle", "reading", "finalized"} /\ Len(mask_key)' \in {0, 4}
          /\ DOMAIN published' = Channels
      BY <1>1, <1>5, <2>1 DEF TypeOK
    <3> QED
      BY <2>11, <2>13, <3>1, <3>2, <3>3, <3>4, <3>5 DEF TypeOK
  <2>15. HeaderInv'
    <3>1. f.opcode = Continuation => begun
      BY <2>4
    <3>2. f.opcode # Continuation /\ f.fin => ~begun
      BY <2>4
    <3>3. ~begun => opcode' = f.opcode
      BY <2>1, <2>3
    <3>4. payload_len' = IF step' = "REAL_SIZE" THEN ShortLength(f) ELSE f.len
      BY <2>1, <2>6, <2>7
    <3>5. (step' = "REAL_SIZE" => f.form # 7) /\ (step' = "MASK_KEY" => f.mask)
          /\ ~(step' = "PAYLOAD" /\ f.mask)
      BY <2>7
    <3>6. last_fragment' = f.fin /\ fragmented' = (begun \/ ~f.fin) /\ mask' = f.mask
      BY <2>1, <2>2, <2>3
    <3> QED
      BY <2>12, <3>1, <3>2, <3>3, <3>4, <3>5, <3>6 DEF HeaderInv
  <2>16. MessageInv'
    BY <1>1, <2>1, <2>3, <2>7, <2>12 DEF ReaderInv, MessageInv
  <2>17. TextInv' /\ (payload' => step' = "PAYLOAD") /\ PartsAreKept'
    BY <1>1, <1>5, <2>1, <2>5 DEF IInv, TextInv, PartsAreKept
  <2> QED
    BY <2>11, <2>14, <2>15, <2>16, <2>17 DEF IInv, ReaderInv
<1> QED
  BY <1>6, <1>7

(* The length that the frame gives in more bytes.                          *)
LEMMA ReadRealSizeKeeps == ASSUME IInv, ReadRealSize PROVE IInv'
<1> DEFINE f == Current
<1>1. TypeOK /\ ReaderInv /\ CanFill /\ step = "REAL_SIZE" /\ Up /\ handler = "reading"
  BY DEF IInv, Up, ReadRealSize, Reading
<1>2. FrameOf(Filled(Room)[1]) = f /\ Wanted = Extension(f)
  BY <1>1, SizeBytes
<1>3. handled < Len(sent)
  BY <1>1, StepBytes
<1>4. f \in Frame /\ EndOf(sent, handled) \in Nat
  BY <1>1, <1>3, FramePlace
<1>5. Take(Room) /\ UNCHANGED <<client, arrived, eof, edge, handled, begun, published, pongs>>
  BY DEF ReadRealSize, history
<1>6. /\ payload_len' = f.len
      /\ step' = IF mask THEN "MASK_KEY" ELSE "PAYLOAD"
      /\ step' # "PAYLOAD" => buf' = <<>>
      /\ UNCHANGED <<handler, opcode, mask, mask_key, payload, fragmented, last_fragment,
                     consolidated, temp_pool>>
  <2> HIDE DEF Filled, Room, f
  <2> QED
    BY <1>2 DEF ReadRealSize, parts
<1>7. /\ f.mask \in BOOLEAN /\ mask = f.mask /\ f.len \in Nat
      /\ f.opcode = Continuation => begun
      /\ f.opcode # Continuation /\ f.fin => ~begun
      /\ ~begun => opcode = f.opcode
      /\ last_fragment = f.fin
      /\ fragmented = (begun \/ ~f.fin)
  BY <1>1, <1>4 DEF Frame, ReaderInv, HeaderInv
<1>8. ~payload /\ payload' = payload
  BY <1>1, <1>6 DEF IInv
<1>9. Current' = f /\ handled' = handled /\ begun' = begun
  BY <1>5 DEF Current, client
<1>10. step' \in Steps \ {"START"} /\ Wanted' \in Nat
  <2> HIDE DEF f
  <2> QED
    BY <1>6, <1>7 DEF Steps, Wanted
<1>11. Base + Wanted = EndOf(sent, handled) + Passed(f, step')
  <2>1. Base = EndOf(sent, handled) + 2
    BY <1>1 DEF Base, Passed
  <2>2. Extension(f) \in Nat
    BY <1>4, WireBytes
  <2>3. Passed(f, step') = 2 + Extension(f)
    BY <1>6, <1>7, <2>2 DEF Passed, MaskLength
  <2> HIDE DEF f, Base
  <2> QED
    BY <1>2, <1>4, <2>1, <2>2, <2>3
<1>12. /\ PlaceInv' /\ taken' \in Nat /\ arrived' \in taken'..Len(stream')
       /\ Len(Buffer') <= Wanted'
  BY <1>1, <1>5, <1>6, <1>8, <1>10, <1>11, NextStep
<1> HIDE DEF f
<1>13. TypeOK'
  <2>1. {eof, edge, mask, fragmented, last_fragment, payload, temp_pool, begun}' \subseteq BOOLEAN
    BY <1>1, <1>5, <1>6 DEF TypeOK
  <2>2. step' \in {"START", "REAL_SIZE", "MASK_KEY", "PAYLOAD"}
    BY <1>6
  <2>3. sent' \in Streams /\ stream' = Stream(sent)' /\ handled' <= Len(sent')
    BY <1>1, <1>5 DEF TypeOK, client
  <2>4. {payload_len, handled, pongs}' \subseteq Nat
    BY <1>1, <1>5, <1>6, <1>7 DEF TypeOK
  <2>5. handler' \in {"request", "idle", "reading", "finalized"} /\ Len(mask_key)' \in {0, 4}
        /\ DOMAIN published' = Channels /\ opcode' \in 0..15
    BY <1>1, <1>5, <1>6 DEF TypeOK
  <2> QED
    BY <1>12, <2>1, <2>2, <2>3, <2>4, <2>5 DEF TypeOK
<1>14. HeaderInv'
  <2>1. step' = "MASK_KEY" => f.mask
    BY <1>6, <1>7
  <2>2. step' # "REAL_SIZE" /\ ~(step' = "PAYLOAD" /\ f.mask)
    BY <1>6, <1>7
  <2> QED
    BY <1>6, <1>7, <1>9, <2>1, <2>2 DEF HeaderInv
<1>15. MessageInv'
  BY <1>1, <1>6, <1>9 DEF ReaderInv, MessageInv
<1>16. TextInv' /\ (payload' => step' = "PAYLOAD") /\ PartsAreKept'
  BY <1>1, <1>5, <1>6, <1>8 DEF IInv, TextInv, PartsAreKept
<1> QED
  BY <1>12, <1>13, <1>14, <1>15, <1>16 DEF IInv, ReaderInv

(* The mask of the payload.                                                *)
LEMMA ReadMaskKeyKeeps == ASSUME IInv, ReadMaskKey PROVE IInv'
<1> DEFINE f == Current
           key == [k \in 1..4 |-> MaskByte(handled + 1, k)]
<1>1. TypeOK /\ ReaderInv /\ CanFill /\ step = "MASK_KEY" /\ Up /\ handler = "reading"
  BY DEF IInv, Up, ReadMaskKey, Reading
<1>2. Filled(Room) = key
  BY <1>1, KeyBytes
<1>3. handled < Len(sent)
  BY <1>1, StepBytes
<1>4. f \in Frame /\ EndOf(sent, handled) \in Nat
  BY <1>1, <1>3, FramePlace
<1>5. Take(Room) /\ UNCHANGED <<client, arrived, eof, edge, handled, begun, published, pongs>>
  BY DEF ReadMaskKey, history
<1>6. /\ mask_key' = key
      /\ step' = "PAYLOAD"
      /\ UNCHANGED <<handler, opcode, mask, payload_len, payload, fragmented, last_fragment,
                     consolidated, temp_pool>>
  <2> HIDE DEF Filled, Room, f, key
  <2> QED
    BY <1>2 DEF ReadMaskKey, parts
<1>7. /\ f.mask /\ mask = f.mask /\ f.len \in Nat /\ payload_len = f.len
      /\ f.opcode = Continuation => begun
      /\ f.opcode # Continuation /\ f.fin => ~begun
      /\ ~begun => opcode = f.opcode
      /\ last_fragment = f.fin
      /\ fragmented = (begun \/ ~f.fin)
  BY <1>1, <1>4 DEF Frame, ReaderInv, HeaderInv
<1>8. ~payload /\ payload' = payload
  BY <1>1, <1>6 DEF IInv
<1>9. Current' = f /\ handled' = handled /\ begun' = begun
  BY <1>5 DEF Current, client
<1>10. step' \in Steps \ {"START"} /\ Wanted' \in Nat
  <2> HIDE DEF f
  <2> QED
    BY <1>6, <1>7 DEF Steps, Wanted
<1>11. Base + Wanted = EndOf(sent, handled) + Passed(f, step')
  <2>1. Base = EndOf(sent, handled) + (2 + Extension(f)) /\ Wanted = 4
    BY <1>1 DEF Base, Passed, Wanted
  <2>2. Extension(f) \in Nat
    BY <1>4, WireBytes
  <2>3. Passed(f, step') = 2 + Extension(f) + 4
    BY <1>6, <1>7, <2>2 DEF Passed, MaskLength
  <2> HIDE DEF f, Base, Wanted
  <2> QED
    BY <1>4, <2>1, <2>2, <2>3
<1>12. /\ PlaceInv' /\ taken' \in Nat /\ arrived' \in taken'..Len(stream')
       /\ Len(Buffer') <= Wanted'
  BY <1>1, <1>5, <1>6, <1>8, <1>10, <1>11, NextStep
<1>13. Len(mask_key') = 4
  BY <1>6
<1>14. mask_key' = [k \in 1..4 |-> MaskByte(handled' + 1, k)]
  BY <1>6, <1>9
<1> HIDE DEF f, key
<1>15. TypeOK'
  <2>1. {eof, edge, mask, fragmented, last_fragment, payload, temp_pool, begun}' \subseteq BOOLEAN
    BY <1>1, <1>5, <1>6 DEF TypeOK
  <2>2. step' \in {"START", "REAL_SIZE", "MASK_KEY", "PAYLOAD"} /\ Len(mask_key)' \in {0, 4}
    BY <1>6, <1>13
  <2>3. sent' \in Streams /\ stream' = Stream(sent)' /\ handled' <= Len(sent')
    BY <1>1, <1>5 DEF TypeOK, client
  <2>4. {payload_len, handled, pongs}' \subseteq Nat
    BY <1>1, <1>5, <1>6, <1>7 DEF TypeOK
  <2>5. handler' \in {"request", "idle", "reading", "finalized"}
        /\ DOMAIN published' = Channels /\ opcode' \in 0..15
    BY <1>1, <1>5, <1>6 DEF TypeOK
  <2> QED
    BY <1>12, <2>1, <2>2, <2>3, <2>4, <2>5 DEF TypeOK
<1>16. HeaderInv'
  <2>1. step' # "REAL_SIZE" /\ step' # "MASK_KEY"
    BY <1>6
  <2> QED
    BY <1>6, <1>7, <1>9, <1>14, <2>1 DEF HeaderInv
<1>17. MessageInv'
  BY <1>1, <1>6, <1>9 DEF ReaderInv, MessageInv
<1>18. TextInv' /\ (payload' => step' = "PAYLOAD") /\ PartsAreKept'
  BY <1>1, <1>5, <1>6, <1>8 DEF IInv, TextInv, PartsAreKept
<1> QED
  BY <1>12, <1>15, <1>16, <1>17, <1>18 DEF IInv, ReaderInv

----------------------------------------------------------------------------
(* The payload.                                                            *)

(* The payload of the current frame as the client meant it, byte by byte.  *)
ClearPayload == [k \in 1..Current.len |-> Byte(handled + 1, "payload", k, {})]

LEMMA ClearPayloadType ==
  ASSUME handled \in Nat, Current.len \in Nat
  PROVE  /\ ClearPayload \in Seq(ClearByte) /\ Len(ClearPayload) = Current.len
         /\ \A k \in 1..Current.len : ClearPayload[k] = Byte(handled + 1, "payload", k, {})
<1>1. \A k \in 1..Current.len : Byte(handled + 1, "payload", k, {}) \in ClearByte
  BY DEF Byte, ClearByte
<1>2. ClearPayload \in [1..Current.len -> ClearByte]
  BY <1>1 DEF ClearPayload
<1> QED
  BY <1>2, Listed DEF ClearPayload

(* XORed with the mask that came with them, the bytes are clear.           *)
LEMMA UnmaskedPayload ==
  ASSUME TypeOK, ReaderInv, CanFill, step = "PAYLOAD"
  PROVE  Unmasked(Filled(Room)) = ClearPayload
<1> DEFINE n == Current.len
           h == handled + 1
           bytes == Filled(Room)
           Masked(k) == Byte(h, "payload", k, {MaskByte(h, ((k - 1) % 4) + 1)})
<1>1. bytes = [k \in 1..n |-> PayloadByte(k)] /\ n \in Nat
  BY PayloadBytes
<1>2. mask = Current.mask
  BY DEF ReaderInv, HeaderInv
<1>3. CASE ~mask
  <2>1. \A k \in 1..n : PayloadByte(k) = Byte(h, "payload", k, {})
    BY <1>2, <1>3 DEF PayloadByte
  <2>2. [k \in 1..n |-> PayloadByte(k)] = [k \in 1..n |-> Byte(h, "payload", k, {})]
    BY <2>1
  <2> HIDE DEF bytes
  <2>3. Unmasked(bytes) = bytes
    BY <1>3 DEF Unmasked
  <2>4. Unmasked(bytes) = ClearPayload
    BY <1>1, <2>2, <2>3 DEF ClearPayload
  <2> QED
    BY <2>4 DEF bytes
<1>4. CASE mask
  <2>1. \A k \in 1..n : PayloadByte(k) = Masked(k)
    BY <1>2, <1>4 DEF PayloadByte
  <2>2. mask_key = [k \in 1..4 |-> MaskByte(h, k)]
    BY <1>2, <1>4 DEF ReaderInv, HeaderInv
  <2> DEFINE Clean(k) == [bytes[k] EXCEPT !.key = Xor(@, {mask_key[((k - 1) % 4) + 1]})]
  <2>3. Unmasked(bytes) = [k \in DOMAIN bytes |-> Clean(k)]
    BY <1>4 DEF Unmasked, Unmask
  <2>4. ASSUME NEW k \in 1..n PROVE Clean(k) = Byte(h, "payload", k, {})
    <3> DEFINE r == ((k - 1) % 4) + 1
               S == {MaskByte(h, r)}
    <3>1. r \in 1..4
      BY <1>1
    <3> HIDE DEF r
    <3>2. mask_key[r] = MaskByte(h, r)
      BY <2>2, <3>1
    <3>3. bytes[k] = Byte(h, "payload", k, S)
      <4>1. bytes[k] = PayloadByte(k)
        <5> HIDE DEF bytes
        <5> QED
          BY <1>1
      <4> HIDE DEF bytes
      <4> QED
        BY <2>1, <4>1 DEF r
    <3>4. Clean(k) = [bytes[k] EXCEPT !.key = Xor(@, {mask_key[r]})]
      BY DEF r
    <3> HIDE DEF bytes, Clean, S
    <3>5. Clean(k) = [Byte(h, "payload", k, S) EXCEPT !.key = Xor(@, S)]
      BY <3>2, <3>3, <3>4 DEF S
    <3>6. Xor(S, S) = {}
      BY DEF Xor
    <3> QED
      BY <3>5, <3>6 DEF Byte
  <2>5. DOMAIN bytes = 1..n
    <3> HIDE DEF bytes
    <3> QED
      BY <1>1
  <2>6. [k \in DOMAIN bytes |-> Clean(k)] = [k \in 1..n |-> Byte(h, "payload", k, {})]
    <3> HIDE DEF Clean, bytes
    <3> QED
      BY <2>4, <2>5
  <2> HIDE DEF bytes, Clean
  <2>7. Unmasked(bytes) = ClearPayload
    BY <2>3, <2>6 DEF ClearPayload
  <2> QED
    BY <2>7 DEF bytes
<1>5. mask \in BOOLEAN
  BY Types
<1> QED
  BY <1>3, <1>4, <1>5

(* The payload goes behind what there is of the message.                   *)
LEMMA JoinedText ==
  ASSUME TypeOK, TextInv, ReaderInv, CanFill, step = "PAYLOAD"
  PROVE  /\ Joined(Filled(Room)) = consolidated \o ClearPayload
         /\ Joined(Filled(Room)) \in Seq(ClearByte)
         /\ consolidated = <<>> /\ Current.len = 0 => Joined(Filled(Room)) = <<>>
<1>1. Unmasked(Filled(Room)) = ClearPayload
  BY UnmaskedPayload
<1>2. ClearPayload \in Seq(ClearByte) /\ consolidated \in Seq(ClearByte)
      /\ Len(ClearPayload) = Current.len
  BY Types, PayloadBytes, ClearPayloadType DEF TextInv
<1>3. Joined(Filled(Room)) = IF fragmented THEN consolidated \o ClearPayload ELSE ClearPayload
  BY <1>1 DEF Joined
<1>4. ~fragmented => consolidated = <<>>
  BY DEF ReaderInv, HeaderInv, MessageInv
<1>5. <<>> \o ClearPayload = ClearPayload
  BY <1>2, ConcatEmptySeq
<1>6. Joined(Filled(Room)) = consolidated \o ClearPayload
  BY <1>3, <1>4, <1>5
<1>7. consolidated \o ClearPayload \in Seq(ClearByte)
  BY <1>2, ConcatProperties
<1>8. Current.len = 0 => ClearPayload = <<>>
  BY <1>2, EmptySeq
<1> QED
  BY <1>5, <1>6, <1>7, <1>8

(* Only the payload of a text must be UTF-8.                               *)
LEMMA Utf8Payload ==
  ASSUME TypeOK, ReaderInv, CanFill, step = "PAYLOAD"
  PROVE  Utf8(Filled(Room)) <=> (Current.len > 0 => Current.utf8)
<1> DEFINE n == Current.len
           bytes == Filled(Room)
<1>1. bytes = [k \in 1..n |-> PayloadByte(k)] /\ n \in Nat /\ Len(bytes) = n
  BY PayloadBytes
<1> HIDE DEF n, bytes
<1>2. CASE n = 0
  <2>1. bytes = <<>>
    BY <1>1, <1>2
  <2> QED
    BY <1>2, <2>1 DEF Utf8, n, bytes
<1>3. CASE n > 0
  <2>1. 1 \in 1..n
    BY <1>1, <1>3
  <2>2. bytes # <<>> /\ bytes[1] = PayloadByte(1)
    BY <1>1, <1>3, <2>1
  <2>3. FrameOf(bytes[1]) = Current
    BY <2>2 DEF FrameOf, PayloadByte, Byte, Current
  <2> QED
    BY <1>3, <2>2, <2>3 DEF Utf8, n, bytes
<1> QED
  BY <1>1, <1>2, <1>3

(* What a channel has got is a sequence of texts.                          *)
LEMMA PublishInType ==
  ASSUME TextInv, NEW text \in Seq(ClearByte), NEW channels, PublishIn(text, channels)
  PROVE  published' \in [Channels -> Seq(Seq(ClearByte))]
<1>1. ASSUME NEW c \in Channels
      PROVE  (IF c \in channels THEN Append(published[c], text) ELSE published[c]) \in Seq(Seq(ClearByte))
  <2>1. published[c] \in Seq(Seq(ClearByte))
    BY DEF TextInv
  <2>2. Append(published[c], text) \in Seq(Seq(ClearByte))
    BY <2>1, AppendProperties
  <2> QED
    BY <2>1, <2>2
<1> QED
  BY <1>1 DEF PublishIn

(* The three ways of ReadPayload.                                          *)
WholeFrame(bytes) ==
  /\ Utf8(bytes)
  /\ IF Publishes THEN PublishIn(Joined(bytes), Channels) ELSE UNCHANGED published
  /\ EndFrame(Joined(bytes))

PartOfChannels(bytes) ==
  /\ Utf8(bytes) /\ Publishes
  /\ \E n \in 0..(Len(Subscriptions) - 1) :
       PublishIn(Joined(bytes), {Subscriptions[i] : i \in 1..n})
  /\ Finalize
  /\ UNCHANGED <<handled, begun, pongs>>

LEMMA PayloadWays ==
  ASSUME ReadPayload
  PROVE  /\ step = "PAYLOAD" /\ CanFill /\ handler = "reading" /\ opcode \in Supported /\ Up
         /\ Take(Room)
         /\ UNCHANGED <<client, arrived, eof, edge>>
         /\ \/ WholeFrame(Filled(Room))
            \/ PartOfChannels(Filled(Room))
            \/ Finalize /\ UNCHANGED history
<1> HIDE DEF Filled, Room
<1> QED
  BY DEF ReadPayload, Reading, Unsupported, WholeFrame, PartOfChannels, Up

LEMMA ReadPayloadKeeps == ASSUME IInv, ReadPayload PROVE IInv'
<1> DEFINE bytes == Filled(Room)
           text == Joined(bytes)
           f == Current
<1>1. TypeOK /\ ReaderInv /\ TextInv /\ PartsAreKept
  BY PayloadWays DEF IInv
<1>2. /\ step = "PAYLOAD" /\ CanFill /\ handler = "reading" /\ opcode \in Supported /\ Up
      /\ taken' = taken + Room
      /\ UNCHANGED <<client, arrived, eof, edge>>
      /\ \/ WholeFrame(bytes) \/ PartOfChannels(bytes)
         \/ (Finalize /\ UNCHANGED history)
  BY PayloadWays DEF Take
<1>3. handled < Len(sent) /\ taken + Room \in Nat /\ taken + Room <= arrived
  BY <1>1, <1>2, StepBytes
<1>4. text \in Seq(ClearByte) /\ (consolidated = <<>> /\ f.len = 0 => text = <<>>)
  BY <1>1, <1>2, JoinedText
<1>5. payload_len = f.len /\ f.len \in Nat /\ EndOf(sent, handled + 1) = taken + Room
  BY <1>1, <1>2, PayloadBytes
<1>6. f.fin \in BOOLEAN /\ last_fragment = f.fin /\ fragmented = (begun \/ ~f.fin)
  BY <1>1, <1>2, <1>3, FramePlace DEF ReaderInv, HeaderInv, Frame
<1>7. /\ begun \in BOOLEAN /\ handled \in Nat /\ Len(sent) \in Nat /\ pongs \in Nat
      /\ arrived \in Nat /\ arrived <= Len(stream) /\ Len(stream) \in Nat
      /\ temp_pool \in BOOLEAN
  BY <1>1, Types
<1> HIDE DEF text, bytes, f
<1>8. CASE WholeFrame(bytes)
  <2>1. EndFrame(text) /\ (PublishIn(text, Channels) \/ published' = published)
    BY <1>8 DEF WholeFrame, text
  <2>2. published' \in [Channels -> Seq(Seq(ClearByte))]
    BY <1>1, <1>4, <2>1, PublishInType DEF TextInv
  <2>3. /\ fragmented' = (fragmented /\ ~f.fin) /\ last_fragment' = FALSE
        /\ consolidated' = IF f.fin THEN <<>> ELSE text
        /\ begun' = ~f.fin
        /\ temp_pool' = (((temp_pool \/ f.len > 0) /\ ~f.fin) /\ opcode # Close)
        /\ step' = "START" /\ payload' = FALSE /\ buf' = <<>>
        /\ handled' = handled + 1
        /\ pongs' \in {pongs, pongs + 1}
        /\ handler' = IF opcode = Close THEN "finalized" ELSE "idle"
        /\ UNCHANGED <<opcode, mask, mask_key, payload_len>>
    BY <1>5, <1>6, <2>1 DEF EndFrame, KeepsPool, header
  <2>4. Buffer' = <<>> /\ Len(Buffer') = 0 /\ Wanted' = 2
    BY <2>3 DEF Buffer, Wanted
  <2>5. TypeOK'
    <3>1. sent' \in Streams /\ stream' = Stream(sent)' /\ handled' <= Len(sent')
      BY <1>1, <1>2, <1>3, <1>7, <2>3 DEF TypeOK, client
    <3>2. taken' \in Nat /\ arrived' \in taken'..Len(stream')
      BY <1>2, <1>3, <1>7 DEF client
    <3>3. {eof, edge, mask, fragmented, last_fragment, payload, temp_pool, begun}' \subseteq BOOLEAN
      BY <1>1, <1>2, <1>6, <1>7, <2>3 DEF TypeOK
    <3>4. handler' \in {"request", "idle", "reading", "finalized"}
          /\ step' \in {"START", "REAL_SIZE", "MASK_KEY", "PAYLOAD"} /\ opcode' \in 0..15
          /\ Len(mask_key)' \in {0, 4}
      BY <1>1, <2>3 DEF TypeOK
    <3>5. {payload_len, handled, pongs}' \subseteq Nat
      BY <1>1, <1>7, <2>3 DEF TypeOK
    <3>6. Len(Buffer)' <= Wanted' /\ DOMAIN published' = Channels
      BY <2>2, <2>4
    <3> QED
      BY <3>1, <3>2, <3>3, <3>4, <3>5, <3>6 DEF TypeOK
  <2>6. PlaceInv'
    <3>1. Base' = EndOf(sent, handled + 1) + 0
      BY <1>2, <2>3 DEF Base, client
    <3>2. taken' = Base' + 0
      BY <1>2, <1>3, <1>5, <3>1
    <3>3. Buffer' = [k \in 1..Len(Buffer') |-> stream'[Base' + k]]
      BY <2>4
    <3> QED
      BY <2>3, <2>4, <3>2, <3>3 DEF PlaceInv
  <2>7. HeaderInv'
    BY <2>3 DEF HeaderInv
  <2>8. MessageInv'
    <3>1. opcode' # Continuation
      BY <1>2, <2>3 DEF Supported, Continuation, Text, Close, Ping, Pong
    <3> QED
      BY <1>6, <1>7, <2>3, <3>1 DEF MessageInv
  <2>9. TextInv'
    BY <1>4, <2>2, <2>3 DEF TextInv
  <2>10. PartsAreKept'
    <3> SUFFICES ASSUME Up', consolidated' # <<>> PROVE temp_pool' = TRUE
      BY <2>3 DEF PartsAreKept, Up
    <3>1. ~f.fin /\ text # <<>> /\ opcode # Close
      BY <1>6, <2>3 DEF Up
    <3>2. consolidated # <<>> \/ f.len > 0
      BY <1>4, <1>5, <3>1
    <3>3. temp_pool \/ f.len > 0
      BY <1>1, <1>2, <3>2 DEF PartsAreKept
    <3> QED
      BY <2>3, <3>1, <3>3
  <2> QED
    BY <2>3, <2>5, <2>6, <2>7, <2>8, <2>9, <2>10 DEF IInv, ReaderInv
<1>9. CASE PartOfChannels(bytes)
  <2>1. PICK n : PublishIn(text, {Subscriptions[i] : i \in 1..n})
    BY <1>9 DEF PartOfChannels, text
  <2>2. published' \in [Channels -> Seq(Seq(ClearByte))]
    BY <1>1, <1>4, <2>1, PublishInType
  <2> QED
    BY <1>2, <1>3, <1>9, <2>2, Ends DEF PartOfChannels
<1>10. CASE Finalize /\ UNCHANGED history
  BY <1>1, <1>2, <1>3, <1>10, Ends DEF history, TextInv
<1> QED
  BY <1>2, <1>8, <1>9, <1>10

----------------------------------------------------------------------------
(* The invariant.                                                          *)

LEMMA InitIInv == Init => IInv
<1> SUFFICES ASSUME Init PROVE IInv
  OBVIOUS
<1> USE DEF Init
<1>1. sent \in Seq(Frame) /\ stream = Stream(sent)
  BY StreamsAssumption DEF StreamsAssumption
<1>2. Len(stream) \in Nat /\ EndOf(sent, 0) = 0 /\ Len(sent) \in Nat
  BY <1>1, StreamBytes, LenProperties
<1>3. Buffer = <<>> /\ Wanted = 2 /\ Base = EndOf(sent, 0) + 0
  BY DEF Buffer, Wanted, Base
<1>4. TypeOK
  <2>1. Len(Buffer) <= Wanted
    BY <1>3
  <2>2. Len(mask_key) \in {0, 4} /\ DOMAIN published = Channels
    OBVIOUS
  <2>3. taken \in Nat /\ arrived \in taken..Len(stream) /\ handled <= Len(sent)
    BY <1>2
  <2>4. {eof, edge, mask, fragmented, last_fragment, payload, temp_pool, begun} \subseteq BOOLEAN
    OBVIOUS
  <2>5. handler \in {"request", "idle", "reading", "finalized"}
        /\ step \in {"START", "REAL_SIZE", "MASK_KEY", "PAYLOAD"}
    OBVIOUS
  <2>6. opcode \in 0..15 /\ {payload_len, handled, pongs} \subseteq Nat
    OBVIOUS
  <2> HIDE DEF Init
  <2> QED
    BY <1>1, <2>1, <2>2, <2>3, <2>4, <2>5, <2>6 DEF TypeOK, Init
<1>5. PlaceInv
  <2>1. Len(Buffer) = 0 /\ taken = Base + Len(Buffer)
    BY <1>2, <1>3
  <2>2. Buffer = [k \in 1..Len(Buffer) |-> stream[Base + k]]
    BY <1>3, <2>1
  <2> QED
    BY <2>1, <2>2 DEF PlaceInv
<1>6. HeaderInv /\ MessageInv
  BY DEF HeaderInv, MessageInv, Continuation
<1>7. TextInv
  <2>1. <<>> \in Seq(ClearByte) /\ <<>> \in Seq(Seq(ClearByte))
    OBVIOUS
  <2> QED
    BY <2>1 DEF TextInv
<1>8. PartsAreKept /\ (payload => step = "PAYLOAD")
  BY DEF PartsAreKept
<1> QED
  BY <1>4, <1>5, <1>6, <1>7, <1>8 DEF IInv, ReaderInv

LEMMA NextKeeps == IInv /\ [Next]_vars => IInv'
<1> SUFFICES ASSUME IInv, [Next]_vars PROVE IInv'
  OBVIOUS
<1>1. CASE UNCHANGED vars
  <2>1. arrived \in Nat /\ taken \in Nat /\ taken <= arrived /\ arrived <= Len(stream) /\ Len(stream) \in Nat
        /\ edge \in BOOLEAN /\ eof \in BOOLEAN
    BY Types DEF IInv
  <2> QED
    BY <1>1, <2>1, Waits DEF vars, socket, IInv, TypeOK, Up
<1>2. CASE Arrive
  BY <1>2, ArriveKeeps
<1>3. CASE CloseByClient
  BY <1>3, CloseByClientKeeps
<1>4. CASE Handshake
  BY <1>4, HandshakeKeeps
<1>5. CASE Read
  <2>1. CASE ReadEvent
    BY <2>1, ReadEventKeeps
  <2>2. CASE ReadAgain
    BY <2>2, ReadAgainKeeps
  <2>3. CASE ReadEnd
    BY <2>3, EndsAsItIs DEF ReadEnd
  <2>4. CASE ReadStart
    BY <2>4, ReadStartKeeps
  <2>5. CASE ReadRealSize
    BY <2>5, ReadRealSizeKeeps
  <2>6. CASE ReadMaskKey
    BY <2>6, ReadMaskKeyKeeps
  <2>7. CASE ReadPayload
    BY <2>7, ReadPayloadKeeps
  <2>8. CASE Reject
    BY <2>8, EndsAsItIs DEF Reject
  <2> QED
    BY <1>5, <2>1, <2>2, <2>3, <2>4, <2>5, <2>6, <2>7, <2>8 DEF Read
<1>6. CASE OutOfMemory
  BY <1>6, EndsAsItIs DEF OutOfMemory
<1>7. CASE Disconnect
  BY <1>7, EndsAsItIs DEF Disconnect
<1> QED
  BY <1>1, <1>2, <1>3, <1>4, <1>5, <1>6, <1>7 DEF Next

----------------------------------------------------------------------------
(* The messages that the frames make.                                      *)

(* The reader, as the promise sees it.                                     *)
Message == IF begun THEN [opcode |-> opcode, text |-> Clear(consolidated)]
           ELSE [opcode |-> Continuation, text |-> <<>>]

Texts == [c \in Channels |-> [n \in DOMAIN published[c] |-> Clear(published[c][n])]]

Payload(i) == [k \in 1..sent[i].len |-> <<i, k>>]

LEMMA ClearIsList ==
  ASSUME NEW s \in Seq(ClearByte)
  PROVE  /\ Clear(s) = [k \in 1..Len(s) |-> <<s[k].frame, s[k].at>>]
         /\ Clear(s) \in Seq(Nat \X Nat) /\ Len(Clear(s)) = Len(s)
<1>1. Len(s) \in Nat /\ DOMAIN s = 1..Len(s) /\ \A k \in 1..Len(s) : s[k] \in ClearByte
  BY ElementOfSeq, LenProperties
<1>2. \A k \in 1..Len(s) : /\ s[k].part = "payload" /\ s[k].key = {}
                           /\ <<s[k].frame, s[k].at>> \in Nat \X Nat
  BY <1>1 DEF ClearByte
<1>3. Clear(s) = [k \in 1..Len(s) |-> <<s[k].frame, s[k].at>>]
  BY <1>1, <1>2 DEF Clear
<1>4. [k \in 1..Len(s) |-> <<s[k].frame, s[k].at>>] \in [1..Len(s) -> Nat \X Nat]
  BY <1>2
<1> QED
  BY <1>1, <1>3, <1>4, Listed

LEMMA ClearNothing == Clear(<<>>) = <<>>
<1>1. <<>> \in Seq(ClearByte) /\ Len(<<>>) = 0
  OBVIOUS
<1>2. Clear(<<>>) \in Seq(Nat \X Nat) /\ Len(Clear(<<>>)) = 0
  BY <1>1, ClearIsList
<1> QED
  BY <1>2, EmptySeq

LEMMA ClearJoins ==
  ASSUME NEW s \in Seq(ClearByte), NEW t \in Seq(ClearByte)
  PROVE  Clear(s \o t) = Clear(s) \o Clear(t)
<1> DEFINE a == Clear(s)
           b == Clear(t)
           u == s \o t
           l == Clear(u)
           r == a \o b
<1>1. /\ a \in Seq(Nat \X Nat) /\ b \in Seq(Nat \X Nat) /\ Len(a) = Len(s) /\ Len(b) = Len(t)
      /\ a = [k \in 1..Len(s) |-> <<s[k].frame, s[k].at>>]
      /\ b = [k \in 1..Len(t) |-> <<t[k].frame, t[k].at>>]
  BY ClearIsList
<1>2. /\ u \in Seq(ClearByte) /\ Len(u) = Len(s) + Len(t) /\ Len(s) \in Nat /\ Len(t) \in Nat
      /\ \A i \in 1..(Len(s) + Len(t)) : u[i] = IF i <= Len(s) THEN s[i] ELSE t[i - Len(s)]
  BY ConcatProperties, LenProperties
<1>3. /\ l \in Seq(Nat \X Nat) /\ Len(l) = Len(u)
      /\ l = [k \in 1..Len(u) |-> <<u[k].frame, u[k].at>>]
  BY <1>2, ClearIsList
<1> HIDE DEF a, b, u, l
<1>4. /\ r \in Seq(Nat \X Nat) /\ Len(r) = Len(s) + Len(t)
      /\ \A i \in 1..(Len(s) + Len(t)) : r[i] = IF i <= Len(s) THEN a[i] ELSE b[i - Len(s)]
  <2>1. /\ r \in Seq(Nat \X Nat) /\ Len(r) = Len(a) + Len(b)
        /\ \A i \in 1..(Len(a) + Len(b)) : r[i] = IF i <= Len(a) THEN a[i] ELSE b[i - Len(a)]
    <3>1. a \in Seq(Nat \X Nat) /\ b \in Seq(Nat \X Nat)
      BY <1>1
    <3> QED
      BY <3>1, ConcatProperties
  <2> HIDE DEF r
  <2> QED
    BY <1>1, <2>1
<1> HIDE DEF r
<1>5. ASSUME NEW i \in 1..(Len(s) + Len(t)) PROVE l[i] = r[i]
  <2>1. l[i] = <<u[i].frame, u[i].at>>
    BY <1>2, <1>3
  <2>2. CASE i <= Len(s)
    <3>1. i \in 1..Len(s)
      BY <1>2, <2>2
    <3>2. u[i] = s[i] /\ r[i] = a[i] /\ a[i] = <<s[i].frame, s[i].at>>
      BY <1>1, <1>2, <1>4, <2>2, <3>1
    <3> QED
      BY <2>1, <3>2
  <2>3. CASE ~(i <= Len(s))
    <3>1. i - Len(s) \in 1..Len(t)
      BY <1>2, <2>3
    <3>2. /\ u[i] = t[i - Len(s)] /\ r[i] = b[i - Len(s)]
          /\ b[i - Len(s)] = <<t[i - Len(s)].frame, t[i - Len(s)].at>>
      BY <1>1, <1>2, <1>4, <2>3, <3>1
    <3> QED
      BY <2>1, <3>2
  <2> QED
    BY <2>2, <2>3
<1>6. l = r
  BY <1>2, <1>3, <1>4, <1>5, SeqEqual
<1> QED
  BY <1>6 DEF l, r, u, a, b

LEMMA PayloadIsClear ==
  ASSUME handled \in Nat, Current.len \in Nat
  PROVE  Clear(ClearPayload) = Payload(handled + 1)
<1>1. /\ ClearPayload \in Seq(ClearByte) /\ Len(ClearPayload) = Current.len
      /\ \A k \in 1..Current.len : ClearPayload[k] = Byte(handled + 1, "payload", k, {})
  BY ClearPayloadType
<1>2. Clear(ClearPayload)
        = [k \in 1..Current.len |-> <<ClearPayload[k].frame, ClearPayload[k].at>>]
  BY <1>1, ClearIsList
<1>3. ASSUME NEW k \in 1..Current.len
      PROVE  ClearPayload[k].frame = handled + 1 /\ ClearPayload[k].at = k
  <2>1. ClearPayload[k] = Byte(handled + 1, "payload", k, {})
    BY <1>1
  <2> QED
    BY <2>1 DEF Byte
<1>4. Payload(handled + 1) = [k \in 1..Current.len |-> <<handled + 1, k>>]
  BY DEF Payload, Current
<1> QED
  BY <1>2, <1>3, <1>4

(* What is published is what is clear of it.                               *)
LEMMA TextsFollow ==
  ASSUME TextInv, NEW text \in Seq(ClearByte), NEW channels, PublishIn(text, channels)
  PROVE  Texts' = [c \in Channels |-> IF c \in channels THEN Append(Texts[c], Clear(text))
                                      ELSE Texts[c]]
<1>1. ASSUME NEW c \in Channels, c \in channels
      PROVE  [n \in DOMAIN published'[c] |-> Clear(published'[c][n])] = Append(Texts[c], Clear(text))
  <2> DEFINE p == published[c]
             q == Append(p, text)
             m == Len(p)
             A == [n \in DOMAIN q |-> Clear(q[n])]
             B == Append(Texts[c], Clear(text))
  <2>1. p \in Seq(Seq(ClearByte)) /\ m \in Nat /\ DOMAIN p = 1..m
    BY LenProperties DEF TextInv
  <2>2. published'[c] = q
    BY <1>1 DEF PublishIn
  <2>3. q \in Seq(Seq(ClearByte)) /\ Len(q) = m + 1 /\ DOMAIN q = 1..(m + 1)
        /\ (\A i \in 1..m : q[i] = p[i]) /\ q[m + 1] = text
    BY <2>1, AppendProperties, LenProperties
  <2>4. Texts[c] = [n \in 1..m |-> Clear(p[n])]
    BY <2>1 DEF Texts
  <2> HIDE DEF q
  <2>5. \A n \in 1..m : Clear(p[n]) \in Seq(Nat \X Nat)
    BY <2>1, ClearIsList, ElementOfSeq
  <2> HIDE DEF p, m
  <2>6. Texts[c] \in Seq(Seq(Nat \X Nat)) /\ Len(Texts[c]) = m
    <3>1. [n \in 1..m |-> Clear(p[n])] \in [1..m -> Seq(Nat \X Nat)]
      BY <2>5
    <3> QED
      BY <2>1, <2>4, <3>1, Listed
  <2>7. Clear(text) \in Seq(Nat \X Nat)
    BY ClearIsList
  <2>8. B \in Seq(Seq(Nat \X Nat)) /\ Len(B) = m + 1
        /\ (\A i \in 1..m : B[i] = Texts[c][i]) /\ B[m + 1] = Clear(text)
    BY <2>6, <2>7, AppendProperties
  <2>9. A = [n \in 1..(m + 1) |-> Clear(q[n])]
    BY <2>3
  <2>10. A \in Seq(Seq(Nat \X Nat)) /\ Len(A) = m + 1
    <3>1. \A n \in 1..(m + 1) : Clear(q[n]) \in Seq(Nat \X Nat)
      BY <2>3, ClearIsList, ElementOfSeq
    <3>2. [n \in 1..(m + 1) |-> Clear(q[n])] \in [1..(m + 1) -> Seq(Nat \X Nat)]
      BY <3>1
    <3>3. m + 1 \in Nat
      BY <2>1
    <3> HIDE DEF A
    <3> QED
      BY <2>9, <3>2, <3>3, Listed
  <2> HIDE DEF B
  <2>11. ASSUME NEW i \in 1..(m + 1) PROVE A[i] = B[i]
    <3>1. A[i] = Clear(q[i])
      BY <2>9
    <3>2. CASE i = m + 1
      BY <2>3, <2>8, <3>1, <3>2
    <3>3. CASE i # m + 1
      <4>1. i \in 1..m
        BY <2>1, <3>3
      <4> QED
        BY <2>3, <2>4, <2>8, <3>1, <4>1
    <3> QED
      BY <3>2, <3>3
  <2> HIDE DEF A
  <2>12. A = B
    BY <2>8, <2>10, <2>11, SeqEqual
  <2> QED
    BY <2>2, <2>12 DEF A, B
<1>2. ASSUME NEW c \in Channels, c \notin channels PROVE published'[c] = published[c]
  BY <1>2 DEF PublishIn
<1>3. Channels' = Channels
  BY DEF Channels
<1> DEFINE New(c) == [n \in DOMAIN published'[c] |-> Clear(published'[c][n])]
           Old(c) == IF c \in channels THEN Append(Texts[c], Clear(text)) ELSE Texts[c]
<1>4. ASSUME NEW c \in Channels PROVE New(c) = Old(c)
  <2>1. CASE c \in channels
    BY <1>1, <2>1
  <2>2. CASE c \notin channels
    BY <1>2, <2>2 DEF Texts
  <2> QED
    BY <2>1, <2>2
<1>5. Texts' = [c \in Channels |-> New(c)]
  BY DEF Texts
<1> HIDE DEF New, Old
<1>6. Texts' = [c \in Channels |-> Old(c)]
  BY <1>4, <1>5
<1> QED
  BY <1>6 DEF Old

(* What the promise sees of a step.                                        *)
LEMMA NothingSeen ==
  ASSUME UNCHANGED <<sent, handled, begun, consolidated, published, pongs>>,
         begun => opcode' = opcode, Up' <=> Up
  PROVE  UNCHANGED Messages!vars
<1>1. Message' = Message
  BY DEF Message
<1>2. Texts' = Texts
  BY DEF Texts, Channels
<1> QED
  BY <1>1, <1>2 DEF Messages!vars, Message, Texts, Up

LEMMA EndSeen ==
  ASSUME UNCHANGED <<sent, history>>, Finalize
  PROVE  Messages!End
<1>1. UNCHANGED <<sent, handled, begun, consolidated, published, pongs, opcode>>
  BY DEF Finalize, history, parts, header
<1>2. Message' = Message
  BY <1>1 DEF Message
<1>3. Texts' = Texts
  BY <1>1 DEF Texts, Channels
<1>4. ~(handler' # "finalized")
  BY DEF Finalize
<1> QED
  BY <1>1, <1>2, <1>3, <1>4 DEF Messages!End, Message, Texts

(* The message in hand, and what the next frame is to it.                  *)
LEMMA MessageInHand ==
  ASSUME TypeOK, ReaderInv, TextInv, step # "START"
  PROVE  /\ Messages!Fragmented <=> begun
         /\ Message.text = Clear(consolidated)
         /\ Messages!Kind(Current) = opcode
         /\ ~Messages!OutOfSequence(Current)
<1>1. begun \in BOOLEAN
  BY Types
<1>2. begun => opcode # Continuation
  BY DEF ReaderInv, MessageInv
<1>3. Message.text = Clear(consolidated)
  <2>1. CASE begun
    BY <2>1 DEF Message
  <2>2. CASE ~begun
    <3>1. consolidated = <<>>
      BY <2>2 DEF ReaderInv, MessageInv
    <3> QED
      BY <2>2, <3>1, ClearNothing DEF Message
  <2> QED
    BY <1>1, <2>1, <2>2
<1>4. Messages!Fragmented <=> begun
  <2>1. Messages!Fragmented <=> Message # [opcode |-> 0, text |-> <<>>]
    BY DEF Messages!Fragmented, Messages!NoMessage, Messages!Continuation, Message
  <2>2. CASE begun
    <3>1. Message.opcode = opcode /\ [opcode |-> 0, text |-> <<>>].opcode = 0
      BY <2>2 DEF Message
    <3> QED
      BY <1>2, <2>1, <2>2, <3>1 DEF Continuation
  <2>3. CASE ~begun
    BY <2>1, <2>3 DEF Message, Continuation
  <2> QED
    BY <1>1, <2>2, <2>3
<1>5. Messages!Kind(Current) = opcode
  <2>1. Messages!Kind(Current) = IF Messages!Fragmented THEN Message.opcode ELSE Current.opcode
    BY DEF Messages!Kind, Message
  <2>2. CASE begun
    <3>1. Message.opcode = opcode
      BY <2>2 DEF Message
    <3> QED
      BY <1>4, <2>1, <2>2, <3>1
  <2>3. CASE ~begun
    <3>1. opcode = Current.opcode
      BY <2>3 DEF ReaderInv, HeaderInv
    <3> QED
      BY <1>4, <2>1, <2>3, <3>1
  <2> QED
    BY <1>1, <2>2, <2>3
<1>6. ~Messages!OutOfSequence(Current)
  BY <1>4 DEF Messages!OutOfSequence, Messages!Continuation, ReaderInv, HeaderInv, Continuation
<1> QED
  BY <1>3, <1>4, <1>5, <1>6

(* The last byte of the payload has come, and it is UTF-8.                 *)
LEMMA FrameSeen ==
  ASSUME TypeOK, ReaderInv, TextInv, Up, step = "PAYLOAD", CanFill, opcode \in Supported,
         Utf8(Filled(Room))
  PROVE  /\ handled < Len(sent) /\ Current.fin \in BOOLEAN
         /\ Messages!Acceptable(Current) /\ Messages!Kind(Current) = opcode
         /\ Messages!Publishes(Current) <=> Publishes
         /\ last_fragment = Current.fin /\ payload_len = Current.len
         /\ Message.text = Clear(consolidated)
         /\ Joined(Filled(Room)) \in Seq(ClearByte)
         /\ Clear(Joined(Filled(Room))) = Message.text \o Messages!Payload(handled + 1)
<1> HIDE DEF Filled, Room
<1>1. handled < Len(sent) /\ handled \in Nat
  BY StepBytes, Types
<1>2. Current \in Frame
  BY <1>1, FramePlace
<1>3. /\ Message.text = Clear(consolidated) /\ Messages!Kind(Current) = opcode
      /\ ~Messages!OutOfSequence(Current)
  BY MessageInHand
<1>4. /\ last_fragment = Current.fin /\ payload_len = Current.len /\ Current.len \in Nat
      /\ Current.fin \in BOOLEAN
  BY <1>2 DEF ReaderInv, HeaderInv, Frame
<1>5. Messages!Acceptable(Current)
  <2>1. Current.len > 0 => Current.utf8
    BY Utf8Payload
  <2>2. opcode \in Messages!Supported
    BY DEF Messages!Supported, Messages!Text, Messages!Close, Messages!Ping, Messages!Pong,
           Supported, Text, Close, Ping, Pong
  <2> QED
    BY <1>3, <2>1, <2>2 DEF Messages!Acceptable
<1>6. Messages!Publishes(Current) <=> Publishes
  BY <1>3, <1>4 DEF Messages!Publishes, Publishes, Messages!Text, Text
<1>7. /\ Joined(Filled(Room)) = consolidated \o ClearPayload
      /\ Joined(Filled(Room)) \in Seq(ClearByte)
  BY JoinedText
<1>8. ClearPayload \in Seq(ClearByte) /\ consolidated \in Seq(ClearByte)
  BY <1>1, <1>4, ClearPayloadType DEF TextInv
<1>9. Clear(consolidated \o ClearPayload) = Clear(consolidated) \o Payload(handled + 1)
  BY <1>1, <1>4, <1>8, ClearJoins, PayloadIsClear
<1>10. Payload(handled + 1) = Messages!Payload(handled + 1)
  BY DEF Payload, Messages!Payload
<1> QED
  BY <1>1, <1>3, <1>4, <1>5, <1>6, <1>7, <1>9, <1>10

LEMMA HandleSeen ==
  ASSUME TypeOK, ReaderInv, TextInv, Up, step = "PAYLOAD", CanFill, opcode \in Supported,
         WholeFrame(Filled(Room)), client' = client
  PROVE  Messages!Handle
<1> DEFINE text == Joined(Filled(Room))
           f == Current
           seen == Message.text \o Messages!Payload(handled + 1)
<1>1. /\ handled < Len(sent) /\ f.fin \in BOOLEAN
      /\ Messages!Acceptable(f) /\ Messages!Kind(f) = opcode
      /\ Messages!Publishes(f) <=> Publishes
      /\ last_fragment = f.fin
      /\ text \in Seq(ClearByte) /\ Clear(text) = seen
  BY FrameSeen DEF WholeFrame
<1>2. /\ IF Publishes THEN PublishIn(text, Channels) ELSE UNCHANGED published
      /\ EndFrame(text)
  BY DEF WholeFrame
<1> HIDE DEF text, seen
<1>3. /\ consolidated' = IF f.fin THEN <<>> ELSE text
      /\ begun' = ~f.fin /\ opcode' = opcode /\ handled' = handled + 1
      /\ pongs' = IF opcode = Ping THEN pongs + 1 ELSE pongs
      /\ handler' = IF opcode = Close THEN "finalized" ELSE "idle"
  BY <1>1, <1>2 DEF EndFrame, header
<1> HIDE DEF f
<1>4. Message' = IF f.fin THEN Messages!NoMessage
                 ELSE [opcode |-> Messages!Kind(f), text |-> seen]
  <2>1. Message' = IF begun' THEN [opcode |-> opcode', text |-> Clear(consolidated')]
                   ELSE [opcode |-> Continuation, text |-> <<>>]
    BY DEF Message
  <2>2. CASE f.fin
    BY <1>3, <2>1, <2>2 DEF Messages!NoMessage, Messages!Continuation, Continuation
  <2>3. CASE ~f.fin
    BY <1>1, <1>3, <2>1, <2>3
  <2> QED
    BY <1>1, <2>2, <2>3
<1>5. pongs' = IF Messages!Kind(f) = Messages!Ping THEN pongs + 1 ELSE pongs
  BY <1>1, <1>3 DEF Messages!Ping, Ping
<1>6. (handler' # "finalized") = (Messages!Kind(f) # Messages!Close)
  BY <1>1, <1>3 DEF Messages!Close, Close
<1>7. IF Messages!Publishes(f)
      THEN Texts' = [c \in Channels |-> IF c \in Channels THEN Append(Texts[c], seen) ELSE Texts[c]]
      ELSE Texts' = Texts
  <2>1. CASE Publishes
    BY <1>1, <1>2, <2>1, TextsFollow
  <2>2. CASE ~Publishes
    <3>1. published' = published
      BY <1>2, <2>2
    <3>2. Texts' = Texts
      BY <3>1 DEF Texts, Channels
    <3> QED
      BY <1>1, <2>2, <3>2
  <2> QED
    BY <2>1, <2>2
<1>8. sent' = sent /\ Up
  BY DEF client
<1> QED
  BY <1>1, <1>3, <1>4, <1>5, <1>6, <1>7, <1>8
  DEF Messages!Handle, Messages!Publish, Message, Texts, seen, Up, f, Current

LEMMA PublishInSomeSeen ==
  ASSUME TypeOK, ReaderInv, TextInv, Up, step = "PAYLOAD", CanFill, opcode \in Supported,
         PartOfChannels(Filled(Room)), client' = client
  PROVE  Messages!PublishInSome
<1> DEFINE text == Joined(Filled(Room))
           f == Current
           seen == Message.text \o Messages!Payload(handled + 1)
<1>1. /\ handled < Len(sent)
      /\ Messages!Acceptable(f) /\ Messages!Publishes(f)
      /\ text \in Seq(ClearByte) /\ Clear(text) = seen
  BY FrameSeen DEF PartOfChannels
<1>2. PICK n : PublishIn(text, {Subscriptions[i] : i \in 1..n})
  BY DEF PartOfChannels
<1>3. Finalize /\ UNCHANGED <<handled, begun, pongs>>
  BY DEF PartOfChannels
<1> HIDE DEF text, seen, f
<1> DEFINE those == {Subscriptions[i] : i \in 1..n}
           some == those \cap Channels
<1>4. Texts' = [c \in Channels |-> IF c \in those THEN Append(Texts[c], seen) ELSE Texts[c]]
  BY <1>1, <1>2, TextsFollow
<1> HIDE DEF those
<1>5. Texts' = [c \in Channels |-> IF c \in some THEN Append(Texts[c], seen) ELSE Texts[c]]
  BY <1>4
<1>6. Message' = Message
  BY <1>3 DEF Finalize, header, parts, Message
<1>7. ~(handler' # "finalized") /\ sent' = sent /\ Up
  BY <1>3 DEF Finalize, client
<1>8. some \in SUBSET Channels
  OBVIOUS
<1> HIDE DEF some
<1>9. \E s \in SUBSET Channels :
        Texts' = [c \in Channels |-> IF c \in s THEN Append(Texts[c], seen) ELSE Texts[c]]
  BY <1>5, <1>8
<1> QED
  BY <1>1, <1>3, <1>6, <1>7, <1>9
  DEF Messages!PublishInSome, Messages!Publish, Message, Texts, seen, Up, f, Current

LEMMA StepRefines == IInv /\ [Next]_vars => [Messages!Next]_(Messages!vars)
<1> SUFFICES ASSUME IInv, [Next]_vars PROVE [Messages!Next]_(Messages!vars)
  OBVIOUS
<1>1. ASSUME UNCHANGED <<client, header, parts, history>>, Up' <=> Up
      PROVE  [Messages!Next]_(Messages!vars)
  BY <1>1, NothingSeen DEF client, header, parts, history
<1>2. ASSUME UNCHANGED <<client, history>>, Finalize
      PROVE  [Messages!Next]_(Messages!vars)
  BY <1>2, EndSeen DEF Messages!Next, client
<1>3. CASE UNCHANGED vars
  BY <1>1, <1>3 DEF vars, socket, Up
<1>4. CASE Arrive
  BY <1>1, <1>4 DEF Arrive, Up
<1>5. CASE CloseByClient
  BY <1>1, <1>5 DEF CloseByClient, Up
<1>6. CASE Handshake
  <2>1. /\ UNCHANGED <<client, header, parts, history, step, buf, payload, temp_pool>>
        /\ handler = "request" /\ handler' \in {"idle", "finalized"}
    BY <1>6 DEF Handshake, socket
  <2>2. CASE handler' = "idle"
    BY <1>1, <2>1, <2>2 DEF Up
  <2>3. CASE handler' = "finalized"
    <3>1. Messages!End
      <4>1. UNCHANGED <<sent, handled, begun, consolidated, published, pongs, opcode>>
        BY <2>1 DEF client, header, parts, history
      <4>2. Message' = Message /\ Texts' = Texts
        BY <4>1 DEF Message, Texts, Channels
      <4> QED
        BY <2>3, <4>1, <4>2 DEF Messages!End, Message, Texts
    <3> QED
      BY <3>1 DEF Messages!Next
  <2> QED
    BY <2>1, <2>2, <2>3
<1>7. CASE Read
  <2>1. CASE ReadEvent
    BY <1>1, <2>1 DEF ReadEvent, Up
  <2>2. CASE ReadAgain
    BY <1>1, <2>2 DEF ReadAgain, Reading, Up
  <2>3. CASE ReadEnd
    BY <1>2, <2>3 DEF ReadEnd, socket
  <2>4. CASE ReadStart
    <3>1. TypeOK /\ ReaderInv /\ step = "START" /\ UNCHANGED <<client, history>>
      BY <2>4 DEF ReadStart, Reading, IInv, Up
    <3>2. CASE Finalize
      BY <1>2, <3>1, <3>2
    <3>3. CASE ~Finalize
      <4>1. handler' = handler /\ consolidated' = consolidated
            /\ (fragmented => opcode' = opcode)
        BY <2>4, <3>3 DEF ReadStart
      <4>2. fragmented = begun
        BY <3>1 DEF ReaderInv, MessageInv
      <4> QED
        BY <3>1, <4>1, <4>2, NothingSeen DEF client, history, Up
    <3> QED
      BY <3>2, <3>3
  <2>5. CASE ReadRealSize
    BY <2>5, NothingSeen DEF ReadRealSize, client, parts, history, Up
  <2>6. CASE ReadMaskKey
    BY <2>6, NothingSeen DEF ReadMaskKey, client, parts, history, Up
  <2>7. CASE ReadPayload
    <3>1. /\ step = "PAYLOAD" /\ CanFill /\ opcode \in Supported /\ Up
          /\ UNCHANGED <<client, arrived, eof, edge>>
          /\ \/ WholeFrame(Filled(Room))
             \/ PartOfChannels(Filled(Room))
             \/ (Finalize /\ UNCHANGED history)
      BY <2>7, PayloadWays
    <3>2. TypeOK /\ ReaderInv /\ TextInv
      BY <3>1 DEF IInv
    <3>3. CASE WholeFrame(Filled(Room))
      <4>1. Messages!Handle
        BY <3>1, <3>2, <3>3, HandleSeen
      <4> QED
        BY <4>1 DEF Messages!Next
    <3>4. CASE PartOfChannels(Filled(Room))
      <4>1. Messages!PublishInSome
        BY <3>1, <3>2, <3>4, PublishInSomeSeen
      <4> QED
        BY <4>1 DEF Messages!Next
    <3>5. CASE Finalize /\ UNCHANGED history
      BY <1>2, <3>1, <3>5
    <3> QED
      BY <3>1, <3>3, <3>4, <3>5
  <2>8. CASE Reject
    BY <1>2, <2>8 DEF Reject, socket
  <2> QED
    BY <1>7, <2>1, <2>2, <2>3, <2>4, <2>5, <2>6, <2>7, <2>8 DEF Read
<1>8. CASE OutOfMemory
  BY <1>2, <1>8 DEF OutOfMemory, socket
<1>9. CASE Disconnect
  BY <1>2, <1>9 DEF Disconnect, socket
<1> QED
  BY <1>3, <1>4, <1>5, <1>6, <1>7, <1>8, <1>9 DEF Next

LEMMA InitRefines == Init => Messages!Init
<1> SUFFICES ASSUME Init PROVE Messages!Init
  OBVIOUS
<1>1. /\ handled = 0 /\ begun = FALSE /\ pongs = 0 /\ handler = "request"
      /\ published = [c \in Channels |-> <<>>]
  BY DEF Init
<1>2. Message = [opcode |-> 0, text |-> <<>>]
  BY <1>1 DEF Message, Continuation
<1>3. Texts = [c \in Channels |-> <<>>]
  <2>1. [n \in DOMAIN <<>> |-> Clear(<<>>[n])] = <<>>
    OBVIOUS
  <2>2. \A c \in Channels : [n \in DOMAIN published[c] |-> Clear(published[c][n])] = <<>>
    BY <1>1, <2>1
  <2> QED
    BY <2>2 DEF Texts
<1> QED
  BY <1>1, <1>2, <1>3
  DEF Messages!Init, Messages!NoMessage, Messages!Continuation, Message, Texts

----------------------------------------------------------------------------
(* The theorems.                                                           *)

LEMMA Invariance == Spec => []IInv
BY InitIInv, NextKeeps, PTL DEF Spec

(* The variables have the types of what they stand for; the reader never   *)
(* has more bytes than the step asked for, nor takes more than has come    *)
(* (ngx_http_push_stream_recv), whatever the frames and their pieces.      *)
THEOREM TypeCorrect == Spec => []TypeOK
<1>1. IInv => TypeOK
  BY DEF IInv
<1> QED
  BY <1>1, Invariance, PTL

(* The memory of the parts of a message, and of a payload that is being    *)
(* read, stays as long as the connection needs it, whatever events and     *)
(* frames come in between (websocket.c:315 and 387).                       *)
THEOREM PartsStay == Spec => []PartsAreKept
<1>1. IInv => PartsAreKept
  BY DEF IInv
<1> QED
  BY <1>1, Invariance, PTL

(* However the network cuts the bytes, the reader takes the frames one     *)
(* after the other, whole and once, and what the channels get are the      *)
(* texts that they make, unmasked and joined (websocket.c:270 to 403).     *)
THEOREM Refinement == Spec => ImplementsMessages
<1>1. Messages!Init /\ [][Messages!Next]_(Messages!vars) => ImplementsMessages
  BY DEF ImplementsMessages, Messages!Spec
<1> QED
  BY <1>1, InitRefines, Invariance, StepRefines, PTL DEF Spec
=============================================================================
