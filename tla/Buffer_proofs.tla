---------------------------- MODULE Buffer_proofs ----------------------------
(***************************************************************************)
(* Proofs about Buffer, for all sizes of the vector, of the prepend and of *)
(* the extra area of readFd.  The contents of the readable part are        *)
(* compared cell by cell (Holds), since every operation is an assignment   *)
(* to cells or to the two indexes; the bytes of a set M may be anything.   *)
(***************************************************************************)
EXTENDS Buffer, SequenceTheorems, TLAPS

Byte == 0..MaxBytes
Buffers == [cells : Seq(Byte), r : Nat, w : Nat]

(* The picture at the head of Buffer.h.                                    *)
InOrder(b) == kCheapPrepend <= b.r /\ b.r <= b.w /\ b.w <= size(b)

(* There are as many readable bytes as in s, and they are those of s but   *)
(* for the ones in M.                                                      *)
Holds(b, s, M) ==
  /\ b.w - b.r = Len(s)
  /\ \A i \in 1..Len(s) : s[i] \in M \/ b.cells[b.r + i] = s[i]

(* s starts with q, but for the bytes of q that are in M.                  *)
Like(q, s, M) ==
  \A i \in 1..Len(q) : q[i] \in M \/ (i <= Len(s) /\ s[i] = q[i])

(* e holds all that b does.                                                *)
KeptIn(e, b) == \A s \in Seq(Byte) : \A M : Holds(b, s, M) => Holds(e, s, M)

IInv ==
  /\ TypeOK
  /\ buffer_ \in Buffers
  /\ ~overrun => readableBytes(buffer_) = Len(unread)
  /\ ~overrun => Holds(buffer_, unread, misplaced)

LEMMA Constants ==
  /\ kCheapPrepend \in Nat /\ kInitialSize \in Nat /\ ExtraSize \in Nat
  /\ MaxLen \in Nat /\ MaxBytes \in Nat
BY BufferAssumption

LEMMA BufferTypes ==
  ASSUME NEW b \in Buffers
  PROVE  /\ b.cells \in Seq(Byte) /\ b.r \in Nat /\ b.w \in Nat
         /\ size(b) = Len(b.cells) /\ size(b) \in Nat
         /\ DOMAIN b.cells = 1..size(b)
         /\ \A i \in 1..size(b) : b.cells[i] \in Byte
BY DEF Buffers, size

(* The readable bytes as a sequence.                                       *)
LEMMA ReadableFacts ==
  ASSUME NEW b \in Buffers, InOrder(b)
  PROVE  /\ Readable(b) \in Seq(Byte) /\ Len(Readable(b)) = b.w - b.r
         /\ \A i \in 1..(b.w - b.r) : Readable(b)[i] = b.cells[b.r + i]
<1>1. /\ b.r \in Nat /\ b.w \in Nat /\ b.r <= b.w /\ b.w <= size(b)
      /\ size(b) \in Nat /\ \A i \in 1..size(b) : b.cells[i] \in Byte
  BY BufferTypes, Constants DEF InOrder
<1> DEFINE m == b.r + 1
<1>2. /\ m \in Int /\ b.w \in Int
      /\ \A i \in m..b.w : b.cells[i] \in Byte
  BY <1>1
<1>3. b.w - m + 1 = b.w - b.r /\ \A i \in 1..(b.w - b.r) : m + i - 1 = b.r + i
  BY <1>1
<1>4. (IF m <= b.w THEN b.w - m + 1 ELSE 0) = b.w - b.r
  BY <1>1
<1>5. Readable(b) = SubSeq(b.cells, m, b.w)
  BY DEF Readable
<1> HIDE DEF m
<1>6. /\ SubSeq(b.cells, m, b.w) \in Seq(Byte)
      /\ Len(SubSeq(b.cells, m, b.w)) = IF m <= b.w THEN b.w - m + 1 ELSE 0
      /\ \A i \in 1..(b.w - m + 1) : SubSeq(b.cells, m, b.w)[i] = b.cells[m + i - 1]
  BY <1>2, SubSeqProperties
<1> QED
  BY <1>3, <1>4, <1>5, <1>6

(* Two ways to say what the readable bytes are.                            *)
LEMMA HoldsReadable ==
  ASSUME NEW b \in Buffers, InOrder(b), NEW s \in Seq(Byte)
  PROVE  Holds(b, s, {}) <=> Readable(b) = s
<1>1. /\ b.r \in Nat /\ b.w \in Nat /\ Len(b.cells) \in Nat
      /\ b.r <= b.w /\ b.w <= Len(b.cells)
      /\ b.cells \in Seq(Byte)
  BY BufferTypes, Constants DEF InOrder, size
<1>2. /\ Readable(b) \in Seq(Byte)
      /\ Len(Readable(b)) = b.w - b.r
      /\ \A i \in 1..(b.w - b.r) : Readable(b)[i] = b.cells[b.r + i]
  BY ReadableFacts
<1>3. ASSUME Holds(b, s, {}) PROVE Readable(b) = s
  BY <1>1, <1>2, <1>3, SeqEqual DEF Holds
<1>4. ASSUME Readable(b) = s PROVE Holds(b, s, {})
  BY <1>1, <1>2, <1>4 DEF Holds
<1> QED
  BY <1>3, <1>4

(* A copy into the vector changes the cells it covers and nothing else.    *)
Copied(e, b, at, s) ==
  /\ e \in Buffers /\ e.r = b.r /\ e.w = b.w /\ size(e) = size(b)
  /\ \A i \in 1..size(b) :
       e.cells[i] = IF at < i /\ i <= at + Len(s) THEN s[i - at] ELSE b.cells[i]

LEMMA StoredFacts ==
  ASSUME NEW b \in Buffers, NEW at \in Nat, NEW s \in Seq(Byte)
  PROVE  Copied(Stored(b, at, s), b, at, s)
<1> DEFINE C == [i \in DOMAIN b.cells |->
                   IF i \in (at + 1)..(at + Len(s)) THEN s[i - at] ELSE b.cells[i]]
<1>1. /\ b.cells \in Seq(Byte) /\ DOMAIN b.cells = 1..size(b) /\ size(b) \in Nat
      /\ \A i \in 1..size(b) : b.cells[i] \in Byte
  BY BufferTypes
<1>2. Len(s) \in Nat /\ \A i \in 1..Len(s) : s[i] \in Byte
  OBVIOUS
<1>3. \A i \in 1..size(b) :
        C[i] = IF at < i /\ i <= at + Len(s) THEN s[i - at] ELSE b.cells[i]
  BY <1>1, <1>2
<1>4. \A i \in 1..size(b) : C[i] \in Byte
  BY <1>1, <1>2, <1>3
<1>5. C \in [1..size(b) -> Byte]
  BY <1>1, <1>4
<1> HIDE DEF C
<1>6. C \in Seq(Byte) /\ Len(C) = size(b)
  BY <1>1, <1>5, IsASeq
<1>7. Stored(b, at, s) = [b EXCEPT !.cells = C]
  BY DEF Stored, C
<1>8. /\ [b EXCEPT !.cells = C] \in Buffers
      /\ [b EXCEPT !.cells = C].cells = C
      /\ [b EXCEPT !.cells = C].r = b.r /\ [b EXCEPT !.cells = C].w = b.w
  BY <1>6 DEF Buffers
<1> QED
  BY <1>3, <1>6, <1>7, <1>8 DEF size, Copied
------------------------------------------------------------------------------
(* makespace.                                                              *)

(* The move keeps the bytes and gives the reader's room to the writer.     *)
LEMMA MovedFacts ==
  ASSUME NEW b \in Buffers, InOrder(b)
  PROVE  /\ Moved(b) \in Buffers /\ InOrder(Moved(b))
         /\ size(Moved(b)) = size(b)
         /\ Moved(b).r = kCheapPrepend
         /\ Moved(b).w = kCheapPrepend + readableBytes(b)
         /\ KeptIn(Moved(b), b)
<1> DEFINE e == Stored(b, kCheapPrepend, Readable(b))
<1>1. /\ kCheapPrepend \in Nat /\ b.r \in Nat /\ b.w \in Nat /\ size(b) \in Nat
      /\ kCheapPrepend <= b.r /\ b.r <= b.w /\ b.w <= size(b)
      /\ b.cells \in Seq(Byte) /\ size(b) = Len(b.cells)
  BY BufferTypes, Constants DEF InOrder
<1>2. /\ Readable(b) \in Seq(Byte) /\ Len(Readable(b)) = b.w - b.r
      /\ \A i \in 1..(b.w - b.r) : Readable(b)[i] = b.cells[b.r + i]
  BY ReadableFacts
<1>3. /\ e \in Buffers /\ size(e) = size(b)
      /\ \A i \in 1..size(b) :
           e.cells[i] = IF kCheapPrepend < i /\ i <= kCheapPrepend + (b.w - b.r)
                        THEN Readable(b)[i - kCheapPrepend] ELSE b.cells[i]
  <2>1. Copied(e, b, kCheapPrepend, Readable(b))
    BY <1>1, <1>2, StoredFacts
  <2> QED
    BY <1>2, <2>1 DEF Copied
<1> HIDE DEF e
<1>4. /\ Moved(b) \in Buffers /\ Moved(b).cells = e.cells
      /\ Moved(b).r = kCheapPrepend
      /\ Moved(b).w = kCheapPrepend + (b.w - b.r)
  <2>1. Moved(b) = [e EXCEPT !.r = kCheapPrepend, !.w = kCheapPrepend + (b.w - b.r)]
    BY DEF Moved, e, readableBytes
  <2>2. kCheapPrepend + (b.w - b.r) \in Nat
    BY <1>1
  <2> QED
    BY <1>1, <1>3, <2>1, <2>2 DEF Buffers
<1>5. size(Moved(b)) = size(b)
  BY <1>3, <1>4 DEF size
<1>6. InOrder(Moved(b))
  BY <1>1, <1>4, <1>5 DEF InOrder
<1>7. ASSUME NEW s \in Seq(Byte), NEW M, Holds(b, s, M) PROVE Holds(Moved(b), s, M)
  <2>1. /\ b.w - b.r = Len(s)
        /\ \A i \in 1..Len(s) : s[i] \in M \/ b.cells[b.r + i] = s[i]
    BY <1>7 DEF Holds
  <2>2. \A i \in 1..Len(s) : kCheapPrepend + i \in 1..size(b)
    BY <1>1, <2>1
  <2>3. \A i \in 1..Len(s) :
          e.cells[kCheapPrepend + i] = Readable(b)[kCheapPrepend + i - kCheapPrepend]
    BY <1>1, <1>3, <2>1, <2>2
  <2>5. \A i \in 1..Len(s) : kCheapPrepend + i - kCheapPrepend = i
    BY <1>1
  <2>6. \A i \in 1..Len(s) : s[i] \in M \/ Readable(b)[i] = s[i]
    BY <1>1, <1>2, <2>1
  <2>4. \A i \in 1..Len(s) : s[i] \in M \/ e.cells[kCheapPrepend + i] = s[i]
    BY <2>3, <2>5, <2>6
  <2> QED
    BY <1>1, <1>4, <2>1, <2>4 DEF Holds
<1> QED
  BY <1>4, <1>5, <1>6, <1>7 DEF readableBytes, KeptIn

(* resize to more cells keeps those there are.                             *)
LEMMA ResizedFacts ==
  ASSUME NEW b \in Buffers, InOrder(b), NEW len \in Nat, size(b) <= b.w + len
  PROVE  /\ Resized(b, len) \in Buffers /\ InOrder(Resized(b, len))
         /\ size(Resized(b, len)) = b.w + len
         /\ Resized(b, len).r = b.r /\ Resized(b, len).w = b.w
         /\ KeptIn(Resized(b, len), b)
<1> DEFINE n == b.w + len - size(b)
           z == Zeros(n)
<1>1. /\ kCheapPrepend \in Nat /\ b.r \in Nat /\ b.w \in Nat /\ size(b) \in Nat
      /\ kCheapPrepend <= b.r /\ b.r <= b.w /\ b.w <= size(b)
      /\ b.cells \in Seq(Byte) /\ size(b) = Len(b.cells)
      /\ n \in Nat /\ 0 \in Byte
  BY BufferTypes, Constants DEF InOrder, Byte
<1> HIDE DEF n
<1>2. z \in Seq(Byte) /\ Len(z) = n
  BY <1>1, IsASeq DEF Zeros
<1> HIDE DEF z
<1>3. /\ b.cells \o z \in Seq(Byte) /\ Len(b.cells \o z) = size(b) + n
      /\ \A i \in 1..size(b) : (b.cells \o z)[i] = b.cells[i]
  <2>1. b.cells \o z \in Seq(Byte)
    BY <1>1, <1>2
  <2>2. Len(b.cells \o z) = size(b) + n
    BY <1>1, <1>2
  <2>3. \A i \in 1..size(b) : (b.cells \o z)[i] = b.cells[i]
    BY <1>1, <1>2
  <2> QED
    BY <2>1, <2>2, <2>3
<1>4. /\ Resized(b, len) \in Buffers
      /\ Resized(b, len).cells = b.cells \o z
      /\ Resized(b, len).r = b.r /\ Resized(b, len).w = b.w
  BY <1>3 DEF Resized, Buffers, z, n
<1>5. size(Resized(b, len)) = b.w + len
  BY <1>1, <1>3, <1>4 DEF size, n
<1>6. InOrder(Resized(b, len))
  BY <1>1, <1>4, <1>5 DEF InOrder
<1>7. ASSUME NEW s \in Seq(Byte), NEW M, Holds(b, s, M)
      PROVE  Holds(Resized(b, len), s, M)
  <2>1. /\ b.w - b.r = Len(s)
        /\ \A i \in 1..Len(s) : s[i] \in M \/ b.cells[b.r + i] = s[i]
    BY <1>7 DEF Holds
  <2>2. \A i \in 1..Len(s) : b.r + i \in 1..size(b)
    BY <1>1, <2>1
  <2> QED
    BY <1>3, <1>4, <2>1, <2>2 DEF Holds
<1> QED
  BY <1>4, <1>5, <1>6, <1>7 DEF KeptIn

LEMMA MakespaceFacts ==
  ASSUME NEW b \in Buffers, InOrder(b), NEW len \in Nat
  PROVE  /\ makespace(b, len) \in Buffers /\ InOrder(makespace(b, len))
         /\ readableBytes(makespace(b, len)) = readableBytes(b)
         /\ writeableBytes(makespace(b, len)) >= len
         /\ KeptIn(makespace(b, len), b)
<1>1. /\ kCheapPrepend \in Nat /\ b.r \in Nat /\ b.w \in Nat /\ size(b) \in Nat
      /\ kCheapPrepend <= b.r /\ b.r <= b.w /\ b.w <= size(b)
  BY BufferTypes, Constants DEF InOrder
<1>2. CASE writeableBytes(b) + prependalbleBytes(b) < len + kCheapPrepend
  <2>1. size(b) <= b.w + len
    BY <1>1, <1>2 DEF writeableBytes, prependalbleBytes
  <2>2. makespace(b, len) = Resized(b, len)
    BY <1>2 DEF makespace
  <2> QED
    BY <1>1, <2>1, <2>2, ResizedFacts DEF readableBytes, writeableBytes
<1>3. CASE ~(writeableBytes(b) + prependalbleBytes(b) < len + kCheapPrepend)
  <2>1. makespace(b, len) = Moved(b)
    BY <1>3 DEF makespace
  <2> QED
    BY <1>1, <1>3, <2>1, MovedFacts
       DEF readableBytes, writeableBytes, prependalbleBytes
<1> QED
  BY <1>2, <1>3

LEMMA EnsureFacts ==
  ASSUME NEW b \in Buffers, InOrder(b), NEW len \in Nat
  PROVE  LET e == ensureWriteableBytes(b, len) IN
         /\ e \in Buffers /\ InOrder(e)
         /\ readableBytes(e) = readableBytes(b)
         /\ KeptIn(e, b)
BY MakespaceFacts DEF ensureWriteableBytes, KeptIn
------------------------------------------------------------------------------
(* append, and the first area of readFd.                                   *)

(* Bytes put behind the readable ones, with writeIndex_ moved to w.        *)
Behind(b, s, w) == [Stored(b, b.w, s) EXCEPT !.w = w]

(* e holds all that b does, and bytes q behind it that are like s.         *)
Joined(e, b, s) ==
  \A u, q \in Seq(Byte) : \A M :
    Holds(b, u, M) /\ Like(q, s, M) /\ readableBytes(e) = readableBytes(b) + Len(q)
      => Holds(e, u \o q, M)

PutBehind(e, b, s, w) ==
  /\ e \in Buffers /\ e.r = b.r /\ e.w = w /\ size(e) = size(b)
  /\ b.w <= w /\ w <= size(e) => InOrder(e)
  /\ w <= size(e) => Joined(e, b, s)

LEMMA StoredBehind ==
  ASSUME NEW b \in Buffers, InOrder(b), NEW s \in Seq(Byte), NEW w \in Nat
  PROVE  PutBehind(Behind(b, s, w), b, s, w)
<1> DEFINE d == Stored(b, b.w, s)
           e == [d EXCEPT !.w = w]
<1>1. /\ kCheapPrepend \in Nat /\ b.r \in Nat /\ b.w \in Nat /\ size(b) \in Nat
      /\ kCheapPrepend <= b.r /\ b.r <= b.w /\ b.w <= size(b)
      /\ Len(s) \in Nat
  BY BufferTypes, Constants DEF InOrder
<1>2. /\ d \in Buffers /\ d.r = b.r /\ size(d) = size(b)
      /\ \A i \in 1..size(b) :
           d.cells[i] = IF b.w < i /\ i <= b.w + Len(s)
                        THEN s[i - b.w] ELSE b.cells[i]
  <2>1. Copied(d, b, b.w, s)
    BY <1>1, StoredFacts
  <2> QED
    BY <2>1 DEF Copied
<1> HIDE DEF d
<1>3. e \in Buffers /\ e.r = b.r /\ e.w = w /\ e.cells = d.cells
  BY <1>2 DEF Buffers
<1>4. size(e) = size(b)
  BY <1>2, <1>3 DEF size
<1> HIDE DEF e
<1>5. b.w <= w /\ w <= size(e) => InOrder(e)
  BY <1>1, <1>3 DEF InOrder
<1>6. ASSUME w <= size(e), NEW u \in Seq(Byte), NEW q \in Seq(Byte), NEW M,
             Holds(b, u, M), Like(q, s, M),
             readableBytes(e) = readableBytes(b) + Len(q)
      PROVE  Holds(e, u \o q, M)
  <2>1. /\ b.w - b.r = Len(u)
        /\ \A i \in 1..Len(u) : u[i] \in M \/ b.cells[b.r + i] = u[i]
    BY <1>6 DEF Holds
  <2> DEFINE j == u \o q
  <2>2. /\ Len(u) \in Nat /\ Len(q) \in Nat /\ Len(j) = Len(u) + Len(q)
        /\ \A i \in 1..(Len(u) + Len(q)) :
             j[i] = IF i <= Len(u) THEN u[i] ELSE q[i - Len(u)]
    OBVIOUS
  <2> HIDE DEF j
  <2>0. b.w = b.r + Len(u) /\ e.w = b.r + (Len(u) + Len(q)) /\ b.r \in Nat /\ b.w \in Nat
    <3>1. e.w - e.r = (b.w - b.r) + Len(q)
      BY <1>6 DEF readableBytes
    <3>2. e.w \in Nat /\ e.r = b.r
      BY <1>3
    <3>3. b.w - b.r = Len(u)
      BY <2>1
    <3>4. b.r \in Nat /\ b.w \in Nat /\ Len(u) \in Nat /\ Len(q) \in Nat
      BY <1>1, <2>2
    <3>5. b.w = b.r + Len(u)
      BY <3>3, <3>4
    <3>6. e.w - b.r = Len(u) + Len(q)
      BY <3>1, <3>2, <3>3
    <3>7. e.w = b.r + (Len(u) + Len(q))
      BY <3>2, <3>4, <3>6
    <3> QED
      BY <3>4, <3>5, <3>7
  <2>3. ASSUME NEW i \in 1..(Len(u) + Len(q)) PROVE j[i] \in M \/ e.cells[b.r + i] = j[i]
    <3>1. b.r + i \in 1..size(b)
      BY <1>1, <1>3, <1>4, <1>6, <2>0, <2>2
    <3>2. CASE i <= Len(u)
      <4>1. ~(b.w < b.r + i) /\ i \in 1..Len(u)
        BY <2>0, <2>2, <3>2
      <4>2. d.cells[b.r + i] = b.cells[b.r + i]
        BY <1>2, <3>1, <4>1
      <4>3. j[i] = u[i]
        BY <2>2, <3>2
      <4> QED
        BY <1>3, <2>1, <4>1, <4>2, <4>3
    <3>3. CASE ~(i <= Len(u))
      <4>1. PICK k \in 1..Len(q) : k = i - Len(u)
        BY <2>2, <3>3
      <4>2. j[i] = q[k]
        BY <2>2, <3>3, <4>1
      <4>3. q[k] \in M \/ (k <= Len(s) /\ s[k] = q[k])
        BY <1>6, <4>1 DEF Like
      <4>4. CASE k <= Len(s) /\ s[k] = q[k]
        <5>1. PICK c \in 1..size(b) : c = b.r + i
          BY <3>1
        <5>2. b.w < c /\ c <= b.w + Len(s) /\ c - b.w = k
          <6>1. c = b.r + i /\ k = i - Len(u) /\ 1 <= k /\ k <= Len(s)
            BY <4>1, <4>4, <5>1
          <6>2. /\ b.w = b.r + Len(u) /\ b.r \in Nat /\ Len(u) \in Nat
                /\ Len(s) \in Nat
            BY <1>1, <2>0, <2>2
          <6> QED
            BY <6>1, <6>2
        <5>3. d.cells[c] = s[c - b.w]
          BY <1>2, <5>2
        <5>4. d.cells[c] = s[k]
          BY <5>2, <5>3
        <5> QED
          BY <1>3, <4>2, <4>4, <5>1, <5>4, Zenon
      <4> QED
        BY <4>2, <4>3, <4>4
    <3> QED
      BY <3>2, <3>3
  <2>4. e.w - e.r = Len(j)
    BY <1>3, <2>0, <2>2
  <2>5. \A i \in 1..Len(j) : j[i] \in M \/ e.cells[e.r + i] = j[i]
    BY <1>3, <2>2, <2>3
  <2>6. Holds(e, j, M)
    BY <2>4, <2>5 DEF Holds
  <2> QED
    BY <2>6 DEF j
<1> QED
  <2>1. w <= size(e) => Joined(e, b, s)
    BY <1>6 DEF Joined
  <2>2. PutBehind(e, b, s, w)
    BY <1>3, <1>4, <1>5, <2>1 DEF PutBehind
  <2> QED
    BY <2>2 DEF e, d, Behind

AppendedTo(a, b, s) ==
  /\ a \in Buffers
  /\ readableBytes(a) = readableBytes(b) + Len(s)
  /\ a.w <= size(a) => InOrder(a) /\ Joined(a, b, s)

LEMMA AppendedFacts ==
  ASSUME NEW b \in Buffers, InOrder(b), NEW s \in Seq(Byte)
  PROVE  AppendedTo(Appended(b, s), b, s)
<1> DEFINE e == ensureWriteableBytes(b, Len(s))
           w == e.w + Len(s)
           a == Behind(e, s, w)
<1>1. Len(s) \in Nat
  OBVIOUS
<1>2. /\ e \in Buffers /\ InOrder(e) /\ readableBytes(e) = readableBytes(b)
      /\ KeptIn(e, b)
  BY <1>1, EnsureFacts
<1>3. Appended(b, s) = a
  BY DEF Appended, Behind
<1> HIDE DEF e
<1>4. e.w \in Nat /\ e.r \in Nat /\ w \in Nat /\ e.w <= w
  BY <1>1, <1>2, BufferTypes
<1>5. PutBehind(a, e, s, w)
  BY <1>2, <1>4, StoredBehind
<1> HIDE DEF a
<1>6. a \in Buffers /\ a.r = e.r /\ a.w = w
  BY <1>5 DEF PutBehind
<1>7. readableBytes(a) = readableBytes(b) + Len(s)
  BY <1>1, <1>2, <1>4, <1>6 DEF readableBytes
<1>8. ASSUME a.w <= size(a) PROVE InOrder(a) /\ Joined(a, e, s)
  BY <1>4, <1>6, <1>5, <1>8 DEF PutBehind
<1>9. ASSUME a.w <= size(a) PROVE InOrder(a) /\ Joined(a, b, s)
  BY <1>2, <1>8, <1>9 DEF Joined, KeptIn
<1> QED
  BY <1>3, <1>6, <1>7, <1>9 DEF AppendedTo

(* retrieve takes bytes from the front, and resets the indexes with the    *)
(* last.                                                                   *)
LEMMA RetrievedFacts ==
  ASSUME NEW b \in Buffers, InOrder(b), NEW len \in Nat, NEW u \in Seq(Byte),
         readableBytes(b) = Len(u)
  PROVE  LET e == Retrieved(b, len)
             left == SubSeq(u, len + 1, Len(u)) IN
         /\ e \in Buffers /\ InOrder(e) /\ left \in Seq(Byte)
         /\ readableBytes(e) = Len(left)
         /\ \A M : Holds(b, u, M) => Holds(e, left, M)
<1> DEFINE e == Retrieved(b, len)
           left == SubSeq(u, len + 1, Len(u))
<1>1. /\ kCheapPrepend \in Nat /\ b.r \in Nat /\ b.w \in Nat /\ size(b) \in Nat
      /\ kCheapPrepend <= b.r /\ b.r <= b.w /\ b.w <= size(b)
      /\ b.w - b.r = Len(u) /\ Len(u) \in Nat
  BY BufferTypes, Constants DEF InOrder, readableBytes
<1>2. CASE len < Len(u)
  <2>1. /\ e = [b EXCEPT !.r = b.r + len] /\ b.r + len \in Nat
        /\ b.r + len <= b.w
    BY <1>1, <1>2 DEF Retrieved, readableBytes
  <2>2. /\ e \in Buffers /\ e.r = b.r + len /\ e.w = b.w /\ e.cells = b.cells
    BY <2>1 DEF Buffers
  <2>3. InOrder(e)
    BY <1>1, <2>1, <2>2 DEF InOrder, size
  <2>4. len + 1 \in 1..(Len(u) + 1) /\ Len(u) \in (len + 1 - 1)..Len(u)
    BY <1>1, <1>2
  <2>5. left \in Seq(Byte)
    BY <1>1, <1>2, SubSeqProperties
  <2>6. /\ Len(left) = Len(u) - len
        /\ \A i \in 1..(Len(u) - len) : left[i] = u[len + i]
    BY <1>1, <1>2
  <2> HIDE DEF e, left
  <2>7. readableBytes(e) = Len(left)
    BY <1>1, <1>2, <2>2, <2>6 DEF readableBytes
  <2>8. ASSUME NEW M, Holds(b, u, M) PROVE Holds(e, left, M)
    <3>1. \A i \in 1..Len(u) : u[i] \in M \/ b.cells[b.r + i] = u[i]
      BY <2>8 DEF Holds
    <3>2. \A i \in 1..(Len(u) - len) :
            len + i \in 1..Len(u) /\ b.r + len + i = b.r + (len + i)
      BY <1>1, <1>2
    <3>3. \A i \in 1..(Len(u) - len) : left[i] \in M \/ e.cells[e.r + i] = left[i]
      BY <2>2, <2>6, <3>1, <3>2
    <3> QED
      BY <1>1, <2>2, <2>6, <3>3 DEF Holds
  <2> QED
    BY <2>2, <2>3, <2>5, <2>7, <2>8 DEF e, left
<1>3. CASE ~(len < Len(u))
  <2>1. e = [b EXCEPT !.r = kCheapPrepend, !.w = kCheapPrepend]
    BY <1>1, <1>3 DEF Retrieved, readableBytes
  <2>2. /\ e \in Buffers /\ e.r = kCheapPrepend /\ e.w = kCheapPrepend
        /\ e.cells = b.cells
    BY <1>1, <2>1 DEF Buffers
  <2>3. InOrder(e)
    BY <1>1, <2>2 DEF InOrder, size
  <2>4. left = <<>>
    BY <1>1, <1>3, SubSeqEmpty
  <2> HIDE DEF e, left
  <2>5. left \in Seq(Byte) /\ Len(left) = 0
    BY <2>4
  <2>6. readableBytes(e) = 0
    BY <1>1, <2>2 DEF readableBytes
  <2>7. \A M : Holds(e, left, M)
    BY <1>1, <2>2, <2>5 DEF Holds
  <2> QED
    BY <2>2, <2>3, <2>5, <2>6, <2>7 DEF e, left
<1> QED
  BY <1>2, <1>3
------------------------------------------------------------------------------
(* The steps.                                                              *)

LEMMA FreshFacts ==
  ASSUME given \in Nat, NEW n \in Nat, given + n <= MaxBytes
  PROVE  /\ Fresh(n) \in Seq(1..MaxBytes) /\ Fresh(n) \in Seq(Byte)
         /\ Len(Fresh(n)) = n
<1>1. MaxBytes \in Nat
  BY Constants
<1>2. \A i \in 1..n : given + i \in 1..MaxBytes /\ given + i \in Byte
  BY <1>1 DEF Byte
<1> QED
  BY <1>2 DEF Fresh

LEMMA Bytes ==
  ASSUME NEW u \in Seq(1..MaxBytes)
  PROVE  u \in Seq(Byte)
<1>1. 1..MaxBytes \subseteq Byte
  BY Constants DEF Byte
<1> QED
  BY <1>1, SeqMonotonic

(* What has to be shown of a step that gives n bytes to the buffer.        *)
LEMMA Given ==
  ASSUME IInv, NEW n \in Nat, Takes(n),
         buffer_' \in Buffers, overrun' \in BOOLEAN, misplaced' \subseteq 1..MaxBytes,
         ~overrun' => /\ InOrder(buffer_)'
                      /\ readableBytes(buffer_)' = readableBytes(buffer_) + n,
         ~overrun' => Holds(buffer_', unread \o Fresh(n), misplaced')
  PROVE  IInv'
<1>1. /\ ~overrun /\ given \in 0..MaxBytes /\ unread \in Seq(1..MaxBytes)
      /\ given + n <= MaxBytes /\ given' = given + n
      /\ unread' = unread \o Fresh(n) /\ MaxBytes \in Nat
      /\ readableBytes(buffer_) = Len(unread)
  BY Constants DEF IInv, TypeOK, Takes
<1>2. Fresh(n) \in Seq(1..MaxBytes) /\ Len(Fresh(n)) = n
  BY <1>1, FreshFacts
<1>3. unread' \in Seq(1..MaxBytes) /\ Len(unread)' = Len(unread) + n
  BY <1>1, <1>2, ConcatProperties
<1>4. given' \in 0..MaxBytes
  BY <1>1
<1>5. buffer_'.cells \in Seq(0..MaxBytes)
  BY DEF Buffers, Byte
<1>6. TypeOK'
  BY <1>3, <1>4, <1>5 DEF TypeOK, InOrder
<1>7. ~overrun' => readableBytes(buffer_)' = Len(unread)'
  BY <1>1, <1>3
<1>8. ~overrun' => Holds(buffer_, unread, misplaced)'
  BY <1>1
<1> QED
  BY <1>6, <1>7, <1>8 DEF IInv

(* What the invariant says before such a step.                             *)
LEMMA Before ==
  ASSUME IInv, ~overrun
  PROVE  /\ buffer_ \in Buffers /\ InOrder(buffer_)
         /\ given \in Nat /\ unread \in Seq(Byte)
         /\ readableBytes(buffer_) = Len(unread)
         /\ Holds(buffer_, unread, misplaced)
         /\ kCheapPrepend \in Nat /\ buffer_.r \in Nat /\ buffer_.w \in Nat
         /\ size(buffer_) \in Nat /\ buffer_.w <= size(buffer_)
         /\ buffer_.r <= buffer_.w
         /\ overrun \in BOOLEAN /\ misplaced \subseteq 1..MaxBytes
<1>1. buffer_ \in Buffers /\ InOrder(buffer_)
  BY DEF IInv, TypeOK, InOrder
<1>2. given \in Nat
  BY Constants DEF IInv, TypeOK
<1>3. unread \in Seq(Byte)
  BY Bytes DEF IInv, TypeOK
<1>4. overrun \in BOOLEAN /\ misplaced \subseteq 1..MaxBytes
  BY DEF IInv, TypeOK
<1>5. /\ kCheapPrepend \in Nat /\ buffer_.r \in Nat /\ buffer_.w \in Nat
      /\ size(buffer_) \in Nat
  BY <1>1, BufferTypes, Constants
<1> QED
  BY <1>1, <1>2, <1>3, <1>4, <1>5 DEF IInv, InOrder

LEMMA AppendStep ==
  ASSUME IInv, NEW n \in 1..MaxLen, Append_(n)
  PROVE  IInv'
<1>1. /\ ~overrun /\ n \in Nat /\ Takes(n) /\ given + n <= MaxBytes
      /\ buffer_' = Appended(buffer_, Fresh(n))
      /\ overrun' = (buffer_'.w > size(buffer_)') /\ misplaced' = misplaced
  BY Constants DEF Append_, Takes, size
<1>2. /\ buffer_ \in Buffers /\ InOrder(buffer_)
      /\ given \in Nat /\ unread \in Seq(Byte)
      /\ Holds(buffer_, unread, misplaced) /\ misplaced \subseteq 1..MaxBytes
  BY <1>1, Before
<1>3. Fresh(n) \in Seq(Byte) /\ Len(Fresh(n)) = n
  BY <1>1, <1>2, FreshFacts
<1>4. /\ buffer_' \in Buffers
      /\ readableBytes(buffer_)' = readableBytes(buffer_) + n
      /\ buffer_'.w <= size(buffer_)' => InOrder(buffer_)'
      /\ buffer_'.w <= size(buffer_)' => Joined(buffer_', buffer_, Fresh(n))
  <2>1. AppendedTo(buffer_', buffer_, Fresh(n))
    BY <1>1, <1>2, <1>3, AppendedFacts
  <2> QED
    BY <1>3, <2>1 DEF AppendedTo, readableBytes, size, InOrder
<1>5. ~overrun' => buffer_'.w <= size(buffer_)'
  <2>1. buffer_'.w \in Nat /\ size(buffer_)' \in Nat
    BY <1>4, BufferTypes DEF size
  <2>2. ~overrun' => ~(buffer_'.w > size(buffer_)')
    BY <1>1, Zenon
  <2> QED
    BY <2>1, <2>2
<1>6. ~overrun' => Holds(buffer_', unread \o Fresh(n), misplaced')
  <2>1. Like(Fresh(n), Fresh(n), misplaced)
    BY DEF Like
  <2>2. readableBytes(buffer_') = readableBytes(buffer_) + Len(Fresh(n))
    BY <1>3, <1>4 DEF readableBytes
  <2> QED
    BY <1>1, <1>2, <1>3, <1>4, <1>5, <2>1, <2>2 DEF Joined
<1> QED
  BY <1>1, <1>2, <1>4, <1>5, <1>6, Given

LEMMA SuffixType ==
  ASSUME NEW S, NEW u \in Seq(S), NEW k \in Nat, k < Len(u)
  PROVE  SubSeq(u, k + 1, Len(u)) \in Seq(S)
<1>1. Len(u) \in Nat
  OBVIOUS
<1>2. \A i \in (k + 1)..Len(u) : u[i] \in S
  BY <1>1
<1> QED
  BY <1>1, <1>2, SubSeqProperties

LEMMA RetrieveStep ==
  ASSUME IInv, NEW len \in 1..(Len(unread) + 1), Retrieve(len)
  PROVE  IInv'
<1> DEFINE left == SubSeq(unread, len + 1, Len(unread))
<1>1. /\ ~overrun /\ buffer_' = Retrieved(buffer_, len) /\ unread' = left
      /\ overrun' = overrun /\ misplaced' = misplaced /\ given' = given
  BY DEF Retrieve
<1>2. /\ buffer_ \in Buffers /\ InOrder(buffer_) /\ unread \in Seq(Byte)
      /\ readableBytes(buffer_) = Len(unread)
      /\ Holds(buffer_, unread, misplaced)
      /\ unread \in Seq(1..MaxBytes) /\ given \in 0..MaxBytes
      /\ misplaced \subseteq 1..MaxBytes
  BY <1>1, Before DEF IInv, TypeOK
<1>3. len \in Nat /\ len >= 1 /\ Len(unread) \in Nat
  BY <1>2
<1>4. /\ buffer_' \in Buffers /\ InOrder(buffer_)'
      /\ readableBytes(buffer_)' = Len(left)
      /\ Holds(buffer_, unread, misplaced) => Holds(buffer_', left, misplaced)
  BY <1>1, <1>2, <1>3, RetrievedFacts DEF readableBytes, size, InOrder
<1>5. left \in Seq(1..MaxBytes)
  <2>1. CASE len < Len(unread)
    BY <1>2, <1>3, <2>1, SuffixType
  <2>2. CASE ~(len < Len(unread))
    <3>1. left = <<>>
      BY <1>3, <2>2, SubSeqEmpty
    <3>2. <<>> \in Seq(1..MaxBytes)
      BY EmptySeq
    <3> QED
      BY <3>1, <3>2, Zenon
  <2> QED
    BY <2>1, <2>2
<1> HIDE DEF left
<1>6. TypeOK'
  <2>1. overrun' \in BOOLEAN /\ misplaced' \subseteq 1..MaxBytes
    BY <1>1, <1>2, Before
  <2>2. buffer_'.cells \in Seq(0..MaxBytes)
    BY <1>4 DEF Buffers, Byte
  <2>3. given' \in 0..MaxBytes /\ unread' \in Seq(1..MaxBytes)
    BY <1>1, <1>2, <1>5
  <2> QED
    BY <1>4, <2>1, <2>2, <2>3 DEF TypeOK, InOrder
<1> QED
  BY <1>1, <1>2, <1>4, <1>6 DEF IInv

(* What readFd puts into the buffer, by how much the first area took.      *)
LEMMA ReadFdStep ==
  ASSUME IInv, NEW n \in 1..MaxLen, ReadFd(n)
  PROVE  IInv'
<1> DEFINE b == buffer_
           room == writeableBytes(b)
           first == IF n <= b.w THEN n ELSE b.w
           F == Fresh(n)
           part == SubSeq(F, 1, first)
           read == Stored(b, b.w, part)
           extra == SubSeq(F, first + 1, n)
           wrote == Behind(b, part, b.w + n)
           full == Behind(b, part, size(b))
           x == SubSeq(extra, 1, n - room)
<1>1. ~overrun /\ n \in Nat /\ n >= 1 /\ Takes(n) /\ given + n <= MaxBytes
  BY Constants DEF ReadFd, Takes
<1>2. /\ b \in Buffers /\ InOrder(b) /\ given \in Nat /\ unread \in Seq(Byte)
      /\ Holds(b, unread, misplaced)
      /\ b.r \in Nat /\ b.w \in Nat /\ size(b) \in Nat /\ b.w <= size(b)
      /\ b.r <= b.w
      /\ misplaced \subseteq 1..MaxBytes
  BY <1>1, Before
<1>3. F \in Seq(Byte) /\ Len(F) = n
  BY <1>1, <1>2, FreshFacts
<1>4. first \in Nat /\ first <= n /\ room \in Nat /\ b.w + room = size(b)
  BY <1>1, <1>2 DEF writeableBytes
<1>5. misplaced' = misplaced \cup
                     (IF first < room THEN (given + first + 1)..(given + n) ELSE {})
  BY DEF ReadFd
<1>13. misplaced' \subseteq 1..MaxBytes
  <2>1. \A i \in (given + first + 1)..(given + n) : i \in 1..MaxBytes
    BY <1>1, <1>2, <1>4, Constants
  <2> HIDE DEF first, room
  <2> QED
    BY <1>2, <1>5, <2>1
<1>7. /\ part \in Seq(Byte) /\ Len(part) = first
      /\ extra \in Seq(Byte) /\ Len(extra) = n - first
      /\ part \o extra = F /\ (first = n => part = F)
  <2>1. \A i \in 1..first : F[i] \in Byte
    BY <1>3, <1>4
  <2>2. part \in Seq(Byte) /\ Len(part) = first
    <3>1. 1 <= first \/ first = 0
      BY <1>4
    <3> QED
      BY <1>4, <2>1, <3>1, SubSeqProperties
  <2>3. \A i \in (first + 1)..n : F[i] \in Byte
    BY <1>1, <1>3, <1>4
  <2>4. extra \in Seq(Byte) /\ Len(extra) = n - first
    BY <1>1, <1>4, <2>3, SubSeqProperties
  <2>5. part \o extra = F
    <3>1. SubSeq(F, 1, n) = F
      BY <1>3, SubSeqFull
    <3>2. 1 \in 1..(Len(F) + 1) /\ first \in (1 - 1)..Len(F) /\ n \in first..Len(F)
      BY <1>1, <1>3, <1>4
    <3>3. SubSeq(F, 1, first) \o SubSeq(F, first + 1, n) = SubSeq(F, 1, n)
      BY <1>3, <3>2, ConcatAdjacentSubSeq
    <3> QED
      BY <3>1, <3>3
  <2>6. first = n => part = F
    BY <1>3, SubSeqFull
  <2> QED
    BY <2>2, <2>4, <2>5, <2>6
<1>6. /\ first > room => overrun' = TRUE /\ buffer_' = wrote
      /\ ~(first > room) /\ n <= room =>
           /\ buffer_' = wrote
           /\ overrun' = (buffer_'.w > size(buffer_'))
      /\ ~(first > room) /\ ~(n <= room) =>
           /\ buffer_' = Appended(full, x)
           /\ overrun' = (buffer_'.w > size(buffer_'))
  <2>1. read.w = b.w
    BY <1>2 DEF Stored, Buffers
  <2>2. Copied(read, b, b.w, part)
    BY <1>2, <1>7, StoredFacts
  <2>3. size(read) = size(b)
    BY <2>2 DEF Copied
  <2> QED
    BY <2>1, <2>3 DEF ReadFd, WithExtra, Behind
<1>8. b.w + n \in Nat /\ n - room \in Int
  BY <1>1, <1>2, <1>4
<1>14. /\ \A i \in 1..first : part[i] = F[i]
       /\ \A i \in 1..n : first < i /\ first < room => F[i] \in misplaced'
  <2>1. \A i \in 1..first : part[i] = F[i]
    BY <1>3, <1>4
  <2>2. ASSUME NEW i \in 1..n, first < i, first < room PROVE F[i] \in misplaced'
    <3>1. F[i] = given + i
      BY DEF Fresh
    <3>2. given + i \in (given + first + 1)..(given + n)
      BY <1>1, <1>2, <1>4, <2>2
    <3> QED
      BY <1>5, <2>2, <3>1, <3>2
  <2> QED
    BY <2>1, <2>2
<1>15. Holds(b, unread, misplaced')
  BY <1>2, <1>5 DEF Holds
<1> HIDE DEF F, part, first, room, extra
<1>12. PutBehind(wrote, b, part, b.w + n) /\ PutBehind(full, b, part, size(b))
  BY <1>2, <1>7, <1>8, StoredBehind
<1> HIDE DEF wrote, full
<1>9. CASE first > room
  <2>1. buffer_' \in Buffers
    BY <1>6, <1>9, <1>12 DEF PutBehind
  <2> QED
    BY <1>1, <1>6, <1>9, <1>13, <2>1, Given
<1>10. CASE ~(first > room) /\ n <= room
  <2>1. /\ buffer_' = wrote
        /\ overrun' = (buffer_'.w > size(buffer_'))
    BY <1>6, <1>10
  <2>2. /\ buffer_' \in Buffers /\ buffer_'.r = b.r /\ buffer_'.w = b.w + n
        /\ size(buffer_') = size(b)
        /\ b.w <= b.w + n /\ b.w + n <= size(buffer_') => InOrder(buffer_')
        /\ b.w + n <= size(buffer_') => Joined(buffer_', b, part)
    BY <1>12, <2>1 DEF PutBehind
  <2>3. b.w <= b.w + n /\ b.w + n <= size(buffer_')
    BY <1>1, <1>2, <1>4, <1>10, <2>2
  <2>4. InOrder(buffer_')
    BY <2>2, <2>3
  <2>5. buffer_'.w - buffer_'.r = (b.w - b.r) + n
    BY <1>1, <1>2, <2>2
  <2>6. Holds(buffer_', unread \o F, misplaced')
    <3>1. Like(F, part, misplaced')
      <4> SUFFICES ASSUME NEW i \in 1..n
                   PROVE  F[i] \in misplaced' \/ (i <= Len(part) /\ part[i] = F[i])
        BY <1>3 DEF Like
      <4>1. CASE i <= first
        BY <1>4, <1>7, <1>14, <4>1
      <4>2. CASE first < i
        <5>1. first < room
          BY <1>1, <1>4, <1>10, <4>2
        <5> QED
          BY <1>14, <4>2, <5>1
      <4> QED
        BY <1>4, <4>1, <4>2
    <3>2. readableBytes(buffer_') = readableBytes(b) + Len(F)
      BY <1>3, <2>5 DEF readableBytes
    <3>3. Joined(buffer_', b, part)
      BY <2>2, <2>3
    <3> QED
      BY <1>2, <1>3, <1>15, <3>1, <3>2, <3>3 DEF Joined
  <2>7. overrun' \in BOOLEAN
    BY <2>1
  <2> QED
    BY <1>1, <1>13, <2>2, <2>4, <2>5, <2>6, <2>7, Given
       DEF F, readableBytes, InOrder, size
<1>11. CASE ~(first > room) /\ ~(n <= room)
  <2>1. buffer_' = Appended(full, x) /\ overrun' = (buffer_'.w > size(buffer_'))
    BY <1>6, <1>11
  <2>2. /\ full \in Buffers /\ full.r = b.r /\ full.w = size(b)
        /\ size(full) = size(b)
        /\ b.w <= size(b) /\ size(b) <= size(full) => InOrder(full)
        /\ size(b) <= size(full) => Joined(full, b, part)
    BY <1>12 DEF PutBehind
  <2>3. InOrder(full)
    BY <1>2, <2>2
  <2>4. \A i \in 1..(n - room) : extra[i] \in Byte
    BY <1>1, <1>4, <1>7, <1>11
  <2>5. x \in Seq(Byte) /\ Len(x) = n - room
    <3>1. 1 <= n - room
      BY <1>1, <1>4, <1>11
    <3> QED
      BY <1>8, <2>4, <3>1, SubSeqProperties
  <2>6. first = room => x = extra
    BY <1>7, SubSeqFull
  <2> HIDE DEF x
  <2>12. AppendedTo(buffer_', full, x)
    BY <2>1, <2>2, <2>3, <2>5, AppendedFacts
  <2>7. /\ buffer_' \in Buffers
        /\ readableBytes(buffer_') = readableBytes(full) + Len(x)
        /\ buffer_'.w <= size(buffer_') =>
             InOrder(buffer_') /\ Joined(buffer_', full, x)
    BY <2>12 DEF AppendedTo
  <2>8. readableBytes(buffer_') = readableBytes(b) + n
    <3>1. readableBytes(full) = size(b) - b.r /\ readableBytes(b) = b.w - b.r
      BY <2>2 DEF readableBytes
    <3>2. readableBytes(buffer_') = readableBytes(full) + (n - room)
      BY <2>5, <2>7
    <3>3. /\ n \in Nat /\ room \in Nat /\ b.r \in Nat /\ b.w \in Nat
          /\ size(b) = b.w + room
      BY <1>1, <1>2, <1>4
    <3> QED
      BY <3>1, <3>2, <3>3
  <2>9. ~overrun' => buffer_'.w <= size(buffer_')
    <3>1. buffer_'.w \in Nat /\ size(buffer_') \in Nat
      BY <2>7, BufferTypes
    <3>2. ~overrun' => ~(buffer_'.w > size(buffer_'))
      BY <2>1, Zenon
    <3> QED
      BY <3>1, <3>2
  <2> DEFINE q1 == SubSeq(F, 1, room)
             q2 == SubSeq(F, room + 1, n)
  <2>13. /\ q1 \in Seq(Byte) /\ Len(q1) = room
         /\ \A i \in 1..room : q1[i] = F[i]
    <3>1. \A i \in 1..room : F[i] \in Byte
      BY <1>1, <1>3, <1>4, <1>11
    <3>2. 1 <= room \/ room = 0
      BY <1>4
    <3> QED
      BY <1>1, <1>3, <1>4, <1>11, <3>1, <3>2, SubSeqProperties
  <2>14. /\ q2 \in Seq(Byte) /\ Len(q2) = n - room
         /\ \A i \in 1..(n - room) : q2[i] = F[room + i]
    <3>1. \A i \in (room + 1)..n : F[i] \in Byte
      BY <1>1, <1>3, <1>4
    <3> QED
      BY <1>1, <1>3, <1>4, <1>11, <3>1, SubSeqProperties
  <2>15. q1 \o q2 = F
    <3>1. SubSeq(F, 1, n) = F
      BY <1>3, SubSeqFull
    <3>2. 1 \in 1..(Len(F) + 1) /\ room \in (1 - 1)..Len(F) /\ n \in room..Len(F)
      BY <1>1, <1>3, <1>4, <1>11
    <3> QED
      BY <1>3, <3>1, <3>2, ConcatAdjacentSubSeq
  <2>16. first = room => extra = q2
    BY DEF extra
  <2> HIDE DEF q1, q2
  <2>10. ASSUME ~overrun' PROVE Holds(buffer_', unread \o F, misplaced')
    <3>1. Like(q1, part, misplaced')
      <4> SUFFICES ASSUME NEW i \in 1..room
                   PROVE  q1[i] \in misplaced' \/ (i <= Len(part) /\ part[i] = q1[i])
        BY <2>13 DEF Like
      <4>1. CASE i <= first
        BY <1>4, <1>7, <1>14, <2>13, <4>1
      <4>2. CASE first < i
        <5>1. i \in 1..n /\ first < room
          BY <1>1, <1>4, <1>11, <4>2
        <5> QED
          BY <1>14, <2>13, <4>2, <5>1
      <4> QED
        BY <1>4, <4>1, <4>2
    <3>2. readableBytes(full) = readableBytes(b) + Len(q1)
      BY <1>2, <1>4, <2>2, <2>13 DEF readableBytes
    <3>3. Holds(full, unread \o q1, misplaced')
      <4>1. Joined(full, b, part)
        BY <1>2, <2>2
      <4> QED
        BY <1>2, <1>15, <2>13, <3>1, <3>2, <4>1 DEF Joined
    <3>4. Like(q2, x, misplaced')
      <4>1. CASE first = room
        BY <2>6, <2>16, <4>1 DEF Like
      <4>2. CASE first < room
        <5> SUFFICES ASSUME NEW i \in 1..(n - room) PROVE q2[i] \in misplaced'
          BY <2>14 DEF Like
        <5>1. PICK k \in 1..n : k = room + i
          BY <1>1, <1>4, <1>11
        <5>2. first < k
          BY <1>4, <4>2, <5>1
        <5>3. q2[i] = F[k]
          BY <2>14, <5>1
        <5> QED
          BY <1>14, <4>2, <5>2, <5>3
      <4> QED
        BY <1>4, <1>11, <4>1, <4>2
    <3>5. unread \o q1 \in Seq(Byte)
      BY <1>2, <2>13, ConcatProperties
    <3>6. Holds(buffer_', (unread \o q1) \o q2, misplaced')
      <4>1. Joined(buffer_', full, x)
        BY <2>7, <2>9, <2>10
      <4>2. readableBytes(buffer_') = readableBytes(full) + Len(q2)
        BY <2>5, <2>7, <2>14
      <4> QED
        BY <2>14, <3>3, <3>4, <3>5, <4>1, <4>2, Zenon DEF Joined
    <3>7. (unread \o q1) \o q2 = unread \o F
      <4>1. (unread \o q1) \o q2 = unread \o (q1 \o q2)
        <5>1. unread \in Seq(Byte) /\ q1 \in Seq(Byte) /\ q2 \in Seq(Byte)
          BY <1>2, <2>13, <2>14
        <5> QED
          BY <5>1, ConcatAssociative
      <4> QED
        BY <2>15, <4>1, Zenon
    <3> QED
      BY <3>6, <3>7
  <2>11. overrun' \in BOOLEAN
    BY <2>1
  <2> QED
    BY <1>1, <1>13, <2>7, <2>8, <2>9, <2>10, <2>11, Given
       DEF F, readableBytes, InOrder, size
<1> QED
  BY <1>9, <1>10, <1>11
------------------------------------------------------------------------------
LEMMA IInvInit == Init => IInv
<1> SUFFICES ASSUME Init PROVE IInv
  OBVIOUS
<1>1. /\ kCheapPrepend \in Nat /\ kInitialSize \in Nat /\ MaxBytes \in Nat
      /\ 0 \in Byte /\ kCheapPrepend + kInitialSize \in Nat
  BY Constants DEF Byte
<1> DEFINE z == Zeros(kCheapPrepend + kInitialSize)
<1>2. z \in Seq(Byte) /\ Len(z) = kCheapPrepend + kInitialSize
  BY <1>1 DEF Zeros
<1> HIDE DEF z
<1>3. /\ buffer_.cells = z /\ buffer_.r = kCheapPrepend /\ buffer_.w = kCheapPrepend
      /\ buffer_ = [cells |-> z, r |-> kCheapPrepend, w |-> kCheapPrepend]
  BY DEF Init, z
<1>4. buffer_ \in Buffers
  BY <1>1, <1>2, <1>3 DEF Buffers
<1>5. overrun = FALSE /\ misplaced = {} /\ given = 0 /\ unread = <<>>
  BY DEF Init
<1>6. unread \in Seq(1..MaxBytes) /\ Len(unread) = 0
  BY <1>5
<1>7. TypeOK
  <2>1. buffer_.cells \in Seq(0..MaxBytes)
    BY <1>2, <1>3 DEF Byte
  <2>2. size(buffer_) = kCheapPrepend + kInitialSize
    BY <1>2, <1>3 DEF size
  <2>3. given \in 0..MaxBytes
    BY <1>1, <1>5
  <2>5. overrun \in BOOLEAN /\ misplaced \subseteq 1..MaxBytes
    BY <1>5
  <2>4. /\ kCheapPrepend <= buffer_.r /\ buffer_.r <= buffer_.w
        /\ buffer_.w <= size(buffer_)
    BY <1>1, <1>3, <2>2
  <2> QED
    BY <1>6, <2>1, <2>3, <2>4, <2>5 DEF TypeOK
<1>8. readableBytes(buffer_) = Len(unread)
  BY <1>1, <1>3, <1>6 DEF readableBytes
<1>9. Holds(buffer_, unread, misplaced)
  BY <1>1, <1>3, <1>6 DEF Holds
<1> QED
  BY <1>4, <1>7, <1>8, <1>9 DEF IInv

(* Types, indexes, number and order of the readable bytes together are     *)
(* kept by every operation: the number of bytes decides what retrieve      *)
(* does, and the order of the indexes where append and readFd write.       *)
THEOREM Invariant == Spec => []IInv
<1>1. Init => IInv
  BY IInvInit
<1>2. IInv /\ [Next]_vars => IInv'
  <2> SUFFICES ASSUME IInv, [Next]_vars PROVE IInv'
    OBVIOUS
  <2>1. ASSUME NEW n \in 1..MaxLen, Append_(n) PROVE IInv'
    BY <2>1, AppendStep
  <2>2. ASSUME NEW n \in 1..MaxLen, ReadFd(n) PROVE IInv'
    BY <2>2, ReadFdStep
  <2>3. ASSUME NEW len \in 1..(Len(unread) + 1), Retrieve(len) PROVE IInv'
    BY <2>3, RetrieveStep
  <2>4. CASE UNCHANGED vars
    BY <2>4 DEF vars, IInv, TypeOK, size, readableBytes, Holds
  <2> QED
    BY <2>1, <2>2, <2>3, <2>4 DEF Next
<1> QED
  BY <1>1, <1>2, PTL DEF Spec

(* Types, and the picture at the head of Buffer.h as long as no write went *)
(* past the end of the vector.                                             *)
THEOREM TypeCorrect == Spec => []TypeOK
<1>1. IInv => TypeOK
  BY DEF IInv
<1> QED
  BY <1>1, Invariant, PTL

(* The buffer is a queue of bytes, through moves, growth, resets and reads *)
(* into both areas, for all that readFd does not misplace itself: what it  *)
(* reads beyond a first area of writeIndex_ bytes when that is smaller     *)
(* than the writable bytes.  Those bytes spoil no other's place.           *)
THEOREM BufferIsFifo == Spec => []Fifo
<1>1. IInv => Fifo
  <2> SUFFICES ASSUME IInv, ~overrun, NEW i \in DOMAIN unread
               PROVE  \/ unread[i] \in misplaced
                      \/ /\ i \in DOMAIN Readable(buffer_)
                         /\ Readable(buffer_)[i] = unread[i]
    BY DEF Fifo
  <2>1. /\ buffer_ \in Buffers /\ InOrder(buffer_) /\ unread \in Seq(Byte)
        /\ Holds(buffer_, unread, misplaced)
    BY Before
  <2>2. /\ Readable(buffer_) \in Seq(Byte)
        /\ Len(Readable(buffer_)) = buffer_.w - buffer_.r
        /\ \A k \in 1..(buffer_.w - buffer_.r) :
             Readable(buffer_)[k] = buffer_.cells[buffer_.r + k]
    BY <2>1, ReadableFacts
  <2>3. /\ i \in 1..Len(unread) /\ buffer_.w - buffer_.r = Len(unread)
        /\ unread[i] \in misplaced \/ buffer_.cells[buffer_.r + i] = unread[i]
    BY <2>1 DEF Holds
  <2>4. i \in DOMAIN Readable(buffer_)
    BY <2>2, <2>3
  <2> QED
    BY <2>2, <2>3, <2>4
<1> QED
  BY <1>1, Invariant, PTL

(* No byte is lost from the count or counted twice, also when readFd put   *)
(* it in the wrong place.                                                  *)
THEOREM CountsRight == Spec => []CountRight
<1>1. IInv => CountRight
  BY DEF IInv, CountRight
<1> QED
  BY <1>1, Invariant, PTL

(* makespace does what its callers need, in every reachable state.         *)
THEOREM MakespaceRight == Spec => []MakespaceMakesRoom
<1>1. IInv => MakespaceMakesRoom
  <2> SUFFICES ASSUME IInv, ~overrun, NEW len \in 1..MaxLen
               PROVE  /\ writeableBytes(makespace(buffer_, len)) >= len
                      /\ Readable(makespace(buffer_, len)) = Readable(buffer_)
    BY DEF MakespaceMakesRoom
  <2>1. buffer_ \in Buffers /\ InOrder(buffer_) /\ len \in Nat
    BY Before, Constants
  <2> DEFINE b == makespace(buffer_, len)
             s == Readable(buffer_)
  <2>2. /\ b \in Buffers /\ InOrder(b) /\ writeableBytes(b) >= len
        /\ KeptIn(b, buffer_)
    BY <2>1, MakespaceFacts
  <2>3. s \in Seq(Byte)
    <3>1. /\ buffer_.cells \in Seq(Byte) /\ buffer_.r \in Nat /\ buffer_.w \in Nat
          /\ buffer_.w <= Len(buffer_.cells)
      BY <2>1, BufferTypes DEF InOrder
    <3>2. \A i \in (buffer_.r + 1)..buffer_.w : buffer_.cells[i] \in Byte
      BY <3>1
    <3> QED
      BY <3>1, <3>2, SubSeqProperties DEF Readable
  <2>4. Holds(buffer_, s, {})
    BY <2>1, <2>3, HoldsReadable
  <2>5. Holds(b, s, {})
    BY <2>2, <2>3, <2>4 DEF KeptIn
  <2> QED
    BY <2>2, <2>3, <2>5, HoldsReadable
<1> QED
  BY <1>1, Invariant, PTL
==============================================================================
