-------------------------------- MODULE Buffer --------------------------------
(***************************************************************************)
(* Buffer (Buffer.h, Buffer.cpp): a vector of bytes with a reader and a    *)
(* writer index, used by one thread.  Bytes are numbered in the order in   *)
(* which they are given to the buffer.  A write past the end of the vector *)
(* is undefined: the behaviour ends there.                                 *)
(***************************************************************************)
EXTENDS Naturals, Sequences

CONSTANTS
  kCheapPrepend,  \* kCheapPrepend (8)
  kInitialSize,   \* kInitialSize (1024)
  ExtraSize,      \* sizeof extrabuf (65536)
  MaxLen,         \* bound: bytes of one append or of one readv
  MaxBytes        \* bound: bytes given to the buffer in a behaviour

ASSUME BufferAssumption ==
  {kCheapPrepend, kInitialSize, ExtraSize, MaxLen, MaxBytes} \subseteq Nat

VARIABLES
  buffer_,       \* buffer_, readerIndex_ and writeIndex_; cell i of the
                 \* vector is element i + 1 of the sequence
  overrun,       \* has a write gone past the end of the vector?
  misplaced,     \* history: the bytes readFd did not put where they belong
  given,         \* history: bytes given so far
  unread         \* history: bytes given and not yet retrieved, in order

vars == <<buffer_, overrun, misplaced, given, unread>>

Zeros(n) == [i \in 1..n |-> 0]

size(b) == Len(b.cells)
readableBytes(b) == b.w - b.r
writeableBytes(b) == size(b) - b.w
prependalbleBytes(b) == b.r
Readable(b) == SubSeq(b.cells, b.r + 1, b.w)

Init ==
  /\ buffer_ = [cells |-> Zeros(kCheapPrepend + kInitialSize),
                r |-> kCheapPrepend, w |-> kCheapPrepend]
  /\ overrun = FALSE /\ misplaced = {}
  /\ given = 0
  /\ unread = <<>>
------------------------------------------------------------------------------
(* The bytes s stored from cell at on, as far as the vector goes.          *)
Stored(b, at, s) ==
  [b EXCEPT !.cells = [i \in DOMAIN b.cells |->
     IF i \in (at + 1)..(at + Len(s)) THEN s[i - at] ELSE b.cells[i]]]

(* Moves the bytes but not writeIndex_.                                    *)
MutMoved(b) == [Stored(b, kCheapPrepend, Readable(b)) EXCEPT !.r = kCheapPrepend]

Moved(b) ==
  [Stored(b, kCheapPrepend, Readable(b)) EXCEPT
     !.r = kCheapPrepend, !.w = kCheapPrepend + readableBytes(b)]

(* resize(len): forgets the writeIndex_ bytes that come first.             *)
MutResized(b, len) == [b EXCEPT !.cells = @ \o Zeros(len - size(b))]

Resized(b, len) == [b EXCEPT !.cells = @ \o Zeros(b.w + len - size(b))]

makespace(b, len) ==
  IF writeableBytes(b) + prependalbleBytes(b) < len + kCheapPrepend
  THEN Resized(b, len) ELSE Moved(b)

(* The test compares the writer's index, not the writable bytes.           *)
ensureWriteableBytes(b, len) == IF b.w < len THEN makespace(b, len) ELSE b

(* append: the copy and the new index.                                     *)
Appended(b, s) ==
  LET e == ensureWriteableBytes(b, Len(s))
  IN [Stored(e, e.w, s) EXCEPT !.w = e.w + Len(s)]

(* Does not reset the indexes when all is read.                            *)
MutRetrieved(b, len) ==
  IF len < readableBytes(b) THEN [b EXCEPT !.r = @ + len]
  ELSE [b EXCEPT !.r = kCheapPrepend]

(* Moves the reader's index past the writer's.                             *)
MutRetrievedBeyond(b, len) == [b EXCEPT !.r = @ + len]

(* retrieve, and retrieveAll when len is all there is or more.             *)
Retrieved(b, len) ==
  IF len < readableBytes(b) THEN [b EXCEPT !.r = @ + len]
  ELSE [b EXCEPT !.r = kCheapPrepend, !.w = kCheapPrepend]
------------------------------------------------------------------------------
(* The next n bytes.                                                       *)
Fresh(n) == [i \in 1..n |-> given + i]

Takes(n) ==
  /\ ~overrun
  /\ given + n <= MaxBytes
  /\ given' = given + n
  /\ unread' = unread \o Fresh(n)

Append_(len) ==
  /\ Takes(len)
  /\ buffer_' = Appended(buffer_, Fresh(len))
  /\ overrun' = (buffer_'.w > size(buffer_'))
  /\ UNCHANGED misplaced

(* Appends extrabuf before writeIndex_ is at the end of the vector.        *)
MutWithExtra(b, extra) ==
  LET a == Appended(b, extra) IN [a EXCEPT !.w = size(a)]

(* writeIndex_ to the end of the vector, and extrabuf behind it.           *)
WithExtra(b, extra) == Appended([b EXCEPT !.w = size(b)], extra)

(* readv puts what fits into iov_len = writeIndex_ bytes of the vector and *)
(* the rest into extrabuf; then the indexes are moved as if the first area *)
(* had been the writable bytes.  When it was smaller, what went into       *)
(* extrabuf is left there or appended too far behind.                      *)
ReadFd(n) ==
  LET b == buffer_
      writeable == writeableBytes(b)
      first == IF n <= b.w THEN n ELSE b.w
      read == Stored(b, b.w, SubSeq(Fresh(n), 1, first))
      extra == SubSeq(Fresh(n), first + 1, n)
  IN
  /\ Takes(n)
  /\ n <= b.w + (IF writeable < ExtraSize THEN ExtraSize ELSE 0)
  /\ IF first > writeable
     THEN overrun' = TRUE /\ buffer_' = [read EXCEPT !.w = @ + n]
     ELSE /\ buffer_' =
               IF n <= writeable THEN [read EXCEPT !.w = @ + n]
               ELSE WithExtra(read, SubSeq(extra, 1, n - writeable))
          /\ overrun' = (buffer_'.w > size(buffer_'))
  /\ misplaced' = misplaced \cup
       (IF first < writeable THEN (given + first + 1)..(given + n) ELSE {})

(* retrieve, after a writeFd that took len bytes or by the user; and       *)
(* retrieveAllAsString, with all there is.                                 *)
Retrieve(len) ==
  /\ ~overrun
  /\ buffer_' = Retrieved(buffer_, len)
  /\ unread' = SubSeq(unread, len + 1, Len(unread))
  /\ UNCHANGED <<overrun, misplaced, given>>

Next ==
  \/ \E n \in 1..MaxLen : Append_(n) \/ ReadFd(n)
  \/ \E len \in 1..(Len(unread) + 1) : Retrieve(len)

Spec == Init /\ [][Next]_vars
------------------------------------------------------------------------------
(* Types; as long as nothing was overrun the indexes are in order, with    *)
(* the cheap prepend before them.                                          *)
TypeOK ==
  /\ given \in 0..MaxBytes
  /\ unread \in Seq(1..MaxBytes)
  /\ overrun \in BOOLEAN /\ misplaced \subseteq 1..MaxBytes
  /\ buffer_.cells \in Seq(0..MaxBytes)
  /\ ~overrun => /\ kCheapPrepend <= buffer_.r
                 /\ buffer_.r <= buffer_.w
                 /\ buffer_.w <= size(buffer_)

(* Every byte given and not retrieved is in its place among the readable   *)
(* ones, through moves, growth, resets and reads into both areas (append,  *)
(* makespace, retrieve, readFd), but for those that readFd itself          *)
(* misplaces, all that it read beyond a first area smaller than the        *)
(* writable bytes: such a read spoils no byte of another.                  *)
Fifo ==
  ~overrun =>
    \A i \in DOMAIN unread :
      \/ unread[i] \in misplaced
      \/ i \in DOMAIN Readable(buffer_) /\ Readable(buffer_)[i] = unread[i]

(* What readFd reads is all in the buffer.                                 *)
ReadFdKeepsBytes == ~overrun => Readable(buffer_) = unread

(* Their number is right, also when readFd has put bytes elsewhere.        *)
CountRight == ~overrun => readableBytes(buffer_) = Len(unread)

(* makespace, whenever it is called, leaves room for len bytes behind the  *)
(* readable ones and loses none of those, whether it moves or grows.       *)
MakespaceMakesRoom ==
  ~overrun => \A len \in 1..MaxLen :
    LET b == makespace(buffer_, len) IN
    writeableBytes(b) >= len /\ Readable(b) = Readable(buffer_)

(* The picture at the head of Buffer.h, also after an append.              *)
IndexesInOrder ==
  0 <= buffer_.r /\ buffer_.r <= buffer_.w /\ buffer_.w <= size(buffer_)
==============================================================================
