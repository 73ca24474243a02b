------------------------------ MODULE EchoProofs ------------------------------
(***************************************************************************)
(* Proofs about Buffer, a first-in first-out queue of bytes whatever its   *)
(* sizes, and about Echo, for any stream of bytes.                         *)
(***************************************************************************)
EXTENDS Echo, SequenceTheorems, TLAPS

Buffers == {b \in BufferType : IndicesOK(b)}

LEMMA BufferFacts ==
    ASSUME NEW b \in Buffers
    PROVE  /\ b.buffer_ \in Seq(Byte) /\ Len(b.buffer_) \in Nat
           /\ b.readerIndex_ \in Nat /\ b.writerIndex_ \in Nat /\ kCheapPrepend \in Nat
           /\ kCheapPrepend <= b.readerIndex_
           /\ b.readerIndex_ <= b.writerIndex_
           /\ b.writerIndex_ <= Len(b.buffer_)
           /\ readableBytes(b) \in Nat /\ writableBytes(b) \in Nat
           /\ readableBytes(b) = b.writerIndex_ - b.readerIndex_
           /\ writableBytes(b) = Len(b.buffer_) - b.writerIndex_
           /\ b = [buffer_ |-> b.buffer_, readerIndex_ |-> b.readerIndex_,
                   writerIndex_ |-> b.writerIndex_]
<1>1. b.buffer_ \in Seq(Byte) /\ b.readerIndex_ \in Nat /\ b.writerIndex_ \in Nat
  BY DEF Buffers, BufferType
<1>2. Len(b.buffer_) \in Nat /\ kCheapPrepend \in Nat
  BY <1>1, BufferAssumption
<1>3. /\ kCheapPrepend <= b.readerIndex_
      /\ b.readerIndex_ <= b.writerIndex_
      /\ b.writerIndex_ <= Len(b.buffer_)
  BY DEF Buffers, IndicesOK
<1>4. b = [buffer_ |-> b.buffer_, readerIndex_ |-> b.readerIndex_,
           writerIndex_ |-> b.writerIndex_]
  BY DEF Buffers, BufferType
<1>. QED
  BY <1>1, <1>2, <1>3, <1>4 DEF readableBytes, writableBytes

\* A record with such fields is a buffer.
LEMMA IsBuffer ==
    ASSUME NEW s \in Seq(Byte), NEW r \in Nat, NEW w \in Nat,
           kCheapPrepend <= r, r <= w, w <= Len(s)
    PROVE  [buffer_ |-> s, readerIndex_ |-> r, writerIndex_ |-> w] \in Buffers
BY DEF Buffers, BufferType, IndicesOK

LEMMA ReadableFacts ==
    ASSUME NEW b \in Buffers
    PROVE  /\ Readable(b) \in Seq(Byte)
           /\ Len(Readable(b)) = readableBytes(b)
           /\ \A i \in 1..readableBytes(b) : Readable(b)[i] = b.buffer_[b.readerIndex_ + i]
<1> DEFINE r == b.readerIndex_
           w == b.writerIndex_
           s == b.buffer_
<1>1. /\ s \in Seq(Byte) /\ Len(s) \in Nat /\ r \in Nat /\ w \in Nat
      /\ r <= w /\ w <= Len(s) /\ readableBytes(b) = w - r
  BY BufferFacts
<1> HIDE DEF r, w, s
<1>2. \A i \in (r + 1)..w : s[i] \in Byte
  BY <1>1
<1>3. /\ SubSeq(s, r + 1, w) \in Seq(Byte)
      /\ Len(SubSeq(s, r + 1, w)) = IF r + 1 <= w THEN w - (r + 1) + 1 ELSE 0
      /\ \A i \in 1..(w - (r + 1) + 1) : SubSeq(s, r + 1, w)[i] = s[(r + 1) + i - 1]
  BY <1>1, <1>2, SubSeqProperties
<1>4. \A i \in 1..(w - r) : SubSeq(s, r + 1, w)[i] = s[r + i]
  BY <1>1, <1>3
<1>. QED
  BY <1>1, <1>3, <1>4 DEF Readable, r, w, s

------------------------------------------------------------------------------
(* Putting bytes in.                                                        *)

LEMMA OverwriteFacts ==
    ASSUME NEW s \in Seq(Byte), NEW at \in Nat, NEW data \in Seq(Byte),
           at + Len(data) <= Len(s)
    PROVE  /\ Overwrite(s, at, data) \in Seq(Byte)
           /\ Len(Overwrite(s, at, data)) = Len(s)
           /\ \A i \in 1..Len(s) :
                  Overwrite(s, at, data)[i] =
                      IF i \in (at + 1)..(at + Len(data)) THEN data[i - at] ELSE s[i]
<1> DEFINE d == Len(data)
           n == Len(s)
           front == SubSeq(s, 1, at)
           back == SubSeq(s, at + d + 1, n)
           head == front \o data
           all == head \o back
<1>1. d \in Nat /\ n \in Nat /\ at + d <= n
  OBVIOUS
<1>2. /\ front \in Seq(Byte) /\ Len(front) = at
      /\ \A i \in 1..at : front[i] = s[i]
  <2>1. \A i \in 1..at : s[i] \in Byte
    BY <1>1
  <2>2. /\ SubSeq(s, 1, at) \in Seq(Byte)
        /\ Len(SubSeq(s, 1, at)) = IF 1 <= at THEN at - 1 + 1 ELSE 0
        /\ \A i \in 1..(at - 1 + 1) : SubSeq(s, 1, at)[i] = s[1 + i - 1]
    BY <2>1, SubSeqProperties
  <2>. QED
    BY <2>2
<1>3. /\ back \in Seq(Byte) /\ Len(back) = n - (at + d)
      /\ \A i \in 1..(n - (at + d)) : back[i] = s[at + d + i]
  <2>1. \A i \in (at + d + 1)..n : s[i] \in Byte
    BY <1>1
  <2>2. /\ SubSeq(s, at + d + 1, n) \in Seq(Byte)
        /\ Len(SubSeq(s, at + d + 1, n)) =
               IF at + d + 1 <= n THEN n - (at + d + 1) + 1 ELSE 0
        /\ \A i \in 1..(n - (at + d + 1) + 1) :
               SubSeq(s, at + d + 1, n)[i] = s[at + d + 1 + i - 1]
    BY <1>1, <2>1, SubSeqProperties
  <2>. QED
    BY <1>1, <2>2
<1> HIDE DEF front, back
<1>4. /\ head \in Seq(Byte) /\ Len(head) = at + d
      /\ \A i \in 1..(at + d) : head[i] = IF i <= at THEN front[i] ELSE data[i - at]
  BY <1>1, <1>2, ConcatProperties
<1> HIDE DEF head
<1>5. /\ all \in Seq(Byte) /\ Len(all) = n
      /\ \A i \in 1..n :
             all[i] = IF i <= at + d THEN head[i] ELSE back[i - (at + d)]
  <2>1. /\ all \in Seq(Byte) /\ Len(all) = Len(head) + Len(back)
        /\ \A i \in 1..(Len(head) + Len(back)) :
               all[i] = IF i <= Len(head) THEN head[i] ELSE back[i - Len(head)]
    <3>1. head \in Seq(Byte) /\ back \in Seq(Byte)
      BY <1>3, <1>4
    <3>. QED
      BY <3>1, ConcatProperties
  <2>2. Len(head) + Len(back) = n
    BY <1>1, <1>3, <1>4
  <2> HIDE DEF all
  <2>. QED
    BY <1>4, <2>1, <2>2
<1>7. SubSeq(all, 1, n) = all
  BY <1>5, SubSeqFull
<1>8. Overwrite(s, at, data) = all
  BY <1>7 DEF Overwrite, head, front, back
<1> HIDE DEF all
<1>6. \A i \in 1..n : all[i] = IF i \in (at + 1)..(at + d) THEN data[i - at] ELSE s[i]
  <2> SUFFICES ASSUME NEW i \in 1..n
               PROVE  all[i] = IF i \in (at + 1)..(at + d) THEN data[i - at] ELSE s[i]
    OBVIOUS
  <2>1. CASE i <= at
    BY <1>1, <1>2, <1>4, <1>5, <2>1
  <2>2. CASE i > at /\ i <= at + d
    BY <1>1, <1>4, <1>5, <2>2
  <2>3. CASE i > at + d
    <3>1. i - (at + d) \in 1..(n - (at + d)) /\ at + d + (i - (at + d)) = i
      BY <1>1, <2>3
    <3>2. all[i] = back[i - (at + d)]
      BY <1>5, <2>3
    <3>. QED
      BY <1>1, <1>3, <2>3, <3>1, <3>2
  <2>. QED
    BY <1>1, <2>1, <2>2, <2>3
<1>. QED
  BY <1>5, <1>6, <1>8

LEMMA ResizedFacts ==
    ASSUME NEW s \in Seq(Byte), NEW n \in Nat, Len(s) <= n
    PROVE  /\ Resized(s, n) \in Seq(Byte)
           /\ Len(Resized(s, n)) = n
           /\ \A i \in 1..Len(s) : Resized(s, n)[i] = s[i]
<1> DEFINE t == [i \in 1..(n - Len(s)) |-> Zero]
<1>1. Len(s) \in Nat /\ n - Len(s) \in Nat
  OBVIOUS
<1>2. t \in Seq(Byte) /\ Len(t) = n - Len(s)
  BY <1>1, BufferAssumption
<1>3. Resized(s, n) = s \o t
  BY DEF Resized
<1> HIDE DEF t
<1>4. /\ s \o t \in Seq(Byte) /\ Len(s \o t) = Len(s) + Len(t)
      /\ \A i \in 1..(Len(s) + Len(t)) : (s \o t)[i] = IF i <= Len(s) THEN s[i] ELSE t[i - Len(s)]
  BY <1>2, ConcatProperties
<1>. QED
  BY <1>1, <1>2, <1>3, <1>4

LEMMA MovedFacts ==
    ASSUME NEW b \in Buffers
    PROVE  /\ Moved(b) \in Buffers
           /\ Readable(Moved(b)) = Readable(b)
           /\ readableBytes(Moved(b)) = readableBytes(b)
           /\ Len(Moved(b).buffer_) = Len(b.buffer_)
           /\ Moved(b).writerIndex_ = kCheapPrepend + readableBytes(b)
<1> DEFINE m == Moved(b)
           k == kCheapPrepend
           n == readableBytes(b)
           s == Overwrite(b.buffer_, k, Readable(b))
<1>1. /\ b.buffer_ \in Seq(Byte) /\ Len(b.buffer_) \in Nat /\ k \in Nat /\ n \in Nat
      /\ k + n <= Len(b.buffer_)
  BY BufferFacts
<1>2. /\ Readable(b) \in Seq(Byte) /\ Len(Readable(b)) = n
  BY ReadableFacts
<1>3. /\ s \in Seq(Byte) /\ Len(s) = Len(b.buffer_)
      /\ \A i \in 1..Len(b.buffer_) :
             s[i] = IF i \in (k + 1)..(k + n) THEN Readable(b)[i - k] ELSE b.buffer_[i]
  BY <1>1, <1>2, OverwriteFacts
<1> HIDE DEF s
<1>4. m = [buffer_ |-> s, readerIndex_ |-> k, writerIndex_ |-> k + n]
  BY DEF Moved, s
<1>5. m \in Buffers
  BY <1>1, <1>3, <1>4, IsBuffer
<1>6. readableBytes(m) = n
  BY <1>1, <1>4 DEF readableBytes
<1>7. \A i \in 1..n : Readable(m)[i] = Readable(b)[i]
  <2> SUFFICES ASSUME NEW i \in 1..n PROVE Readable(m)[i] = Readable(b)[i]
    OBVIOUS
  <2>1. Readable(m)[i] = s[k + i]
    BY <1>4, <1>5, <1>6, ReadableFacts
  <2>2. k + i \in 1..Len(b.buffer_) /\ k + i \in (k + 1)..(k + n) /\ (k + i) - k = i
    BY <1>1
  <2>. QED
    BY <1>3, <2>1, <2>2
<1>8. Readable(m) \in Seq(Byte) /\ Len(Readable(m)) = n
  BY <1>5, <1>6, ReadableFacts
<1>9. Readable(m) = Readable(b)
  BY <1>2, <1>7, <1>8, SeqEqual
<1>. QED
  BY <1>3, <1>4, <1>5, <1>6, <1>9

\* The buffer holds the same bytes and has the space asked for.  It is made
\* larger only if the space in front of the data does not do.
LEMMA EnsureWritableFacts ==
    ASSUME NEW b \in Buffers, NEW len \in Nat
    PROVE  LET c == ensureWritableBytes(b, len) IN
           /\ c \in Buffers
           /\ Readable(c) = Readable(b)
           /\ readableBytes(c) = readableBytes(b)
           /\ len <= writableBytes(c)
           /\ \/ Len(c.buffer_) = Len(b.buffer_)
              \/ Len(c.buffer_) < kCheapPrepend + readableBytes(b) + 2 * len
           /\ \/ Len(c.buffer_) = Len(b.buffer_)
              \/ Len(c.buffer_) = b.writerIndex_ + len
<1> DEFINE c == ensureWritableBytes(b, len)
<1>1. /\ b.buffer_ \in Seq(Byte) /\ Len(b.buffer_) \in Nat
      /\ b.readerIndex_ \in Nat /\ b.writerIndex_ \in Nat /\ kCheapPrepend \in Nat
      /\ kCheapPrepend <= b.readerIndex_ /\ b.readerIndex_ <= b.writerIndex_
      /\ b.writerIndex_ <= Len(b.buffer_)
      /\ readableBytes(b) = b.writerIndex_ - b.readerIndex_
      /\ writableBytes(b) = Len(b.buffer_) - b.writerIndex_
      /\ b = [buffer_ |-> b.buffer_, readerIndex_ |-> b.readerIndex_,
              writerIndex_ |-> b.writerIndex_]
  BY BufferFacts
<1>2. CASE writableBytes(b) >= len
  <2>1. c = b
    BY <1>1, <1>2 DEF ensureWritableBytes
  <2>. QED
    BY <1>2, <2>1
<1>3. CASE writableBytes(b) < len /\ MustGrow(b, len)
  <2> DEFINE w == b.writerIndex_
             s == b.buffer_
             g == Resized(s, w + len)
  <2>1. w + len \in Nat /\ Len(s) <= w + len
    BY <1>1, <1>3
  <2>3. /\ g \in Seq(Byte) /\ Len(g) = w + len
        /\ \A i \in 1..Len(s) : g[i] = s[i]
    BY <1>1, <2>1, ResizedFacts
  <2> HIDE DEF g
  <2>4. c = [buffer_ |-> g, readerIndex_ |-> b.readerIndex_, writerIndex_ |-> w]
    <3>1. c = [b EXCEPT !.buffer_ = g]
      BY <1>3 DEF ensureWritableBytes, makeSpace, g
    <3>2. b \in BufferType
      BY DEF Buffers
    <3>. QED
      BY <3>1, <3>2 DEF BufferType
  <2>5. c \in Buffers
    BY <1>1, <2>3, <2>4, IsBuffer
  <2>6. readableBytes(c) = readableBytes(b) /\ writableBytes(c) = len
    BY <1>1, <2>3, <2>4 DEF readableBytes, writableBytes
  <2>7. \A i \in 1..readableBytes(b) : Readable(c)[i] = Readable(b)[i]
    <3> SUFFICES ASSUME NEW i \in 1..readableBytes(b) PROVE Readable(c)[i] = Readable(b)[i]
      OBVIOUS
    <3>1. Readable(c)[i] = g[b.readerIndex_ + i] /\ Readable(b)[i] = s[b.readerIndex_ + i]
      BY <2>4, <2>5, <2>6, ReadableFacts
    <3>2. b.readerIndex_ + i \in 1..Len(s)
      BY <1>1
    <3>. QED
      BY <2>3, <3>1, <3>2
  <2>8. Readable(c) = Readable(b)
    <3>1. /\ Readable(c) \in Seq(Byte) /\ Len(Readable(c)) = readableBytes(b)
          /\ Readable(b) \in Seq(Byte) /\ Len(Readable(b)) = readableBytes(b)
      BY <2>5, <2>6, ReadableFacts
    <3>. QED
      BY <2>7, <3>1, SeqEqual
  <2>9. w + len < kCheapPrepend + readableBytes(b) + 2 * len
    BY <1>1, <1>3 DEF MustGrow, prependableBytes
  <2>. QED
    BY <1>1, <2>3, <2>4, <2>5, <2>6, <2>8, <2>9
<1>4. CASE writableBytes(b) < len /\ ~MustGrow(b, len)
  <2>1. c = Moved(b)
    BY <1>1, <1>4 DEF ensureWritableBytes, makeSpace
  <2>2. writableBytes(c) = Len(b.buffer_) - (kCheapPrepend + readableBytes(b))
    BY <2>1, MovedFacts DEF writableBytes
  <2>3. len <= writableBytes(c)
    BY <1>1, <1>4, <2>2 DEF MustGrow, prependableBytes
  <2>. QED
    BY <2>1, <2>3, MovedFacts
<1>. QED
  BY <1>1, <1>2, <1>3, <1>4

LEMMA WrittenFacts ==
    ASSUME NEW b \in Buffers, NEW data \in Seq(Byte), Len(data) <= writableBytes(b)
    PROVE  /\ Written(b, data) \in Buffers
           /\ Readable(Written(b, data)) = Readable(b) \o data
           /\ readableBytes(Written(b, data)) = readableBytes(b) + Len(data)
           /\ writableBytes(Written(b, data)) = writableBytes(b) - Len(data)
           /\ Len(Written(b, data).buffer_) = Len(b.buffer_)
           /\ Written(b, data).writerIndex_ = b.writerIndex_ + Len(data)
           /\ Written(b, data).readerIndex_ = b.readerIndex_
<1> DEFINE d == Len(data)
           s == b.buffer_
           r == b.readerIndex_
           w == b.writerIndex_
           o == Overwrite(s, w, data)
           c == Written(b, data)
           n == readableBytes(b)
<1>1. /\ s \in Seq(Byte) /\ Len(s) \in Nat /\ d \in Nat
      /\ r \in Nat /\ w \in Nat /\ kCheapPrepend \in Nat
      /\ kCheapPrepend <= r /\ r <= w /\ w + d <= Len(s)
      /\ n = w - r /\ writableBytes(b) = Len(s) - w
  BY BufferFacts
<1>2. /\ o \in Seq(Byte) /\ Len(o) = Len(s)
      /\ \A i \in 1..Len(s) : o[i] = IF i \in (w + 1)..(w + d) THEN data[i - w] ELSE s[i]
  BY <1>1, OverwriteFacts
<1> HIDE DEF o
<1>3. c = [buffer_ |-> o, readerIndex_ |-> r, writerIndex_ |-> w + d]
  <2>1. b \in BufferType
    BY DEF Buffers
  <2>2. c = [b EXCEPT !.buffer_ = o, !.writerIndex_ = w + d]
    BY DEF Written, o
  <2>. QED
    BY <2>1, <2>2 DEF BufferType
<1>4. c \in Buffers
  <2>1. w + d \in Nat /\ r <= w + d /\ w + d <= Len(o)
    BY <1>1, <1>2
  <2>. QED
    BY <1>1, <1>2, <1>3, <2>1, IsBuffer
<1>5. readableBytes(c) = n + d /\ writableBytes(c) = writableBytes(b) - d
  BY <1>1, <1>2, <1>3 DEF readableBytes, writableBytes
<1>6. Readable(b) \in Seq(Byte) /\ Len(Readable(b)) = n /\ n \in Nat
  BY <1>1, ReadableFacts
<1> DEFINE q == Readable(b) \o data
<1>7. /\ q \in Seq(Byte) /\ Len(q) = n + d
      /\ \A i \in 1..(n + d) : q[i] = IF i <= n THEN Readable(b)[i] ELSE data[i - n]
  <2>1. /\ q \in Seq(Byte) /\ Len(q) = Len(Readable(b)) + Len(data)
        /\ \A i \in 1..(Len(Readable(b)) + Len(data)) :
               q[i] = IF i <= Len(Readable(b)) THEN Readable(b)[i]
                      ELSE data[i - Len(Readable(b))]
    BY <1>6, ConcatProperties
  <2> HIDE DEF q
  <2>. QED
    BY <1>6, <2>1
<1> HIDE DEF q
<1>8. ASSUME NEW i \in 1..(n + d) PROVE Readable(c)[i] = q[i]
  <2>1. Readable(c)[i] = o[r + i]
    BY <1>3, <1>4, <1>5, ReadableFacts
  <2>2. r + i \in 1..Len(s) /\ (r + i \in (w + 1)..(w + d) <=> i > n)
    BY <1>1, SMTT(30)
  <2>3. CASE i <= n
    <3>1. Readable(b)[i] = s[r + i]
      BY <1>1, <2>3, ReadableFacts, SMTT(30)
    <3>. QED
      BY <1>1, <1>2, <1>7, <2>1, <2>2, <2>3, <3>1, SMTT(30)
  <2>4. CASE i > n
    <3>1. (r + i) - w = i - n
      BY <1>1
    <3>2. q[i] = data[i - n]
      BY <1>6, <1>7, <2>4
    <3>3. o[r + i] = data[(r + i) - w]
      BY <1>2, <2>2, <2>4
    <3>. QED
      BY <2>1, <3>1, <3>2, <3>3
  <2>. QED
    BY <1>6, <2>3, <2>4
<1>9. Readable(c) \in Seq(Byte) /\ Len(Readable(c)) = n + d
  BY <1>4, <1>5, ReadableFacts
<1>10. Readable(c) = Readable(b) \o data
  BY <1>7, <1>8, <1>9, SeqEqual DEF q
<1>. QED
  BY <1>2, <1>3, <1>4, <1>5, <1>10

\* append adds the bytes at the end.
LEMMA AppendFacts ==
    ASSUME NEW b \in Buffers, NEW data \in Seq(Byte)
    PROVE  LET c == append(b, data) IN
           /\ c \in Buffers
           /\ Readable(c) = Readable(b) \o data
           /\ readableBytes(c) = readableBytes(b) + Len(data)
           /\ Len(c.buffer_) > Len(b.buffer_) =>
                  /\ Len(c.buffer_) < kCheapPrepend + 2 * readableBytes(c)
                  /\ Len(c.buffer_) = b.writerIndex_ + Len(data)
<1> DEFINE d == Len(data)
           e == ensureWritableBytes(b, d)
           c == append(b, data)
<1>1. d \in Nat /\ readableBytes(b) \in Nat /\ Len(b.buffer_) \in Nat
      /\ kCheapPrepend \in Nat /\ b.writerIndex_ \in Nat
  BY BufferFacts
<1>2. /\ e \in Buffers
      /\ Readable(e) = Readable(b)
      /\ readableBytes(e) = readableBytes(b)
      /\ d <= writableBytes(e)
      /\ \/ Len(e.buffer_) = Len(b.buffer_)
         \/ Len(e.buffer_) < kCheapPrepend + readableBytes(b) + 2 * d
      /\ \/ Len(e.buffer_) = Len(b.buffer_)
         \/ Len(e.buffer_) = b.writerIndex_ + d
  BY <1>1, EnsureWritableFacts
<1>3. c = Written(e, data)
  BY DEF append
<1> HIDE DEF e
<1>4. /\ Written(e, data) \in Buffers
      /\ Readable(Written(e, data)) = Readable(e) \o data
      /\ readableBytes(Written(e, data)) = readableBytes(e) + d
      /\ Len(Written(e, data).buffer_) = Len(e.buffer_)
  BY <1>2, WrittenFacts
<1> HIDE DEF c
<1>5. Len(c.buffer_) > Len(b.buffer_) =>
          /\ Len(c.buffer_) < kCheapPrepend + 2 * readableBytes(c)
          /\ Len(c.buffer_) = b.writerIndex_ + d
  BY <1>1, <1>2, <1>3, <1>4
<1>. QED
  BY <1>2, <1>3, <1>4, <1>5 DEF c

\* readFd adds what it read at the end; an empty buffer with nothing in front of
\* the data grows to just that.
LEMMA ReadFdFacts ==
    ASSUME NEW b \in Buffers, NEW data \in Seq(Byte)
    PROVE  LET c == readFd(b, data) IN
           /\ c \in Buffers
           /\ Readable(c) = Readable(b) \o data
           /\ Len(c.buffer_) > Len(b.buffer_) => Len(c.buffer_) = b.writerIndex_ + Len(data)
<1> DEFINE n == Len(data)
           w == writableBytes(b)
<1>1. n \in Nat /\ w \in Nat /\ Len(b.buffer_) \in Nat /\ b.writerIndex_ \in Nat
      /\ w = Len(b.buffer_) - b.writerIndex_
      /\ Readable(b) \in Seq(Byte)
  BY BufferFacts, ReadableFacts
<1> HIDE DEF w
<1>2. CASE n <= w
  <2>1. readFd(b, data) = Written(b, data)
    BY <1>2 DEF readFd, w
  <2>2. /\ Written(b, data) \in Buffers
        /\ Readable(Written(b, data)) = Readable(b) \o data
        /\ Len(Written(b, data).buffer_) = Len(b.buffer_)
    BY <1>2, WrittenFacts DEF w
  <2>. QED
    BY <1>1, <2>1, <2>2
<1>3. CASE ~(n <= w)
  <2> DEFINE first == SubSeq(data, 1, w)
             rest == SubSeq(data, w + 1, n)
             f == Written(b, first)
             c == append(f, rest)
  <2>1. first \in Seq(Byte) /\ Len(first) = w
    <3>1. \A i \in 1..w : data[i] \in Byte
      BY <1>1, <1>3
    <3>2. /\ SubSeq(data, 1, w) \in Seq(Byte)
          /\ Len(SubSeq(data, 1, w)) = IF 1 <= w THEN w - 1 + 1 ELSE 0
      BY <1>1, <3>1, SubSeqProperties
    <3>. QED
      BY <1>1, <3>2
  <2>2. rest \in Seq(Byte) /\ Len(rest) = n - w
    <3>1. \A i \in (w + 1)..n : data[i] \in Byte
      BY <1>1, <1>3
    <3>2. /\ SubSeq(data, w + 1, n) \in Seq(Byte)
          /\ Len(SubSeq(data, w + 1, n)) = IF w + 1 <= n THEN n - (w + 1) + 1 ELSE 0
      BY <1>1, <3>1, SubSeqProperties
    <3>. QED
      BY <1>1, <1>3, <3>2
  <2>3. first \o rest = data
    <3>1. 1 \in 1..(n + 1) /\ w \in (1 - 1)..n /\ n \in w..n
      BY <1>1, <1>3
    <3>2. SubSeq(data, 1, w) \o SubSeq(data, w + 1, n) = SubSeq(data, 1, n)
      BY <3>1, ConcatAdjacentSubSeq, Zenon
    <3>. QED
      BY <3>2, SubSeqFull
  <2>4. readFd(b, data) = c
    BY <1>3 DEF readFd, w
  <2> HIDE DEF first, rest
  <2>5. /\ f \in Buffers
        /\ Readable(f) = Readable(b) \o first
        /\ Len(f.buffer_) = Len(b.buffer_)
        /\ f.writerIndex_ = b.writerIndex_ + w
    BY <1>1, <2>1, WrittenFacts, SMTT(30) DEF w
  <2> HIDE DEF f
  <2>6. /\ c \in Buffers
        /\ Readable(c) = Readable(f) \o rest
        /\ Len(c.buffer_) > Len(f.buffer_) => Len(c.buffer_) = f.writerIndex_ + Len(rest)
    BY <2>2, <2>5, AppendFacts
  <2> HIDE DEF c
  <2>7. (Readable(b) \o first) \o rest = Readable(b) \o (first \o rest)
    <3>1. Readable(b) \in Seq(Byte) /\ first \in Seq(Byte) /\ rest \in Seq(Byte)
      BY <1>1, <2>1, <2>2
    <3>. QED
      BY <3>1, ConcatAssociative, SMTT(30)
  <2>8. f.writerIndex_ + Len(rest) = b.writerIndex_ + n
    BY <1>1, <2>2, <2>5
  <2>. QED
    BY <2>3, <2>4, <2>5, <2>6, <2>7, <2>8
<1>. QED
  BY <1>2, <1>3

------------------------------------------------------------------------------
(* Taking bytes out.                                                        *)

LEMMA EmptyReadable ==
    ASSUME NEW b \in Buffers, readableBytes(b) = 0
    PROVE  Readable(b) = <<>>
<1>1. Readable(b) \in Seq(Byte) /\ Len(Readable(b)) = 0
  BY ReadableFacts
<1>. QED
  BY <1>1, EmptySeq

LEMMA RetrieveAllFacts ==
    ASSUME NEW b \in Buffers
    PROVE  /\ retrieveAll(b) \in Buffers
           /\ readableBytes(retrieveAll(b)) = 0
           /\ Readable(retrieveAll(b)) = <<>>
           /\ retrieveAll(b).writerIndex_ = kCheapPrepend
           /\ retrieveAll(b).buffer_ = b.buffer_
<1> DEFINE c == retrieveAll(b)
<1>1. b \in BufferType
  BY DEF Buffers
<1>2. c = [buffer_ |-> b.buffer_, readerIndex_ |-> kCheapPrepend,
           writerIndex_ |-> kCheapPrepend]
  <2>1. c = [b EXCEPT !.readerIndex_ = kCheapPrepend, !.writerIndex_ = kCheapPrepend]
    BY DEF retrieveAll
  <2>. QED
    BY <1>1, <2>1 DEF BufferType
<1>3. /\ b.buffer_ \in Seq(Byte) /\ kCheapPrepend \in Nat
      /\ kCheapPrepend <= kCheapPrepend /\ kCheapPrepend <= Len(b.buffer_)
  BY BufferFacts
<1>4. c \in Buffers
  BY <1>2, <1>3, IsBuffer
<1>5. readableBytes(c) = 0
  BY <1>2, <1>3 DEF readableBytes
<1>. QED
  BY <1>2, <1>4, <1>5, EmptyReadable

\* retrieve takes bytes from the front.
LEMMA RetrieveFacts ==
    ASSUME NEW b \in Buffers, NEW n \in 1..readableBytes(b)
    PROVE  /\ retrieve(b, n) \in Buffers
           /\ Readable(retrieve(b, n)) = SubSeq(Readable(b), n + 1, readableBytes(b))
           /\ retrieve(b, n).buffer_ = b.buffer_
<1> DEFINE k == readableBytes(b)
           r == b.readerIndex_
           w == b.writerIndex_
<1>1. /\ b.buffer_ \in Seq(Byte) /\ Len(b.buffer_) \in Nat
      /\ r \in Nat /\ w \in Nat /\ k \in Nat /\ k = w - r
      /\ kCheapPrepend \in Nat /\ kCheapPrepend <= r /\ w <= Len(b.buffer_)
  BY BufferFacts
<1>2. Readable(b) \in Seq(Byte) /\ Len(Readable(b)) = k
  BY ReadableFacts
<1>3. CASE n < k
  <2> DEFINE c == retrieve(b, n)
  <2>1. c = [buffer_ |-> b.buffer_, readerIndex_ |-> r + n, writerIndex_ |-> w]
    <3>1. b \in BufferType
      BY DEF Buffers
    <3>. QED
      BY <1>3, <3>1 DEF retrieve, BufferType
  <2>2. c \in Buffers
    <3>1. r + n \in Nat /\ kCheapPrepend <= r + n /\ r + n <= w
      BY <1>1, <1>3
    <3>. QED
      BY <1>1, <2>1, <3>1, IsBuffer
  <2>3. readableBytes(c) = k - n
    BY <1>1, <2>1 DEF readableBytes
  <2> HIDE DEF c, k
  <2>4. Readable(c) \in Seq(Byte) /\ Len(Readable(c)) = k - n
    BY <2>2, <2>3, ReadableFacts
  <2>5. /\ SubSeq(Readable(b), n + 1, k) \in Seq(Byte)
        /\ Len(SubSeq(Readable(b), n + 1, k)) = k - n
        /\ \A i \in 1..(k - n) : SubSeq(Readable(b), n + 1, k)[i] = Readable(b)[n + i]
    <3>1. \A i \in (n + 1)..k : Readable(b)[i] \in Byte
      BY <1>1, <1>2
    <3>2. /\ SubSeq(Readable(b), n + 1, k) \in Seq(Byte)
          /\ Len(SubSeq(Readable(b), n + 1, k)) = IF n + 1 <= k THEN k - (n + 1) + 1 ELSE 0
          /\ \A i \in 1..(k - (n + 1) + 1) :
                 SubSeq(Readable(b), n + 1, k)[i] = Readable(b)[(n + 1) + i - 1]
      BY <1>1, <3>1, SubSeqProperties
    <3>3. k \in Nat /\ n \in Nat /\ n < k
      BY <1>1, <1>3
    <3>4. n + 1 <= k /\ k - (n + 1) + 1 = k - n
      BY <3>3
    <3>5. ASSUME NEW i \in 1..(k - n)
          PROVE  SubSeq(Readable(b), n + 1, k)[i] = Readable(b)[n + i]
      <4>1. (n + 1) + i - 1 = n + i
        BY <3>3
      <4>. QED
        BY <3>2, <3>4, <4>1
    <3>. QED
      BY <3>2, <3>4, <3>5
  <2>6. ASSUME NEW i \in 1..(k - n)
        PROVE  Readable(c)[i] = SubSeq(Readable(b), n + 1, k)[i]
    <3>1. Readable(c)[i] = b.buffer_[(r + n) + i]
      BY <2>1, <2>2, <2>3, ReadableFacts
    <3>2. n + i \in 1..k
      BY <1>1
    <3>3. Readable(b)[n + i] = b.buffer_[r + (n + i)]
      BY <3>2, ReadableFacts DEF k
    <3>4. (r + n) + i = r + (n + i)
      BY <1>1
    <3>. QED
      BY <2>5, <3>1, <3>3, <3>4
  <2>7. Readable(c) = SubSeq(Readable(b), n + 1, k)
    BY <2>4, <2>5, <2>6, SeqEqual
  <2>. QED
    BY <2>1, <2>2, <2>7 DEF c, k
<1>4. CASE n = k
  <2>1. retrieve(b, n) = retrieveAll(b)
    BY <1>1, <1>4 DEF retrieve
  <2>2. SubSeq(Readable(b), n + 1, k) = <<>>
    BY <1>1, <1>4, SubSeqEmpty
  <2>. QED
    BY <2>1, <2>2, RetrieveAllFacts
<1>. QED
  BY <1>1, <1>3, <1>4

------------------------------------------------------------------------------
(* The connection.                                                          *)

LEMMA InitBuffers ==
    /\ NewBuffer \in Buffers
    /\ readableBytes(NewBuffer) = 0
    /\ NewBuffer.writerIndex_ = kCheapPrepend
<1> DEFINE n == kCheapPrepend + kInitialSize
           s == [i \in 1..n |-> Zero]
<1>1. kCheapPrepend \in Nat /\ n \in Nat /\ kCheapPrepend <= n
  BY BufferAssumption
<1>2. s \in Seq(Byte) /\ Len(s) = n
  BY <1>1, BufferAssumption
<1>3. NewBuffer = [buffer_ |-> s, readerIndex_ |-> kCheapPrepend,
                   writerIndex_ |-> kCheapPrepend]
  BY DEF NewBuffer
<1> HIDE DEF n, s
<1>4. NewBuffer \in Buffers
  BY <1>1, <1>2, <1>3, IsBuffer
<1>. QED
  BY <1>1, <1>3, <1>4 DEF readableBytes

\* What sendInLoop does with the bytes it is given: it writes them or puts them
\* behind those that wait, or drops them all on a connection that is reset.
LEMMA SendStep ==
    ASSUME outputBuffer_ \in Buffers, echoed \in Seq(Byte), writing \in BOOLEAN,
           NEW data \in Seq(Byte), data # <<>>, sendInLoop(data)
    PROVE  /\ outputBuffer_' \in Buffers /\ echoed' \in Seq(Byte) /\ writing' \in BOOLEAN
           /\ \/ /\ echoed' \o Readable(outputBuffer_') =
                        (echoed \o Readable(outputBuffer_)) \o data
                 /\ ~(WriteDirectly /\ reset)
              \/ /\ reset /\ WriteDirectly
                 /\ UNCHANGED <<echoed, outputBuffer_, writing>>
           /\ Len(outputBuffer_'.buffer_) > Len(outputBuffer_.buffer_) =>
                 Len(outputBuffer_'.buffer_) <
                     kCheapPrepend + 2 * readableBytes(outputBuffer_')
<1> DEFINE d == Len(data)
           out == Readable(outputBuffer_)
<1>1. PICK n \in 0..d, fault \in BOOLEAN :
          /\ IF WriteDirectly THEN Write(d, n, fault) ELSE n = 0 /\ ~fault
          /\ echoed' = echoed \o SubSeq(data, 1, n)
          /\ IF fault \/ SubSeq(data, n + 1, d) = <<>>
             THEN UNCHANGED <<outputBuffer_, writing>>
             ELSE /\ outputBuffer_' = append(outputBuffer_, SubSeq(data, n + 1, d))
                  /\ writing' = TRUE
  BY DEF sendInLoop
<1> DEFINE first == SubSeq(data, 1, n)
           rest == SubSeq(data, n + 1, d)
<1>2. /\ d \in Nat /\ n \in Nat /\ out \in Seq(Byte)
      /\ Len(outputBuffer_.buffer_) \in Nat
  BY BufferFacts, ReadableFacts
<1>3. first \in Seq(Byte) /\ rest \in Seq(Byte)
  <2>1. (\A i \in 1..n : data[i] \in Byte) /\ (\A i \in (n + 1)..d : data[i] \in Byte)
    BY <1>2
  <2>. QED
    BY <1>2, <2>1, SubSeqProperties
<1>4. first \o rest = data
  <2>1. 1 \in 1..(d + 1) /\ n \in (1 - 1)..d /\ d \in n..d
    BY <1>2
  <2>2. SubSeq(data, 1, n) \o SubSeq(data, n + 1, d) = SubSeq(data, 1, d)
    BY <2>1, ConcatAdjacentSubSeq, Zenon
  <2>. QED
    BY <2>2, SubSeqFull
<1>5. n = 0 => first = <<>>
  BY SubSeqEmpty
<1>6. (n = 0 => rest = data)
  <2>1. SubSeq(data, 1, d) = data
    BY SubSeqFull
  <2>. QED
    BY <2>1
<1>7. WriteDirectly => out = <<>>
  BY EmptyReadable DEF WriteDirectly
<1> HIDE DEF first, rest, out
<1>8. echoed' \in Seq(Byte)
  BY <1>1, <1>3, ConcatProperties DEF first
<1>9. CASE fault
  <2>1. WriteDirectly /\ reset /\ n = 0
    BY <1>1, <1>9 DEF Write
  <2>2. echoed' = echoed
    BY <1>1, <1>5, <2>1, ConcatEmptySeq DEF first
  <2>3. UNCHANGED <<outputBuffer_, writing>>
    BY <1>1, <1>9
  <2>. QED
    BY <1>2, <1>8, <2>1, <2>2, <2>3
<1>10. CASE ~fault
  <2>1. ~(WriteDirectly /\ reset)
    BY <1>1, <1>10 DEF Write
  <2>2. WriteDirectly \/ n = 0
    BY <1>1
  <2>3. CASE rest = <<>>
    <3>1. UNCHANGED <<outputBuffer_, writing>>
      BY <1>1, <2>3 DEF rest
    <3>2. n # 0
      BY <1>6, <2>3
    <3>3. out = <<>>
      BY <1>7, <2>2, <3>2
    <3>4. first = data
      BY <1>3, <1>4, <2>3, ConcatEmptySeq
    <3>5. echoed' \o out = (echoed \o out) \o data
      <4>1. echoed' \o out = echoed'
        BY <1>8, <3>3, ConcatEmptySeq
      <4>2. echoed \o out = echoed
        BY <3>3, ConcatEmptySeq
      <4>. QED
        BY <1>1, <3>4, <4>1, <4>2 DEF first
    <3>6. Readable(outputBuffer_') = out
      BY <3>1 DEF out
    <3>. QED
      BY <1>2, <1>8, <2>1, <3>1, <3>5, <3>6 DEF out
  <2>4. CASE rest # <<>>
    <3>1. outputBuffer_' = append(outputBuffer_, rest) /\ writing' = TRUE
      BY <1>1, <1>10, <2>4 DEF rest
    <3>2. /\ outputBuffer_' \in Buffers
          /\ Readable(outputBuffer_') = out \o rest
          /\ Len(outputBuffer_'.buffer_) > Len(outputBuffer_.buffer_) =>
                 Len(outputBuffer_'.buffer_) <
                     kCheapPrepend + 2 * readableBytes(outputBuffer_')
      BY <1>3, <3>1, AppendFacts DEF out
    <3>3. (echoed \o first) \o (out \o rest) = (echoed \o out) \o data
      <4>1. CASE WriteDirectly
        <5>1. out \o rest = rest /\ echoed \o out = echoed
          BY <1>3, <1>7, <4>1, ConcatEmptySeq
        <5>2. (echoed \o first) \o rest = echoed \o (first \o rest)
          BY <1>3, ConcatAssociative, SMTT(30)
        <5>. QED
          BY <1>4, <5>1, <5>2
      <4>2. CASE n = 0
        <5>1. echoed \o first = echoed /\ rest = data
          BY <1>5, <1>6, <4>2, ConcatEmptySeq
        <5>2. (echoed \o out) \o data = echoed \o (out \o data)
          BY <1>2, ConcatAssociative, SMTT(30)
        <5>. QED
          BY <5>1, <5>2
      <4>. QED
        BY <2>2, <4>1, <4>2
    <3>4. echoed' = echoed \o first
      BY <1>1 DEF first
    <3>. QED
      BY <1>8, <2>1, <3>1, <3>2, <3>3, <3>4 DEF out
  <2>. QED
    BY <2>3, <2>4
<1>. QED
  BY <1>9, <1>10

\* Inductive: the input buffer is empty between two reads and starts over at
\* kCheapPrepend.  Bytes that a write dropped leave nothing behind that could
\* overtake them: nothing waits, and nothing more is written.
EchoInv ==
    LET out == echoed \o Readable(outputBuffer_) IN
    /\ EchoTypeOK
    /\ readableBytes(inputBuffer_) = 0
    /\ inputBuffer_.writerIndex_ = kCheapPrepend
    /\ out = SubSeq(Stream, 1, Len(out))
    /\ Len(out) <= taken
    /\ \/ Len(out) = taken
       \/ reset /\ ~writing /\ readableBytes(outputBuffer_) = 0

LEMMA BufferTypes ==
    ASSUME EchoTypeOK
    PROVE  inputBuffer_ \in Buffers /\ outputBuffer_ \in Buffers
BY DEF EchoTypeOK, Buffers

LEMMA EchoInit == Init => EchoInv
<1> SUFFICES ASSUME Init PROVE EchoInv
  OBVIOUS
<1>1. /\ inputBuffer_ = NewBuffer /\ outputBuffer_ = NewBuffer
      /\ arrived = 0 /\ taken = 0 /\ echoed = <<>>
  BY DEF Init
<1>2. Readable(outputBuffer_) = <<>>
  BY <1>1, InitBuffers, EmptyReadable
<1>3. echoed \o Readable(outputBuffer_) = <<>>
  BY <1>1, <1>2
<1>4. SubSeq(Stream, 1, 0) = <<>> /\ Len(<<>>) = 0
  BY SubSeqEmpty
<1>5. EchoTypeOK
  <2>1. Len(Stream) \in Nat /\ <<>> \in Seq(Byte)
    BY StreamAssumption
  <2>2. NewBuffer \in BufferType /\ IndicesOK(NewBuffer)
    BY InitBuffers DEF Buffers
  <2>3. inputBuffer_ \in BufferType /\ IndicesOK(inputBuffer_)
        /\ outputBuffer_ \in BufferType /\ IndicesOK(outputBuffer_)
    BY <1>1, <2>2
  <2>4. 0 \in 0..Len(Stream) /\ 0 \in 0..0
    BY <2>1
  <2>5. state_ = "kConnected" /\ writing = FALSE /\ fin = FALSE /\ reset = FALSE
    BY DEF Init
  <2>. QED
    BY <1>1, <2>1, <2>3, <2>4, <2>5 DEF EchoTypeOK
<1>. QED
  BY <1>1, <1>3, <1>4, <1>5, InitBuffers DEF EchoInv

LEMMA ReadStep ==
    ASSUME EchoInv, handleRead
    PROVE  /\ EchoInv'
           /\ Len(outputBuffer_'.buffer_) > Len(outputBuffer_.buffer_) =>
                 Len(outputBuffer_'.buffer_) <
                     kCheapPrepend + 2 * readableBytes(outputBuffer_')
           /\ Len(inputBuffer_'.buffer_) > Len(inputBuffer_.buffer_) =>
                 Len(inputBuffer_'.buffer_) = kCheapPrepend + (taken' - taken)
<1> DEFINE out == echoed \o Readable(outputBuffer_)
<1>1. EchoTypeOK /\ inputBuffer_ \in Buffers /\ outputBuffer_ \in Buffers
  BY BufferTypes DEF EchoInv
<1>2. PICK n \in 1..MaxRead(inputBuffer_) :
          /\ n <= arrived - taken
          /\ taken' = taken + n
          /\ onMessage(readFd(inputBuffer_, SubSeq(Stream, taken + 1, taken + n)))
  BY DEF handleRead
<1>3. /\ taken \in Nat /\ arrived \in Nat /\ Len(Stream) \in Nat /\ n \in Nat /\ n >= 1
      /\ taken + n <= arrived /\ arrived <= Len(Stream)
  <2>1. MaxRead(inputBuffer_) \in Nat
    BY <1>1, BufferFacts, BufferAssumption, SMTT(30) DEF MaxRead
  <2>2. Len(Stream) \in Nat
    BY StreamAssumption
  <2>. QED
    BY <1>1, <1>2, <2>1, <2>2 DEF EchoTypeOK
<1> DEFINE data == SubSeq(Stream, taken + 1, taken + n)
           filled == readFd(inputBuffer_, data)
<1>4. data \in Seq(Byte) /\ Len(data) = n
  <2>1. \A i \in (taken + 1)..(taken + n) : Stream[i] \in Byte
    BY <1>3, StreamAssumption
  <2>2. /\ SubSeq(Stream, taken + 1, taken + n) \in Seq(Byte)
        /\ Len(SubSeq(Stream, taken + 1, taken + n)) =
               IF taken + 1 <= taken + n THEN (taken + n) - (taken + 1) + 1 ELSE 0
    BY <1>3, <2>1, SubSeqProperties
  <2>. QED
    BY <1>3, <2>2
<1> HIDE DEF data
<1>5. /\ filled \in Buffers
      /\ Readable(filled) = Readable(inputBuffer_) \o data
      /\ Len(filled.buffer_) > Len(inputBuffer_.buffer_) =>
             Len(filled.buffer_) = inputBuffer_.writerIndex_ + n
  BY <1>1, <1>4, ReadFdFacts
<1>6. Readable(filled) = data
  <2>1. Readable(inputBuffer_) = <<>>
    BY <1>1, EmptyReadable DEF EchoInv
  <2>. QED
    BY <1>4, <1>5, <2>1, ConcatEmptySeq
<1>7. inputBuffer_' = retrieveAll(filled) /\ sendInLoop(Readable(filled))
  BY <1>2 DEF onMessage, data
<1> HIDE DEF filled
<1>8. /\ inputBuffer_' \in Buffers
      /\ readableBytes(inputBuffer_') = 0
      /\ inputBuffer_'.writerIndex_ = kCheapPrepend
      /\ inputBuffer_'.buffer_ = filled.buffer_
  BY <1>5, <1>7, RetrieveAllFacts
<1>9. /\ sendInLoop(data)
      /\ echoed \in Seq(Byte) /\ writing \in BOOLEAN
      /\ data # <<>>
  BY <1>1, <1>3, <1>4, <1>6, <1>7 DEF EchoTypeOK
<1>10. /\ outputBuffer_' \in Buffers /\ echoed' \in Seq(Byte) /\ writing' \in BOOLEAN
       /\ \/ /\ out' = out \o data
             /\ ~(WriteDirectly /\ reset)
          \/ /\ reset /\ WriteDirectly
             /\ UNCHANGED <<echoed, outputBuffer_, writing>>
       /\ Len(outputBuffer_'.buffer_) > Len(outputBuffer_.buffer_) =>
             Len(outputBuffer_'.buffer_) <
                 kCheapPrepend + 2 * readableBytes(outputBuffer_')
  BY <1>1, <1>4, <1>9, SendStep
<1>11. /\ state_' = state_ /\ arrived' = arrived /\ fin' = fin /\ reset' = reset
       /\ taken' \in 0..arrived
  BY <1>2, <1>3 DEF handleRead, peerVars
<1>12. EchoTypeOK'
  BY <1>1, <1>8, <1>10, <1>11 DEF EchoTypeOK, Buffers
<1>13. out \in Seq(Byte) /\ Len(out) \in Nat
  BY <1>1, <1>9, ReadableFacts, ConcatProperties
<1>14. CASE out' = out \o data /\ ~(WriteDirectly /\ reset)
  <2>1. Len(out) = taken /\ out = SubSeq(Stream, 1, Len(out))
    BY <1>14 DEF EchoInv, WriteDirectly
  <2>2. SubSeq(Stream, 1, taken) \o SubSeq(Stream, taken + 1, taken + n) =
            SubSeq(Stream, 1, taken + n)
    <3>1. 1 \in 1..(Len(Stream) + 1) /\ taken \in (1 - 1)..Len(Stream)
          /\ taken + n \in taken..Len(Stream)
      BY <1>3
    <3>. QED
      BY <3>1, ConcatAdjacentSubSeq, StreamAssumption, Zenon
  <2>3. out' = SubSeq(Stream, 1, taken + n)
    BY <1>14, <2>1, <2>2 DEF data
  <2>4. Len(out \o data) = Len(out) + Len(data)
    BY <1>4, <1>13, ConcatProperties
  <2>5. Len(out') = taken + n
    BY <1>4, <1>14, <2>1, <2>4
  <2> HIDE DEF out
  <2>6. /\ out' = SubSeq(Stream, 1, Len(out'))
        /\ Len(out') = taken'
        /\ Len(out') <= taken'
    BY <1>2, <1>3, <2>3, <2>5
  <2>7. EchoInv'
    BY <1>8, <1>12, <2>6 DEF EchoInv, out
  <2>. QED
    BY <1>2, <1>3, <1>5, <1>8, <1>10, <2>7 DEF EchoInv
<1>15. CASE reset /\ WriteDirectly /\ UNCHANGED <<echoed, outputBuffer_, writing>>
  <2>1. out' = out
    BY <1>15
  <2>2. out = SubSeq(Stream, 1, Len(out)) /\ Len(out) <= taken
    BY DEF EchoInv
  <2>3. ~writing /\ readableBytes(outputBuffer_) = 0
    BY <1>15 DEF WriteDirectly
  <2> HIDE DEF out
  <2>4. Len(out') <= taken'
    BY <1>2, <1>3, <1>13, <2>1, <2>2
  <2>5. readableBytes(outputBuffer_') = 0 /\ ~writing' /\ reset'
    BY <1>11, <1>15, <2>3
  <2>6. EchoInv'
    BY <1>8, <1>12, <2>1, <2>2, <2>4, <2>5 DEF EchoInv, out
  <2>. QED
    BY <1>2, <1>3, <1>5, <1>8, <1>10, <2>6 DEF EchoInv
<1>. QED
  BY <1>10, <1>14, <1>15

LEMMA WriteStep ==
    ASSUME EchoInv, handleWrite
    PROVE  EchoInv' /\ outputBuffer_'.buffer_ = outputBuffer_.buffer_
<1> DEFINE k == readableBytes(outputBuffer_)
           pending == Readable(outputBuffer_)
           out == echoed \o pending
<1>1. EchoTypeOK /\ outputBuffer_ \in Buffers
  BY BufferTypes DEF EchoInv
<1>2. PICK n \in 1..k :
          /\ Write(k, n, FALSE)
          /\ echoed' = echoed \o SubSeq(pending, 1, n)
          /\ outputBuffer_' = retrieve(outputBuffer_, n)
  BY DEF handleWrite
<1>3. /\ k \in Nat /\ n \in Nat /\ n <= k /\ echoed \in Seq(Byte)
      /\ pending \in Seq(Byte) /\ Len(pending) = k
  BY <1>1, BufferFacts, ReadableFacts DEF EchoTypeOK
<1>4. /\ outputBuffer_' \in Buffers
      /\ Readable(outputBuffer_') = SubSeq(pending, n + 1, k)
      /\ outputBuffer_'.buffer_ = outputBuffer_.buffer_
  BY <1>1, <1>2, RetrieveFacts
<1> HIDE DEF k, pending
<1>5. /\ SubSeq(pending, 1, n) \in Seq(Byte) /\ SubSeq(pending, n + 1, k) \in Seq(Byte)
      /\ SubSeq(pending, 1, n) \o SubSeq(pending, n + 1, k) = pending
  <2>1. (\A i \in 1..n : pending[i] \in Byte) /\ (\A i \in (n + 1)..k : pending[i] \in Byte)
    BY <1>3
  <2>2. SubSeq(pending, 1, n) \in Seq(Byte) /\ SubSeq(pending, n + 1, k) \in Seq(Byte)
    BY <1>3, <2>1, SubSeqProperties
  <2>3. 1 \in 1..(Len(pending) + 1) /\ n \in (1 - 1)..Len(pending)
        /\ Len(pending) \in n..Len(pending)
    BY <1>3
  <2>4. SubSeq(pending, 1, n) \o SubSeq(pending, n + 1, Len(pending)) =
            SubSeq(pending, 1, Len(pending))
    BY <1>3, <2>3, ConcatAdjacentSubSeq, Zenon
  <2>5. SubSeq(pending, 1, Len(pending)) = pending
    BY <1>3, SubSeqFull
  <2>. QED
    BY <1>3, <2>2, <2>4, <2>5
<1>6. (echoed \o SubSeq(pending, 1, n)) \o SubSeq(pending, n + 1, k) = out
  <2>1. (echoed \o SubSeq(pending, 1, n)) \o SubSeq(pending, n + 1, k) =
            echoed \o (SubSeq(pending, 1, n) \o SubSeq(pending, n + 1, k))
    <3>1. /\ echoed \in Seq(Byte) /\ SubSeq(pending, 1, n) \in Seq(Byte)
          /\ SubSeq(pending, n + 1, k) \in Seq(Byte)
      BY <1>3, <1>5
    <3>. QED
      BY <3>1, ConcatAssociative, SMTT(30)
  <2>. QED
    BY <1>5, <2>1
<1>7. echoed' \o Readable(outputBuffer_') = echoed \o Readable(outputBuffer_)
  BY <1>2, <1>4, <1>6 DEF pending
<1>8. echoed' \in Seq(Byte)
  BY <1>2, <1>3, <1>5, ConcatProperties
<1>9. /\ UNCHANGED <<state_, inputBuffer_, taken, arrived, fin, reset>>
      /\ writing' \in BOOLEAN /\ writing
  BY DEF handleWrite, peerVars, StillWriting
<1>10. EchoTypeOK'
  BY <1>1, <1>4, <1>8, <1>9 DEF EchoTypeOK, Buffers
<1>. QED
  BY <1>4, <1>7, <1>9, <1>10 DEF EchoInv

LEMMA OtherSteps ==
    ASSUME EchoInv, arrive \/ peerCloses \/ peerResets \/ handleClose \/ UNCHANGED vars
    PROVE  EchoInv' /\ UNCHANGED <<inputBuffer_, outputBuffer_>>
<1>1. UNCHANGED <<inputBuffer_, outputBuffer_, taken, echoed>>
  BY DEF arrive, peerCloses, peerResets, handleClose, vars, peerVars
<1>2. (reset => reset') /\ (writing' => writing)
  BY DEF arrive, peerCloses, peerResets, handleClose, vars, peerVars
<1>3. EchoTypeOK /\ Len(Stream) \in Nat
  BY StreamAssumption DEF EchoInv
<1>4. EchoTypeOK'
  <2>1. CASE arrive
    <3>1. arrived' \in 0..Len(Stream) /\ taken \in 0..arrived'
      BY <1>3, <2>1 DEF EchoTypeOK, arrive
    <3>. QED
      BY <1>1, <1>3, <2>1, <3>1 DEF EchoTypeOK, arrive
  <2>2. CASE ~arrive
    <3>1. arrived' = arrived
      BY <2>2 DEF peerCloses, peerResets, handleClose, vars, peerVars
    <3>. QED
      BY <1>1, <1>3, <2>2, <3>1 DEF EchoTypeOK, peerCloses, peerResets, handleClose, vars, peerVars
  <2>. QED
    BY <2>1, <2>2
<1>. QED
  BY <1>1, <1>2, <1>4 DEF EchoInv

LEMMA EchoNext == EchoInv /\ [Next]_vars => EchoInv'
BY ReadStep, WriteStep, OtherSteps DEF Next

\* Buffers keep their indices in order whatever is read and written.
THEOREM TypeCorrect == Spec => []EchoTypeOK
<1>1. EchoInv => EchoTypeOK
  BY DEF EchoInv
<1>. QED
  BY <1>1, EchoInit, EchoNext, PTL DEF Spec

\* The peer gets back its own bytes, in order and once each.
THEOREM EchoIsInOrder == Spec => []EchoInOrder
<1>1. EchoInv => EchoInOrder
  BY DEF EchoInv, EchoInOrder
<1>. QED
  BY <1>1, EchoInit, EchoNext, PTL DEF Spec

\* Memory is asked for only for bytes that fill half of it.
THEOREM BuffersGrowWhenHalfFull == Spec => GrowsWhenHalfFull
<1> DEFINE Grows ==
        /\ Len(outputBuffer_'.buffer_) > Len(outputBuffer_.buffer_) =>
              Len(outputBuffer_'.buffer_) < kCheapPrepend + 2 * readableBytes(outputBuffer_')
        /\ Len(inputBuffer_'.buffer_) > Len(inputBuffer_.buffer_) =>
              Len(inputBuffer_'.buffer_) = kCheapPrepend + (taken' - taken)
<1>1. EchoInv /\ [Next]_vars => [Grows]_vars
  <2> SUFFICES ASSUME EchoInv, Next PROVE Grows
    OBVIOUS
  <2>1. /\ Len(inputBuffer_.buffer_) \in Nat /\ Len(outputBuffer_.buffer_) \in Nat
    BY BufferTypes, BufferFacts DEF EchoInv
  <2>2. CASE handleRead
    BY <2>2, ReadStep
  <2>3. CASE handleWrite
    <3>1. UNCHANGED inputBuffer_ /\ outputBuffer_'.buffer_ = outputBuffer_.buffer_
      BY <2>3, WriteStep DEF handleWrite
    <3>. QED
      BY <2>1, <3>1
  <2>4. CASE arrive \/ peerCloses \/ peerResets \/ handleClose
    <3>1. UNCHANGED <<inputBuffer_, outputBuffer_>>
      BY <2>4, OtherSteps
    <3>. QED
      BY <2>1, <3>1
  <2>. QED
    BY <2>2, <2>3, <2>4 DEF Next
<1> HIDE DEF Grows
<1>2. Spec => [][Grows]_vars
  BY <1>1, EchoInit, EchoNext, PTL DEF Spec
<1>. QED
  BY <1>2 DEF GrowsWhenHalfFull, Grows

==============================================================================
