-------------------------- MODULE AsyncLoggingProofs --------------------------
(***************************************************************************)
(* AsyncLogging never runs out of buffers, and loses, doubles or reorders  *)
(* no line it took in, whatever the lines and however the threads that     *)
(* append them and the one that writes them interleave.                    *)
(***************************************************************************)
EXTENDS AsyncLogging, SequenceTheorems, WellFoundedInduction, TLAPS

------------------------------------------------------------------------------
(* Lengths.  Those of lines and of buffers are sums over sequences.         *)

\* A set of natural numbers has a least one.
LEMMA LeastNat ==
    ASSUME NEW S \in SUBSET Nat, S # {}
    PROVE  \E n \in S : \A m \in S : n <= m
<1> DEFINE R == OpToRel(<, Nat)
<1>1. IsWellFoundedOn(R, Nat)
  BY NatLessThanWellFounded
<1>2. PICK n \in S : \A m \in S : ~(<<m, n>> \in R)
  <2> HIDE DEF R
  <2> QED
    BY <1>1, WFMin
<1>3. ASSUME NEW m \in S PROVE n <= m
  <2>1. ~(m < n)
    BY <1>2 DEF OpToRel
  <2> QED
    BY <2>1
<1> QED
  BY <1>3

\* f starts at base and goes on by step
Sums(f, n, base, step) == f[0] = base /\ \A i \in 1..n : f[i] = step[<<i, f[i - 1]>>]

\* A recursion over 0..N has a solution.
LEMMA SumExists ==
    ASSUME NEW N \in Nat, NEW S, NEW base \in S, NEW step \in [(1..N) \X S -> S]
    PROVE  \E f \in [0..N -> S] : Sums(f, N, base, step)
<1> DEFINE Bad == {n \in 0..N : ~\E f \in [0..n -> S] : Sums(f, n, base, step)}
<1>1. SUFFICES ASSUME Bad # {} PROVE FALSE
  OBVIOUS
<1>2. PICK n \in Bad : \A k \in Bad : n <= k
  <2>1. Bad \in SUBSET Nat
    OBVIOUS
  <2> HIDE DEF Bad
  <2> QED
    BY <1>1, <2>1, LeastNat
<1>3. CASE n = 0
  <2>1. [i \in 0..0 |-> base] \in [0..0 -> S] /\ Sums([i \in 0..0 |-> base], 0, base, step)
    BY DEF Sums
  <2> QED
    BY <1>2, <1>3, <2>1
<1>4. CASE n # 0
  <2>1. n \in 1..N /\ n - 1 \in 0..N /\ n - 1 \notin Bad
    BY <1>2, <1>4
  <2>2. PICK f \in [0..(n - 1) -> S] : Sums(f, n - 1, base, step)
    BY <2>1
  <2>3. PICK y \in S : y = step[<<n, f[n - 1]>>]
    BY <2>1, <2>2
  <2> DEFINE g == [i \in 0..n |-> IF i = n THEN y ELSE f[i]]
  <2>4. g \in [0..n -> S] /\ \A i \in 0..(n - 1) : g[i] = f[i]
    BY <2>1, <2>2
  <2>5. g[n] = y
    BY <2>1
  <2> HIDE DEF g
  <2>6. ASSUME NEW i \in 1..n PROVE g[i] = step[<<i, g[i - 1]>>]
    <3>1. i - 1 \in 0..(n - 1) /\ g[i - 1] = f[i - 1]
      BY <2>1, <2>4
    <3>2. CASE i = n
      BY <2>3, <2>5, <3>1, <3>2
    <3>3. CASE i # n
      <4>1. i \in 1..(n - 1) /\ i \in 0..(n - 1)
        BY <2>1, <3>3
      <4> QED
        BY <2>2, <2>4, <3>1, <4>1 DEF Sums
    <3> QED
      BY <3>2, <3>3
  <2>7. Sums(g, n, base, step)
    <3>1. g[0] = base
      BY <2>1, <2>2, <2>4 DEF Sums
    <3> QED
      BY <2>6, <3>1 DEF Sums
  <2> QED
    BY <1>2, <2>4, <2>7
<1> QED
  BY <1>3, <1>4

\* Two solutions agree.
Agree(f, g, N) == \A i \in 0..N : f[i] = g[i]
GoOnAlike(f, g, N) == \A i \in 1..N : f[i - 1] = g[i - 1] => f[i] = g[i]

LEMMA SumsAgree ==
    ASSUME NEW N \in Nat, NEW f, NEW g, f[0] = g[0], GoOnAlike(f, g, N)
    PROVE  Agree(f, g, N)
<1> SUFFICES \A i \in 0..N : f[i] = g[i]
  BY DEF Agree
<1> DEFINE Bad == {i \in 0..N : f[i] # g[i]}
<1>1. SUFFICES ASSUME Bad # {} PROVE FALSE
  OBVIOUS
<1>2. PICK i \in Bad : \A k \in Bad : i <= k
  <2>1. Bad \in SUBSET Nat
    OBVIOUS
  <2> HIDE DEF Bad
  <2> QED
    BY <1>1, <2>1, LeastNat
<1>3. i \in 1..N /\ i - 1 \in 0..N /\ i - 1 \notin Bad
  BY <1>2
<1>4. f[i - 1] = g[i - 1] => f[i] = g[i]
  BY <1>3 DEF GoOnAlike
<1> QED
  BY <1>2, <1>3, <1>4

\* A piece never takes a small buffer beyond its end.
LEMMA StreamFits ==
    ASSUME NEW n \in 0..kSmallBufferSize, NEW p \in Piece
    PROVE  stream(n, p) \in 0..kSmallBufferSize
<1>1. kSmallBufferSize \in Nat /\ kMaxNumberSize \in Nat
  BY StreamAssumption
<1>2. CASE p \in [len : Nat, number : {FALSE}]
  <2>1. p.len \in Nat /\ stream(n, p) = appendText(n, p)
    BY <1>2 DEF stream
  <2> QED
    BY <1>1, <2>1 DEF appendText, avail
<1>3. CASE p \in [len : 1..kMaxNumberSize, number : {TRUE}]
  <2>1. p.len \in 1..kMaxNumberSize /\ stream(n, p) = formatInteger(n, p)
    BY <1>3 DEF stream
  <2> QED
    BY <1>1, <2>1 DEF formatInteger, avail
<1> QED
  BY <1>2, <1>3 DEF Piece

\* The pieces of a line.
LEMMA AllPieces ==
    ASSUME NEW pieces \in Seq(Piece)
    PROVE  Stamp \o pieces \o Tail_ \in Seq(Piece)
<1>1. /\ Text(17) \in Piece /\ Text(7) \in Piece /\ Text(6) \in Piece /\ Text(3) \in Piece
      /\ Text(1) \in Piece /\ Text(SourceNameSize) \in Piece /\ Digits(3) \in Piece
  BY StreamAssumption DEF Text, Digits, Piece
<1>2. Stamp \in Seq(Piece)
  BY <1>1 DEF Stamp
<1>3. Tail_ \in Seq(Piece)
  BY <1>1 DEF Tail_
<1> QED
  BY <1>2, <1>3, ConcatProperties

\* Whatever a statement streams, its small buffer holds it: size_ never gets
\* beyond kSmallBufferSize, so that avail() never wraps around
\* (FixedBuffer.h:23-46, LogSteam.cc:6-24).
THEOREM LinesFit == \A pieces \in Seq(Piece) : LineOf(pieces) \in 0..kSmallBufferSize
<1> SUFFICES ASSUME NEW pieces \in Seq(Piece) PROVE LineOf(pieces) \in 0..kSmallBufferSize
  OBVIOUS
<1>1. PICK all \in Seq(Piece) : all = Stamp \o pieces \o Tail_
  BY AllPieces
<1> DEFINE S == 0..kSmallBufferSize
           N == Len(all)
           step == [x \in (1..N) \X S |-> stream(x[2], all[x[1]])]
<1>2. N \in Nat
  OBVIOUS
<1>3. step \in [(1..N) \X S -> S]
  <2> SUFFICES ASSUME NEW i \in 1..N, NEW n \in S PROVE stream(n, all[i]) \in S
    OBVIOUS
  <2> QED
    BY <1>2, StreamFits
<1>4. 0 \in S
  BY StreamAssumption
<1>5. PICK f \in [0..N -> S] : Sums(f, N, 0, step)
  <2> HIDE DEF S, N, step
  <2> QED
    BY <1>2, <1>3, <1>4, SumExists
<1>6. f = [i \in 0..N |-> IF i = 0 THEN 0 ELSE stream(f[i - 1], all[i])]
  <2>1. ASSUME NEW i \in 0..N PROVE f[i] = IF i = 0 THEN 0 ELSE stream(f[i - 1], all[i])
    <3>1. CASE i = 0
      BY <1>5, <3>1 DEF Sums
    <3>2. CASE i # 0
      <4>1. i \in 1..N /\ f[i - 1] \in S
        <5>1. i \in 1..N /\ i - 1 \in 0..N
          BY <1>2, <3>2
        <5> HIDE DEF S, N, step
        <5> QED
          BY <1>5, <5>1
      <4>2. f[i] = step[<<i, f[i - 1]>>]
        BY <1>5, <4>1 DEF Sums
      <4> QED
        BY <3>2, <4>1, <4>2
    <3> QED
      BY <3>1, <3>2
  <2> QED
    BY <1>5, <2>1
<1> DEFINE size == CHOOSE g : g = [i \in 0..N |-> IF i = 0 THEN 0 ELSE stream(g[i - 1], all[i])]
<1>7. size = [i \in 0..N |-> IF i = 0 THEN 0 ELSE stream(size[i - 1], all[i])]
  BY <1>6
<1>8. LineOf(pieces) = size[N]
  BY <1>1 DEF LineOf
<1> HIDE DEF size, step, S
<1>9. \A i \in 0..N : size[i] = f[i]
  <2>1. size[0] = f[0]
    BY <1>2, <1>6, <1>7
  <2>2. ASSUME NEW i \in 1..N, size[i - 1] = f[i - 1] PROVE size[i] = f[i]
    BY <1>2, <1>6, <1>7, <2>2
  <2>3. GoOnAlike(size, f, N)
    BY <2>2, Zenon DEF GoOnAlike
  <2>4. Agree(size, f, N)
    BY <1>2, <2>1, <2>3, SumsAgree
  <2> QED
    BY <2>4 DEF Agree
<1> QED
  BY <1>2, <1>5, <1>8, <1>9 DEF S

\* the sizes of the first lines of a buffer
Prefixes(f, b) == f[0] = 0 /\ \A i \in 1..Len(b) : f[i] = f[i - 1] + LineSize[b[i]]

LEMMA LineSizeType == LineSize \in [Lines -> Nat]
<1>1. \A l \in Lines : LineOf(Pieces[l]) \in 0..kSmallBufferSize
  BY BufferAssumption, LinesFit
<1> QED
  BY <1>1 DEF LineSize

LEMMA PrefixesExist ==
    ASSUME NEW b \in Seq(Lines)
    PROVE  \E f \in [0..Len(b) -> Nat] : Prefixes(f, b)
<1> DEFINE N == Len(b)
           step == [x \in (1..N) \X Nat |-> x[2] + LineSize[b[x[1]]]]
<1>1. N \in Nat /\ 0 \in Nat
  OBVIOUS
<1>2. step \in [(1..N) \X Nat -> Nat]
  <2> SUFFICES ASSUME NEW i \in 1..N, NEW n \in Nat PROVE n + LineSize[b[i]] \in Nat
    OBVIOUS
  <2>1. b[i] \in Lines
    OBVIOUS
  <2> QED
    BY <2>1, LineSizeType
<1>3. PICK f \in [0..N -> Nat] : Sums(f, N, 0, step)
  <2> HIDE DEF N, step
  <2> QED
    BY <1>1, <1>2, SumExists
<1>4. ASSUME NEW i \in 1..N PROVE f[i] = f[i - 1] + LineSize[b[i]]
  <2>1. f[i] = step[<<i, f[i - 1]>>]
    <3> HIDE DEF N, step
    <3> QED
      BY <1>3 DEF Sums
  <2>2. f[i - 1] \in Nat
    <3>1. i - 1 \in 0..N
      BY <1>1
    <3> HIDE DEF N
    <3> QED
      BY <1>3, <3>1
  <2> QED
    BY <2>1, <2>2
<1> QED
  BY <1>3, <1>4 DEF Sums, Prefixes

LEMMA LengthIs ==
    ASSUME NEW b \in Seq(Lines), NEW f \in [0..Len(b) -> Nat], Prefixes(f, b)
    PROVE  Length(b) = f[Len(b)]
<1> DEFINE N == Len(b)
           size == CHOOSE g : g = [i \in 0..N |-> IF i = 0 THEN 0 ELSE g[i - 1] + LineSize[b[i]]]
<1>1. N \in Nat
  OBVIOUS
<1>2. f = [i \in 0..N |-> IF i = 0 THEN 0 ELSE f[i - 1] + LineSize[b[i]]]
  <2>1. \A i \in 0..N : f[i] = IF i = 0 THEN 0 ELSE f[i - 1] + LineSize[b[i]]
    BY <1>1 DEF Prefixes
  <2> QED
    BY <2>1
<1>3. size = [i \in 0..N |-> IF i = 0 THEN 0 ELSE size[i - 1] + LineSize[b[i]]]
  BY <1>2
<1>4. Length(b) = size[N]
  BY DEF Length
<1> HIDE DEF size
<1>5. \A i \in 0..N : size[i] = f[i]
  <2>1. size[0] = f[0]
    BY <1>1, <1>2, <1>3
  <2>2. ASSUME NEW i \in 1..N, size[i - 1] = f[i - 1] PROVE size[i] = f[i]
    BY <1>1, <1>2, <1>3, <2>2
  <2>3. GoOnAlike(size, f, N)
    BY <2>2, Zenon DEF GoOnAlike
  <2>4. Agree(size, f, N)
    BY <1>1, <2>1, <2>3, SumsAgree
  <2> QED
    BY <2>4 DEF Agree
<1> QED
  BY <1>1, <1>4, <1>5

\* An empty buffer is empty, and a line adds its size.
LEMMA Lengths ==
    /\ Length(<<>>) = 0
    /\ \A b \in Seq(Lines) : Length(b) \in Nat
    /\ \A b \in Seq(Lines), l \in Lines : Length(Append(b, l)) = Length(b) + LineSize[l]
<1>1. Length(<<>>) = 0
  <2>1. PICK b \in Seq(Lines) : b = <<>> /\ Len(b) = 0
    <3>1. <<>> \in Seq(Lines) /\ Len(<<>>) = 0
      OBVIOUS
    <3> QED
      BY <3>1
  <2>2. PICK f \in [0..Len(b) -> Nat] : Prefixes(f, b)
    BY PrefixesExist
  <2> QED
    BY <2>1, <2>2, LengthIs DEF Prefixes
<1>2. ASSUME NEW b \in Seq(Lines) PROVE Length(b) \in Nat
  <2>1. PICK f \in [0..Len(b) -> Nat] : Prefixes(f, b)
    BY PrefixesExist
  <2>2. Len(b) \in Nat
    OBVIOUS
  <2> QED
    BY <2>1, <2>2, LengthIs
<1>3. ASSUME NEW b \in Seq(Lines), NEW l \in Lines
      PROVE  Length(Append(b, l)) = Length(b) + LineSize[l]
  <2>1. PICK c \in Seq(Lines) : c = Append(b, l)
    <3>1. Append(b, l) \in Seq(Lines)
      OBVIOUS
    <3> QED
      BY <3>1
  <2>2. /\ Len(b) \in Nat /\ Len(c) = Len(b) + 1 /\ c[Len(c)] = l
        /\ \A i \in 1..Len(b) : c[i] = b[i]
    BY <2>1
  <2>3. PICK f \in [0..Len(c) -> Nat] : Prefixes(f, c)
    BY PrefixesExist
  <2> DEFINE g == [i \in 0..Len(b) |-> f[i]]
  <2>4. g \in [0..Len(b) -> Nat]
    BY <2>2, <2>3
  <2>5. Prefixes(g, b)
    <3>1. g[0] = 0
      BY <2>2, <2>3 DEF Prefixes
    <3>2. ASSUME NEW i \in 1..Len(b) PROVE g[i] = g[i - 1] + LineSize[b[i]]
      <4>1. i \in 1..Len(c) /\ i \in 0..Len(b) /\ i - 1 \in 0..Len(b)
        BY <2>2
      <4>2. g[i] = f[i] /\ g[i - 1] = f[i - 1] /\ c[i] = b[i]
        BY <2>2, <4>1
      <4> HIDE DEF g
      <4> QED
        BY <2>3, <4>1, <4>2 DEF Prefixes
    <3> HIDE DEF g
    <3> QED
      BY <3>1, <3>2 DEF Prefixes
  <2>6. g[Len(b)] = f[Len(b)]
    BY <2>2
  <2>7. f[Len(c)] = f[Len(b)] + LineSize[l]
    <3>1. Len(c) \in 1..Len(c) /\ Len(c) - 1 = Len(b)
      BY <2>2
    <3> QED
      BY <2>2, <2>3, <3>1 DEF Prefixes
  <2>8. Length(b) = g[Len(b)]
    <3> HIDE DEF g
    <3> QED
      BY <2>4, <2>5, LengthIs
  <2>9. Length(c) = f[Len(c)]
    BY <2>3, LengthIs
  <2> HIDE DEF g
  <2> QED
    BY <2>1, <2>6, <2>7, <2>8, <2>9
<1> QED
  BY <1>1, <1>2, <1>3

------------------------------------------------------------------------------
(* The supply of buffers.                                                   *)

\* A spare buffer is empty or has been moved away.  nextBuffer_ is only moved
\* away together with a full buffer, which makes buffers_ nonempty: the thread
\* that has to replace nextBuffer_ finds two buffers to recycle.  next is behind
\* the last buffer when they are.
Supply ==
    /\ currentBuffer_ \in Seq(Lines) /\ nextBuffer_ \in {<<>>, Null}
    /\ buffers_ \in Seq(Seq(Lines)) /\ buffersToWrite \in Seq(Seq(Lines))
    /\ nextBuffer_ = Null => buffers_ # <<>>
    /\ pc \in {"created", "test", "lock", "wait", "done"} =>
          /\ newbuffer1 = <<>> /\ newbuffer2 = <<>>
          /\ buffersToWrite = <<>> /\ next = 1
    /\ pc \in {"write", "recycle"} =>
          /\ newbuffer1 = Null /\ newbuffer2 \in {<<>>, Null}
          /\ Len(buffersToWrite) >= 1
          /\ newbuffer2 = Null => Len(buffersToWrite) >= 2
          /\ next \in 1..(Len(buffersToWrite) + 1)
          /\ pc = "recycle" => next = Len(buffersToWrite) + 1
    /\ pc \in {"created", "test", "lock", "wait", "write", "recycle", "done"}

LEMMA NullIsNoBuffer == Null \notin Seq(Lines) /\ Null # <<>>
<1>1. <<>> \in Seq(Lines)
  OBVIOUS
<1> QED
  BY <1>1, BufferAssumption

\* The initial buffers suffice.
LEMMA SupplyInit == Init => Supply
<1>1. <<>> \in Seq(Lines) /\ <<>> \in Seq(Seq(Lines))
  OBVIOUS
<1> QED
  BY <1>1, NullIsNoBuffer DEF Init, Supply

\* The swap hands newbuffer1 and, if it is needed, newbuffer2 over and takes
\* all full buffers and the current one.
LEMMA SwapSupplies ==
    ASSUME Supply, pc \in {"lock", "wait"}, swap
    PROVE  Supply'
<1>1. /\ newbuffer1 = <<>> /\ newbuffer2 = <<>> /\ buffersToWrite = <<>>
      /\ currentBuffer_ \in Seq(Lines) /\ buffers_ \in Seq(Seq(Lines))
  BY DEF Supply
<1>2. <<>> \in Seq(Lines) /\ <<>> \in Seq(Seq(Lines))
  OBVIOUS
<1>3. /\ buffersToWrite' \in Seq(Seq(Lines))
      /\ Len(buffersToWrite') = Len(buffers_) + 1
  BY <1>1 DEF swap
<1>4. Len(buffers_) \in Nat /\ (buffers_ # <<>> => Len(buffers_) >= 1)
  BY <1>1
<1>5. nextBuffer_ = Null => Len(buffersToWrite') >= 2
  BY <1>3, <1>4 DEF Supply
<1>6. nextBuffer_' = <<>>
  BY <1>1, NullIsNoBuffer DEF swap, Supply
<1>7. /\ newbuffer1' = Null /\ newbuffer2' \in {<<>>, Null}
      /\ newbuffer2' = Null => nextBuffer_ = Null
  BY <1>1, NullIsNoBuffer DEF swap
<1>8. currentBuffer_' = <<>> /\ buffers_' = <<>> /\ pc' = "write" /\ next' = 1
  BY <1>1 DEF swap
<1>9. Len(buffersToWrite') >= 1 /\ next' \in 1..(Len(buffersToWrite') + 1)
  BY <1>3, <1>4, <1>8
<1> QED
  BY <1>2, <1>3, <1>5, <1>6, <1>7, <1>8, <1>9, NullIsNoBuffer DEF Supply

\* Every step keeps the supply of buffers.
LEMMA SupplyNext == Supply /\ [Next]_vars => Supply'
<1> SUFFICES ASSUME Supply, [Next]_vars PROVE Supply'
  OBVIOUS
<1>1. ASSUME NEW l \in Lines, append_(l) PROVE Supply'
  <2>1. UNCHANGED <<pc, newbuffer1, newbuffer2, buffersToWrite, next>>
    BY <1>1 DEF append_, backVars
  <2>2. CASE Fits(l) /\ currentBuffer_' = Append(currentBuffer_, l)
             /\ UNCHANGED <<nextBuffer_, buffers_>>
    <3>1. currentBuffer_' \in Seq(Lines)
      BY <2>2 DEF Supply
    <3> QED
      BY <2>1, <2>2, <3>1 DEF Supply
  <2>3. CASE /\ buffers_' = Append(buffers_, currentBuffer_)
             /\ currentBuffer_' = IF nextBuffer_ # Null THEN nextBuffer_ ELSE <<>>
             /\ nextBuffer_' = Null
    <3>1. <<>> \in Seq(Lines)
      OBVIOUS
    <3>2. buffers_' \in Seq(Seq(Lines)) /\ buffers_' # <<>>
      <4>1. currentBuffer_ \in Seq(Lines) /\ buffers_ \in Seq(Seq(Lines))
        BY DEF Supply
      <4>2. ASSUME NEW s \in Seq(Seq(Lines)), NEW b \in Seq(Lines)
            PROVE  Append(s, b) \in Seq(Seq(Lines)) /\ Append(s, b) # <<>>
        OBVIOUS
      <4> QED
        BY <2>3, <4>1, <4>2
    <3>3. currentBuffer_' = <<>> /\ nextBuffer_' = Null
      BY <2>3 DEF Supply
    <3> QED
      BY <2>1, <3>1, <3>2, <3>3 DEF Supply
  <2> QED
    BY <1>1, <2>2, <2>3 DEF append_
<1>2. CASE start
  BY <1>2 DEF start, frontVars, backVars, Supply
<1>3. CASE stop
  BY <1>3 DEF stop, frontVars, backVars, Supply
<1>4. CASE testRunning
  BY <1>4 DEF testRunning, frontVars, backVars, Supply
<1>5. CASE lock
  <2>1. CASE buffers_ = <<>>
    BY <1>5, <2>1 DEF lock, frontVars, backVars, Supply
  <2>2. CASE buffers_ # <<>>
    BY <1>5, <2>2, SwapSupplies DEF lock
  <2> QED
    BY <2>1, <2>2
<1>6. CASE waitReturns
  BY <1>6, SwapSupplies DEF waitReturns
<1>7. CASE writeBuffer
  <2>1. /\ UNCHANGED <<frontVars, pc, newbuffer1, newbuffer2, buffersToWrite>>
        /\ pc = "write" /\ next <= Len(buffersToWrite) /\ next' = next + 1
    BY <1>7 DEF writeBuffer
  <2>2. next \in 1..(Len(buffersToWrite) + 1) /\ Len(buffersToWrite) \in Nat
    BY <2>1 DEF Supply
  <2>3. next' \in 1..(Len(buffersToWrite) + 1)
    BY <2>1, <2>2
  <2> QED
    BY <2>1, <2>3 DEF frontVars, Supply
<1>8. CASE written
  <2>1. /\ UNCHANGED <<frontVars, backVars>>
        /\ pc = "write" /\ pc' = "recycle" /\ next > Len(buffersToWrite)
    BY <1>8 DEF written
  <2>2. next \in 1..(Len(buffersToWrite) + 1) /\ Len(buffersToWrite) \in Nat
    BY <2>1 DEF Supply
  <2>3. next = Len(buffersToWrite) + 1
    BY <2>1, <2>2
  <2> QED
    BY <2>1, <2>3 DEF frontVars, backVars, Supply
<1>9. CASE recycle
  <2>1. /\ pc = "recycle" /\ pc' = "test" /\ buffersToWrite' = <<>> /\ next' = 1
        /\ UNCHANGED <<currentBuffer_, nextBuffer_, buffers_>>
    BY <1>9 DEF recycle, frontVars
  <2>2. <<>> \in Seq(Seq(Lines))
    OBVIOUS
  <2>3. newbuffer1' = <<>> /\ newbuffer2' = <<>>
    BY <1>9, <2>1 DEF recycle, Reset, Supply
  <2> QED
    BY <2>1, <2>2, <2>3 DEF Supply
<1>10. CASE clock
  BY <1>10 DEF clock, frontVars, backVars, Supply
<1>11. CASE abort
  BY <1>11 DEF abort, frontVars, backVars, Supply
<1>12. CASE UNCHANGED vars
  BY <1>12 DEF vars, frontVars, backVars, Supply
<1> QED
  BY <1>1, <1>2, <1>3, <1>4, <1>5, <1>6, <1>7, <1>8, <1>9, <1>10, <1>11, <1>12
  DEF Next, ThreadStep

\* The thread never takes a buffer from an empty vector and append always finds
\* a current buffer (AsyncLogging.cc:27, :49-52, :59-68).
THEOREM BuffersAlwaysSuffice == Spec => []BuffersSuffice
<1>1. Supply => BuffersSuffice
  <2> SUFFICES ASSUME Supply PROVE BuffersSuffice
    OBVIOUS
  <2>1. currentBuffer_ # Null
    BY NullIsNoBuffer DEF Supply
  <2>2. ASSUME pc = "recycle" PROVE Needed <= Len(Spares)
    <3>1. /\ Len(buffersToWrite) \in Nat /\ Len(buffersToWrite) >= 1
          /\ newbuffer2 = Null => Len(buffersToWrite) >= 2
          /\ buffersToWrite \in Seq(Seq(Lines))
      BY <2>2 DEF Supply
    <3>2. CASE Len(buffersToWrite) > 2
      <4>1. Len(SubSeq(buffersToWrite, 1, 2)) = 2
        BY <3>1, <3>2
      <4> QED
        BY <3>2, <4>1 DEF Needed, Spares
    <3>3. CASE ~(Len(buffersToWrite) > 2)
      BY <3>1, <3>3 DEF Needed, Spares
    <3> QED
      BY <3>2, <3>3
  <2> QED
    BY <2>1, <2>2 DEF BuffersSuffice
<1> QED
  BY <1>1, SupplyInit, SupplyNext, PTL DEF Spec

------------------------------------------------------------------------------
(* Types.                                                                   *)

\* the types but for what Supply says of the buffers
OtherTypes ==
    /\ Length(currentBuffer_) <= BufferSize
    /\ running_ \in BOOLEAN
    /\ appended \in 0..NumLines /\ dropped \subseteq Lines
    /\ aborted \in BOOLEAN
    /\ FileTypeOK(Lines)

LEMMA TypesSplit == Supply /\ OtherTypes => TypeOK
<1> SUFFICES ASSUME Supply, OtherTypes PROVE TypeOK
  OBVIOUS
<1>1. <<>> \in Seq(Lines)
  OBVIOUS
<1>2. ASSUME NEW s \in Seq(Seq(Lines)) PROVE s \in Seq(Pointer)
  BY <1>2 DEF Pointer
<1>3. buffers_ \in Seq(Pointer) /\ buffersToWrite \in Seq(Pointer)
  BY <1>2 DEF Supply
<1>4. /\ newbuffer1 \in Pointer /\ newbuffer2 \in Pointer
      /\ nextBuffer_ \in Pointer /\ currentBuffer_ \in Pointer
  BY <1>1 DEF Supply, Pointer
<1>5. next \in Nat
  BY DEF Supply
<1>6. pc \in {"created", "test", "lock", "wait", "write", "recycle", "done"}
  BY DEF Supply
<1> QED
  BY <1>3, <1>4, <1>5, <1>6 DEF OtherTypes, TypeOK

\* What gets to the disk of what the FILE holds, and what does not.
Written(lines, n) == SubSeq(lines, 1, n)
Unwritten(lines, n) == {lines[i] : i \in (n + 1)..Len(lines)}

LEMMA WrittenTypes ==
    ASSUME NEW b \in Seq(Lines), NEW taken \in 0..Len(b)
    PROVE  Written(b, taken) \in Seq(Lines) /\ Unwritten(b, taken) \subseteq Lines
<1>1. Len(b) \in Nat /\ \A i \in 1..Len(b) : b[i] \in Lines
  OBVIOUS
<1>2. Written(b, taken) \in Seq(Lines)
  BY <1>1, SubSeqProperties DEF Written
<1>3. Unwritten(b, taken) \subseteq Lines
  BY <1>1 DEF Unwritten
<1> QED
  BY <1>2, <1>3

LEMMA PeriodType == ASSUME NEW t \in Nat PROVE Period(t) \in Nat
<1>1. kRollPerSeconds_ \in Nat /\ kRollPerSeconds_ > 0
  BY FileAssumption
<1>2. t \div kRollPerSeconds_ \in Nat
  BY <1>1
<1>3. ASSUME NEW a \in Nat, NEW b \in Nat PROVE a * b \in Nat
  OBVIOUS
<1> QED
  BY <1>1, <1>2, <1>3 DEF Period

LEMMA WriteOutTypes ==
    ASSUME disk \in Seq(Lines), failed \subseteq Lines, NEW b \in Seq(Lines),
           NEW most, most <= Len(b), most \in Int, writeOut(b, most)
    PROVE  disk' \in Seq(Lines) /\ unflushed' \in Seq(Lines) /\ failed' \subseteq Lines
<1>1. PICK n \in 0..most : /\ disk' = disk \o Written(b, n)
                          /\ failed' = failed \cup Unwritten(b, n)
                          /\ unflushed' = <<>>
  BY DEF writeOut, Written, Unwritten
<1>2. n \in 0..Len(b)
  OBVIOUS
<1>3. Written(b, n) \in Seq(Lines) /\ Unwritten(b, n) \subseteq Lines
  BY <1>2, WrittenTypes
<1>4. disk' \in Seq(Lines)
  BY <1>1, <1>3, ConcatProperties
<1> QED
  BY <1>1, <1>3, <1>4

LEMMA FlushTypes ==
    ASSUME FileTypeOK(Lines), flush,
           UNCHANGED <<now, count_, startOfPeriod_, lastRoll_, lastFlush_, writtenBytes_>>
    PROVE  FileTypeOK(Lines)'
<1>1. /\ disk \in Seq(Lines) /\ failed \subseteq Lines /\ unflushed \in Seq(Lines)
      /\ Len(unflushed) \in Int
  BY DEF FileTypeOK
<1>2. disk' \in Seq(Lines) /\ unflushed' \in Seq(Lines) /\ failed' \subseteq Lines
  BY <1>1, WriteOutTypes DEF flush
<1> QED
  BY <1>2 DEF FileTypeOK

LEMMA AppendTypes ==
    ASSUME FileTypeOK(Lines), NEW b \in Seq(Lines), NEW error \in BOOLEAN,
           append(b, Length(b), error)
    PROVE  FileTypeOK(Lines)'
<1> DEFINE len == Length(b)
           held == unflushed \o b
           bytes == writtenBytes_ + IF error THEN 0 ELSE len
           atN == ~TooLarge(bytes) /\ count_ + 1 >= checkEveryN_
           roll == TooLarge(bytes) \/ (atN /\ NewDay(now))
           rolled == roll /\ CanRoll(now')
           flushes == now - (IF rolled THEN now' ELSE lastFlush_) > flushInterval_
           most == IF error THEN Len(held) - 1 ELSE Len(held)
<1>1. /\ now' \in now..(IF roll /\ now < MaxTime THEN now + 1 ELSE now)
      /\ count_' = IF atN THEN 0 ELSE Saturate(count_ + 1)
      /\ lastRoll_' = IF rolled THEN now' ELSE lastRoll_
      /\ startOfPeriod_' = IF rolled THEN Period(now') ELSE startOfPeriod_
      /\ writtenBytes_' = IF rolled THEN 0 ELSE bytes
      /\ lastFlush_' = IF flushes THEN now ELSE IF rolled THEN now' ELSE lastFlush_
      /\ IF error \/ rolled \/ flushes THEN writeOut(held, most)
                                       ELSE unflushed' = held /\ UNCHANGED <<disk, failed>>
  BY Zenon DEF append
<1>2. len \in Nat /\ writtenBytes_ \in Nat
  BY Lengths DEF FileTypeOK
<1>3. bytes \in Nat
  <2> HIDE DEF len
  <2> QED
    BY <1>2
<1>4. /\ disk \in Seq(Lines) /\ failed \subseteq Lines /\ held \in Seq(Lines)
      /\ most \in Int /\ most <= Len(held)
  <2>1. unflushed \in Seq(Lines) /\ disk \in Seq(Lines) /\ failed \subseteq Lines
    BY DEF FileTypeOK
  <2>2. held \in Seq(Lines)
    BY <2>1, ConcatProperties
  <2> HIDE DEF held
  <2>3. Len(held) \in Nat
    BY <2>2
  <2> QED
    BY <2>1, <2>2, <2>3
<1> HIDE DEF len, held, bytes, atN, roll, rolled, flushes, most
<1>5. now' \in 1..MaxTime
  BY <1>1, FileAssumption DEF FileTypeOK
<1>6. now \in Nat /\ now' \in Nat /\ Period(now') \in Nat
  BY <1>5, PeriodType, FileAssumption DEF FileTypeOK
<1>7. count_' \in Int
  BY <1>1, FileAssumption DEF FileTypeOK, Saturate
<1>8. disk' \in Seq(Lines) /\ unflushed' \in Seq(Lines) /\ failed' \subseteq Lines
  BY <1>1, <1>4, WriteOutTypes
<1> QED
  BY <1>1, <1>3, <1>5, <1>6, <1>7, <1>8 DEF FileTypeOK

LEMMA TypesInit == Init => OtherTypes
<1> SUFFICES ASSUME Init PROVE OtherTypes
  OBVIOUS
<1>1. <<>> \in Seq(Lines)
  OBVIOUS
<1>2. FileTypeOK(Lines)
  BY <1>1, FileAssumption DEF Init, FileInit, FileTypeOK
<1>3. Length(currentBuffer_) <= BufferSize
  BY BufferAssumption, Lengths DEF Init
<1>4. appended \in 0..NumLines
  BY BufferAssumption DEF Init
<1> QED
  BY <1>2, <1>3, <1>4 DEF Init, OtherTypes

LEMMA TypesNext == Supply /\ OtherTypes /\ [Next]_vars => OtherTypes'
<1> SUFFICES ASSUME Supply, OtherTypes, [Next]_vars PROVE OtherTypes'
  OBVIOUS
<1>1. ASSUME NEW l \in Lines, append_(l) PROVE OtherTypes'
  <2>1. /\ UNCHANGED <<running_, now, fileVars, aborted>>
        /\ appended' = l /\ l \in 0..NumLines
    BY <1>1, BufferAssumption DEF append_, Lines
  <2>2. dropped' \subseteq Lines
    BY <1>1 DEF append_, OtherTypes
  <2>3. Length(currentBuffer_') <= BufferSize
    <3>1. CASE Fits(l) /\ currentBuffer_' = Append(currentBuffer_, l)
      <4>1. /\ Length(currentBuffer_) \in Nat /\ LineSize[l] \in Nat
            /\ Length(currentBuffer_') = Length(currentBuffer_) + LineSize[l]
        BY <3>1, Lengths, LineSizeType DEF Supply
      <4> QED
        BY <3>1, <4>1, BufferAssumption DEF Fits
    <3>2. CASE currentBuffer_' = IF nextBuffer_ # Null THEN nextBuffer_ ELSE <<>>
      <4>1. currentBuffer_' = <<>>
        BY <3>2 DEF Supply
      <4> QED
        BY <4>1, Lengths, BufferAssumption
    <3> QED
      BY <1>1, <3>1, <3>2 DEF append_
  <2> QED
    BY <2>1, <2>2, <2>3 DEF OtherTypes, FileTypeOK, fileVars
<1>2. CASE start
  <2>1. UNCHANGED <<frontVars, lineVars>> /\ running_' = TRUE /\ open
    BY <1>2 DEF start
  <2>2. now \in Nat /\ Period(now) \in Nat
    <3>1. now \in Nat
      BY FileAssumption DEF OtherTypes, FileTypeOK
    <3> QED
      BY <3>1, PeriodType
  <2>3. FileTypeOK(Lines)'
    BY <2>1, <2>2 DEF open, OtherTypes, FileTypeOK
  <2> QED
    BY <2>1, <2>3 DEF OtherTypes, frontVars, lineVars
<1>3. CASE stop \/ abort \/ written
  BY <1>3 DEF stop, abort, written, frontVars, lineVars, fileVars, OtherTypes, FileTypeOK
<1>4. CASE testRunning
  <2>1. UNCHANGED <<running_, frontVars, lineVars, now>>
    BY <1>4 DEF testRunning
  <2>2. FileTypeOK(Lines)'
    BY <1>4, FlushTypes DEF testRunning, fileVars, OtherTypes, FileTypeOK
  <2> QED
    BY <2>1, <2>2 DEF OtherTypes, frontVars, lineVars
<1>5. ASSUME swap, UNCHANGED <<running_, lineVars, now, fileVars>>, pc \in {"lock", "wait"}
      PROVE  OtherTypes'
  <2>1. currentBuffer_' = <<>>
    BY <1>5 DEF swap, Supply
  <2>2. Length(currentBuffer_') <= BufferSize
    BY <2>1, Lengths, BufferAssumption
  <2> QED
    BY <1>5, <2>2 DEF OtherTypes, FileTypeOK, fileVars, lineVars
<1>6. CASE lock
  <2>1. CASE buffers_ = <<>>
    BY <1>6, <2>1 DEF lock, frontVars, lineVars, fileVars, OtherTypes, FileTypeOK
  <2> QED
    BY <1>5, <1>6, <2>1 DEF lock
<1>7. CASE waitReturns
  BY <1>5, <1>7 DEF waitReturns
<1>8. CASE writeBuffer
  <2>1. /\ UNCHANGED <<running_, frontVars, lineVars>>
        /\ pc = "write" /\ next <= Len(buffersToWrite)
    BY <1>8 DEF writeBuffer
  <2>2. buffersToWrite[next] \in Seq(Lines)
    BY <2>1 DEF Supply
  <2>3. FileTypeOK(Lines)'
    <3>1. PICK b \in Seq(Lines) : b = buffersToWrite[next]
      BY <2>2
    <3>2. PICK error \in BOOLEAN : append(b, Length(b), error)
      BY <1>8, <3>1 DEF writeBuffer
    <3> QED
      BY <3>2, AppendTypes DEF OtherTypes
  <2> QED
    BY <2>1, <2>3 DEF OtherTypes, frontVars, lineVars
<1>9. CASE recycle
  <2>1. UNCHANGED <<running_, frontVars, lineVars>>
    BY <1>9 DEF recycle
  <2>2. FileTypeOK(Lines)'
    BY <1>9, FlushTypes DEF recycle, OtherTypes
  <2> QED
    BY <2>1, <2>2 DEF OtherTypes, frontVars, lineVars
<1>10. CASE clock
  <2>1. UNCHANGED <<running_, frontVars, lineVars>>
    BY <1>10 DEF clock
  <2>2. FileTypeOK(Lines)'
    BY <1>10, FileAssumption DEF clock, tick, fileVars, OtherTypes, FileTypeOK
  <2> QED
    BY <2>1, <2>2 DEF OtherTypes, frontVars, lineVars
<1>11. CASE UNCHANGED vars
  BY <1>11 DEF vars, frontVars, lineVars, fileVars, OtherTypes, FileTypeOK
<1> QED
  BY <1>1, <1>2, <1>3, <1>4, <1>6, <1>7, <1>8, <1>9, <1>10, <1>11
  DEF Next, ThreadStep

\* The logger and its file keep their variables in their types; a large buffer
\* never holds more than BufferSize (FixedBuffer.h:23-46, AsyncLogging.cc:24).
THEOREM TypeCorrect == Spec => []TypeOK
<1>1. Init => Supply /\ OtherTypes
  BY SupplyInit, TypesInit
<1>2. Supply /\ OtherTypes /\ [Next]_vars => (Supply /\ OtherTypes)'
  BY SupplyNext, TypesNext
<1> QED
  BY <1>1, <1>2, TypesSplit, PTL DEF Spec

------------------------------------------------------------------------------
(* Order.  What goes through the logger is a sequence of buffers; it is in    *)
(* order if its parts are and each comes before the next.                     *)

Before(S, T) == \A l \in S, m \in T : l < m

Rising(s) == \A i, j \in DOMAIN s : i < j => s[i] < s[j]

\* One sequence behind another.
LEMMA JoinedAt ==
    ASSUME NEW S, NEW s \in Seq(S), NEW t \in Seq(S)
    PROVE  /\ DOMAIN s = 1..Len(s) /\ DOMAIN t = 1..Len(t) /\ DOMAIN (s \o t) = 1..(Len(s) + Len(t))
           /\ Len(s) \in Nat /\ Len(t) \in Nat
           /\ \A i \in 1..Len(s) : i \in DOMAIN (s \o t) /\ (s \o t)[i] = s[i]
           /\ \A i \in 1..Len(t) : Len(s) + i \in DOMAIN (s \o t) /\ (s \o t)[Len(s) + i] = t[i]
           /\ \A i \in DOMAIN (s \o t) :
                 i \in 1..Len(s) \/ \E j \in 1..Len(t) : i = Len(s) + j
<1>1. /\ DOMAIN s = 1..Len(s) /\ DOMAIN t = 1..Len(t) /\ DOMAIN (s \o t) = 1..Len(s \o t)
      /\ Len(s) \in Nat /\ Len(t) \in Nat /\ Len(s \o t) = Len(s) + Len(t)
      /\ \A i \in 1..(Len(s) + Len(t)) :
            (s \o t)[i] = IF i <= Len(s) THEN s[i] ELSE t[i - Len(s)]
  BY ConcatProperties, LenProperties
<1>2. \A i \in 1..Len(s) : i \in DOMAIN (s \o t) /\ (s \o t)[i] = s[i]
  BY <1>1
<1>3. ASSUME NEW i \in 1..Len(t)
      PROVE  Len(s) + i \in DOMAIN (s \o t) /\ (s \o t)[Len(s) + i] = t[i]
  <2>1. Len(s) + i \in 1..(Len(s) + Len(t)) /\ ~(Len(s) + i <= Len(s)) /\ (Len(s) + i) - Len(s) = i
    BY <1>1
  <2> QED
    BY <1>1, <2>1
<1>4. ASSUME NEW i \in DOMAIN (s \o t), i \notin 1..Len(s)
      PROVE  \E j \in 1..Len(t) : i = Len(s) + j
  <2>1. i - Len(s) \in 1..Len(t) /\ i = Len(s) + (i - Len(s))
    BY <1>1, <1>4
  <2> QED
    BY <2>1
<1> QED
  BY <1>1, <1>2, <1>3, <1>4

LEMMA RangeJoined ==
    ASSUME NEW S, NEW s \in Seq(S), NEW t \in Seq(S)
    PROVE  Range(s \o t) = Range(s) \cup Range(t)
<1> DEFINE n == Len(s)
<1>0. /\ DOMAIN s = 1..n /\ DOMAIN t = 1..Len(t)
      /\ \A i \in 1..n : i \in DOMAIN (s \o t) /\ (s \o t)[i] = s[i]
      /\ \A i \in 1..Len(t) : n + i \in DOMAIN (s \o t) /\ (s \o t)[n + i] = t[i]
      /\ \A i \in DOMAIN (s \o t) : i \in 1..n \/ \E j \in 1..Len(t) : i = n + j
  BY JoinedAt
<1> HIDE DEF n
<1>1. ASSUME NEW x \in Range(s \o t) PROVE x \in Range(s) \cup Range(t)
  <2>1. PICK i \in DOMAIN (s \o t) : x = (s \o t)[i]
    BY <1>1 DEF Range
  <2> QED
    BY <1>0, <2>1 DEF Range
<1>2. ASSUME NEW i \in DOMAIN s PROVE s[i] \in Range(s \o t)
  BY <1>0 DEF Range
<1>3. ASSUME NEW i \in DOMAIN t PROVE t[i] \in Range(s \o t)
  BY <1>0 DEF Range
<1>4. Range(s) \cup Range(t) \subseteq Range(s \o t)
  <2> SUFFICES ASSUME NEW x \in Range(s) \cup Range(t) PROVE x \in Range(s \o t)
    OBVIOUS
  <2>1. CASE x \in Range(s)
    <3>1. PICK i \in DOMAIN s : x = s[i]
      BY <2>1 DEF Range
    <3> QED
      BY <1>2, <3>1
  <2>2. CASE x \in Range(t)
    <3>1. PICK i \in DOMAIN t : x = t[i]
      BY <2>2 DEF Range
    <3> QED
      BY <1>3, <3>1
  <2> QED
    BY <2>1, <2>2
<1> QED
  BY <1>1, <1>4

LEMMA RisingJoined ==
    ASSUME NEW s \in Seq(Lines), NEW t \in Seq(Lines)
    PROVE  Rising(s \o t) <=> Rising(s) /\ Rising(t) /\ Before(Range(s), Range(t))
<1> DEFINE n == Len(s)
<1>1. /\ DOMAIN s = 1..n /\ DOMAIN t = 1..Len(t) /\ DOMAIN (s \o t) = 1..(n + Len(t))
      /\ n \in Nat /\ Len(t) \in Nat
      /\ \A i \in 1..n : i \in DOMAIN (s \o t) /\ (s \o t)[i] = s[i]
      /\ \A i \in 1..Len(t) : n + i \in DOMAIN (s \o t) /\ (s \o t)[n + i] = t[i]
      /\ \A i \in DOMAIN (s \o t) : i \in 1..n \/ \E j \in 1..Len(t) : i = n + j
  BY JoinedAt
<1> HIDE DEF n
<1>2. ASSUME Rising(s \o t) PROVE Rising(s) /\ Rising(t) /\ Before(Range(s), Range(t))
  <2>1. Rising(s)
    BY <1>1, <1>2 DEF Rising
  <2>2. Rising(t)
    <3> SUFFICES ASSUME NEW i \in 1..Len(t), NEW j \in 1..Len(t), i < j PROVE t[i] < t[j]
      BY <1>1 DEF Rising
    <3>1. n + i < n + j
      BY <1>1
    <3> QED
      BY <1>1, <1>2, <3>1 DEF Rising
  <2>3. Before(Range(s), Range(t))
    <3> SUFFICES ASSUME NEW i \in 1..n, NEW j \in 1..Len(t) PROVE s[i] < t[j]
      BY <1>1 DEF Before, Range
    <3>1. i < n + j
      BY <1>1
    <3> QED
      BY <1>1, <1>2, <3>1 DEF Rising
  <2> QED
    BY <2>1, <2>2, <2>3
<1>3. ASSUME Rising(s), Rising(t), Before(Range(s), Range(t)) PROVE Rising(s \o t)
  <2> SUFFICES ASSUME NEW i \in DOMAIN (s \o t), NEW j \in DOMAIN (s \o t), i < j
               PROVE  (s \o t)[i] < (s \o t)[j]
    BY DEF Rising
  <2>1. CASE i \in 1..n /\ j \in 1..n
    BY <1>1, <1>3, <2>1 DEF Rising
  <2>2. ASSUME i \in 1..n, NEW k \in 1..Len(t), j = n + k PROVE (s \o t)[i] < (s \o t)[j]
    <3>1. s[i] \in Range(s) /\ t[k] \in Range(t)
      BY <1>1, <2>2 DEF Range
    <3>2. (s \o t)[i] = s[i] /\ (s \o t)[j] = t[k]
      BY <1>1, <2>2
    <3> QED
      BY <1>3, <3>1, <3>2 DEF Before
  <2>3. ASSUME NEW p \in 1..Len(t), i = n + p PROVE (s \o t)[i] < (s \o t)[j]
    <3>1. j \notin 1..n
      BY <1>1, <2>3
    <3>2. PICK q \in 1..Len(t) : j = n + q
      BY <1>1, <3>1
    <3>3. p < q
      BY <1>1, <2>3, <3>2
    <3>4. (s \o t)[i] = t[p] /\ (s \o t)[j] = t[q] /\ p \in DOMAIN t /\ q \in DOMAIN t
      BY <1>1, <2>3, <3>2
    <3> QED
      BY <1>3, <3>3, <3>4 DEF Rising
  <2> QED
    BY <1>1, <2>1, <2>2, <2>3
<1> QED
  BY <1>2, <1>3

LEMMA LinesJoined ==
    ASSUME NEW ps \in Seq(Seq(Lines)), NEW qs \in Seq(Seq(Lines))
    PROVE  LinesOf(ps \o qs) = LinesOf(ps) \cup LinesOf(qs)
<1>1. ASSUME NEW rs, NEW x PROVE x \in LinesOf(rs) <=> \E s \in Range(rs) : x \in Range(s)
  BY DEF LinesOf, Range
<1>2. Range(ps \o qs) = Range(ps) \cup Range(qs)
  BY RangeJoined
<1>3. \A x : x \in LinesOf(ps \o qs) <=> x \in LinesOf(ps) \/ x \in LinesOf(qs)
  BY <1>1, <1>2
<1> QED
  BY <1>3

\* InOrder part by part
LEMMA OrderParts ==
    ASSUME NEW ps \in Seq(Seq(Lines))
    PROVE  InOrder(ps) <=>
              /\ \A p \in DOMAIN ps : Rising(ps[p])
              /\ \A p, q \in DOMAIN ps : p < q => Before(Range(ps[p]), Range(ps[q]))
<1>1. \A p \in DOMAIN ps : p \in Nat /\ ~(p < p)
  OBVIOUS
<1>2. ASSUME InOrder(ps)
      PROVE  /\ \A p \in DOMAIN ps : Rising(ps[p])
             /\ \A p, q \in DOMAIN ps : p < q => Before(Range(ps[p]), Range(ps[q]))
  <2>1. \A p \in DOMAIN ps : Rising(ps[p])
    BY <1>2, Zenon DEF InOrder, Rising
  <2>2. \A p, q \in DOMAIN ps : p < q => Before(Range(ps[p]), Range(ps[q]))
    BY <1>2, Zenon DEF InOrder, Before, Range
  <2> QED
    BY <2>1, <2>2
<1>3. ASSUME \A p \in DOMAIN ps : Rising(ps[p]),
             \A p, q \in DOMAIN ps : p < q => Before(Range(ps[p]), Range(ps[q]))
      PROVE  InOrder(ps)
  BY <1>3 DEF InOrder, Rising, Before, Range
<1> QED
  BY <1>2, <1>3

LEMMA OrderJoined ==
    ASSUME NEW ps \in Seq(Seq(Lines)), NEW qs \in Seq(Seq(Lines))
    PROVE  InOrder(ps \o qs) <=>
              InOrder(ps) /\ InOrder(qs) /\ Before(LinesOf(ps), LinesOf(qs))
<1> DEFINE n == Len(ps)
           m == Len(qs)
<1>1. /\ DOMAIN ps = 1..n /\ DOMAIN qs = 1..m /\ DOMAIN (ps \o qs) = 1..(n + m)
      /\ n \in Nat /\ m \in Nat
      /\ \A i \in 1..n : i \in DOMAIN (ps \o qs) /\ (ps \o qs)[i] = ps[i]
      /\ \A i \in 1..m : n + i \in DOMAIN (ps \o qs) /\ (ps \o qs)[n + i] = qs[i]
      /\ \A i \in DOMAIN (ps \o qs) : i \in 1..n \/ \E j \in 1..m : i = n + j
  BY JoinedAt
<1>2. ps \o qs \in Seq(Seq(Lines))
  BY ConcatProperties
<1> HIDE DEF n, m
<1>3. ASSUME InOrder(ps \o qs)
      PROVE  InOrder(ps) /\ InOrder(qs) /\ Before(LinesOf(ps), LinesOf(qs))
  <2>1. /\ \A p \in DOMAIN (ps \o qs) : Rising((ps \o qs)[p])
        /\ \A p, q \in DOMAIN (ps \o qs) : p < q => Before(Range((ps \o qs)[p]), Range((ps \o qs)[q]))
    BY <1>2, <1>3, OrderParts
  <2>2. InOrder(ps)
    <3>1. \A p \in DOMAIN ps : Rising(ps[p])
      BY <1>1, <2>1
    <3>2. \A p, q \in DOMAIN ps : p < q => Before(Range(ps[p]), Range(ps[q]))
      BY <1>1, <2>1
    <3> QED
      BY <3>1, <3>2, OrderParts
  <2>3. InOrder(qs)
    <3>1. \A p \in DOMAIN qs : Rising(qs[p])
      BY <1>1, <2>1
    <3>2. ASSUME NEW p \in 1..m, NEW q \in 1..m, p < q
          PROVE  Before(Range(qs[p]), Range(qs[q]))
      <4>1. n + p < n + q
        BY <1>1, <3>2
      <4> QED
        BY <1>1, <2>1, <4>1
    <3> QED
      BY <1>1, <3>1, <3>2, OrderParts
  <2>4. ASSUME NEW p \in 1..n, NEW q \in 1..m PROVE Before(Range(ps[p]), Range(qs[q]))
    <3>1. p < n + q
      BY <1>1
    <3> QED
      BY <1>1, <2>1, <3>1
  <2>5. Before(LinesOf(ps), LinesOf(qs))
    <3> SUFFICES ASSUME NEW x \in LinesOf(ps), NEW y \in LinesOf(qs) PROVE x < y
      BY DEF Before
    <3>1. PICK p \in 1..n : x \in Range(ps[p])
      BY <1>1 DEF LinesOf
    <3>2. PICK q \in 1..m : y \in Range(qs[q])
      BY <1>1 DEF LinesOf
    <3> QED
      BY <2>4, <3>1, <3>2 DEF Before
  <2> QED
    BY <2>2, <2>3, <2>5
<1>4. ASSUME InOrder(ps), InOrder(qs), Before(LinesOf(ps), LinesOf(qs))
      PROVE  InOrder(ps \o qs)
  <2>1. /\ \A p \in 1..n : Rising(ps[p])
        /\ \A p, q \in 1..n : p < q => Before(Range(ps[p]), Range(ps[q]))
    BY <1>1, <1>4, OrderParts
  <2>2. /\ \A p \in 1..m : Rising(qs[p])
        /\ \A p, q \in 1..m : p < q => Before(Range(qs[p]), Range(qs[q]))
    BY <1>1, <1>4, OrderParts
  <2>3. \A p \in 1..n, q \in 1..m : Before(Range(ps[p]), Range(qs[q]))
    <3> SUFFICES ASSUME NEW p \in 1..n, NEW q \in 1..m,
                        NEW x \in Range(ps[p]), NEW y \in Range(qs[q])
                 PROVE  x < y
      BY DEF Before
    <3>1. x \in LinesOf(ps) /\ y \in LinesOf(qs)
      BY <1>1 DEF LinesOf
    <3> QED
      BY <1>4, <3>1 DEF Before
  <2>4. \A p \in DOMAIN (ps \o qs) : Rising((ps \o qs)[p])
    BY <1>1, <2>1, <2>2
  <2>5. ASSUME NEW p \in DOMAIN (ps \o qs), NEW q \in DOMAIN (ps \o qs), p < q
        PROVE  Before(Range((ps \o qs)[p]), Range((ps \o qs)[q]))
    <3>1. CASE p \in 1..n /\ q \in 1..n
      BY <1>1, <2>1, <2>5, <3>1
    <3>2. CASE p \in 1..n /\ q \notin 1..n
      BY <1>1, <2>3, <3>2
    <3>3. CASE p \notin 1..n
      <4>1. PICK i \in 1..m : p = n + i
        BY <1>1, <3>3
      <4>2. q \notin 1..n
        BY <1>1, <2>5, <4>1
      <4>3. PICK j \in 1..m : q = n + j
        BY <1>1, <4>2
      <4>4. i < j
        BY <1>1, <2>5, <4>1, <4>3
      <4> QED
        BY <1>1, <2>2, <4>1, <4>3, <4>4
    <3> QED
      BY <3>1, <3>2, <3>3
  <2> QED
    BY <1>2, <2>4, <2>5, OrderParts
<1> QED
  BY <1>3, <1>4

LEMMA OneBuffer ==
    ASSUME NEW s \in Seq(Lines)
    PROVE  /\ <<s>> \in Seq(Seq(Lines)) /\ LinesOf(<<s>>) = Range(s)
           /\ InOrder(<<s>>) <=> Rising(s)
<1>1. /\ <<s>> \in Seq(Seq(Lines)) /\ DOMAIN <<s>> = {1} /\ <<s>>[1] = s
  OBVIOUS
<1>2. LinesOf(<<s>>) = Range(s)
  BY <1>1 DEF LinesOf
<1>3. InOrder(<<s>>) <=> Rising(s)
  <2>1. ~(1 < 1)
    OBVIOUS
  <2>2. PICK ps \in Seq(Seq(Lines)) : ps = <<s>>
    BY <1>1
  <2> QED
    BY <1>1, <2>1, <2>2, OrderParts
<1> QED
  BY <1>1, <1>2, <1>3

LEMMA NoBuffer ==
    /\ <<>> \in Seq(Lines) /\ <<>> \in Seq(Seq(Lines))
    /\ Range(<<>>) = {} /\ Rising(<<>>)
    /\ LinesOf(<<>>) = {} /\ InOrder(<<>>)
<1>1. <<>> \in Seq(Lines) /\ <<>> \in Seq(Seq(Lines)) /\ DOMAIN <<>> = {}
  OBVIOUS
<1>2. Range(<<>>) = {} /\ LinesOf(<<>>) = {}
  BY <1>1 DEF Range, LinesOf
<1>3. Rising(<<>>) /\ InOrder(<<>>)
  BY <1>1 DEF Rising, InOrder
<1> QED
  BY <1>1, <1>2, <1>3

\* F was given to the file, w is being written, b is full and c is the current
\* buffer: they are in order and hold the lines of S
Chain(F, w, b, c, S) ==
    /\ Rising(F) /\ InOrder(w) /\ InOrder(b) /\ Rising(c)
    /\ Before(Range(F), LinesOf(w)) /\ Before(Range(F) \cup LinesOf(w), LinesOf(b))
    /\ Before(Range(F) \cup LinesOf(w) \cup LinesOf(b), Range(c))
    /\ S = Range(F) \cup LinesOf(w) \cup LinesOf(b) \cup Range(c)

\* Places one after the other, both in order.
LEMMA PlacesJoined ==
    ASSUME NEW ps \in Seq(Seq(Lines)), NEW qs \in Seq(Seq(Lines)),
           InOrder(ps), InOrder(qs), Before(LinesOf(ps), LinesOf(qs))
    PROVE  \E pq \in Seq(Seq(Lines)) :
              pq = ps \o qs /\ InOrder(pq) /\ LinesOf(pq) = LinesOf(ps) \cup LinesOf(qs)
<1>1. ps \o qs \in Seq(Seq(Lines))
  BY ConcatProperties
<1>2. InOrder(ps \o qs)
  BY OrderJoined
<1>3. LinesOf(ps \o qs) = LinesOf(ps) \cup LinesOf(qs)
  BY LinesJoined
<1> QED
  BY <1>1, <1>2, <1>3

LEMMA SameTwo ==
    ASSUME NEW S, NEW s \in Seq(S), NEW t \in Seq(S),
           Len(s) = 2, Len(t) = 2, s[1] = t[1], s[2] = t[2]
    PROVE  s = t
<1>1. \A i \in 1..Len(s) : s[i] = t[i]
  OBVIOUS
<1> QED
  BY <1>1, SeqEqual

LEMMA SameOne ==
    ASSUME NEW S, NEW s \in Seq(S), NEW t \in Seq(S),
           Len(s) = 1, Len(t) = 1, s[1] = t[1]
    PROVE  s = t
<1>1. \A i \in 1..Len(s) : s[i] = t[i]
  OBVIOUS
<1> QED
  BY <1>1, SeqEqual

LEMMA OnePlace ==
    ASSUME NEW s \in Seq(Lines), Rising(s)
    PROVE  \E ps \in Seq(Seq(Lines)) : ps = <<s>> /\ InOrder(ps) /\ LinesOf(ps) = Range(s)
BY OneBuffer

LEMMA ChainOfPlaces ==
    ASSUME NEW d \in Seq(Lines), NEW u \in Seq(Lines), NEW w \in Seq(Seq(Lines)),
           NEW b \in Seq(Seq(Lines)), NEW c \in Seq(Lines), NEW S,
           Chain(d \o u, w, b, c, S)
    PROVE  /\ InOrder(<<d, u>> \o w \o b \o <<c>>)
           /\ LinesOf(<<d, u>> \o w \o b \o <<c>>) = S
<1>1. /\ Rising(d) /\ Rising(u) /\ Before(Range(d), Range(u))
      /\ Range(d \o u) = Range(d) \cup Range(u)
  <2>1. Rising(d \o u)
    BY DEF Chain
  <2> QED
    BY <2>1, RisingJoined, RangeJoined
<1>2. PICK pd \in Seq(Seq(Lines)) : pd = <<d>> /\ InOrder(pd) /\ LinesOf(pd) = Range(d)
  BY <1>1, OnePlace
<1>3. PICK pu \in Seq(Seq(Lines)) : pu = <<u>> /\ InOrder(pu) /\ LinesOf(pu) = Range(u)
  BY <1>1, OnePlace
<1>4. PICK du \in Seq(Seq(Lines)) :
          du = pd \o pu /\ InOrder(du) /\ LinesOf(du) = Range(d) \cup Range(u)
  <2>1. Before(LinesOf(pd), LinesOf(pu))
    BY <1>1, <1>2, <1>3
  <2>2. \E pq \in Seq(Seq(Lines)) :
            pq = pd \o pu /\ InOrder(pq) /\ LinesOf(pq) = LinesOf(pd) \cup LinesOf(pu)
    BY <1>2, <1>3, <2>1, PlacesJoined
  <2> QED
    BY <1>2, <1>3, <2>2
<1>5. du = <<d, u>>
  <2>1. du = Append(pd, u)
    <3>1. pd \o <<u>> = Append(pd, u)
      BY AppendIsConcat
    <3> QED
      BY <1>3, <1>4, <3>1
  <2>2. /\ Append(pd, u) \in Seq(Seq(Lines)) /\ Len(Append(pd, u)) = 2
        /\ Append(pd, u)[1] = d /\ Append(pd, u)[2] = u
    BY <1>2, AppendProperties
  <2>3. PICK s \in Seq(Seq(Lines)) : s = <<d, u>> /\ Len(s) = 2 /\ s[1] = d /\ s[2] = u
    <3>1. <<d, u>> \in Seq(Seq(Lines)) /\ Len(<<d, u>>) = 2
      OBVIOUS
    <3> QED
      BY <3>1
  <2> QED
    BY <2>1, <2>2, <2>3, SameTwo
<1>6. PICK duw \in Seq(Seq(Lines)) :
          duw = du \o w /\ InOrder(duw) /\ LinesOf(duw) = Range(d \o u) \cup LinesOf(w)
  <2>1. Before(LinesOf(du), LinesOf(w)) /\ InOrder(w)
    BY <1>1, <1>4 DEF Chain
  <2>2. \E pq \in Seq(Seq(Lines)) :
            pq = du \o w /\ InOrder(pq) /\ LinesOf(pq) = LinesOf(du) \cup LinesOf(w)
    BY <1>4, <2>1, PlacesJoined
  <2> QED
    BY <1>1, <1>4, <2>2
<1>7. PICK duwb \in Seq(Seq(Lines)) :
          /\ duwb = duw \o b /\ InOrder(duwb)
          /\ LinesOf(duwb) = Range(d \o u) \cup LinesOf(w) \cup LinesOf(b)
  <2>1. Before(LinesOf(duw), LinesOf(b)) /\ InOrder(b)
    BY <1>6 DEF Chain
  <2>2. \E pq \in Seq(Seq(Lines)) :
            pq = duw \o b /\ InOrder(pq) /\ LinesOf(pq) = LinesOf(duw) \cup LinesOf(b)
    BY <1>6, <2>1, PlacesJoined
  <2> QED
    BY <1>6, <2>2
<1>8. PICK pc1 \in Seq(Seq(Lines)) : pc1 = <<c>> /\ InOrder(pc1) /\ LinesOf(pc1) = Range(c)
  <2>1. Rising(c)
    BY DEF Chain
  <2> QED
    BY <2>1, OnePlace
<1>9. PICK all \in Seq(Seq(Lines)) :
          all = duwb \o pc1 /\ InOrder(all) /\ LinesOf(all) = S
  <2>1. Before(LinesOf(duwb), LinesOf(pc1))
    BY <1>7, <1>8 DEF Chain
  <2>2. \E pq \in Seq(Seq(Lines)) :
            pq = duwb \o pc1 /\ InOrder(pq) /\ LinesOf(pq) = LinesOf(duwb) \cup LinesOf(pc1)
    BY <1>7, <1>8, <2>1, PlacesJoined
  <2>3. S = LinesOf(duwb) \cup LinesOf(pc1)
    BY <1>7, <1>8 DEF Chain
  <2> QED
    BY <2>2, <2>3
<1>10. all = <<d, u>> \o w \o b \o <<c>>
  BY <1>5, <1>6, <1>7, <1>8, <1>9, Zenon
<1> QED
  BY <1>9, <1>10, Zenon

\* A line that is later than all others goes to the end.
LEMMA LineAdded ==
    ASSUME NEW F, NEW w, NEW b, NEW c \in Seq(Lines), NEW S, Chain(F, w, b, c, S),
           NEW l \in Lines, \A k \in S : k < l
    PROVE  Chain(F, w, b, Append(c, l), S \cup {l})
<1>1. /\ <<l>> \in Seq(Lines) /\ Range(<<l>>) = {l} /\ Append(c, l) = c \o <<l>>
  <2>1. <<l>> \in Seq(Lines) /\ DOMAIN <<l>> = {1} /\ <<l>>[1] = l /\ Append(c, l) = c \o <<l>>
    OBVIOUS
  <2> QED
    BY <2>1 DEF Range
<1>2. Rising(<<l>>)
  BY DEF Rising
<1>3. Before(S, {l})
  BY DEF Before
<1>4. Rising(Append(c, l)) /\ Range(Append(c, l)) = Range(c) \cup {l}
  <2>1. Before(Range(c), {l})
    BY <1>3 DEF Before, Chain
  <2>2. PICK one \in Seq(Lines) :
            /\ one = <<l>> /\ Range(one) = {l} /\ Rising(one) /\ Append(c, l) = c \o one
    BY <1>1, <1>2
  <2>3. Rising(c)
    BY DEF Chain
  <2>4. Rising(c \o one) /\ Range(c \o one) = Range(c) \cup {l}
    <3>1. Rising(c \o one)
      BY <2>1, <2>2, <2>3, RisingJoined
    <3>2. Range(c \o one) = Range(c) \cup Range(one)
      BY RangeJoined
    <3> QED
      BY <2>2, <3>1, <3>2
  <2> QED
    BY <2>2, <2>4
<1> QED
  BY <1>3, <1>4 DEF Chain, Before

\* The current buffer becomes the last of the full ones.
LEMMA BufferFull ==
    ASSUME NEW F, NEW w, NEW b \in Seq(Seq(Lines)), NEW c \in Seq(Lines), NEW S,
           Chain(F, w, b, c, S)
    PROVE  /\ Chain(F, w, Append(b, c), <<>>, S)
           /\ w = <<>> => Chain(F, Append(b, c), <<>>, <<>>, S)
<1>1. Append(b, c) = b \o <<c>>
  OBVIOUS
<1>2. InOrder(Append(b, c)) /\ LinesOf(Append(b, c)) = LinesOf(b) \cup Range(c)
  <2>1. Before(LinesOf(b), Range(c))
    BY DEF Chain, Before
  <2>2. InOrder(b) /\ Rising(c)
    BY DEF Chain
  <2>3. PICK one \in Seq(Seq(Lines)) : one = <<c>> /\ InOrder(one) /\ LinesOf(one) = Range(c)
    BY <2>2, OnePlace
  <2>4. \E bc \in Seq(Seq(Lines)) :
            bc = b \o one /\ InOrder(bc) /\ LinesOf(bc) = LinesOf(b) \cup LinesOf(one)
    BY <2>1, <2>2, <2>3, PlacesJoined
  <2> QED
    BY <1>1, <2>3, <2>4
<1> QED
  BY <1>2, NoBuffer DEF Chain, Before

\* The first of the buffers is given to the file.
LEMMA BufferGiven ==
    ASSUME NEW F \in Seq(Lines), NEW x \in Seq(Lines), NEW w \in Seq(Seq(Lines)),
           NEW b, NEW c, NEW S, Chain(F, <<x>> \o w, b, c, S)
    PROVE  Chain(F \o x, w, b, c, S)
<1>1. /\ Rising(x) /\ InOrder(w) /\ Before(Range(x), LinesOf(w))
      /\ LinesOf(<<x>> \o w) = Range(x) \cup LinesOf(w)
  <2>1. PICK one \in Seq(Seq(Lines)) :
            one = <<x>> /\ LinesOf(one) = Range(x) /\ (InOrder(one) <=> Rising(x))
    BY OneBuffer
  <2>2. InOrder(one \o w)
    BY <2>1 DEF Chain
  <2>3. InOrder(one) /\ InOrder(w) /\ Before(LinesOf(one), LinesOf(w))
    BY <2>2, OrderJoined
  <2>4. LinesOf(one \o w) = LinesOf(one) \cup LinesOf(w)
    BY LinesJoined
  <2> QED
    BY <2>1, <2>3, <2>4
<1>2. Rising(F \o x) /\ Range(F \o x) = Range(F) \cup Range(x)
  <2>1. Before(Range(F), Range(x)) /\ Rising(F)
    BY <1>1 DEF Chain, Before
  <2> QED
    BY <1>1, <2>1, RisingJoined, RangeJoined
<1>3. /\ Before(Range(F \o x), LinesOf(w)) /\ Before(Range(F \o x) \cup LinesOf(w), LinesOf(b))
      /\ Before(Range(F \o x) \cup LinesOf(w) \cup LinesOf(b), Range(c))
      /\ S = Range(F \o x) \cup LinesOf(w) \cup LinesOf(b) \cup Range(c)
  BY <1>1, <1>2 DEF Chain, Before
<1> QED
  BY <1>1, <1>2, <1>3 DEF Chain

\* The last lines given to the file are lost.
LEMMA LastLost ==
    ASSUME NEW F \in Seq(Lines), NEW p \in Seq(Lines), NEW r \in Seq(Lines),
           NEW w, NEW b, NEW c, NEW S, Chain(F \o (p \o r), w, b, c, S)
    PROVE  Chain(F \o p, w, b, c, S \ Range(r)) /\ Range(r) \subseteq S
<1>1. PICK fp \in Seq(Lines) : fp = F \o p
  BY ConcatProperties
<1>2. F \o (p \o r) = fp \o r
  BY <1>1, ConcatAssociative
<1>3. /\ Rising(fp) /\ Before(Range(fp), Range(r))
      /\ Range(fp \o r) = Range(fp) \cup Range(r)
  <2>1. Rising(fp \o r)
    BY <1>2 DEF Chain
  <2> QED
    BY <2>1, RisingJoined, RangeJoined
<1>4. Chain(fp \o r, w, b, c, S)
  BY <1>2
<1>5. \A l \in Range(r) : ~(l < l)
  <2>1. \A l \in Range(r) : l \in Lines
    BY DEF Range
  <2> QED
    BY <2>1 DEF Lines
<1>6. S \ Range(r) = Range(fp) \cup LinesOf(w) \cup LinesOf(b) \cup Range(c)
  BY <1>3, <1>4, <1>5 DEF Chain, Before
<1>7. Chain(fp, w, b, c, S \ Range(r))
  BY <1>3, <1>4, <1>6 DEF Chain, Before
<1>8. Range(r) \subseteq S
  BY <1>3, <1>4 DEF Chain
<1> QED
  BY <1>1, <1>7, <1>8

\* Lines are what is written of them and the rest.
LEMMA SplitBuffer ==
    ASSUME NEW x \in Seq(Lines), NEW taken \in 0..Len(x)
    PROVE  \E p, r \in Seq(Lines) :
              p = Written(x, taken) /\ x = p \o r /\ Range(r) = Unwritten(x, taken)
<1> DEFINE r == SubSeq(x, taken + 1, Len(x))
<1>1. Len(x) \in Nat /\ taken \in Nat /\ \A i \in 1..Len(x) : x[i] \in Lines
  OBVIOUS
<1>2. SubSeq(x, 1, taken) \in Seq(Lines)
  BY <1>1, SubSeqProperties
<1>3. /\ r \in Seq(Lines)
      /\ Len(r) = IF taken + 1 <= Len(x) THEN Len(x) - taken ELSE 0
      /\ \A i \in 1..(Len(x) - taken) : r[i] = x[taken + i]
  <2>1. /\ SubSeq(x, taken + 1, Len(x)) \in Seq(Lines)
        /\ Len(SubSeq(x, taken + 1, Len(x))) = IF taken + 1 <= Len(x) THEN Len(x) - taken ELSE 0
        /\ \A i \in 1..(Len(x) - taken) : SubSeq(x, taken + 1, Len(x))[i] = x[taken + i]
    BY <1>1, SubSeqProperties
  <2> QED
    BY <2>1
<1>4. SubSeq(x, 1, taken) \o r = x
  <2>1. 1 \in 1..(Len(x) + 1) /\ taken \in (1 - 1)..Len(x) /\ Len(x) \in taken..Len(x)
    BY <1>1
  <2>2. SubSeq(x, 1, taken) \o SubSeq(x, taken + 1, Len(x)) = SubSeq(x, 1, Len(x))
    BY <2>1, ConcatAdjacentSubSeq, Zenon
  <2> QED
    BY <2>2, SubSeqFull
<1>5. Range(r) = Unwritten(x, taken)
  <2> HIDE DEF r
  <2>1. DOMAIN r = 1..(Len(x) - taken)
    BY <1>1, <1>3
  <2>2. ASSUME NEW i \in 1..(Len(x) - taken) PROVE r[i] \in Unwritten(x, taken)
    <3>1. taken + i \in (taken + 1)..Len(x)
      BY <1>1
    <3> QED
      BY <1>3, <3>1 DEF Unwritten
  <2>3. ASSUME NEW i \in (taken + 1)..Len(x) PROVE x[i] \in Range(r)
    <3>1. i - taken \in 1..(Len(x) - taken) /\ taken + (i - taken) = i
      BY <1>1
    <3>2. r[i - taken] = x[i]
      BY <1>3, <3>1
    <3> QED
      BY <2>1, <3>1, <3>2 DEF Range
  <2> QED
    BY <2>1, <2>2, <2>3 DEF Range, Unwritten
<1> QED
  BY <1>2, <1>3, <1>4, <1>5 DEF Written

\* The buffers from one on.
LEMMA FromOne ==
    ASSUME NEW s \in Seq(Seq(Lines)), NEW i \in 1..Len(s)
    PROVE  /\ s[i] \in Seq(Lines)
           /\ SubSeq(s, i + 1, Len(s)) \in Seq(Seq(Lines))
           /\ SubSeq(s, i, Len(s)) = <<s[i]>> \o SubSeq(s, i + 1, Len(s))
<1>1. Len(s) \in Nat /\ \A j \in 1..Len(s) : s[j] \in Seq(Lines)
  OBVIOUS
<1>2. SubSeq(s, i + 1, Len(s)) \in Seq(Seq(Lines))
  BY <1>1, SubSeqProperties
<1>3. SubSeq(s, i, i) = <<s[i]>>
  <2>1. PICK x \in Seq(Lines) : x = s[i]
    BY <1>1
  <2>2. /\ SubSeq(s, i, i) \in Seq(Seq(Lines)) /\ Len(SubSeq(s, i, i)) = 1
        /\ SubSeq(s, i, i)[1] = s[i]
    BY <1>1, SubSeqProperties
  <2>3. <<x>> \in Seq(Seq(Lines)) /\ Len(<<x>>) = 1 /\ <<x>>[1] = x
    OBVIOUS
  <2>4. PICK one \in Seq(Seq(Lines)) : one = <<x>> /\ Len(one) = 1 /\ one[1] = x
    BY <2>3
  <2>5. PICK sub \in Seq(Seq(Lines)) : sub = SubSeq(s, i, i) /\ Len(sub) = 1 /\ sub[1] = x
    BY <2>1, <2>2
  <2>6. sub = one
    BY <2>4, <2>5, SameOne
  <2> QED
    BY <2>1, <2>4, <2>5, <2>6
<1>4. SubSeq(s, i, i) \o SubSeq(s, i + 1, Len(s)) = SubSeq(s, i, Len(s))
  <2>1. i \in 1..(Len(s) + 1) /\ i \in (i - 1)..Len(s) /\ Len(s) \in i..Len(s)
    BY <1>1
  <2> QED
    BY <2>1, ConcatAdjacentSubSeq, Zenon
<1> QED
  BY <1>1, <1>2, <1>3, <1>4

\* What the file got and what waits to be written.
ToFile == disk \o unflushed
Waiting == SubSeq(buffersToWrite, next, Len(buffersToWrite))

LEMMA WaitingTypes ==
    ASSUME Supply, OtherTypes
    PROVE  /\ disk \in Seq(Lines) /\ unflushed \in Seq(Lines) /\ ToFile \in Seq(Lines)
           /\ Waiting \in Seq(Seq(Lines))
           /\ pc # "write" => Waiting = <<>>
<1>1. disk \in Seq(Lines) /\ unflushed \in Seq(Lines)
  BY DEF OtherTypes, FileTypeOK
<1>2. ToFile \in Seq(Lines)
  BY <1>1, ConcatProperties DEF ToFile
<1>3. /\ buffersToWrite \in Seq(Seq(Lines)) /\ Len(buffersToWrite) \in Nat
      /\ next \in 1..(Len(buffersToWrite) + 1)
  <2>1. buffersToWrite \in Seq(Seq(Lines)) /\ Len(buffersToWrite) \in Nat
    BY DEF Supply
  <2>2. buffersToWrite = <<>> /\ next = 1 => next \in 1..(Len(buffersToWrite) + 1)
    OBVIOUS
  <2> QED
    BY <2>1, <2>2 DEF Supply
<1>4. Waiting \in Seq(Seq(Lines))
  <2>1. \A i \in next..Len(buffersToWrite) : buffersToWrite[i] \in Seq(Lines)
    BY <1>3
  <2> QED
    BY <1>3, <2>1, SubSeqProperties DEF Waiting
<1>5. ASSUME pc # "write" PROVE Waiting = <<>>
  <2>1. next = Len(buffersToWrite) + 1
    <3>1. buffersToWrite = <<>> => Len(buffersToWrite) = 0
      OBVIOUS
    <3> QED
      BY <1>5, <3>1 DEF Supply
  <2>2. Len(buffersToWrite) < next /\ next \in Int /\ Len(buffersToWrite) \in Int
    BY <1>3, <2>1
  <2> QED
    BY <2>2, SubSeqEmpty DEF Waiting
<1> QED
  BY <1>1, <1>2, <1>4, <1>5

\* Every line that was taken in and not lost is in one place, in order.
Order ==
    /\ failed \subseteq 1..appended /\ dropped \subseteq 1..appended
    /\ Chain(ToFile, Waiting, buffers_, currentBuffer_, Accepted \ failed)

LEMMA OrderInit == Init => Order
<1> SUFFICES ASSUME Init PROVE Order
  OBVIOUS
<1>1. ToFile = <<>> /\ buffers_ = <<>> /\ currentBuffer_ = <<>>
  <2>1. <<>> \o <<>> = <<>>
    BY NoBuffer, ConcatEmptySeq
  <2> QED
    BY <2>1 DEF Init, FileInit, ToFile
<1>2. Waiting = <<>>
  BY SubSeqEmpty DEF Init, Waiting
<1>3. 1..appended = {} /\ failed = {} /\ dropped = {}
  BY DEF Init, FileInit
<1>4. Accepted \ failed = {}
  BY <1>3 DEF Accepted
<1> QED
  BY <1>1, <1>2, <1>3, <1>4, NoBuffer DEF Order, Chain, Before

\* What neither appends nor takes a line changes nothing.
LEMMA OrderStays ==
    ASSUME Order, UNCHANGED <<ToFile, Waiting, buffers_, currentBuffer_, appended, dropped, failed>>
    PROVE  Order'
<1>1. Accepted' = Accepted
  BY DEF Accepted
<1> QED
  BY <1>1 DEF Order

\* Writing out what the file was given loses the last of it at most.
LEMMA OutKeepsChain ==
    ASSUME disk \in Seq(Lines), NEW held \in Seq(Lines), NEW most \in Int, most <= Len(held),
           writeOut(held, most), NEW w, NEW b, NEW c, NEW S, Chain(disk \o held, w, b, c, S)
    PROVE  \E lost \in SUBSET S : failed' = failed \cup lost /\ Chain(ToFile', w, b, c, S \ lost)
<1>1. PICK n \in 0..most : /\ disk' = disk \o Written(held, n)
                          /\ failed' = failed \cup Unwritten(held, n)
                          /\ unflushed' = <<>>
  BY DEF writeOut, Written, Unwritten
<1>2. n \in 0..Len(held)
  OBVIOUS
<1>3. PICK p \in Seq(Lines), r \in Seq(Lines) :
          p = Written(held, n) /\ held = p \o r /\ Range(r) = Unwritten(held, n)
  BY <1>2, SplitBuffer
<1>4. Chain(disk \o p, w, b, c, S \ Range(r)) /\ Range(r) \subseteq S
  <2>1. Chain(disk \o (p \o r), w, b, c, S)
    BY <1>3
  <2> QED
    BY <2>1, LastLost
<1>5. ToFile' = disk \o p
  <2>1. disk \o p \in Seq(Lines)
    BY ConcatProperties
  <2>2. (disk \o p) \o <<>> = disk \o p
    BY <2>1, ConcatEmptySeq
  <2> QED
    BY <1>1, <1>3, <2>2, Zenon DEF ToFile
<1> QED
  BY <1>1, <1>3, <1>4, <1>5, Zenon

\* The lines that are lost leave the order.
LEMMA LossKeepsOrder ==
    ASSUME failed \subseteq 1..appended, dropped \subseteq 1..appended,
           NEW lost \in SUBSET (Accepted \ failed), failed' = failed \cup lost,
           Chain(ToFile', Waiting', buffers_, currentBuffer_, (Accepted \ failed) \ lost),
           UNCHANGED <<buffers_, currentBuffer_, appended, dropped>>
    PROVE  Order'
<1>1. Accepted' = Accepted /\ Accepted \subseteq 1..appended
  BY DEF Accepted
<1>2. Accepted' \ failed' = (Accepted \ failed) \ lost
  BY <1>1
<1>3. failed' \subseteq 1..appended' /\ dropped' \subseteq 1..appended'
  BY <1>1
<1>4. Chain(ToFile', Waiting', buffers_', currentBuffer_', Accepted' \ failed')
  BY <1>2, Zenon
<1> QED
  BY <1>3, <1>4, Zenon DEF Order

LEMMA FlushKeepsOrder ==
    ASSUME disk \in Seq(Lines), unflushed \in Seq(Lines), Order, flush,
           UNCHANGED <<Waiting, buffers_, currentBuffer_, appended, dropped>>
    PROVE  Order'
<1>1. /\ failed \subseteq 1..appended /\ dropped \subseteq 1..appended
      /\ Chain(disk \o unflushed, Waiting, buffers_, currentBuffer_, Accepted \ failed)
  BY DEF Order, ToFile
<1>2. Len(unflushed) \in Int /\ Len(unflushed) <= Len(unflushed)
  OBVIOUS
<1>3. writeOut(unflushed, Len(unflushed))
  BY DEF flush
<1>4. PICK lost \in SUBSET (Accepted \ failed) :
          /\ failed' = failed \cup lost
          /\ Chain(ToFile', Waiting, buffers_, currentBuffer_, (Accepted \ failed) \ lost)
  <2>1. PICK most \in Int : most = Len(unflushed) /\ most <= Len(unflushed)
    BY <1>2
  <2>2. writeOut(unflushed, most)
    BY <1>3, <2>1, Zenon
  <2>3. PICK w, b, c, S : w = Waiting /\ b = buffers_ /\ c = currentBuffer_ /\ S = Accepted \ failed
    OBVIOUS
  <2>4. Chain(disk \o unflushed, w, b, c, S)
    BY <1>1, <2>3, Zenon
  <2>5. \E lost \in SUBSET S : failed' = failed \cup lost /\ Chain(ToFile', w, b, c, S \ lost)
    BY <2>1, <2>2, <2>4, OutKeepsChain
  <2> QED
    BY <2>3, <2>5, Zenon
<1> QED
  BY <1>1, <1>4, LossKeepsOrder

\* A line that fits is the last one; one that does not fit is dropped.
LEMMA AppendKeepsOrder ==
    ASSUME Supply, OtherTypes, Order, NEW l \in Lines, append_(l)
    PROVE  Order'
<1>1. /\ l = appended + 1 /\ appended' = l /\ appended \in Nat
      /\ currentBuffer_ \in Seq(Lines) /\ buffers_ \in Seq(Seq(Lines))
  BY DEF append_, Supply, OtherTypes
<1>2. UNCHANGED <<ToFile, Waiting, failed>>
  BY DEF append_, backVars, fileVars, ToFile, Waiting
<1>3. 1..appended' = 1..appended \cup {l} /\ l \notin 1..appended
  BY <1>1
<1>4. failed' \subseteq 1..appended' /\ l \notin failed /\ l \notin dropped
  BY <1>2, <1>3 DEF Order
<1>5. CASE currentBuffer_' = Append(currentBuffer_, l) /\ UNCHANGED <<buffers_, dropped>>
  <2>1. Accepted' \ failed' = (Accepted \ failed) \cup {l}
    BY <1>2, <1>3, <1>4, <1>5 DEF Accepted
  <2>2. \A k \in Accepted \ failed : k < l
    BY <1>1 DEF Accepted
  <2>3. Chain(ToFile, Waiting, buffers_, Append(currentBuffer_, l), (Accepted \ failed) \cup {l})
    BY <1>1, <2>2, LineAdded DEF Order
  <2>4. dropped' \subseteq 1..appended'
    BY <1>3, <1>5 DEF Order
  <2> QED
    BY <1>2, <1>4, <1>5, <2>1, <2>3, <2>4 DEF Order
<1>6. CASE /\ buffers_' = Append(buffers_, currentBuffer_)
           /\ currentBuffer_' = IF nextBuffer_ # Null THEN nextBuffer_ ELSE <<>>
           /\ dropped' = dropped \cup {l}
  <2>1. Accepted' \ failed' = Accepted \ failed
    BY <1>2, <1>3, <1>4, <1>6 DEF Accepted
  <2>2. currentBuffer_' = <<>>
    BY <1>6 DEF Supply
  <2>3. Chain(ToFile, Waiting, Append(buffers_, currentBuffer_), <<>>, Accepted \ failed)
    BY <1>1, BufferFull DEF Order
  <2>4. dropped' \subseteq 1..appended'
    BY <1>3, <1>6 DEF Order
  <2> QED
    BY <1>2, <1>4, <1>6, <2>1, <2>2, <2>3, <2>4 DEF Order
<1> QED
  BY <1>5, <1>6 DEF append_

\* The swap takes the full buffers and the current one, when nothing waits.
LEMMA SwapKeepsOrder ==
    ASSUME Supply, OtherTypes, Order, pc \in {"lock", "wait"}, swap,
           UNCHANGED <<lineVars, fileVars>>
    PROVE  Order'
<1>1. /\ currentBuffer_ \in Seq(Lines) /\ buffers_ \in Seq(Seq(Lines))
      /\ newbuffer1 = <<>> /\ buffersToWrite = <<>>
  BY DEF Supply
<1>2. Waiting = <<>>
  BY WaitingTypes
<1>3. /\ UNCHANGED <<ToFile, appended, dropped, failed>>
      /\ buffers_' = <<>> /\ currentBuffer_' = <<>>
  BY <1>1 DEF swap, lineVars, fileVars, ToFile
<1>4. Waiting' = Append(buffers_, currentBuffer_)
  <2>1. Append(buffers_, currentBuffer_) \in Seq(Seq(Lines))
    BY <1>1, AppendProperties
  <2>2. PICK all \in Seq(Seq(Lines)) : all = Append(buffers_, currentBuffer_)
    BY <2>1
  <2>3. Waiting' = SubSeq(all, 1, Len(all))
    BY <2>2 DEF Waiting, swap
  <2> QED
    BY <2>2, <2>3, SubSeqFull
<1>5. Accepted' = Accepted
  BY <1>3 DEF Accepted
<1>6. Chain(ToFile, Append(buffers_, currentBuffer_), <<>>, <<>>, Accepted \ failed)
  BY <1>1, <1>2, BufferFull DEF Order
<1> QED
  BY <1>3, <1>4, <1>5, <1>6 DEF Order

\* A buffer goes to the file but for the lines that an error loses.
LEMMA WriteKeepsOrder ==
    ASSUME Supply, OtherTypes, Order, writeBuffer
    PROVE  Order'
<1>1. /\ UNCHANGED <<frontVars, buffersToWrite, lineVars>>
      /\ pc = "write" /\ next <= Len(buffersToWrite) /\ next' = next + 1
  BY DEF writeBuffer
<1>2. buffersToWrite \in Seq(Seq(Lines)) /\ next \in 1..Len(buffersToWrite)
  <2>1. buffersToWrite \in Seq(Seq(Lines)) /\ Len(buffersToWrite) \in Nat
    BY DEF Supply
  <2> QED
    BY <1>1, <2>1 DEF Supply
<1>3. disk \in Seq(Lines) /\ unflushed \in Seq(Lines) /\ ToFile \in Seq(Lines)
  BY WaitingTypes
<1>4. PICK b \in Seq(Lines), rest \in Seq(Seq(Lines)) :
          /\ b = buffersToWrite[next] /\ Waiting = <<b>> \o rest
          /\ rest = SubSeq(buffersToWrite, next + 1, Len(buffersToWrite))
  BY <1>2, FromOne DEF Waiting
<1>5. Waiting' = rest
  BY <1>1, <1>4 DEF Waiting
<1>6. PICK error \in BOOLEAN : append(b, Length(b), error)
  BY <1>4 DEF writeBuffer
<1>7. PICK held \in Seq(Lines) : held = unflushed \o b /\ ToFile \o b = disk \o held
  <2>1. unflushed \o b \in Seq(Lines)
    BY <1>3, ConcatProperties
  <2>2. (disk \o unflushed) \o b = disk \o (unflushed \o b)
    BY <1>3, ConcatAssociative
  <2> QED
    BY <2>1, <2>2, Zenon DEF ToFile
<1>8. /\ failed \subseteq 1..appended /\ dropped \subseteq 1..appended
      /\ Chain(disk \o held, rest, buffers_, currentBuffer_, Accepted \ failed)
  <2>1. Chain(ToFile, <<b>> \o rest, buffers_, currentBuffer_, Accepted \ failed)
    BY <1>4 DEF Order
  <2>2. Chain(ToFile \o b, rest, buffers_, currentBuffer_, Accepted \ failed)
    BY <1>3, <2>1, BufferGiven
  <2> QED
    BY <1>7, <2>2 DEF Order
<1>9. \/ \E most \in Int : most <= Len(held) /\ writeOut(held, most)
      \/ unflushed' = held /\ UNCHANGED <<disk, failed>>
  <2>1. Len(held) \in Int /\ Len(held) - 1 \in Int /\ Len(held) - 1 <= Len(held)
    OBVIOUS
  <2>2. \/ writeOut(held, IF error THEN Len(held) - 1 ELSE Len(held))
        \/ unflushed' = held /\ UNCHANGED <<disk, failed>>
    BY <1>6, <1>7, Zenon DEF append
  <2> QED
    BY <2>1, <2>2
<1>10. PICK lost \in SUBSET (Accepted \ failed) :
           /\ failed' = failed \cup lost
           /\ Chain(ToFile', rest, buffers_, currentBuffer_, (Accepted \ failed) \ lost)
  <2>1. CASE unflushed' = held /\ UNCHANGED <<disk, failed>>
    <3>1. ToFile' = disk \o held
      BY <2>1, Zenon DEF ToFile
    <3>2. failed' = failed \cup {} /\ (Accepted \ failed) \ {} = Accepted \ failed
      BY <2>1
    <3> QED
      BY <1>8, <3>1, <3>2
  <2>2. ASSUME NEW most \in Int, most <= Len(held), writeOut(held, most)
        PROVE  \E lost \in SUBSET (Accepted \ failed) :
                  /\ failed' = failed \cup lost
                  /\ Chain(ToFile', rest, buffers_, currentBuffer_, (Accepted \ failed) \ lost)
    <3>1. PICK b1, c, S : b1 = buffers_ /\ c = currentBuffer_ /\ S = Accepted \ failed
      OBVIOUS
    <3>2. Chain(disk \o held, rest, b1, c, S)
      BY <1>8, <3>1, Zenon
    <3>3. \E lost \in SUBSET S :
              failed' = failed \cup lost /\ Chain(ToFile', rest, b1, c, S \ lost)
      BY <1>3, <2>2, <3>2, OutKeepsChain
    <3> QED
      BY <3>1, <3>3, Zenon
  <2> QED
    BY <1>9, <2>1, <2>2
<1> QED
  BY <1>1, <1>5, <1>8, <1>10, LossKeepsOrder DEF frontVars, lineVars

LEMMA OrderNext == Supply /\ OtherTypes /\ Order /\ [Next]_vars => Order'
<1> SUFFICES ASSUME Supply, OtherTypes, Order, [Next]_vars PROVE Order'
  OBVIOUS
<1>1. disk \in Seq(Lines) /\ unflushed \in Seq(Lines) /\ (pc # "write" => Waiting = <<>>)
  BY WaitingTypes
<1>2. ASSUME UNCHANGED <<frontVars, backVars, lineVars, fileVars>> PROVE Order'
  BY <1>2, OrderStays DEF frontVars, backVars, lineVars, fileVars, ToFile, Waiting
<1>3. ASSUME NEW l \in Lines, append_(l) PROVE Order'
  BY <1>3, AppendKeepsOrder
<1>4. CASE start
  <2>1. UNCHANGED <<ToFile, Waiting, buffers_, currentBuffer_, appended, dropped, failed>>
    BY <1>4 DEF start, open, frontVars, backVars, lineVars, ToFile, Waiting
  <2> QED
    BY <2>1, OrderStays
<1>5. CASE stop \/ abort \/ written \/ clock
  <2>1. UNCHANGED <<ToFile, Waiting, buffers_, currentBuffer_, appended, dropped, failed>>
    BY <1>5 DEF stop, abort, written, clock, tick, frontVars, backVars, lineVars, fileVars,
                ToFile, Waiting
  <2> QED
    BY <2>1, OrderStays
<1>6. CASE testRunning
  <2>1. UNCHANGED <<Waiting, buffers_, currentBuffer_, appended, dropped>>
    BY <1>6 DEF testRunning, frontVars, backVars, lineVars, Waiting
  <2>2. CASE UNCHANGED fileVars
    <3>1. UNCHANGED <<ToFile, failed>>
      BY <2>2 DEF fileVars, ToFile
    <3> QED
      BY <2>1, <3>1, OrderStays
  <2>3. CASE flush
    BY <1>1, <2>1, <2>3, FlushKeepsOrder
  <2> QED
    BY <1>6, <2>2, <2>3 DEF testRunning
<1>7. CASE lock
  <2>1. CASE buffers_ = <<>>
    BY <1>2, <1>7, <2>1 DEF lock
  <2>2. CASE buffers_ # <<>>
    BY <1>7, <2>2, SwapKeepsOrder DEF lock
  <2> QED
    BY <2>1, <2>2
<1>8. CASE waitReturns
  BY <1>8, SwapKeepsOrder DEF waitReturns
<1>9. CASE writeBuffer
  BY <1>9, WriteKeepsOrder
<1>10. CASE recycle
  <2>1. UNCHANGED <<buffers_, currentBuffer_, appended, dropped>>
    BY <1>10 DEF recycle, frontVars, lineVars
  <2>2. flush
    BY <1>10 DEF recycle
  <2>3. Waiting' = Waiting
    <3>1. Waiting = <<>>
      BY <1>1, <1>10 DEF recycle
    <3>2. buffersToWrite' = <<>> /\ next' = 1
      BY <1>10 DEF recycle
    <3>3. SubSeq(<<>>, 1, Len(<<>>)) = <<>>
      BY NoBuffer, SubSeqFull
    <3> QED
      BY <3>1, <3>2, <3>3 DEF Waiting
  <2> QED
    BY <1>1, <2>1, <2>2, <2>3, FlushKeepsOrder
<1>11. CASE UNCHANGED vars
  BY <1>2, <1>11 DEF vars
<1> QED
  BY <1>3, <1>4, <1>5, <1>6, <1>7, <1>8, <1>9, <1>10, <1>11 DEF Next, ThreadStep

\* The file, the buffers being written, the full buffers and the current one
\* hold the lines that were taken in, in the order in which these came and once
\* each, except those lost to a write error (AsyncLogging.cc:21-32, :44-70).
THEOREM LinesStayInOrder == Spec => []LinesInOrder
<1>1. Init => Supply /\ OtherTypes /\ Order
  BY SupplyInit, TypesInit, OrderInit
<1>2. Supply /\ OtherTypes /\ Order /\ [Next]_vars => (Supply /\ OtherTypes /\ Order)'
  BY SupplyNext, TypesNext, OrderNext
<1>3. Supply /\ OtherTypes /\ Order => LinesInOrder
  <2> SUFFICES ASSUME Supply, OtherTypes, Order PROVE LinesInOrder
    OBVIOUS
  <2>1. /\ disk \in Seq(Lines) /\ unflushed \in Seq(Lines) /\ Waiting \in Seq(Seq(Lines))
        /\ currentBuffer_ \in Seq(Lines) /\ buffers_ \in Seq(Seq(Lines))
    BY WaitingTypes DEF Supply
  <2>2. Chain(disk \o unflushed, Waiting, buffers_, currentBuffer_, Accepted \ failed)
    BY DEF Order, ToFile
  <2>3. Places = <<disk, unflushed>> \o Waiting \o buffers_ \o <<currentBuffer_>>
    BY Zenon DEF Places, Waiting
  <2>4. /\ InOrder(<<disk, unflushed>> \o Waiting \o buffers_ \o <<currentBuffer_>>)
        /\ LinesOf(<<disk, unflushed>> \o Waiting \o buffers_ \o <<currentBuffer_>>)
              = Accepted \ failed
    BY <2>1, <2>2, ChainOfPlaces, Zenon
  <2> QED
    BY <2>3, <2>4, Zenon DEF LinesInOrder
<1> QED
  BY <1>1, <1>2, <1>3, PTL DEF Spec
==============================================================================
