-------------------------------- MODULE Buffer --------------------------------
(***************************************************************************)
(* The byte buffer of a connection (webserver/include/Buffer.h, src/       *)
(* Buffer.cc): a vector with the bytes not yet read between readerIndex_   *)
(* and writerIndex_.  Indices count from 0 as in the code, so that the     *)
(* byte at index i is buffer_[i + 1].  The operations are operators that   *)
(* return the buffer after the call.                                       *)
(***************************************************************************)
EXTENDS Naturals, Sequences

CONSTANTS
    Byte, Zero,      \* the bytes, and the one resize fills with
    kCheapPrepend,   \* kept free before the data
    kInitialSize,
    ExtraSize        \* the size of extrabuf in readFd

ASSUME BufferAssumption ==
    /\ Zero \in Byte
    /\ kCheapPrepend \in Nat /\ kInitialSize \in Nat /\ ExtraSize \in Nat \ {0}

BufferType == [buffer_ : Seq(Byte), readerIndex_ : Nat, writerIndex_ : Nat]

\* What every operation relies on: size_t differences that are not negative
IndicesOK(b) ==
    /\ kCheapPrepend <= b.readerIndex_
    /\ b.readerIndex_ <= b.writerIndex_
    /\ b.writerIndex_ <= Len(b.buffer_)

NewBuffer ==
    [buffer_ |-> [i \in 1..(kCheapPrepend + kInitialSize) |-> Zero],
     readerIndex_ |-> kCheapPrepend,
     writerIndex_ |-> kCheapPrepend]

readableBytes(b) == b.writerIndex_ - b.readerIndex_
writableBytes(b) == Len(b.buffer_) - b.writerIndex_
prependableBytes(b) == b.readerIndex_

\* the readableBytes() bytes from peek() on
Readable(b) == SubSeq(b.buffer_, b.readerIndex_ + 1, b.writerIndex_)

------------------------------------------------------------------------------
(* Taking bytes out.                                                        *)

retrieveAll(b) ==
    [b EXCEPT !.readerIndex_ = kCheapPrepend, !.writerIndex_ = kCheapPrepend]

retrieve(b, len) ==
    IF len < readableBytes(b) THEN [b EXCEPT !.readerIndex_ = @ + len] ELSE retrieveAll(b)

------------------------------------------------------------------------------
(* Putting bytes in.                                                        *)

\* std::copy of data into the vector s from index at on; the vector keeps its size
Overwrite(s, at, data) ==
    SubSeq(SubSeq(s, 1, at) \o data \o SubSeq(s, at + Len(data) + 1, Len(s)), 1, Len(s))

\* std::vector::resize, to more than there is
Resized(s, n) == s \o [i \in 1..(n - Len(s)) |-> Zero]

\* mutant: the bytes of kCheapPrepend are counted as free
MustGrow_IntoPrepend(b, len) == writableBytes(b) + prependableBytes(b) < len

\* the space behind and in front of the data is not enough
MustGrow(b, len) == writableBytes(b) + prependableBytes(b) < len + kCheapPrepend

\* mutant: readerIndex_ is reset first, so that the data is copied onto itself
Moved_Late(b) ==
    [b EXCEPT !.readerIndex_ = kCheapPrepend,
              !.writerIndex_ = kCheapPrepend + readableBytes(b)]

\* the data moved to the front
Moved(b) ==
    [buffer_ |-> Overwrite(b.buffer_, kCheapPrepend, Readable(b)),
     readerIndex_ |-> kCheapPrepend,
     writerIndex_ |-> kCheapPrepend + readableBytes(b)]

makeSpace(b, len) ==
    IF MustGrow(b, len)
    THEN [b EXCEPT !.buffer_ = Resized(@, b.writerIndex_ + len)]
    ELSE Moved(b)

ensureWritableBytes(b, len) == IF writableBytes(b) < len THEN makeSpace(b, len) ELSE b

\* std::copy to beginWrite() and the advance of writerIndex_, given the space
Written(b, data) ==
    [b EXCEPT !.buffer_ = Overwrite(@, b.writerIndex_, data),
              !.writerIndex_ = @ + Len(data)]

append(b, data) == Written(ensureWritableBytes(b, Len(data)), data)

\* readv: the most it reads, and what it reads: the rest of data that does not
\* fit behind writerIndex_ goes to extrabuf and is appended
MaxRead(b) == writableBytes(b) + IF writableBytes(b) < ExtraSize THEN ExtraSize ELSE 0

readFd(b, data) ==
    LET writable == writableBytes(b) IN
    IF Len(data) <= writable THEN Written(b, data)
    ELSE append(Written(b, SubSeq(data, 1, writable)),
                SubSeq(data, writable + 1, Len(data)))
==============================================================================
