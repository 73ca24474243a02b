------------------------------ MODULE LogStream ------------------------------
(***************************************************************************)
(* The front end of the log (webserver/src/Logger.cc, log/LogSteam.cc,     *)
(* include/FixedBuffer.h): LOG_X << p << q streams pieces of text into the *)
(* small FixedBuffer of a Logger, between a stamp and a tail.  A piece is  *)
(* its length and whether it is a number; a buffer is its size_.  The      *)
(* texts themselves, and the time in the stamp, are left out.              *)
(***************************************************************************)
EXTENDS Naturals, Sequences

CONSTANTS
    kSmallBufferSize, kMaxNumberSize,
    SourceNameSize     \* the length of the name of the source file

ASSUME StreamAssumption ==
    /\ kSmallBufferSize \in Nat /\ SourceNameSize \in Nat
    /\ kMaxNumberSize \in Nat /\ kMaxNumberSize >= 3

Text(n) == [len |-> n, number |-> FALSE]
Digits(n) == [len |-> n, number |-> TRUE]

Piece == [len : Nat, number : {FALSE}] \cup [len : 1..kMaxNumberSize, number : {TRUE}]

avail(size_) == kSmallBufferSize - size_

\* FixedBuffer::append takes all of a piece or nothing, and never its last byte
appendText(size_, p) == IF avail(size_) > p.len THEN size_ + p.len ELSE size_

\* a number is given up unless the longest one would fit
formatInteger(size_, p) ==
    IF avail(size_) >= kMaxNumberSize THEN size_ + p.len ELSE size_

stream(size_, p) == IF p.number THEN formatInteger(size_, p) ELSE appendText(size_, p)

\* the date and time without the seconds, the microseconds, and the level
Stamp == <<Text(17), Text(7), Text(6)>>

\* " - ", the name of the source file, ':', its line and '\n'
Tail_ == <<Text(3), Text(SourceNameSize), Text(1), Digits(3), Text(1)>>

\* the length of what ~Logger puts out for a statement with these pieces
LineOf(pieces) ==
    LET all == Stamp \o pieces \o Tail_
        size[i \in 0..Len(all)] == IF i = 0 THEN 0 ELSE stream(size[i - 1], all[i])
    IN  size[Len(all)]
==============================================================================
