------------------------------- MODULE LogFile -------------------------------
(***************************************************************************)
(* LogFile (webserver/log/LogFile.cc) with the FileUtil it writes through: *)
(* when the file is rolled by size or by day, and when it is flushed.      *)
(* Operations for the one thread that uses it, the back end of             *)
(* AsyncLogging, which appends sequences of lines.  Whatever writes them   *)
(* out may fail; opening a file does not.                                  *)
(***************************************************************************)
EXTENDS Integers, Sequences

CONSTANTS
    rollsize_, flushInterval_, checkEveryN_,
    kRollPerSeconds_,   \* the length of a day
    MaxTime,            \* bound of the model: the clock stops there
    CountInit           \* what count_, which no constructor sets, may hold

ASSUME FileAssumption ==
    /\ rollsize_ \in Nat /\ flushInterval_ \in Nat /\ checkEveryN_ \in Nat
    /\ kRollPerSeconds_ \in Nat \ {0} /\ MaxTime \in Nat \ {0}
    /\ CountInit \subseteq Int

VARIABLES
    now,                \* time(NULL)
    count_, startOfPeriod_, lastRoll_, lastFlush_,
    writtenBytes_,      \* of the current file
    unflushed,          \* lines in the buffer of the current FILE
    disk,               \* lines flushed or closed, to any file
    failed              \* lines lost to a write error

fileVars == <<count_, startOfPeriod_, lastRoll_, lastFlush_, writtenBytes_,
              unflushed, disk, failed>>

\* the types, if the lines are those of a set
FileTypeOK(Lines) ==
    /\ now \in 1..MaxTime
    /\ count_ \in Int
    /\ startOfPeriod_ \in Nat /\ lastRoll_ \in Nat /\ lastFlush_ \in Nat
    /\ writtenBytes_ \in Nat
    /\ unflushed \in Seq(Lines) /\ disk \in Seq(Lines) /\ failed \subseteq Lines

FileInit ==
    /\ now = 1
    /\ count_ \in CountInit
    /\ startOfPeriod_ = 0 /\ lastRoll_ = 0 /\ lastFlush_ = 0
    /\ writtenBytes_ = 0
    /\ unflushed = <<>> /\ disk = <<>> /\ failed = {}

Period(t) == (t \div kRollPerSeconds_) * kRollPerSeconds_

TooLarge(bytes) == bytes > rollsize_
NewDay(t) == Period(t) # startOfPeriod_

\* rollFile makes at most one file per second
CanRoll(t) == t > lastRoll_

\* the constructor: rollFile makes the first file
open ==
    /\ CanRoll(now)
    /\ lastFlush_' = now /\ lastRoll_' = now /\ startOfPeriod_' = Period(now)
    /\ UNCHANGED <<now, count_, writtenBytes_, unflushed, disk, failed>>

\* The first of the lines the FILE holds, at most so many, get to the disk.  An
\* error, of which fflush and fclose tell nobody here, loses the others: the FILE
\* keeps none.
writeOut(lines, most) ==
    \E n \in 0..most :
        /\ disk' = disk \o SubSeq(lines, 1, n)
        /\ failed' = failed \cup {lines[i] : i \in (n + 1)..Len(lines)}
        /\ unflushed' = <<>>

\* mutant: lines stay in the buffer of the FILE
flush_Forgotten == UNCHANGED <<disk, unflushed, failed>>

flush == writeOut(unflushed, Len(unflushed))

\* A bound of the model: beyond checkEveryN_ the value makes no difference
Saturate(count) == IF count > checkEveryN_ THEN checkEveryN_ ELSE count

\* appendInlock: lines of len bytes in all.  FileUtil::append ends at an error
\* of fwrite, which loses the last line at least, and counts none; rollFile
\* closes the old file, and reads the clock again, perhaps a second later.
append(lines, len, error) ==
    LET held == unflushed \o lines
        bytes == writtenBytes_ + IF error THEN 0 ELSE len
        atN == ~TooLarge(bytes) /\ count_ + 1 >= checkEveryN_
        roll == TooLarge(bytes) \/ (atN /\ NewDay(now))
    IN
    /\ error => lines # <<>>
    /\ now' \in now..(IF roll /\ now < MaxTime THEN now + 1 ELSE now)
    /\ count_' = IF atN THEN 0 ELSE Saturate(count_ + 1)
    /\ LET rolled == roll /\ CanRoll(now')
           flushes == now - (IF rolled THEN now' ELSE lastFlush_) > flushInterval_
       IN
       /\ lastRoll_' = IF rolled THEN now' ELSE lastRoll_
       /\ startOfPeriod_' = IF rolled THEN Period(now') ELSE startOfPeriod_
       /\ writtenBytes_' = IF rolled THEN 0 ELSE bytes
       /\ lastFlush_' = IF flushes THEN now ELSE IF rolled THEN now' ELSE lastFlush_
       /\ IF error \/ rolled \/ flushes
          THEN writeOut(held, IF error THEN Len(held) - 1 ELSE Len(held))
          ELSE unflushed' = held /\ UNCHANGED <<disk, failed>>

\* a second passes
tick ==
    /\ now < MaxTime
    /\ now' = now + 1
    /\ UNCHANGED fileVars
==============================================================================
