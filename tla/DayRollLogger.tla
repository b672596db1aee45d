--------------------------- MODULE DayRollLogger ---------------------------
(***************************************************************************)
(* framework/day_roll_logger.{h,cpp}: the log of both programs, one file   *)
(* per day, written through a block of memory.  A line is formatted behind *)
(* what is still in the block; the block is written when a further line    *)
(* might not fit, which without buffering is after every line.  A write    *)
(* may fall short or fail (a full disk), and a file may fail to open.      *)
(*                                                                         *)
(* A line is a few bytes, each of which names its line, its place in it    *)
(* and the date stamped on it.  A day stands for m_filedate, the month and *)
(* the day of the month: a program logs more often than once a year.       *)
(***************************************************************************)
EXTENDS Integers, Sequences, SequencesExt

CONSTANTS LastDay,      \* bound: the days are 1 .. LastDay
          BlockSizes,   \* the values init gives m_buf->size
          MaxLine,      \* MAX_LINE_SIZE, the most that is formatted for a line
          LineSizes,    \* the sizes of the lines that are kept
          MaxLines,     \* bound: lines that are logged
          MaxLogFaults, \* bound: writes that fall short or fail, files that do not open
          Nul           \* the byte a failed flush puts in front of the block's data

\* A byte of a line.
Bytes == [line : Nat, place : Nat, day : Nat]

ASSUME LoggerAssumption ==
    /\ LastDay \in Nat \ {0}
    /\ BlockSizes \subseteq Nat /\ BlockSizes # {}
    /\ MaxLine \in Nat \ {0} /\ LineSizes \subseteq 1 .. MaxLine
    /\ MaxLines \in Nat /\ MaxLogFaults \in Nat
    /\ Nul \notin Bytes

VARIABLES today,       \* external: the date
          fileDay,     \* m_filedate and m_fd: the day whose file is open, or 0
          blockSize,   \* m_buf->size
          block,       \* the m_buf->pos bytes of m_buf->data
          logFiles,    \* the file of each day
          lines,       \* lines logged so far
          logged,      \* history: what the files held at init, and the lines logged since
          lost,        \* history: what the latest fini dropped
          overrun,     \* history: bytes were written behind the end of m_buf
          logFaults    \* faults so far

logVars ==
    <<today, fileDay, blockSize, block, logFiles, lines, logged, lost, overrun, logFaults>>

Days == 1 .. LastDay

LogInit ==
    /\ today = 1
    /\ fileDay = 0
    /\ blockSize \in BlockSizes
    /\ block = << >>
    /\ logFiles = [d \in Days |-> << >>]
    /\ lines = 0
    /\ logged = << >>
    /\ lost = << >>
    /\ overrun = FALSE
    /\ logFaults = 0

Midnight ==
    /\ today < LastDay
    /\ today' = today + 1
    /\ UNCHANGED <<fileDay, blockSize, block, logFiles, lines, logged, lost, overrun,
                   logFaults>>

WithoutNul(s) ==
    LET kept[n \in 0 .. Len(s)] ==
            IF n = 0 THEN << >>
            ELSE IF s[n] = Nul THEN kept[n - 1] ELSE Append(kept[n - 1], s[n])
    IN  kept[Len(s)]

\* A fault in the code that the properties must catch: what was written is cut off the
\* wrong end of the block.
FlushesUnmoved(b) ==
    {[out |-> SubSeq(b, 1, n), rest |-> SubSeq(b, 1, Len(b) - n),
      faults |-> IF n = Len(b) THEN 0 ELSE 1] : n \in 0 .. Len(b)}

\* What flush may make of the bytes b: out reaches the file, rest stays in the block.
\* For write's result -1 the second branch moves the bytes up by one and counts one more;
\* the branch for negative results is never reached.
Flushes(b) ==
    {[out |-> SubSeq(b, 1, n), rest |-> SubSeq(b, n + 1, Len(b)),
      faults |-> IF n = Len(b) THEN 0 ELSE 1] : n \in (IF b = << >> THEN {0} ELSE 1 .. Len(b))}
    \cup {[out |-> << >>, rest |-> <<Nul>> \o x, faults |-> 1] : x \in {b} \ {<< >>}}

Appended(files, day, out) == [files EXCEPT ![day] = @ \o out]

\* Another: the file is changed before the block is written.
PreparedLate ==
    IF fileDay = today
    THEN {[files |-> logFiles, rest |-> block, faults |-> 0]}
    ELSE {[files |-> Appended(logFiles, today, f.out), rest |-> f.rest, faults |-> f.faults] :
            f \in Flushes(block)}

\* prepare, when the file opens: the block goes to the file of the day before.
Prepared ==
    IF fileDay = today
    THEN {[files |-> logFiles, rest |-> block, faults |-> 0]}
    ELSE {[files |-> Appended(logFiles, fileDay, f.out), rest |-> f.rest, faults |-> f.faults] :
            f \in Flushes(block)}

\* The line, when it is stamped today.
Line(size) == [i \in 1 .. size |-> [line |-> lines + 1, place |-> i, day |-> today]]

\* What is left to do after the line was put into the block.
AfterLine(b) ==
    IF blockSize - Len(b) < MaxLine THEN Flushes(b)
    ELSE {[out |-> << >>, rest |-> b, faults |-> 0]}

\* write_format and write_string, for a level that is logged.  What is formatted may be
\* longer than what is kept (write_string cuts the line afterwards, and a NUL follows it).
\* Nothing compares it with the end of the block, and the byte a failed flush adds neither.
WriteLine(size) ==
    /\ fileDay # 0
    /\ lines < MaxLines
    /\ \E p \in Prepared : \E text \in size .. MaxLine, f \in AfterLine(p.rest \o Line(size)) :
        /\ overrun' = (overrun \/ Len(p.rest) + text > blockSize \/ Len(f.rest) > blockSize)
        /\ logFaults' = logFaults + p.faults + f.faults
        /\ logFiles' = Appended(p.files, today, f.out)
        /\ block' = f.rest
    /\ logFaults' <= MaxLogFaults
    /\ fileDay' = today
    /\ lines' = lines + 1
    /\ logged' = logged \o Line(size)
    /\ UNCHANGED <<today, blockSize, lost>>

\* prepare fails to open the file of a new day: the call logs nothing.
OpenFails ==
    /\ fileDay # today
    /\ logFaults < MaxLogFaults
    /\ logFaults' = logFaults + 1
    /\ UNCHANGED <<today, fileDay, blockSize, block, logFiles, lines, logged, lost, overrun>>

\* The bytes of the files in the order of their days.
Written == FlattenSeq(logFiles)

\* init, as on_init calls it after the start or after fini.
OpenLog ==
    /\ fileDay = 0
    /\ fileDay' = today
    /\ blockSize' \in BlockSizes
    /\ block' = << >>
    /\ logged' = WithoutNul(Written)
    /\ lost' = << >>
    /\ UNCHANGED <<today, logFiles, lines, overrun, logFaults>>

\* fini flushes once, whatever comes of it, and frees the block.
CloseLog ==
    /\ fileDay # 0
    /\ \E f \in Flushes(block) :
        /\ logFiles' = Appended(logFiles, fileDay, f.out)
        /\ lost' = WithoutNul(f.rest)
        /\ overrun' = (overrun \/ Len(f.rest) > blockSize)
        /\ logFaults' = logFaults + f.faults
    /\ logFaults' <= MaxLogFaults
    /\ fileDay' = 0
    /\ block' = << >>
    /\ UNCHANGED <<today, blockSize, lines, logged>>

LogNext ==
    \/ Midnight \/ OpenFails \/ OpenLog \/ CloseLog
    \/ \E size \in LineSizes : WriteLine(size)

LogSpec == LogInit /\ [][LogNext]_logVars
-----------------------------------------------------------------------------
\* The block has room for the longest line, unless a write fell short or failed.
RoomForLine == logFaults = 0 => block = << >> \/ Len(block) + MaxLine <= blockSize

\* Lines are neither lost, repeated, mixed nor reordered by buffering, by writes that fall
\* short or fail, and by the change of the file at midnight: what is in the files and in
\* the block is, but for the NUL bytes of failed flushes, what was logged (cpp:92-232).
\* Two failures are left to the code.  A fini whose one flush does not write everything
\* loses the end of what was logged.  And a line may be formatted over the end of the
\* block: behind what failed flushes have left, or, by write_string, in the smallest block.
\* Once it was, nothing is claimed; without a failed write a block that is not empty
\* always has room for one more line.
LogIntact ==
    /\ ~overrun => WithoutNul(Written \o block) \o lost = logged
    /\ lost # << >> => fileDay = 0 /\ logFaults > 0
    /\ RoomForLine

\* A line is in the file of the date stamped on it.  Only a write that fell short or
\* failed lets the rest of a block into the file of a later day (cpp:108-114).
StampMatchesFile ==
    ~overrun =>
        \A d \in Days : \A i \in DOMAIN logFiles[d] :
            LET u == logFiles[d][i]
            IN  u # Nul => u.day <= d /\ (logFaults = 0 => u.day = d)
=============================================================================
