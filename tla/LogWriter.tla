------------------------------ MODULE LogWriter ------------------------------
(***************************************************************************)
(* The log of zinx: LoggerCore (zlog/logger_core.go) writes lines to a     *)
(* Writer (zutils/write.go) that buffers them, cuts the file by day and by *)
(* size, packs what it cut off into zip files named after the second in    *)
(* which the file was created, and deletes the old ones.                   *)
(*                                                                         *)
(* Each method of the Writer holds its mutex from beginning to end and is  *)
(* one step; Close is two methods.  A line is its number, and every line   *)
(* has the length 1.  The file system may refuse to open, rename, pack or  *)
(* write, and it may fail the end of a packing, which nobody notices.      *)
(* The process may exit at any time, at a Fatal it does.                   *)
(*                                                                         *)
(* A definition named X_Word is X with one mistake in it; no action uses   *)
(* it.  Each one shows that a property of the run can fail.                *)
(***************************************************************************)
EXTENDS Integers, Sequences, FiniteSets

CONSTANTS
  Levels,      \* the levels of the lines, LogDebug to LogFatal
  IsolationLevel,
  MaxSize,     \* Writer.maxSize: the lines of a file stay below it
  BufMax,      \* lines that fit into the bufio.Writer
  FlushEvery,  \* seconds between two flushes of the daemon
  DayLen,      \* seconds of a day
  MaxAge,      \* Writer.maxAge, in seconds
  West,        \* seconds the local time is behind UTC
  MaxTime, MaxLines, MaxFaults, MaxExits, MaxCloses   \* bounds

LogDebug == 0
LogFatal == 5

ASSUME LogAssumption ==
  /\ Levels \subseteq LogDebug..LogFatal /\ IsolationLevel \in Nat
  /\ {MaxSize, BufMax, FlushEvery, DayLen} \subseteq Nat \ {0}
  /\ FlushEvery < DayLen
  /\ {MaxAge, West, MaxTime, MaxLines, MaxFaults, MaxExits, MaxCloses} \subseteq Nat

NoFile == <<0>>   \* there is no line 0
Faults == {"open", "rename", "zip", "close", "write"}

VARIABLES
  now,
  io,       \* the Writer and the directory, see Init
  due,      \* a goroutine of delete has not run yet
  closing,  \* Close has flushed and will close the file
  wrote,    \* history: line |-> the second it was accepted in
  failed,   \* history: the kinds of faults there were, at most MaxFaults
  exits, closes

vars == <<now, io, due, closing, wrote, failed, exits, closes>>

\* file is nil, open, or closed but not nil; buf and bad are the bufio.Writer's
\* content and its sticky error; live is the file at fpath, zips and logs the
\* packed and unpacked backups by the second in their name.
Init ==
  /\ now = 0 /\ due = FALSE /\ closing = FALSE /\ wrote = <<>>
  /\ io = [file |-> "nil", buf |-> <<>>, bad |-> FALSE, size |-> 0, created |-> 0,
           live |-> NoFile, mtime |-> 0, zips |-> <<>>, logs |-> <<>>]
  /\ failed = {} /\ exits = 0 /\ closes = 0

\* A new process has a new Writer.
Ends(s) ==
  /\ io' = [s EXCEPT !.file = "nil", !.buf = <<>>, !.bad = FALSE, !.size = 0, !.created = 0]
  /\ due' = FALSE /\ closing' = FALSE /\ exits' = exits + 1

Range(q) == {q[k] : k \in DOMAIN q}
Rising(q) == \A j, k \in DOMAIN q : j < k => q[j] < q[k]
Day(t) == t \div DayLen
Set(f, k, v) == [j \in DOMAIN f \cup {k} |-> IF j = k THEN v ELSE f[j]]
Without(f, k) == [j \in DOMAIN f \ {k} |-> f[j]]

-----------------------------------------------------------------------------
(* What the methods of the Writer do to s, a value of io                    *)

Flush_Overwriting(s, fault) ==
  IF s.file = "open" /\ ~s.bad /\ fault # "write"
    THEN [s EXCEPT !.live = s.buf \o @, !.buf = <<>>,
                   !.mtime = IF s.buf = <<>> THEN @ ELSE now]
    ELSE [s EXCEPT !.bad = @ \/ s.buf # <<>>]

\* bufio.Writer.Flush.  Without an open file, and where the write fails (taken
\* to write nothing then), the lines stay in the buffer and the error sticks.
Flush(s, fault) ==
  IF s.file = "open" /\ ~s.bad /\ fault # "write"
    THEN [s EXCEPT !.live = @ \o s.buf, !.buf = <<>>,
                   !.mtime = IF s.buf = <<>> THEN @ ELSE now]
    ELSE [s EXCEPT !.bad = @ \/ s.buf # <<>>]

\* ZipToFile: the archive is created anew, and is worthless if the packing fails.
\* The errors of the deferred Close calls ("close") are dropped, nil is returned.
ZipToFile(s, c, content, fault) ==
  [s EXCEPT !.zips = Set(@, c, IF fault \in {"zip", "close"} THEN <<>> ELSE content)]

\* The backup, named after created; a name that exists is overwritten.  The
\* unpacked one goes unless ZipToFile returned an error.
Pack(s, fault) ==
  LET c == s.created
      z == [ZipToFile(s, c, s.live, fault) EXCEPT !.live = NoFile]
  IN IF s.live = NoFile \/ fault = "rename" THEN s
     ELSE [z EXCEPT !.logs = IF fault = "zip" THEN Set(@, c, s.live) ELSE Without(@, c)]

\* Stat and OpenFile.
Open(s, fault) ==
  LET old == s.live # NoFile
      t   == [s EXCEPT !.size = IF old THEN Len(s.live) ELSE @,
                       !.created = IF old THEN s.mtime ELSE now]
  IN IF fault = "open" THEN t
     ELSE [t EXCEPT !.file = "open", !.buf = <<>>, !.bad = FALSE,
                    !.live = IF old THEN @ ELSE <<>>,
                    !.mtime = IF old THEN @ ELSE now]

rotate_Unflushed(s, fault) ==
  IF s.file = "nil" THEN Open(s, fault)
  ELSE Open([Pack(s, fault) EXCEPT !.size = 0, !.file = "closed"], fault)

\* rotate; without a fault at OpenFile it returns nil, also where the flush
\* failed: the new bufio.Writer starts empty.
rotate(s, fault) ==
  IF s.file = "nil" THEN Open(s, fault)
  ELSE Open([Pack(Flush(s, fault), fault) EXCEPT !.size = 0, !.file = "closed"], fault)

\* bufio.Writer.Write of one line.
Buffered(s, line, fault) ==
  LET t == IF Len(s.buf) < BufMax THEN s ELSE Flush(s, fault)
  IN IF t.bad THEN t ELSE [t EXCEPT !.buf = Append(@, line), !.size = @ + 1]

NewDay(s)   == Day(s.created) # Day(now)
TooLarge_OffByOne(s) == s.size >= MaxSize
TooLarge(s) == s.size + 1 >= MaxSize

\* The rotations of Write: the first opening, the day's, the size's.  fault
\* lasts for the whole call; where it stops Write, no line is written.
Opened(s, fault) == IF s.file = "nil" THEN rotate(s, fault) ELSE s
DayCut(s, fault) == IF NewDay(s) THEN rotate(s, fault) ELSE s
SizeCut(s, fault) == IF TooLarge(s) THEN rotate(s, fault) ELSE s

Written(s, line, fault) ==
  LET a == Opened(s, fault)
      b == DayCut(a, fault)
  IN CASE fault = "open" /\ s.file = "nil" -> a
       [] fault = "open" /\ s.file # "nil" /\ NewDay(a) -> b
       [] fault = "open" /\ s.file # "nil" /\ ~NewDay(a) /\ TooLarge(b) -> SizeCut(b, fault)
       [] OTHER -> Buffered(SizeCut(b, fault), line, fault)

-----------------------------------------------------------------------------
(* Actions                                                                  *)

\* Write comes to the day's cut.
DayDone(fault) == ~(io.file = "nil" /\ fault = "open") /\ NewDay(Opened(io, fault))

\* The fault of a step, one of at most MaxFaults kinds.
Suffers(fault) ==
  /\ failed' = failed \cup ({fault} \ {"none"})
  /\ Cardinality(failed') <= MaxFaults

\* Debugf, ..., Fatalf: a level below the isolation level is not logged, and
\* after the line of a Fatal the process ends.
verifyLogIsolation(l) == IsolationLevel > l
Passes(l)   == ~verifyLogIsolation(l)
OsExit(l)   == Passes(l) /\ l = LogFatal

\* A line of level l (OutPut and Write).
Log(l, fault) ==
  LET line == Len(wrote) + 1
      t    == Written(io, line, fault)
  IN /\ Passes(l) /\ line <= MaxLines
     /\ Suffers(fault)
     /\ OsExit(l) => exits < MaxExits
     /\ wrote' = IF line \in Range(t.buf) THEN Append(wrote, now) ELSE wrote
     /\ IF OsExit(l) THEN Ends(t)
        ELSE /\ io' = t /\ due' = (due \/ DayDone(fault))
             /\ UNCHANGED <<closing, exits>>
     /\ UNCHANGED <<now, closes>>

\* os.Exit, or a crash: what is in the buffer is gone.
Exit ==
  /\ exits < MaxExits /\ io.file # "nil"
  /\ Ends(io)
  /\ UNCHANGED <<now, wrote, failed, closes>>

\* The daemon's flush.  It runs in time, see Tick.
Daemon(fault) ==
  /\ io.buf # <<>> /\ io' = Flush(io, fault) /\ Suffers(fault)
  /\ UNCHANGED <<now, due, closing, wrote, exits, closes>>

\* Close, of CleanLog or SetLogFile: flush, and close under a lock of its own.
CloseFlush(fault) ==
  /\ ~closing /\ closes < MaxCloses /\ closes' = closes + 1
  /\ closing' = TRUE /\ io' = Flush(io, fault) /\ Suffers(fault)
  /\ UNCHANGED <<now, due, wrote, exits>>

CloseFile ==
  /\ closing /\ closing' = FALSE
  /\ io' = [io EXCEPT !.file = "nil"]
  /\ UNCHANGED <<now, due, wrote, failed, exits, closes>>

\* The name is local time, and name2time takes it for UTC.
name2time_Late(c) == c - West - DayLen
name2time(c) == c - West

\* The goroutine of delete, whenever it gets to run.  Unpacked backups do not
\* have a name that name2time reads.
Delete ==
  /\ due /\ due' = FALSE
  /\ io' = [io EXCEPT !.zips =
              [c \in {k \in DOMAIN @ : MaxAge = 0 \/ name2time(k) >= now - MaxAge} |-> @[c]]]
  /\ UNCHANGED <<now, closing, wrote, failed, exits, closes>>

\* Time passes; no line waits for longer than FlushEvery in a buffer that can be
\* flushed.
Tick ==
  /\ now < MaxTime /\ now' = now + 1
  /\ io.file = "open" /\ ~io.bad /\ io.buf # <<>> => now' - wrote[Head(io.buf)] <= FlushEvery
  /\ UNCHANGED <<io, due, closing, wrote, failed, exits, closes>>

Next ==
  \/ \E fault \in Faults \cup {"none"} : \E l \in Levels : Log(l, fault)
  \/ \E fault \in {"none", "write"} : Daemon(fault) \/ CloseFlush(fault)
  \/ Exit \/ CloseFile \/ Delete \/ Tick

Spec == Init /\ [][Next]_vars

-----------------------------------------------------------------------------
(* Properties                                                               *)

Names(s) == DOMAIN s.zips \cup DOMAIN s.logs
Content(s, c) == IF c \in DOMAIN s.logs THEN s.logs[c] ELSE s.zips[c]
Packed(s) == UNION {Range(Content(s, c)) : c \in Names(s)}
Unpacked(s) == Range(s.buf) \cup (IF s.live = NoFile THEN {} ELSE Range(s.live))

\* What a step may take out of a backup.
PackedStays ==
  \A n \in Packed(io) \ Packed(io') :
    \/ now - wrote[n] > MaxAge - DayLen - West
    \/ "rename" \in failed
    \/ \E c \in Names(io) \cap Names(io') : n \in Range(Content(io, c))

\* A line in a backup stays there until it is MaxAge old, give or take the day
\* its file may span and the time zone that name2time forgets; or until a second
\* backup is cut off in the same second and takes its name.  Where a rename
\* failed the file spans more than a day (rotate, delete, name2time).
BackupsLast == [][PackedStays]_vars

\* What a step may take out of the file and the buffer, without packing it.
UnpackedStays ==
  \A n \in Unpacked(io) \ (Unpacked(io') \cup Packed(io')) :
    \/ /\ n \in Range(io.buf)
       /\ \/ exits' > exits /\ now - wrote[n] <= FlushEvery
          \/ io.file # "open" \/ io.bad
          \/ \E l \in Levels : Log(l, "write")
    \/ \E l \in Levels : Log(l, "close")

\* A line that was accepted is on its way to a backup.  It is dropped from the
\* file by a rotation whose archive fails at its end (ZipToFile returns nil, Write
\* removes the only copy); from the buffer by an exit at most FlushEvery later, by
\* a file that was closed under it, or by a rotation after a write that failed
\* (rotate ignores Flush's error); and by no other rotation, flush or reopening.
LinesReachDisk == [][UnpackedStays]_vars

\* The backups in the order of their names, and the live file and the buffer
\* after them, hold the lines in the order they were logged, whatever failed
\* and however often the process was restarted (rotate, Open).
InOrder ==
  LET Live == IF io.live = NoFile THEN <<>> ELSE io.live IN
    /\ Rising(Live \o (IF io.file = "open" THEN io.buf ELSE <<>>))
    /\ \A c \in Names(io) :
         /\ Rising(Content(io, c))
         /\ \A x \in Range(Content(io, c)) :
              /\ \A y \in Range(Live) : x < y
              /\ \A d \in Names(io) : c < d => \A y \in Range(Content(io, d)) : x < y

\* No file grows to MaxSize, but where the file system refused to cut it off:
\* also after a restart, when its length is looked up again (Write, rotate).
FilesBounded ==
  failed = {} =>
    /\ io.live # NoFile => Len(io.live) < MaxSize
    /\ \A c \in DOMAIN io.zips : Len(io.zips[c]) < MaxSize
=============================================================================
