--------------------------- MODULE LogWriterProof ---------------------------
(***************************************************************************)
(* The two invariants and the two action properties of the log, for every  *)
(* bound and every set of levels.                                          *)
(*                                                                         *)
(* None is inductive.  LogInv adds that no name is later than the one the  *)
(* next backup gets (Named), in which seconds the lines were accepted and  *)
(* how long they wait (Clock, Fresh), and, where no rename failed, that a  *)
(* file spans at most a day from the second it is named after (Dated).     *)
(* SizeInv is what the writer counts, and rests on a line being shorter    *)
(* than a file may be: MaxSize > 1.                                        *)
(***************************************************************************)
EXTENDS LogWriter, TLAPS

-----------------------------------------------------------------------------
(* Sequences of lines, archives by name                                     *)

\* What is in two sequences one after the other, or in none.
LEMMA RangeFacts ==
  ASSUME NEW q \in Seq(Nat), NEW r \in Seq(Nat)
  PROVE  /\ Range(q \o r) = Range(q) \cup Range(r) /\ q \o r \in Seq(Nat)
         /\ Len(q \o r) = Len(q) + Len(r) /\ Range(q) \subseteq Nat
         /\ q \o <<>> = q /\ Range(<<>>) = {}
<1>1. /\ q \o r \in Seq(Nat) /\ Len(q) \in Nat /\ Len(r) \in Nat /\ Len(q \o r) = Len(q) + Len(r)
      /\ DOMAIN q = 1..Len(q) /\ DOMAIN r = 1..Len(r) /\ DOMAIN (q \o r) = 1..(Len(q) + Len(r))
  OBVIOUS
<1>2. ASSUME NEW x \in Range(q \o r) PROVE x \in Range(q) \cup Range(r)
  <2>1. PICK k \in 1..(Len(q) + Len(r)) : (q \o r)[k] = x
    BY <1>1, <1>2 DEF Range
  <2>2. CASE k <= Len(q)
    BY <1>1, <2>1, <2>2 DEF Range
  <2>3. CASE k > Len(q)
    <3>1. k - Len(q) \in 1..Len(r) /\ (q \o r)[k] = r[k - Len(q)]
      BY <1>1, <2>1, <2>3
    <3> QED
      BY <1>1, <2>1, <3>1 DEF Range
  <2> QED
    BY <1>1, <2>1, <2>2, <2>3
<1>3. ASSUME NEW x \in Range(q) PROVE x \in Range(q \o r)
  <2>1. PICK k \in 1..Len(q) : q[k] = x
    BY <1>1, <1>3 DEF Range
  <2>2. k \in DOMAIN (q \o r) /\ (q \o r)[k] = x
    BY <1>1, <2>1
  <2> QED
    BY <2>2 DEF Range
<1>4. ASSUME NEW x \in Range(r) PROVE x \in Range(q \o r)
  <2>1. PICK k \in 1..Len(r) : r[k] = x
    BY <1>1, <1>4 DEF Range
  <2>2. Len(q) + k \in DOMAIN (q \o r) /\ (q \o r)[Len(q) + k] = x
    BY <1>1, <2>1
  <2> QED
    BY <2>2 DEF Range
<1>5. Range(q) \subseteq Nat
  BY <1>1 DEF Range
<1>6. q \o <<>> = q
  OBVIOUS
<1>7. Range(<<>>) = {}
  BY DEF Range
<1> QED
  BY <1>1, <1>2, <1>3, <1>4, <1>5, <1>6, <1>7

\* Two parts in order, one before the other, are in order together.
LEMMA RisingJoined ==
  ASSUME NEW q \in Seq(Nat), NEW r \in Seq(Nat), Rising(q), Rising(r),
         \A x \in Range(q) : \A y \in Range(r) : x < y
  PROVE  Rising(q \o r)
<1>1. /\ q \o r \in Seq(Nat) /\ Len(q) \in Nat /\ Len(r) \in Nat /\ Len(q \o r) = Len(q) + Len(r)
      /\ DOMAIN q = 1..Len(q) /\ DOMAIN r = 1..Len(r) /\ DOMAIN (q \o r) = 1..(Len(q) + Len(r))
  OBVIOUS
<1> SUFFICES ASSUME NEW j \in 1..(Len(q) + Len(r)), NEW k \in 1..(Len(q) + Len(r)), j < k
             PROVE  (q \o r)[j] < (q \o r)[k]
  BY <1>1 DEF Rising
<1>2. \A i \in 1..Len(q) : (q \o r)[i] = q[i] /\ q[i] \in Range(q)
  BY <1>1 DEF Range
<1>3. ASSUME NEW i \in 1..(Len(q) + Len(r)), i > Len(q)
      PROVE  i - Len(q) \in 1..Len(r) /\ (q \o r)[i] = r[i - Len(q)] /\ r[i - Len(q)] \in Range(r)
  <2>1. i - Len(q) \in 1..Len(r) /\ (q \o r)[i] = r[i - Len(q)]
    BY <1>1, <1>3
  <2> QED
    BY <1>1, <2>1 DEF Range
<1>4. CASE k <= Len(q)
  <2>1. j \in 1..Len(q) /\ k \in 1..Len(q) /\ j \in DOMAIN q /\ k \in DOMAIN q
    BY <1>1, <1>4
  <2>2. q[j] < q[k]
    BY <2>1 DEF Rising
  <2> QED
    BY <1>2, <2>1, <2>2
<1>5. CASE j > Len(q)
  <2>1. j - Len(q) < k - Len(q) /\ k > Len(q)
    BY <1>1, <1>5
  <2>2. j - Len(q) \in DOMAIN r /\ k - Len(q) \in DOMAIN r
    BY <1>1, <1>3, <1>5, <2>1
  <2>3. r[j - Len(q)] < r[k - Len(q)]
    BY <2>1, <2>2 DEF Rising
  <2> QED
    BY <1>3, <1>5, <2>1, <2>3
<1>6. CASE j <= Len(q) /\ k > Len(q)
  BY <1>1, <1>2, <1>3, <1>6
<1> QED
  BY <1>1, <1>4, <1>5, <1>6

\* A single line.
LEMMA OneLine ==
  ASSUME NEW x \in Nat
  PROVE  <<x>> \in Seq(Nat) /\ Range(<<x>>) = {x} /\ Rising(<<x>>) /\ Len(<<x>>) = 1
BY DEF Range, Rising

\* A line after all the others.
LEMMA Appended ==
  ASSUME NEW q \in Seq(Nat), NEW x \in Nat
  PROVE  /\ Append(q, x) \in Seq(Nat) /\ Range(Append(q, x)) = Range(q) \cup {x}
         /\ Len(Append(q, x)) = Len(q) + 1
         /\ (Rising(q) /\ \A y \in Range(q) : y < x) => Rising(Append(q, x))
<1>1. Append(q, x) = q \o <<x>>
  OBVIOUS
<1>2. /\ q \o <<x>> \in Seq(Nat) /\ Range(q \o <<x>>) = Range(q) \cup {x}
      /\ Len(q \o <<x>>) = Len(q) + 1
  BY OneLine, RangeFacts
<1>3. ASSUME Rising(q), \A y \in Range(q) : y < x PROVE Rising(q \o <<x>>)
  BY <1>3, OneLine, RisingJoined
<1> QED
  BY <1>1, <1>2, <1>3

\* No line at all.
LEMMA RisingEmpty == Rising(<<>>) /\ <<>> \in Seq(Nat) /\ Range(<<>>) = {}
BY DEF Rising, Range

\* Archives by name.
Archives == UNION {[D -> Seq(Nat)] : D \in SUBSET Nat}

\* What an archive holds, and what is one.
LEMMA ArchiveFacts ==
  ASSUME NEW z \in Archives
  PROVE  DOMAIN z \subseteq Nat /\ \A c \in DOMAIN z : z[c] \in Seq(Nat)
BY DEF Archives

LEMMA IsArchive ==
  ASSUME NEW z, NEW D \in SUBSET Nat, z \in [D -> Seq(Nat)]
  PROVE  z \in Archives
BY DEF Archives

\* A name is set, or taken out.
LEMMA SetFacts ==
  ASSUME NEW z \in Archives, NEW k \in Nat, NEW v \in Seq(Nat)
  PROVE  /\ Set(z, k, v) \in Archives /\ DOMAIN Set(z, k, v) = DOMAIN z \cup {k}
         /\ Set(z, k, v)[k] = v
         /\ \A c \in DOMAIN z : c # k => Set(z, k, v)[c] = z[c]
<1>1. DOMAIN z \cup {k} \in SUBSET Nat /\ \A c \in DOMAIN z : z[c] \in Seq(Nat)
  BY ArchiveFacts
<1>2. Set(z, k, v) \in [DOMAIN z \cup {k} -> Seq(Nat)]
  BY <1>1 DEF Set
<1>3. Set(z, k, v) \in Archives
  BY <1>1, <1>2, IsArchive
<1> QED
  BY <1>3 DEF Set

LEMMA WithoutFacts ==
  ASSUME NEW z \in Archives, NEW k
  PROVE  /\ Without(z, k) \in Archives /\ DOMAIN Without(z, k) = DOMAIN z \ {k}
         /\ \A c \in DOMAIN z : c # k => Without(z, k)[c] = z[c]
<1>1. DOMAIN z \ {k} \in SUBSET Nat /\ \A c \in DOMAIN z : z[c] \in Seq(Nat)
  BY ArchiveFacts
<1>2. Without(z, k) \in [DOMAIN z \ {k} -> Seq(Nat)]
  BY <1>1 DEF Without
<1>3. Without(z, k) \in Archives
  BY <1>1, <1>2, IsArchive
<1> QED
  BY <1>3 DEF Without

\* Two seconds of the same day are less than a day apart.
LEMMA Division ==
  ASSUME NEW a \in Nat, NEW b \in Nat, NEW k \in Nat \ {0}, a \div k = b \div k
  PROVE  b < a + k
<1>1. /\ a \div k \in Nat /\ a % k \in 0..(k - 1) /\ a = (a \div k) * k + (a % k)
      /\ b \div k \in Nat /\ b % k \in 0..(k - 1) /\ b = (b \div k) * k + (b % k)
  OBVIOUS
<1> DEFINE m == (a \div k) * k  u == a % k  v == b % k
<1>2. m \in Int /\ a = m + u /\ b = m + v /\ u \in 0..(k - 1) /\ v \in 0..(k - 1)
  BY <1>1
<1> HIDE DEF m, u, v
<1> QED
  BY <1>2

-----------------------------------------------------------------------------
(* The invariant                                                            *)

Writers == [file : {"nil", "open", "closed"}, buf : Seq(Nat), bad : BOOLEAN, size : Nat,
            created : Nat, live : Seq(Nat), mtime : Nat, zips : Archives, logs : Archives]

\* The lines of the live file, and those on the way to it.
Live(s) == IF s.live = NoFile THEN <<>> ELSE s.live
Held(s) == IF s.file = "open" THEN s.buf ELSE <<>>

\* Every line anywhere is one of the first n, those that were accepted.
Below(s, n) ==
  /\ Range(Live(s)) \subseteq 1..n /\ Range(s.buf) \subseteq 1..n
  /\ \A c \in Names(s) : Range(Content(s, c)) \subseteq 1..n

\* The backups by their names, the live file and the buffer hold the lines in order.
Ordered(s) ==
  /\ Rising(Live(s)) /\ Rising(Held(s))
  /\ \A x \in Range(Live(s)), y \in Range(Held(s)) : x < y
  /\ \A c \in Names(s) :
       /\ Rising(Content(s, c))
       /\ \A x \in Range(Content(s, c)) :
            /\ \A y \in Range(Live(s)) \cup Range(Held(s)) : x < y
            /\ \A d \in Names(s) : c < d => \A y \in Range(Content(s, d)) : x < y

\* No name is later than the one the next backup gets.
Named(s, t) ==
  /\ s.created <= t /\ s.mtime <= t /\ (s.file = "open" => s.live # NoFile)
  /\ \A c \in Names(s) :
       /\ c <= t
       /\ s.live # NoFile => c <= s.mtime
       /\ s.file # "nil" => c <= s.created

\* The seconds the lines were accepted in.
Clock(w, t) ==
  /\ w \in Seq(Nat) /\ t \in Nat /\ \A i \in DOMAIN w : w[i] <= t
  /\ \A i, j \in DOMAIN w : i < j => w[i] <= w[j]

\* No line waits in a buffer that can be flushed for longer than FlushEvery.
Fresh(s, w, t) == s.file = "open" /\ ~s.bad => \A n \in Range(s.buf) : t - w[n] <= FlushEvery

\* A file spans at most DayLen, counted from the name it gets; no rename failed.
Dated(s, w) ==
  /\ s.file = "open" => \A n \in Range(Live(s)) \cup Range(s.buf) : w[n] < s.created + DayLen
  /\ \A n \in Range(Live(s)) : w[n] <= s.mtime
  /\ \A c \in Names(s) : \A n \in Range(Content(s, c)) : w[n] < c + DayLen
  /\ s.file = "closed" => s.live = NoFile

Small(z) == \A c \in DOMAIN z : Len(z[c]) < MaxSize

Lines(s) == Len(s.live) + Len(s.buf)

\* The size is counted, and below MaxSize; nothing failed.
Bounded(s) ==
  /\ s.file # "closed"
  /\ s.file = "open" => (s.size = Lines(s) /\ s.size < MaxSize)
  /\ s.live # NoFile => Len(s.live) < MaxSize
  /\ s.live = NoFile => s.size = 0
  /\ Small(s.zips)

Fine(s) ==
  /\ s \in Writers /\ Below(s, Len(wrote)) /\ Ordered(s) /\ Named(s, now)
  /\ Fresh(s, wrote, now)

LogInv ==
  /\ io \in Writers /\ Below(io, Len(wrote)) /\ Ordered(io) /\ Named(io, now)
  /\ Fresh(io, wrote, now) /\ Clock(wrote, now) /\ exits \in Nat
  /\ "rename" \notin failed => Dated(io, wrote)

SizeInv == failed = {} => Bounded(io)

-----------------------------------------------------------------------------
(* What the methods change                                                  *)

\* The lines of the buffer go to the file.
Writes(s, fault) == s.file = "open" /\ ~s.bad /\ fault # "write"

\* The constants.
LEMMA ConstantFacts ==
  /\ MaxSize \in Nat \ {0} /\ BufMax \in Nat \ {0} /\ FlushEvery \in Nat \ {0}
  /\ DayLen \in Nat \ {0} /\ MaxAge \in Nat /\ West \in Nat
BY LogAssumption

\* The archives by name, zipped or not.
LEMMA Archived ==
  ASSUME NEW s \in Writers
  PROVE  /\ Names(s) \subseteq Nat
         /\ \A c \in Names(s) : Content(s, c) \in Seq(Nat) /\ Range(Content(s, c)) \subseteq Nat
         /\ \A n : n \in Packed(s) <=> \E c \in Names(s) : n \in Range(Content(s, c))
<1>1. s.zips \in Archives /\ s.logs \in Archives
  BY DEF Writers
<1>2. /\ DOMAIN s.zips \subseteq Nat /\ \A c \in DOMAIN s.zips : s.zips[c] \in Seq(Nat)
      /\ DOMAIN s.logs \subseteq Nat /\ \A c \in DOMAIN s.logs : s.logs[c] \in Seq(Nat)
  BY <1>1, ArchiveFacts
<1>3. \A c \in Names(s) : Content(s, c) \in Seq(Nat)
  BY <1>2 DEF Names, Content
<1>4. \A c \in Names(s) : Range(Content(s, c)) \subseteq Nat
  BY <1>3, RangeFacts
<1>5. \A n : n \in Packed(s) <=> \E c \in Names(s) : n \in Range(Content(s, c))
  BY DEF Packed
<1> QED
  BY <1>2, <1>3, <1>4, <1>5 DEF Names

\* Where the archives stay, the backups do.
LEMMA SameArchives ==
  ASSUME NEW s, NEW t, t.zips = s.zips, t.logs = s.logs
  PROVE  /\ Names(t) = Names(s) /\ \A c : Content(t, c) = Content(s, c)
         /\ Packed(t) = Packed(s)
BY DEF Names, Content, Packed

\* The types of the lines at hand.
LEMMA LiveFacts ==
  ASSUME NEW s \in Writers
  PROVE  /\ Live(s) \in Seq(Nat) /\ Held(s) \in Seq(Nat)
         /\ s.buf \in Seq(Nat) /\ s.live \in Seq(Nat)
         /\ Range(Live(s)) \subseteq Nat /\ Range(Held(s)) \subseteq Nat
         /\ Range(Held(s)) \subseteq Range(s.buf) /\ Range(s.buf) \subseteq Nat
         /\ Len(s.live) \in Nat /\ Len(s.buf) \in Nat
         /\ s.created \in Nat /\ s.mtime \in Nat /\ s.size \in Nat
<1>1. /\ s.live \in Seq(Nat) /\ s.buf \in Seq(Nat) /\ s.created \in Nat /\ s.mtime \in Nat
      /\ s.size \in Nat
  BY DEF Writers
<1>2. Live(s) \in Seq(Nat) /\ Held(s) \in Seq(Nat)
  BY <1>1, RisingEmpty DEF Live, Held
<1>3. Range(Live(s)) \subseteq Nat /\ Range(Held(s)) \subseteq Nat /\ Range(s.buf) \subseteq Nat
  BY <1>1, <1>2, RangeFacts
<1>4. Range(Held(s)) \subseteq Range(s.buf)
  BY RisingEmpty DEF Held
<1> QED
  BY <1>1, <1>2, <1>3, <1>4

\* Flush
LEMMA Flushed ==
  ASSUME NEW s \in Writers, NEW fault, now \in Nat, 0 \notin Range(Live(s)) \cup Range(Held(s)),
         s.file = "open" => s.live # NoFile
  PROVE  /\ Flush(s, fault) \in Writers
         /\ Flush(s, fault).file = s.file /\ Flush(s, fault).created = s.created
         /\ Flush(s, fault).size = s.size
         /\ Flush(s, fault).zips = s.zips /\ Flush(s, fault).logs = s.logs
         /\ ~Writes(s, fault) =>
              /\ Flush(s, fault).buf = s.buf /\ Flush(s, fault).live = s.live
              /\ Flush(s, fault).mtime = s.mtime
              /\ (Flush(s, fault).bad <=> s.bad \/ s.buf # <<>>)
         /\ Writes(s, fault) =>
              /\ Flush(s, fault).buf = <<>> /\ Flush(s, fault).live # NoFile
              /\ (Flush(s, fault).bad <=> s.bad)
              /\ Flush(s, fault).mtime = (IF s.buf = <<>> THEN s.mtime ELSE now)
<1>1. /\ s.live \in Seq(Nat) /\ s.buf \in Seq(Nat) /\ s.created \in Nat /\ s.mtime \in Nat
      /\ s.size \in Nat
  BY DEF Writers
<1>2. CASE ~Writes(s, fault)
  BY <1>2 DEF Flush, Writers, Writes
<1>3. CASE Writes(s, fault)
  <2>1. s.live \o s.buf \in Seq(Nat) /\ <<>> \in Seq(Nat)
    BY <1>1
  <2>2. 0 \notin Range(s.live \o s.buf)
    BY <1>1, <1>3, RangeFacts DEF Live, Held, Writes
  <2>3. s.live \o s.buf # NoFile
    <3>1. 0 \in Range(NoFile)
      BY OneLine DEF NoFile
    <3> QED
      BY <2>2, <3>1
  <2>4. Flush(s, fault) \in Writers
    BY <1>1, <1>3, <2>1 DEF Flush, Writers, Writes
  <2> QED
    BY <1>3, <2>3, <2>4 DEF Flush, Writers, Writes
<1> QED
  BY <1>2, <1>3

\* The lines of the buffer come after those of the file.
LEMMA Joined ==
  ASSUME NEW s \in Writers, NEW fault, Writes(s, fault)
  PROVE  Flush(s, fault).live = s.live \o s.buf
BY DEF Flush, Writes, Writers

\* What rotate does between the flush and the opening.
Cut(s, fault) == [Pack(s, fault) EXCEPT !.size = 0, !.file = "closed"]

CutTo(s, z, l) ==
  [s EXCEPT !.zips = z, !.live = NoFile, !.logs = l, !.size = 0, !.file = "closed"]

\* The fields after the cut.
LEMMA Replaced ==
  ASSUME NEW s \in Writers, NEW z \in Archives, NEW l \in Archives, NEW r, r = CutTo(s, z, l)
  PROVE  /\ r \in Writers /\ r.file = "closed" /\ r.size = 0 /\ r.buf = s.buf
         /\ r.created = s.created /\ r.mtime = s.mtime /\ r.live = NoFile
         /\ r.zips = z /\ r.logs = l
<1>1. NoFile \in Seq(Nat)
  BY OneLine DEF NoFile
<1> QED
  BY <1>1 DEF Writers, CutTo

\* The cut takes the file to the backup named after created, unless a rename fails.
LEMMA CutOff ==
  ASSUME NEW s \in Writers, NEW fault
  PROVE  /\ Cut(s, fault) \in Writers
         /\ Cut(s, fault).file = "closed" /\ Cut(s, fault).size = 0
         /\ Cut(s, fault).buf = s.buf /\ Cut(s, fault).created = s.created
         /\ Cut(s, fault).mtime = s.mtime
         /\ s.live = NoFile \/ fault = "rename" =>
              /\ Cut(s, fault).live = s.live
              /\ Cut(s, fault).zips = s.zips /\ Cut(s, fault).logs = s.logs
         /\ s.live # NoFile /\ fault # "rename" =>
              /\ Cut(s, fault).live = NoFile
              /\ Names(Cut(s, fault)) = Names(s) \cup {s.created}
              /\ Content(Cut(s, fault), s.created) = (IF fault = "close" THEN <<>> ELSE s.live)
              /\ \A c \in Names(s) : c # s.created => Content(Cut(s, fault), c) = Content(s, c)
              /\ fault = "none" => Cut(s, fault).zips = Set(s.zips, s.created, s.live)
<1>1. /\ s.live \in Seq(Nat) /\ s.created \in Nat /\ s.zips \in Archives /\ s.logs \in Archives
      /\ s.size \in Nat /\ NoFile \in Seq(Nat) /\ <<>> \in Seq(Nat)
  BY OneLine DEF Writers, NoFile
<1>2. CASE s.live = NoFile \/ fault = "rename"
  BY <1>2 DEF Cut, Pack, Writers
<1>3. CASE s.live # NoFile /\ fault # "rename"
  <2> DEFINE v == IF fault \in {"zip", "close"} THEN <<>> ELSE s.live
             z == Set(s.zips, s.created, v)
             l == IF fault = "zip" THEN Set(s.logs, s.created, s.live) ELSE Without(s.logs, s.created)
  <2>1. Cut(s, fault) = CutTo(s, z, l)
    BY <1>3 DEF CutTo, Cut, Pack, ZipToFile, Writers
  <2>0. v \in Seq(Nat)
    BY <1>1
  <2>2. /\ z \in Archives /\ DOMAIN z = DOMAIN s.zips \cup {s.created} /\ z[s.created] = v
        /\ \A c \in DOMAIN s.zips : c # s.created => z[c] = s.zips[c]
    <3> DEFINE y == s.zips  k == s.created
    <3>1. y \in Archives /\ k \in Nat /\ z = Set(y, k, v)
      BY <1>1
    <3> HIDE DEF v, y, k, z
    <3>2. /\ z \in Archives /\ DOMAIN z = DOMAIN y \cup {k} /\ z[k] = v
          /\ \A c \in DOMAIN y : c # k => z[c] = y[c]
      BY <2>0, <3>1, SetFacts
    <3> QED
      BY <3>2 DEF y, k
  <2>4. IF fault = "zip"
          THEN /\ l \in Archives
               /\ DOMAIN l = DOMAIN s.logs \cup {s.created} /\ l[s.created] = s.live
               /\ \A c \in DOMAIN s.logs : c # s.created => l[c] = s.logs[c]
          ELSE /\ l \in Archives
               /\ DOMAIN l = DOMAIN s.logs \ {s.created}
               /\ \A c \in DOMAIN s.logs : c # s.created => l[c] = s.logs[c]
    <3> DEFINE y == s.logs  k == s.created  q == s.live
    <3>1. /\ y \in Archives /\ k \in Nat /\ q \in Seq(Nat)
          /\ l = IF fault = "zip" THEN Set(y, k, q) ELSE Without(y, k)
      BY <1>1
    <3> HIDE DEF y, k, q, l
    <3>2. IF fault = "zip"
            THEN /\ l \in Archives /\ DOMAIN l = DOMAIN y \cup {k} /\ l[k] = q
                 /\ \A c \in DOMAIN y : c # k => l[c] = y[c]
            ELSE /\ l \in Archives /\ DOMAIN l = DOMAIN y \ {k}
                 /\ \A c \in DOMAIN y : c # k => l[c] = y[c]
      <4>1. CASE fault = "zip"
        BY <3>1, <4>1, SetFacts
      <4>2. CASE fault # "zip"
        BY <3>1, <4>2, WithoutFacts
      <4> QED
        BY <4>1, <4>2
    <3> QED
      BY <3>2 DEF y, k, q
  <2>3. l \in Archives
    <3> HIDE DEF l
    <3> QED
      BY <2>4
  <2>5. fault = "none" => z = Set(s.zips, s.created, s.live)
    OBVIOUS
  <2>9. v = IF fault \in {"zip", "close"} THEN <<>> ELSE s.live
    OBVIOUS
  <2> HIDE DEF v, z, l
  <2>6. /\ Cut(s, fault) \in Writers
        /\ Cut(s, fault).file = "closed" /\ Cut(s, fault).size = 0
        /\ Cut(s, fault).buf = s.buf /\ Cut(s, fault).created = s.created
        /\ Cut(s, fault).mtime = s.mtime /\ Cut(s, fault).live = NoFile
        /\ Cut(s, fault).zips = z /\ Cut(s, fault).logs = l
    <3> DEFINE r == Cut(s, fault)
    <3>1. r = CutTo(s, z, l)
      BY <2>1
    <3> HIDE DEF r
    <3>2. z \in Archives
      BY <2>2
    <3>3. /\ r \in Writers /\ r.file = "closed" /\ r.size = 0 /\ r.buf = s.buf
          /\ r.created = s.created /\ r.mtime = s.mtime /\ r.live = NoFile
          /\ r.zips = z /\ r.logs = l
      BY <2>3, <3>1, <3>2, Replaced
    <3> QED
      BY <3>3 DEF r
  <2>7. Names(Cut(s, fault)) = Names(s) \cup {s.created}
    BY <2>2, <2>4, <2>6 DEF Names
  <2>8. /\ Content(Cut(s, fault), s.created) = (IF fault = "close" THEN <<>> ELSE s.live)
        /\ \A c \in Names(s) : c # s.created => Content(Cut(s, fault), c) = Content(s, c)
    BY <2>2, <2>4, <2>6, <2>9 DEF Names, Content
  <2> QED
    BY <1>3, <2>5, <2>6, <2>7, <2>8
<1> QED
  BY <1>2, <1>3

\* What Open changes.
LEMMA IsOpened ==
  ASSUME NEW s \in Writers, NEW fault, now \in Nat
  PROVE  /\ Open(s, fault) \in Writers
         /\ Open(s, fault).zips = s.zips /\ Open(s, fault).logs = s.logs
         /\ Open(s, fault).size = (IF s.live # NoFile THEN Len(s.live) ELSE s.size)
         /\ Open(s, fault).created = (IF s.live # NoFile THEN s.mtime ELSE now)
         /\ fault = "open" => /\ Open(s, fault).file = s.file /\ Open(s, fault).buf = s.buf
                              /\ Open(s, fault).live = s.live /\ Open(s, fault).mtime = s.mtime
         /\ fault # "open" => /\ Open(s, fault).file = "open" /\ Open(s, fault).buf = <<>>
                              /\ Open(s, fault).live = Live(s) /\ Open(s, fault).live # NoFile
                              /\ Open(s, fault).mtime = (IF s.live # NoFile THEN s.mtime ELSE now)
<1>1. /\ s.live \in Seq(Nat) /\ s.mtime \in Nat /\ s.size \in Nat /\ <<>> \in Seq(Nat)
      /\ Len(s.live) \in Nat /\ NoFile # <<>>
  BY DEF Writers, NoFile
<1>2. CASE s.live # NoFile
  BY <1>1, <1>2 DEF Open, Writers, Live
<1>3. CASE s.live = NoFile
  BY <1>1, <1>3 DEF Open, Writers, Live
<1> QED
  BY <1>2, <1>3

\* Buffered, and the flush before it.
Room(s, fault) == IF Len(s.buf) < BufMax THEN s ELSE Flush(s, fault)

\* What Buffered changes.
LEMMA Added ==
  ASSUME NEW s \in Writers, NEW line \in Nat, NEW fault, Room(s, fault) \in Writers
  PROVE  /\ Buffered(s, line, fault) \in Writers
         /\ Room(s, fault).bad => Buffered(s, line, fault) = Room(s, fault)
         /\ ~Room(s, fault).bad =>
              /\ Buffered(s, line, fault).bad = Room(s, fault).bad
              /\ Buffered(s, line, fault).buf = Append(Room(s, fault).buf, line)
              /\ Buffered(s, line, fault).size = Room(s, fault).size + 1
              /\ Buffered(s, line, fault).file = Room(s, fault).file /\ Buffered(s, line, fault).live = Room(s, fault).live
              /\ Buffered(s, line, fault).created = Room(s, fault).created
              /\ Buffered(s, line, fault).mtime = Room(s, fault).mtime
              /\ Buffered(s, line, fault).zips = Room(s, fault).zips /\ Buffered(s, line, fault).logs = Room(s, fault).logs
<1> DEFINE r == Room(s, fault)
<1>1. r \in Writers
  OBVIOUS
<1>2. Buffered(s, line, fault) = IF r.bad THEN r ELSE [r EXCEPT !.buf = Append(@, line), !.size = @ + 1]
  BY DEF Buffered, Room
<1>3. r.buf \in Seq(Nat) /\ r.size \in Nat
  BY <1>1 DEF Writers
<1> HIDE DEF r
<1>4. Append(r.buf, line) \in Seq(Nat) /\ r.size + 1 \in Nat
  BY <1>3
<1>5. /\ Buffered(s, line, fault) \in Writers
      /\ r.bad => Buffered(s, line, fault) = r
      /\ ~r.bad => /\ Buffered(s, line, fault).bad = r.bad
                   /\ Buffered(s, line, fault).buf = Append(r.buf, line)
                   /\ Buffered(s, line, fault).size = r.size + 1
                   /\ Buffered(s, line, fault).file = r.file /\ Buffered(s, line, fault).live = r.live
                   /\ Buffered(s, line, fault).created = r.created
                   /\ Buffered(s, line, fault).mtime = r.mtime
                   /\ Buffered(s, line, fault).zips = r.zips /\ Buffered(s, line, fault).logs = r.logs
  BY <1>1, <1>2, <1>3, <1>4 DEF Writers
<1> QED
  BY <1>5 DEF r

-----------------------------------------------------------------------------
(* The lines stay in their order                                            *)

\* Where neither the archives nor the lines at hand change, nothing of the order does.
LEMMA OrderKept ==
  ASSUME NEW s \in Writers, NEW u \in Writers, NEW n \in Nat, Below(s, n), Ordered(s),
         u.zips = s.zips, u.logs = s.logs, Live(u) = Live(s),
         Held(u) = Held(s) \/ Held(u) = <<>>, u.buf = s.buf \/ u.buf = <<>>
  PROVE  Below(u, n) /\ Ordered(u)
<1>1. Names(u) = Names(s) /\ \A c : Content(u, c) = Content(s, c)
  BY SameArchives
<1>2. Rising(Held(u)) /\ Range(Held(u)) \subseteq Range(Held(s)) /\ Range(u.buf) \subseteq Range(s.buf)
  BY RisingEmpty DEF Ordered
<1>3. Below(u, n)
  BY <1>1, <1>2 DEF Below
<1>4. \A c \in Names(u) :
        /\ Rising(Content(u, c))
        /\ \A x \in Range(Content(u, c)) :
             /\ \A y \in Range(Live(u)) \cup Range(Held(u)) : x < y
             /\ \A d \in Names(u) : c < d => \A y \in Range(Content(u, d)) : x < y
  <2>1. ASSUME NEW c \in Names(s), NEW x \in Range(Content(s, c))
        PROVE  /\ \A y \in Range(Live(s)) \cup Range(Held(s)) : x < y
               /\ \A d \in Names(s) : c < d => \A y \in Range(Content(s, d)) : x < y
    BY DEF Ordered
  <2>2. ASSUME NEW c \in Names(s), NEW x \in Range(Content(s, c))
        PROVE  \A y \in Range(Live(u)) \cup Range(Held(u)) : x < y
    BY <1>2, <2>1
  <2>3. \A c \in Names(s) : Rising(Content(s, c))
    BY DEF Ordered
  <2> QED
    BY <1>1, <2>1, <2>2, <2>3
<1>5. Rising(Live(u)) /\ \A x \in Range(Live(u)), y \in Range(Held(u)) : x < y
  BY <1>2 DEF Ordered
<1>6. Ordered(u)
  BY <1>2, <1>4, <1>5 DEF Ordered
<1> QED
  BY <1>3, <1>6

\* The lines of the buffer come after those of the file.
LEMMA FlushFine ==
  ASSUME NEW s, NEW fault, Fine(s), Clock(wrote, now)
  PROVE  Fine(Flush(s, fault))
<1> DEFINE u == Flush(s, fault)  n == Len(wrote)
<1>1. /\ s \in Writers /\ Below(s, n) /\ Ordered(s) /\ Named(s, now) /\ Fresh(s, wrote, now)
      /\ now \in Nat /\ n \in Nat
  BY DEF Fine, Clock
<1>2. 0 \notin Range(Live(s)) \cup Range(Held(s))
  BY <1>1, LiveFacts DEF Below
<1>3. s.file = "open" => s.live # NoFile
  BY <1>1 DEF Named
<1>4. /\ u \in Writers
      /\ u.file = s.file /\ u.created = s.created /\ u.zips = s.zips /\ u.logs = s.logs
      /\ ~Writes(s, fault) => /\ u.buf = s.buf /\ u.live = s.live /\ u.mtime = s.mtime
                              /\ (u.bad <=> s.bad \/ s.buf # <<>>)
      /\ Writes(s, fault) => /\ (u.bad <=> s.bad) /\ u.buf = <<>>
                             /\ u.live = s.live \o s.buf /\ u.live # NoFile
                             /\ u.mtime = (IF s.buf = <<>> THEN s.mtime ELSE now)
  <2>1. /\ u \in Writers /\ u.file = s.file /\ u.created = s.created
        /\ u.zips = s.zips /\ u.logs = s.logs
        /\ ~Writes(s, fault) => /\ u.buf = s.buf /\ u.live = s.live /\ u.mtime = s.mtime
                                /\ (u.bad <=> s.bad \/ s.buf # <<>>)
        /\ Writes(s, fault) => /\ (u.bad <=> s.bad) /\ u.buf = <<>> /\ u.live # NoFile
                               /\ u.mtime = (IF s.buf = <<>> THEN s.mtime ELSE now)
    BY <1>1, <1>2, <1>3, Flushed
  <2>2. Writes(s, fault) => u.live = s.live \o s.buf
    BY <1>1, Joined
  <2> HIDE DEF u
  <2> QED
    BY <2>1, <2>2
<1> HIDE DEF u, n
<1>5. Names(u) = Names(s) /\ \A c : Content(u, c) = Content(s, c)
  BY <1>4, SameArchives
<1>6. Below(u, n) /\ Ordered(u)
  <2>1. CASE ~Writes(s, fault)
    BY <1>1, <1>4, <2>1, OrderKept DEF Live, Held
  <2>2. CASE Writes(s, fault)
    <3>1. /\ Live(u) = Live(s) \o Held(s) /\ Held(u) = <<>> /\ u.buf = <<>> /\ Held(s) = s.buf
      BY <1>3, <1>4, <2>2 DEF Live, Held, Writes
    <3>2. Live(s) \in Seq(Nat) /\ Held(s) \in Seq(Nat)
      BY <1>1, LiveFacts
    <3>3. Range(Live(u)) = Range(Live(s)) \cup Range(Held(s)) /\ Range(Held(u)) = {} /\ Range(u.buf) = {}
      BY <3>1, <3>2, RangeFacts, RisingEmpty
    <3>4. Rising(Live(u)) /\ Rising(Held(u))
      BY <1>1, <3>1, <3>2, RisingJoined, RisingEmpty DEF Ordered
    <3>5. Below(u, n)
      BY <1>1, <1>5, <3>1, <3>3 DEF Below
    <3>6. Ordered(u)
      BY <1>1, <1>5, <3>3, <3>4 DEF Ordered
    <3> QED
      BY <3>5, <3>6
  <2> QED
    BY <2>1, <2>2
<1>7. Named(u, now)
  <2>1. /\ u.created <= now /\ u.mtime <= now /\ (u.file = "open" => u.live # NoFile)
    <3>1. CASE Writes(s, fault)
      <4>1. u.created = s.created /\ u.live # NoFile /\ u.mtime \in {s.mtime, now}
        BY <1>4, <3>1
      <4> QED
        BY <1>1, <4>1 DEF Named
    <3>2. CASE ~Writes(s, fault)
      BY <1>1, <1>4, <3>2 DEF Named
    <3> QED
      BY <3>1, <3>2
  <2>2. ASSUME NEW c \in Names(u)
        PROVE  /\ c <= now
               /\ u.live # NoFile => c <= u.mtime
               /\ u.file # "nil" => c <= u.created
    BY <1>1, <1>3, <1>4, <1>5, <2>2 DEF Named, Writes
  <2> QED
    BY <2>1, <2>2 DEF Named
<1>8. Fresh(u, wrote, now)
  <2>1. ASSUME ~Writes(s, fault), ~u.bad PROVE ~s.bad /\ Range(u.buf) = {}
    BY <1>4, <2>1, RisingEmpty
  <2>2. ASSUME Writes(s, fault) PROVE Range(u.buf) = {}
    BY <1>4, <2>2, RisingEmpty
  <2> QED
    BY <2>1, <2>2 DEF Fresh
<1>9. Fine(u)
  BY <1>4, <1>6, <1>7, <1>8 DEF Fine, n
<1> QED
  BY <1>9 DEF u

\* Cut comes after a flush: what is left in the buffer belongs to no file.
LEMMA CutFine ==
  ASSUME NEW s, NEW fault, Fine(s), Clock(wrote, now), s.file # "nil"
  PROVE  Fine(Cut(s, fault))
<1> DEFINE u == Cut(s, fault)  n == Len(wrote)
<1>1. /\ s \in Writers /\ Below(s, n) /\ Ordered(s) /\ Named(s, now)
      /\ now \in Nat /\ n \in Nat
  BY DEF Fine, Clock
<1>2. /\ u \in Writers /\ u.file = "closed" /\ u.buf = s.buf /\ u.created = s.created
      /\ u.mtime = s.mtime
      /\ s.live = NoFile \/ fault = "rename" =>
           u.live = s.live /\ u.zips = s.zips /\ u.logs = s.logs
      /\ s.live # NoFile /\ fault # "rename" =>
           /\ u.live = NoFile /\ Names(u) = Names(s) \cup {s.created}
           /\ Content(u, s.created) = (IF fault = "close" THEN <<>> ELSE s.live)
           /\ \A c \in Names(s) : c # s.created => Content(u, c) = Content(s, c)
  BY <1>1, CutOff
<1> HIDE DEF u, n
<1>3. Held(u) = <<>> /\ Range(Held(u)) = {} /\ Rising(Held(u))
  BY <1>2, RisingEmpty DEF Held
<1>4. Fresh(u, wrote, now)
  BY <1>2 DEF Fresh
<1>5. CASE s.live = NoFile \/ fault = "rename"
  <2>1. Names(u) = Names(s) /\ Live(u) = Live(s)
    BY <1>2, <1>5, SameArchives DEF Live
  <2>2. Below(u, n) /\ Ordered(u)
    BY <1>1, <1>2, <1>3, <1>5, <2>1, OrderKept
  <2>3. Named(u, now)
    BY <1>1, <1>2, <1>5, <2>1 DEF Named
  <2> QED
    BY <1>2, <1>4, <2>2, <2>3 DEF Fine, u, n
<1>6. CASE s.live # NoFile /\ fault # "rename"
  <2> DEFINE k == s.created
  <2>1. /\ Live(u) = <<>> /\ Range(Live(u)) = {} /\ Rising(Live(u)) /\ Live(s) = s.live
    BY <1>2, <1>6, RisingEmpty DEF Live
  <2>2. k \in Nat /\ k <= now /\ \A c \in Names(s) : c \in Nat /\ c <= k /\ c <= now
    BY <1>1, Archived, LiveFacts DEF Named
  <2>3. /\ u.live = NoFile /\ Names(u) = Names(s) \cup {k}
        /\ \A c \in Names(s) : c # k => Content(u, c) = Content(s, c)
        /\ Rising(Content(u, k)) /\ Range(Content(u, k)) \subseteq Range(Live(s))
    BY <1>1, <1>2, <1>6, <2>1, RisingEmpty DEF Ordered
  <2>4. Named(u, now)
    BY <1>1, <1>2, <2>2, <2>3 DEF Named
  <2> HIDE DEF k
  <2>5. Below(u, n)
    <3>1. ASSUME NEW c \in Names(u) PROVE Range(Content(u, c)) \subseteq 1..n
      <4>1. CASE c = k
        BY <1>1, <2>3, <4>1 DEF Below
      <4>2. CASE c # k
        BY <1>1, <2>3, <4>2 DEF Below
      <4> QED
        BY <4>1, <4>2
    <3> QED
      BY <1>1, <1>2, <2>1, <3>1 DEF Below
  <2>6. ASSUME NEW c \in Names(u)
        PROVE  /\ Rising(Content(u, c))
               /\ \A x \in Range(Content(u, c)) :
                    \A d \in Names(u) : c < d => \A y \in Range(Content(u, d)) : x < y
    <3>1. CASE c = k
      <4>1. \A d \in Names(u) : ~(c < d)
        BY <2>2, <2>3, <3>1
      <4> QED
        BY <1>1, <2>3, <3>1, <4>1 DEF Ordered
    <3>2. CASE c # k
      <4>1. c \in Names(s) /\ Content(u, c) = Content(s, c)
        BY <2>3, <3>2
      <4>2. /\ Rising(Content(s, c))
            /\ \A x \in Range(Content(s, c)) :
                 /\ \A y \in Range(Live(s)) : x < y
                 /\ \A d \in Names(s) : c < d => \A y \in Range(Content(s, d)) : x < y
        BY <1>1, <4>1 DEF Ordered
      <4>3. ASSUME NEW x \in Range(Content(s, c)), NEW d \in Names(u), c < d,
                   NEW y \in Range(Content(u, d))
            PROVE  x < y
        <5>1. CASE d = k
          BY <2>3, <4>2, <5>1
        <5>2. CASE d # k
          BY <2>3, <4>2, <4>3, <5>2
        <5> QED
          BY <5>1, <5>2
      <4> QED
        BY <4>1, <4>2, <4>3
    <3> QED
      BY <3>1, <3>2
  <2>7. Ordered(u)
    BY <1>3, <2>1, <2>6 DEF Ordered
  <2> QED
    BY <1>2, <1>4, <2>4, <2>5, <2>7 DEF Fine, u, n
<1> QED
  BY <1>5, <1>6

\* A file that is opened again gets the name of its last write, which is no
\* earlier than that of any backup.
LEMMA OpenFine ==
  ASSUME NEW s, NEW fault, Fine(s), Clock(wrote, now), s.file # "open"
  PROVE  Fine(Open(s, fault))
<1> DEFINE u == Open(s, fault)  n == Len(wrote)
<1>1. /\ s \in Writers /\ Below(s, n) /\ Ordered(s) /\ Named(s, now)
      /\ now \in Nat /\ n \in Nat
  BY DEF Fine, Clock
<1>2. /\ u \in Writers /\ u.zips = s.zips /\ u.logs = s.logs
      /\ u.created = (IF s.live # NoFile THEN s.mtime ELSE now)
      /\ fault = "open" => /\ u.file = s.file /\ u.buf = s.buf
                           /\ u.live = s.live /\ u.mtime = s.mtime
      /\ fault # "open" => /\ u.file = "open" /\ u.buf = <<>> /\ u.live = Live(s) /\ u.live # NoFile
                           /\ u.mtime = (IF s.live # NoFile THEN s.mtime ELSE now)
  BY <1>1, IsOpened
<1> HIDE DEF u, n
<1>3. Names(u) = Names(s)
  BY <1>2, SameArchives
<1>4. Live(u) = Live(s) /\ Held(u) = <<>> /\ (u.buf = s.buf \/ u.buf = <<>>)
  BY <1>2 DEF Live, Held
<1>5. Below(u, n) /\ Ordered(u)
  BY <1>1, <1>2, <1>4, OrderKept
<1>6. Named(u, now)
  <2>1. s.mtime \in Nat /\ s.mtime <= now /\ \A c \in Names(s) : c <= now /\ (s.live # NoFile => c <= s.mtime)
    BY <1>1, LiveFacts DEF Named
  <2>2. CASE fault = "open"
    BY <1>1, <1>2, <1>3, <2>1, <2>2 DEF Named
  <2>3. CASE fault # "open"
    BY <1>1, <1>2, <1>3, <2>1, <2>3 DEF Named
  <2> QED
    BY <2>2, <2>3
<1>7. Fresh(u, wrote, now)
  BY <1>2, RisingEmpty DEF Fresh
<1> QED
  BY <1>2, <1>5, <1>6, <1>7 DEF Fine, u, n

\* rotate is the flush, the cut and the opening.
LEMMA rotateIs ==
  ASSUME NEW s, NEW fault
  PROVE  /\ s.file = "nil" => rotate(s, fault) = Open(s, fault)
         /\ s.file # "nil" => rotate(s, fault) = Open(Cut(Flush(s, fault), fault), fault)
BY DEF rotate, Cut

\* So a rotation keeps the order, and so does each cut.
LEMMA rotateFine ==
  ASSUME NEW s, NEW fault, Fine(s), Clock(wrote, now)
  PROVE  Fine(rotate(s, fault))
<1>1. CASE s.file = "nil"
  BY <1>1, rotateIs, OpenFine
<1>2. CASE s.file # "nil"
  <2>1. Fine(Flush(s, fault)) /\ Flush(s, fault).file = s.file
    BY FlushFine DEF Flush, Fine, Writers
  <2>2. Fine(Cut(Flush(s, fault), fault)) /\ Cut(Flush(s, fault), fault).file = "closed"
    BY <1>2, <2>1, CutFine, CutOff DEF Fine
  <2> QED
    BY <1>2, <2>2, rotateIs, OpenFine
<1> QED
  BY <1>1, <1>2

LEMMA CutsFine ==
  ASSUME NEW s, NEW fault, Fine(s), Clock(wrote, now)
  PROVE  Fine(Opened(s, fault)) /\ Fine(DayCut(s, fault)) /\ Fine(SizeCut(s, fault))
BY rotateFine DEF Opened, DayCut, SizeCut

-----------------------------------------------------------------------------
(* A line is added                                                          *)

\* The lines accepted once t is what a Log with the next line leaves.
Grown(t) == IF Len(wrote) + 1 \in Range(t.buf) THEN Append(wrote, now) ELSE wrote

\* The history grows by the line that was accepted, or not at all.
LEMMA GrownFacts ==
  ASSUME NEW t, Clock(wrote, now)
  PROVE  /\ Clock(Grown(t), now) /\ Len(wrote) \in Nat /\ DOMAIN wrote = 1..Len(wrote)
         /\ \A n \in 1..Len(wrote) : n \in DOMAIN Grown(t) /\ Grown(t)[n] = wrote[n]
         /\ Len(wrote) + 1 \in Range(t.buf) => /\ Len(Grown(t)) = Len(wrote) + 1
                                               /\ Grown(t)[Len(wrote) + 1] = now
         /\ Len(wrote) + 1 \notin Range(t.buf) => Grown(t) = wrote
<1>1. wrote \in Seq(Nat) /\ now \in Nat /\ Len(wrote) \in Nat /\ DOMAIN wrote = 1..Len(wrote)
  BY DEF Clock
<1>2. CASE Len(wrote) + 1 \notin Range(t.buf)
  BY <1>1, <1>2 DEF Grown
<1>3. CASE Len(wrote) + 1 \in Range(t.buf)
  <2> DEFINE w == Append(wrote, now)
  <2>1. /\ w \in Seq(Nat) /\ Len(w) = Len(wrote) + 1 /\ w[Len(wrote) + 1] = now
        /\ DOMAIN w = 1..(Len(wrote) + 1)
        /\ \A n \in 1..Len(wrote) : n \in DOMAIN w /\ w[n] = wrote[n]
    BY <1>1
  <2>2. Grown(t) = w
    BY <1>3 DEF Grown
  <2> HIDE DEF w
  <2>3. ASSUME NEW i \in DOMAIN w PROVE w[i] <= now
    <3>1. CASE i = Len(wrote) + 1
      BY <1>1, <2>1, <3>1
    <3>2. CASE i # Len(wrote) + 1
      BY <1>1, <2>1, <3>2 DEF Clock
    <3> QED
      BY <3>1, <3>2
  <2>4. ASSUME NEW i \in DOMAIN w, NEW j \in DOMAIN w, i < j PROVE w[i] <= w[j]
    <3>1. CASE j = Len(wrote) + 1
      BY <2>1, <2>3, <3>1
    <3>2. CASE j # Len(wrote) + 1
      <4>1. i \in 1..Len(wrote) /\ j \in 1..Len(wrote)
        BY <1>1, <2>1, <2>4, <3>2
      <4> QED
        BY <1>1, <2>1, <2>4, <4>1 DEF Clock
    <3> QED
      BY <3>1, <3>2
  <2>5. Clock(w, now)
    BY <1>1, <2>1, <2>3, <2>4 DEF Clock
  <2> QED
    BY <1>1, <1>3, <2>1, <2>2, <2>5
<1> QED
  BY <1>2, <1>3

\* The flush for want of room.
LEMMA RoomFine ==
  ASSUME NEW s, NEW fault, Fine(s), Clock(wrote, now)
  PROVE  Fine(Room(s, fault))
BY FlushFine DEF Room

\* What is below the lines accepted before, is not the next one.
LEMMA NotYet ==
  ASSUME NEW s, Fine(s), Clock(wrote, now)
  PROVE  Len(wrote) + 1 \notin Range(s.buf)
<1>1. Len(wrote) \in Nat /\ Range(s.buf) \subseteq 1..Len(wrote)
  BY DEF Fine, Below, Clock
<1> QED
  BY <1>1

\* The next line comes after all the others.
LEMMA BufferedFine ==
  ASSUME NEW s, NEW fault, Fine(s), Clock(wrote, now),
         NEW t, t = Buffered(s, Len(wrote) + 1, fault)
  PROVE  /\ t \in Writers /\ Below(t, Len(Grown(t))) /\ Ordered(t) /\ Named(t, now)
         /\ Fresh(t, Grown(t), now)
<1> DEFINE r == Room(s, fault)  n == Len(wrote)
<1>1. Fine(r) /\ s \in Writers /\ n \in Nat /\ n + 1 \in Nat
  BY RoomFine DEF Fine, Clock
<1>2. /\ r \in Writers /\ Below(r, n) /\ Ordered(r) /\ Named(r, now) /\ Fresh(r, wrote, now)
      /\ wrote \in Seq(Nat) /\ now \in Nat /\ n + 1 \notin Range(r.buf)
  BY <1>1, NotYet DEF Fine, Clock
<1>3. /\ t \in Writers
      /\ r.bad => t = r
      /\ ~r.bad =>
           /\ t.buf = Append(r.buf, n + 1) /\ t.file = r.file /\ t.live = r.live
           /\ t.created = r.created /\ t.mtime = r.mtime
           /\ t.zips = r.zips /\ t.logs = r.logs
  BY <1>1, <1>2, Added
<1>4. CASE r.bad
  <2>1. t = r /\ Grown(t) = wrote
    BY <1>2, <1>3, <1>4 DEF Grown
  <2> HIDE DEF r
  <2> QED
    BY <1>2, <2>1
<1>5. CASE ~r.bad
  <2> HIDE DEF r
  <2>1. r.buf \in Seq(Nat) /\ Held(r) \in Seq(Nat) /\ Range(Held(r)) \subseteq Range(r.buf)
    BY <1>2, LiveFacts
  <2>2. Range(t.buf) = Range(r.buf) \cup {n + 1}
    BY <1>1, <1>3, <1>5, <2>1, Appended
  <2>3. Live(t) = Live(r) /\ Held(t) = (IF t.file = "open" THEN Append(Held(r), n + 1) ELSE Held(r))
    BY <1>3, <1>5 DEF Live, Held
  <2>4. Names(t) = Names(r) /\ \A c : Content(t, c) = Content(r, c)
    BY <1>3, <1>5, SameArchives
  <2>5. Len(Grown(t)) = n + 1 /\ Grown(t)[n + 1] = now
        /\ \A i \in 1..n : i \in DOMAIN Grown(t) /\ Grown(t)[i] = wrote[i]
    BY <2>2, GrownFacts
  <2>6. /\ Range(Live(r)) \subseteq 1..n /\ Range(r.buf) \subseteq 1..n
        /\ \A c \in Names(r) : Range(Content(r, c)) \subseteq 1..n
    BY <1>2 DEF Below
  <2>7. Below(t, n + 1)
    <3>1. \A k \in 1..n : k \in 1..(n + 1)
      BY <1>1
    <3>2. n + 1 \in 1..(n + 1)
      BY <1>1
    <3> HIDE DEF n
    <3> QED
      BY <2>2, <2>3, <2>4, <2>6, <3>1, <3>2 DEF Below
  <2>8. \A k \in 1..n : k < n + 1 /\ k \in Nat
    BY <1>1
  <2>9. /\ Rising(Held(t))
        /\ Range(Held(t)) \subseteq Range(Held(r)) \cup {n + 1}
    <3>1. Rising(Held(r)) /\ \A k \in Range(Held(r)) : k < n + 1
      BY <1>2, <2>1, <2>6, <2>8 DEF Ordered
    <3>2. Rising(Append(Held(r), n + 1)) /\ Range(Append(Held(r), n + 1)) = Range(Held(r)) \cup {n + 1}
      BY <1>1, <2>1, <3>1, Appended
    <3> QED
      BY <2>3, <3>1, <3>2
  <2>10. \A x \in Range(Live(t)), y \in Range(Held(t)) : x < y
    BY <1>2, <2>3, <2>6, <2>8, <2>9 DEF Ordered
  <2>11. ASSUME NEW c \in Names(t)
         PROVE  /\ Rising(Content(t, c))
                /\ \A x \in Range(Content(t, c)) :
                     /\ \A y \in Range(Live(t)) \cup Range(Held(t)) : x < y
                     /\ \A d \in Names(t) : c < d => \A y \in Range(Content(t, d)) : x < y
    <3>1. /\ Rising(Content(r, c))
          /\ \A x \in Range(Content(r, c)) :
               /\ \A y \in Range(Live(r)) \cup Range(Held(r)) : x < y
               /\ \A d \in Names(r) : c < d => \A y \in Range(Content(r, d)) : x < y
      BY <1>2, <2>4 DEF Ordered
    <3>2. \A x \in Range(Content(r, c)) : x < n + 1
      BY <2>4, <2>6, <2>8
    <3> QED
      BY <2>3, <2>4, <2>9, <3>1, <3>2
  <2>12. Ordered(t)
    BY <1>2, <2>3, <2>9, <2>10, <2>11 DEF Ordered
  <2>13. Named(t, now)
    BY <1>2, <1>3, <1>5, <2>4 DEF Named
  <2>14. Fresh(t, Grown(t), now)
    <3>1. now - now <= FlushEvery
      BY <1>2, ConstantFacts
    <3>2. ASSUME t.file = "open", ~t.bad, NEW k \in Range(t.buf) PROVE now - Grown(t)[k] <= FlushEvery
      <4>1. CASE k = n + 1
        BY <2>5, <3>1, <4>1
      <4>2. CASE k # n + 1
        <5>1. k \in Range(r.buf) /\ k \in 1..n /\ r.file = "open" /\ ~r.bad
          BY <1>3, <1>5, <2>2, <2>6, <3>2, <4>2
        <5> QED
          BY <1>2, <2>5, <5>1 DEF Fresh
      <4> QED
        BY <4>1, <4>2
    <3> QED
      BY <3>2 DEF Fresh
  <2> QED
    BY <1>3, <2>5, <2>7, <2>12, <2>13, <2>14
<1> QED
  BY <1>4, <1>5

-----------------------------------------------------------------------------
(* Written: what a Log may leave                                            *)

\* The error returns of Write leave what the rotations left.
LEMMA WrittenIs ==
  ASSUME NEW s, NEW line, NEW fault
  PROVE  LET a == Opened(s, fault)
             b == DayCut(a, fault)
         IN \/ Written(s, line, fault) = a /\ fault = "open" /\ s.file = "nil"
            \/ Written(s, line, fault) = b /\ fault = "open" /\ s.file # "nil"
            \/ /\ Written(s, line, fault) = SizeCut(b, fault) /\ fault = "open"
               /\ s.file # "nil" /\ ~NewDay(a)
            \/ /\ Written(s, line, fault) = Buffered(SizeCut(b, fault), line, fault)
               /\ s.file = "nil" => fault # "open"
BY DEF Written

\* Whatever Write returns, the lines are in order.
LEMMA WrittenFine ==
  ASSUME NEW s, NEW fault, Fine(s), Clock(wrote, now),
         NEW t, t = Written(s, Len(wrote) + 1, fault)
  PROVE  /\ t \in Writers /\ Below(t, Len(Grown(t))) /\ Ordered(t) /\ Named(t, now)
         /\ Fresh(t, Grown(t), now) /\ Clock(Grown(t), now)
<1> DEFINE a == Opened(s, fault)  b == DayCut(a, fault)  c == SizeCut(b, fault)
<1>1. Fine(a)
  BY CutsFine
<1>2. Fine(b)
  BY <1>1, CutsFine
<1>3. Fine(c)
  BY <1>2, CutsFine
<1>4. t \in {a, b, c} \/ t = Buffered(c, Len(wrote) + 1, fault)
  BY WrittenIs
<1> HIDE DEF a, b, c
<1>5. CASE t \in {a, b, c}
  <2>1. Fine(t)
    BY <1>1, <1>2, <1>3, <1>5
  <2>2. Grown(t) = wrote
    BY <2>1, NotYet DEF Grown
  <2> QED
    BY <2>1, <2>2 DEF Fine
<1>6. CASE t = Buffered(c, Len(wrote) + 1, fault)
  BY <1>3, <1>6, BufferedFine, GrownFacts
<1> QED
  BY <1>4, <1>5, <1>6

-----------------------------------------------------------------------------
(* What a rotation leaves                                                   *)

\* s is flushed, and cut off.
LEMMA FlushedFine ==
  ASSUME NEW s, NEW fault, Fine(s), Clock(wrote, now)
  PROVE  /\ Flush(s, fault) \in Writers
         /\ Flush(s, fault).file = s.file /\ Flush(s, fault).created = s.created
         /\ Flush(s, fault).size = s.size
         /\ Flush(s, fault).zips = s.zips /\ Flush(s, fault).logs = s.logs
         /\ Names(Flush(s, fault)) = Names(s)
         /\ \A c : Content(Flush(s, fault), c) = Content(s, c)
         /\ ~Writes(s, fault) =>
              /\ Flush(s, fault).buf = s.buf /\ Flush(s, fault).live = s.live
              /\ Flush(s, fault).mtime = s.mtime /\ Held(Flush(s, fault)) = Held(s)
              /\ Live(Flush(s, fault)) = Live(s)
         /\ Writes(s, fault) =>
              /\ Flush(s, fault).buf = <<>>
              /\ Flush(s, fault).live # NoFile /\ s.live # NoFile
              /\ Flush(s, fault).mtime = (IF s.buf = <<>> THEN s.mtime ELSE now)
              /\ Range(Live(Flush(s, fault))) = Range(Live(s)) \cup Range(s.buf)
<1> DEFINE u == Flush(s, fault)
<1>1. /\ s \in Writers /\ now \in Nat /\ (s.file = "open" => s.live # NoFile)
      /\ 0 \notin Range(Live(s)) \cup Range(Held(s))
  BY LiveFacts DEF Fine, Clock, Named, Below
<1>2. /\ u \in Writers
      /\ u.file = s.file /\ u.created = s.created /\ u.size = s.size
      /\ u.zips = s.zips /\ u.logs = s.logs
      /\ ~Writes(s, fault) => u.buf = s.buf /\ u.live = s.live /\ u.mtime = s.mtime
      /\ Writes(s, fault) => /\ u.buf = <<>> /\ u.live = s.live \o s.buf /\ u.live # NoFile
                             /\ u.mtime = (IF s.buf = <<>> THEN s.mtime ELSE now)
  <2>1. /\ u \in Writers
        /\ u.file = s.file /\ u.created = s.created /\ u.size = s.size
        /\ u.zips = s.zips /\ u.logs = s.logs
        /\ ~Writes(s, fault) => u.buf = s.buf /\ u.live = s.live /\ u.mtime = s.mtime
        /\ Writes(s, fault) => /\ u.buf = <<>> /\ u.live # NoFile
                               /\ u.mtime = (IF s.buf = <<>> THEN s.mtime ELSE now)
    BY <1>1, Flushed
  <2>2. Writes(s, fault) => u.live = s.live \o s.buf
    BY <1>1, Joined
  <2> HIDE DEF u
  <2> QED
    BY <2>1, <2>2
<1> HIDE DEF u
<1>3. Names(u) = Names(s) /\ \A c : Content(u, c) = Content(s, c)
  BY <1>2, SameArchives
<1>4. ASSUME Writes(s, fault) PROVE Range(Live(u)) = Range(Live(s)) \cup Range(s.buf)
  <2>1. Live(u) = Live(s) \o Held(s) /\ Held(s) = s.buf
    BY <1>1, <1>2, <1>4 DEF Live, Held, Writes
  <2> QED
    BY <1>1, <2>1, LiveFacts, RangeFacts
<1>5. ASSUME ~Writes(s, fault) PROVE Live(u) = Live(s) /\ Held(u) = Held(s)
  BY <1>2, <1>5 DEF Live, Held
<1>6. Writes(s, fault) => s.live # NoFile
  BY <1>1 DEF Writes
<1> QED
  BY <1>1, <1>2, <1>3, <1>4, <1>5, <1>6 DEF u

\* A rotation keeps the names, and takes the lines of the file, and those it can
\* flush, to the backup named after created, unless a rename or a Close failed.
Flushable(s, fault) ==
  Range(Live(s)) \cup (IF Writes(s, fault) THEN Range(s.buf) ELSE {})

LEMMA Rotated ==
  ASSUME NEW s, NEW fault, Fine(s), Clock(wrote, now), NEW u, u = rotate(s, fault)
  PROVE  /\ fault # "open" => u.file = "open"
         /\ s.file # "nil" => u.file # "nil"
         /\ s.file # "nil" /\ fault # "rename" => u.created = now
         /\ Names(s) \subseteq Names(u)
         /\ \A c \in Names(s) :
              \/ Content(u, c) = Content(s, c)
              \/ c = s.created /\ s.file # "nil" /\ fault # "rename"
         /\ fault # "close" => \A n \in Flushable(s, fault) :
              \/ n \in Range(Live(u))
              \/ /\ s.created \in Names(u) /\ n \in Range(Content(u, s.created))
                 /\ s.file # "nil" /\ fault # "rename"
<1>1. s \in Writers /\ now \in Nat
  BY DEF Fine, Clock
<1>2. CASE s.file = "nil"
  <2>1. u = Open(s, fault)
    BY <1>2, rotateIs
  <2>2. /\ u.zips = s.zips /\ u.logs = s.logs
        /\ fault # "open" => u.file = "open" /\ u.live = Live(s) /\ u.live # NoFile
        /\ fault = "open" => u.live = s.live
    BY <1>1, <2>1, IsOpened
  <2>3. Live(u) = Live(s) /\ Flushable(s, fault) = Range(Live(s))
    BY <1>2, <2>2 DEF Live, Flushable, Writes
  <2>4. Names(u) = Names(s) /\ \A c : Content(u, c) = Content(s, c)
    BY <2>2, SameArchives
  <2> QED
    BY <1>2, <2>2, <2>3, <2>4, RisingEmpty
<1>3. CASE s.file # "nil"
  <2> DEFINE f == Flush(s, fault)  k == Cut(f, fault)
  <2>1. u = Open(k, fault)
    BY <1>3, rotateIs
  <2>2. /\ f \in Writers /\ f.created = s.created /\ f.file = s.file
        /\ Names(f) = Names(s) /\ \A c : Content(f, c) = Content(s, c)
        /\ Range(Live(f)) = Flushable(s, fault)
    BY FlushedFine DEF Flushable
  <2> HIDE DEF f
  <2>3. /\ k \in Writers /\ k.file = "closed" /\ k.created = f.created
        /\ f.live = NoFile \/ fault = "rename" =>
             k.live = f.live /\ k.zips = f.zips /\ k.logs = f.logs
        /\ f.live # NoFile /\ fault # "rename" =>
             /\ k.live = NoFile /\ Names(k) = Names(f) \cup {f.created}
             /\ Content(k, f.created) = (IF fault = "close" THEN <<>> ELSE f.live)
             /\ \A c \in Names(f) : c # f.created => Content(k, c) = Content(f, c)
    BY <2>2, CutOff
  <2> HIDE DEF k
  <2>4. /\ u.zips = k.zips /\ u.logs = k.logs
        /\ fault # "open" => u.file = "open" /\ u.live = Live(k) /\ u.live # NoFile
        /\ fault = "open" => u.live = k.live /\ u.file = k.file
        /\ k.live = NoFile => u.created = now
    BY <1>1, <2>1, <2>3, IsOpened
  <2>5. Live(u) = Live(k)
    BY <2>4 DEF Live
  <2>6. Names(u) = Names(k) /\ \A c : Content(u, c) = Content(k, c)
    BY <2>4, SameArchives
  <2>7. CASE f.live = NoFile \/ fault = "rename"
    <3>1. /\ Names(k) = Names(f) /\ \A c : Content(k, c) = Content(f, c)
          /\ Live(k) = Live(f)
      BY <2>3, <2>7, SameArchives DEF Live
    <3>2. fault # "rename" => u.created = now
      BY <2>3, <2>4, <2>7
    <3> QED
      BY <1>3, <2>2, <2>3, <2>4, <2>5, <2>6, <3>1, <3>2
  <2>8. CASE f.live # NoFile /\ fault # "rename"
    <3>1. Live(f) = f.live
      BY <2>8 DEF Live
    <3>2. /\ s.created \in Names(u)
          /\ fault # "close" => Range(Content(u, s.created)) = Flushable(s, fault)
          /\ u.created = now
      BY <2>2, <2>3, <2>4, <2>6, <2>8, <3>1
    <3>3. /\ Names(s) \subseteq Names(u)
          /\ \A c \in Names(s) : c # s.created => Content(u, c) = Content(s, c)
      BY <2>2, <2>3, <2>6, <2>8
    <3> QED
      BY <1>3, <2>3, <2>4, <2>8, <3>2, <3>3
  <2> QED
    BY <2>7, <2>8
<1> QED
  BY <1>2, <1>3

-----------------------------------------------------------------------------
(* The seconds in the names                                                 *)

\* A flush writes them now, no earlier than they were accepted.
LEMMA FlushDated ==
  ASSUME NEW s, NEW fault, Fine(s), Clock(wrote, now), Dated(s, wrote)
  PROVE  Dated(Flush(s, fault), wrote)
<1> DEFINE u == Flush(s, fault)
<1>1. /\ u.file = s.file /\ u.created = s.created
      /\ Names(u) = Names(s) /\ \A c : Content(u, c) = Content(s, c)
      /\ ~Writes(s, fault) => u.buf = s.buf /\ u.live = s.live /\ u.mtime = s.mtime
      /\ Writes(s, fault) => /\ u.buf = <<>>
                             /\ u.mtime = (IF s.buf = <<>> THEN s.mtime ELSE now)
      /\ ~Writes(s, fault) => Live(u) = Live(s)
      /\ Writes(s, fault) => Range(Live(u)) = Range(Live(s)) \cup Range(s.buf)
  BY FlushedFine
<1>2. \A n \in Range(Live(s)) \cup Range(s.buf) : n \in DOMAIN wrote /\ wrote[n] <= now
  BY LiveFacts DEF Fine, Below, Clock
<1> HIDE DEF u
<1>3. /\ u.file = "open" => \A n \in Range(Live(u)) \cup Range(u.buf) : wrote[n] < u.created + DayLen
      /\ \A n \in Range(Live(u)) : wrote[n] <= u.mtime
  <2>1. CASE Writes(s, fault)
    <3>1. Range(u.buf) = {} /\ s.file = "open"
      BY <1>1, <2>1, RisingEmpty DEF Writes
    <3>2. \A n \in Range(Live(u)) : wrote[n] <= u.mtime
      <4>1. CASE s.buf = <<>>
        BY <1>1, <2>1, <3>1, <4>1, RisingEmpty DEF Dated
      <4>2. CASE s.buf # <<>>
        BY <1>1, <1>2, <2>1, <4>2
      <4> QED
        BY <4>1, <4>2
    <3> QED
      BY <1>1, <2>1, <3>1, <3>2 DEF Dated
  <2>2. CASE ~Writes(s, fault)
    BY <1>1, <2>2 DEF Dated
  <2> QED
    BY <2>1, <2>2
<1>4. u.file = "closed" => u.live = NoFile
  BY <1>1 DEF Dated, Writes
<1>5. \A c \in Names(u) : \A n \in Range(Content(u, c)) : wrote[n] < c + DayLen
  BY <1>1 DEF Dated
<1>6. Dated(u, wrote)
  BY <1>3, <1>4, <1>5 DEF Dated
<1> QED
  BY <1>6 DEF u

\* The name of the new backup is the second its file was counted from.
LEMMA CutDated ==
  ASSUME NEW s \in Writers, NEW fault, fault # "rename", s.file # "nil", Dated(s, wrote)
  PROVE  Dated(Cut(s, fault), wrote)
<1> DEFINE u == Cut(s, fault)
<1>1. /\ u \in Writers /\ u.file = "closed" /\ u.buf = s.buf /\ u.created = s.created
      /\ u.mtime = s.mtime
      /\ s.live = NoFile => u.live = s.live /\ u.zips = s.zips /\ u.logs = s.logs
      /\ s.live # NoFile =>
           /\ u.live = NoFile /\ Names(u) = Names(s) \cup {s.created}
           /\ Content(u, s.created) = (IF fault = "close" THEN <<>> ELSE s.live)
           /\ \A c \in Names(s) : c # s.created => Content(u, c) = Content(s, c)
  BY CutOff
<1> HIDE DEF u
<1>2. u.live = NoFile /\ Range(Live(u)) = {}
  BY <1>1, RisingEmpty DEF Live
<1>3. \A c \in Names(u) : \A n \in Range(Content(u, c)) : wrote[n] < c + DayLen
  <2>1. CASE s.live = NoFile
    BY <1>1, <2>1, SameArchives DEF Dated
  <2>2. CASE s.live # NoFile
    <3>1. s.file = "open" /\ Live(s) = s.live
      BY <2>2 DEF Dated, Writers, Live
    <3>2. \A n \in Range(Content(u, s.created)) : wrote[n] < s.created + DayLen
      BY <1>1, <2>2, <3>1, RisingEmpty DEF Dated
    <3>3. \A c \in Names(s) : \A n \in Range(Content(s, c)) : wrote[n] < c + DayLen
      BY DEF Dated
    <3> QED
      BY <1>1, <2>2, <3>2, <3>3
  <2> QED
    BY <2>1, <2>2
<1>4. Dated(u, wrote)
  BY <1>1, <1>2, <1>3 DEF Dated
<1> QED
  BY <1>4 DEF u

\* The second of the last write is no earlier than any line.
LEMMA OpenDated ==
  ASSUME NEW s, NEW fault, Fine(s), Clock(wrote, now), s.file # "open", Dated(s, wrote)
  PROVE  Dated(Open(s, fault), wrote)
<1> DEFINE u == Open(s, fault)
<1>1. s \in Writers /\ now \in Nat /\ s.mtime \in Nat
  BY LiveFacts DEF Fine, Clock
<1>2. /\ u \in Writers /\ u.zips = s.zips /\ u.logs = s.logs
      /\ u.created = (IF s.live # NoFile THEN s.mtime ELSE now)
      /\ fault = "open" => /\ u.file = s.file /\ u.buf = s.buf
                           /\ u.live = s.live /\ u.mtime = s.mtime
      /\ fault # "open" => /\ u.file = "open" /\ u.buf = <<>> /\ u.live = Live(s) /\ u.live # NoFile
                           /\ u.mtime = (IF s.live # NoFile THEN s.mtime ELSE now)
  BY <1>1, IsOpened
<1>3. \A n \in Range(Live(s)) : wrote[n] \in Nat /\ wrote[n] <= s.mtime
  BY LiveFacts DEF Fine, Below, Clock, Dated
<1>4. s.live = NoFile => Range(Live(s)) = {}
  BY RisingEmpty DEF Live
<1> HIDE DEF u
<1>5. Names(u) = Names(s) /\ \A c : Content(u, c) = Content(s, c)
  BY <1>2, SameArchives
<1>6. Live(u) = Live(s)
  BY <1>2 DEF Live
<1>7. \A n \in Range(Live(u)) : wrote[n] <= u.mtime
  BY <1>2, <1>3, <1>4, <1>6
<1>8. u.file = "open" => \A n \in Range(Live(u)) \cup Range(u.buf) : wrote[n] < u.created + DayLen
  <2>1. ASSUME u.file = "open" PROVE fault # "open" /\ Range(u.buf) = {}
    BY <1>2, <2>1, RisingEmpty
  <2>2. ASSUME NEW n \in Range(Live(u)) PROVE wrote[n] < u.created + DayLen
    <3>1. s.live # NoFile /\ u.created = s.mtime
      BY <1>2, <1>4, <1>6
    <3> QED
      BY <1>1, <1>3, <1>6, <3>1, ConstantFacts
  <2> QED
    BY <2>1, <2>2
<1>9. /\ \A c \in Names(u) : \A n \in Range(Content(u, c)) : wrote[n] < c + DayLen
      /\ u.file = "closed" => u.live = NoFile
  BY <1>2, <1>5 DEF Dated
<1>10. Dated(u, wrote)
  BY <1>7, <1>8, <1>9 DEF Dated
<1> QED
  BY <1>10 DEF u

\* So a rotation keeps the dates, and so does each cut.
LEMMA rotateDated ==
  ASSUME NEW s, NEW fault, fault # "rename", Fine(s), Clock(wrote, now), Dated(s, wrote)
  PROVE  Dated(rotate(s, fault), wrote)
<1>1. CASE s.file = "nil"
  BY <1>1, rotateIs, OpenDated
<1>2. CASE s.file # "nil"
  <2>1. Fine(Flush(s, fault)) /\ Flush(s, fault) \in Writers /\ Flush(s, fault).file # "nil" /\ Dated(Flush(s, fault), wrote)
    BY <1>2, FlushFine, FlushedFine, FlushDated
  <2>2. /\ Fine(Cut(Flush(s, fault), fault)) /\ Cut(Flush(s, fault), fault).file = "closed"
        /\ Dated(Cut(Flush(s, fault), fault), wrote)
    BY <2>1, CutFine, CutOff, CutDated
  <2> QED
    BY <1>2, <2>2, rotateIs, OpenDated
<1> QED
  BY <1>1, <1>2

LEMMA CutsDated ==
  ASSUME NEW s, NEW fault, fault # "rename", Fine(s), Clock(wrote, now), Dated(s, wrote)
  PROVE  /\ Dated(Opened(s, fault), wrote) /\ Dated(DayCut(s, fault), wrote)
         /\ Dated(SizeCut(s, fault), wrote)
BY rotateDated DEF Opened, DayCut, SizeCut

\* A line goes to a file that was counted from today.
LEMMA BufferedDated ==
  ASSUME NEW s, NEW fault, Fine(s), Clock(wrote, now), Dated(s, wrote), ~NewDay(s),
         NEW t, t = Buffered(s, Len(wrote) + 1, fault)
  PROVE  Dated(t, Grown(t))
<1> DEFINE r == Room(s, fault)  n == Len(wrote)
<1>1. /\ Fine(r) /\ Dated(r, wrote) /\ r.created = s.created /\ s \in Writers
  BY RoomFine, FlushDated, FlushedFine DEF Room, Fine
<1>2. /\ r \in Writers /\ n \in Nat /\ Below(r, n) /\ now \in Nat /\ s.created \in Nat
      /\ n + 1 \notin Range(r.buf) /\ n + 1 \in Nat
  BY <1>1, NotYet, LiveFacts DEF Fine, Clock
<1>3. /\ r.bad => t = r
      /\ ~r.bad =>
           /\ t.buf = Append(r.buf, n + 1) /\ t.file = r.file /\ t.live = r.live
           /\ t.created = r.created /\ t.mtime = r.mtime
           /\ t.zips = r.zips /\ t.logs = r.logs
  BY <1>1, <1>2, Added
<1>4. now < s.created + DayLen
  <2>1. s.created \div DayLen = now \div DayLen
    BY DEF NewDay, Day
  <2> DEFINE e == s.created
  <2>2. e \in Nat /\ e \div DayLen = now \div DayLen
    BY <1>2, <2>1
  <2> HIDE DEF e
  <2>3. now < e + DayLen
    BY <1>2, <2>2, ConstantFacts, Division
  <2> QED
    BY <2>3 DEF e
<1> HIDE DEF r
<1>5. \A k \in 1..n : Grown(t)[k] = wrote[k]
  BY GrownFacts
<1>6. CASE r.bad
  BY <1>1, <1>2, <1>3, <1>6 DEF Grown
<1>7. CASE ~r.bad
  <2>1. r.buf \in Seq(Nat) /\ Range(t.buf) = Range(r.buf) \cup {n + 1}
    BY <1>2, <1>3, <1>7, LiveFacts, Appended
  <2>2. Grown(t)[n + 1] = now
    BY <2>1, GrownFacts
  <2>3. Names(t) = Names(r) /\ (\A c : Content(t, c) = Content(r, c)) /\ Live(t) = Live(r)
    BY <1>3, <1>7, SameArchives DEF Live
  <2>4. /\ \A k \in Range(Live(r)) \cup Range(r.buf) : Grown(t)[k] = wrote[k]
        /\ \A c \in Names(r) : \A k \in Range(Content(r, c)) : Grown(t)[k] = wrote[k]
    BY <1>2, <1>5 DEF Below
  <2>5. t.file = "open" =>
          \A k \in Range(Live(t)) \cup Range(t.buf) : Grown(t)[k] < t.created + DayLen
    <3>1. ASSUME t.file = "open", NEW k \in Range(Live(r)) \cup Range(r.buf)
          PROVE  Grown(t)[k] < t.created + DayLen
      BY <1>1, <1>3, <1>7, <2>4, <3>1 DEF Dated
    <3>2. Grown(t)[n + 1] < t.created + DayLen
      BY <1>1, <1>3, <1>4, <1>7, <2>2
    <3> QED
      BY <2>1, <2>3, <3>1, <3>2
  <2>6. \A k \in Range(Live(t)) : Grown(t)[k] <= t.mtime
    BY <1>1, <1>3, <1>7, <2>3, <2>4 DEF Dated
  <2>7. /\ \A c \in Names(t) : \A k \in Range(Content(t, c)) : Grown(t)[k] < c + DayLen
        /\ t.file = "closed" => t.live = NoFile
    BY <1>1, <1>3, <1>7, <2>3, <2>4 DEF Dated
  <2> QED
    BY <2>5, <2>6, <2>7 DEF Dated
<1> QED
  BY <1>6, <1>7

\* After the cut of the day the file is one of today, also after the other cut.
LEMMA DayKept ==
  ASSUME NEW s, NEW fault, Fine(s), Clock(wrote, now), s.file # "nil", fault # "rename"
  PROVE  /\ DayCut(s, fault).file # "nil" /\ ~NewDay(DayCut(s, fault))
         /\ ~NewDay(s) => ~NewDay(SizeCut(s, fault))
<1>1. rotate(s, fault).file # "nil" /\ rotate(s, fault).created = now
  BY Rotated
<1>2. ~NewDay(rotate(s, fault))
  BY <1>1 DEF NewDay
<1> QED
  BY <1>1, <1>2 DEF DayCut, SizeCut

LEMMA OpenedIs ==
  ASSUME NEW s, NEW fault, Fine(s), Clock(wrote, now), s.file = "nil" => fault # "open"
  PROVE  Opened(s, fault).file # "nil"
BY Rotated DEF Opened

\* Whatever Write returns, a file spans less than a day and its backup is named
\* no more than a day before any of its lines.
LEMMA WrittenDated ==
  ASSUME NEW s, NEW fault, fault # "rename", Fine(s), Clock(wrote, now), Dated(s, wrote),
         NEW t, t = Written(s, Len(wrote) + 1, fault)
  PROVE  Dated(t, Grown(t))
<1> DEFINE a == Opened(s, fault)  b == DayCut(a, fault)  c == SizeCut(b, fault)
<1>1. Fine(a) /\ Dated(a, wrote)
  BY CutsFine, CutsDated
<1>2. Fine(b) /\ Dated(b, wrote)
  BY <1>1, CutsFine, CutsDated
<1>3. Fine(c) /\ Dated(c, wrote)
  BY <1>2, CutsFine, CutsDated
<1>4. CASE t \in {a, b, c}
  <2>1. Fine(t) /\ Dated(t, wrote)
    BY <1>1, <1>2, <1>3, <1>4
  <2>2. Grown(t) = wrote
    BY <2>1, NotYet DEF Grown
  <2> QED
    BY <2>1, <2>2
<1>5. CASE t = Buffered(c, Len(wrote) + 1, fault) /\ (s.file = "nil" => fault # "open")
  <2>1. a.file # "nil"
    BY <1>5, OpenedIs
  <2>2. b.file # "nil" /\ ~NewDay(b)
    BY <1>1, <2>1, DayKept
  <2>3. ~NewDay(c)
    BY <1>2, <2>2, DayKept
  <2> QED
    BY <1>3, <1>5, <2>3, BufferedDated
<1> QED
  BY <1>4, <1>5, WrittenIs

-----------------------------------------------------------------------------
(* The sizes                                                                *)

\* Lines are counted one by one.
LEMMA LinesAre ==
  ASSUME NEW s, NEW a \in Nat, NEW b \in Nat, Len(s.live) = a, Len(s.buf) = b
  PROVE  Lines(s) = a + b
BY DEF Lines

\* A flush moves lines, and their number stays.
LEMMA FlushBounded ==
  ASSUME NEW s, NEW fault, Fine(s), Clock(wrote, now), Bounded(s)
  PROVE  Bounded(Flush(s, fault))
<1> DEFINE u == Flush(s, fault)
<1>1. /\ u.file = s.file /\ u.size = s.size /\ u.zips = s.zips
      /\ ~Writes(s, fault) => u.live = s.live /\ u.buf = s.buf
      /\ Writes(s, fault) => u.buf = <<>> /\ u.live = s.live \o s.buf /\ u.live # NoFile
  <2>1. /\ u.file = s.file /\ u.size = s.size /\ u.zips = s.zips
        /\ ~Writes(s, fault) => u.live = s.live /\ u.buf = s.buf
        /\ Writes(s, fault) => u.buf = <<>> /\ u.live # NoFile
    BY FlushedFine
  <2>2. Writes(s, fault) => u.live = s.live \o s.buf
    BY Joined DEF Fine
  <2> HIDE DEF u
  <2> QED
    BY <2>1, <2>2
<1>0. u.size \in Nat /\ Len(s.live) \in Nat /\ Len(u.live) \in Nat /\ MaxSize \in Nat
  BY FlushedFine, LiveFacts, ConstantFacts DEF Fine
<1> HIDE DEF u
<1>2. CASE ~Writes(s, fault)
  BY <1>0, <1>1, <1>2 DEF Bounded, Lines, u
<1>3. CASE Writes(s, fault)
  <2>1. s.live \in Seq(Nat) /\ s.buf \in Seq(Nat)
    BY LiveFacts DEF Fine
  <2>2. Lines(u) = Lines(s) /\ Len(u.live) = Lines(s)
    <3> DEFINE a == Len(s.live)  b == Len(s.buf)
    <3>1. Len(s.live \o s.buf) = a + b /\ a \in Nat /\ b \in Nat
      BY <2>1, RangeFacts, LiveFacts DEF Fine
    <3>2. Len(u.live) = a + b /\ Len(u.buf) = 0
      BY <1>1, <1>3, <3>1
    <3>3. Lines(s) = a + b
      BY <3>1, LinesAre
    <3> HIDE DEF a, b
    <3>4. Lines(u) = (a + b) + 0
      BY <3>1, <3>2, LinesAre
    <3> QED
      BY <3>1, <3>2, <3>3, <3>4
  <2>3. Bounded(u)
    BY <1>0, <1>1, <1>3, <2>2 DEF Bounded, Writes
  <2> QED
    BY <2>3 DEF u
<1> QED
  BY <1>2, <1>3 DEF u

\* A rotation cuts off a small file, or opens one.
LEMMA rotateBounded ==
  ASSUME MaxSize > 1, NEW s, Fine(s), Clock(wrote, now), Bounded(s),
         NEW u, u = rotate(s, "none")
  PROVE  Bounded(u) /\ u.file = "open" /\ (s.file # "nil" => u.size = 0)
<1>1. s \in Writers /\ now \in Nat
  BY DEF Fine, Clock
<1>2. MaxSize \in Nat /\ Len(<<>>) = 0
  BY ConstantFacts
<1>3. CASE s.file = "nil"
  <2>1. u = Open(s, "none")
    BY <1>3, rotateIs
  <2>2. /\ u.zips = s.zips /\ u.size = (IF s.live # NoFile THEN Len(s.live) ELSE s.size)
        /\ u.file = "open" /\ u.buf = <<>> /\ u.live = Live(s) /\ u.live # NoFile
    BY <1>1, <2>1, IsOpened
  <2>3. u.size = Len(u.live) /\ Len(u.live) < MaxSize /\ Len(u.live) \in Nat
    <3>1. CASE s.live # NoFile
      BY <1>1, <2>2, <3>1, LiveFacts DEF Bounded, Live
    <3>2. CASE s.live = NoFile
      BY <1>2, <2>2, <3>2 DEF Bounded, Live
    <3> QED
      BY <3>1, <3>2
  <2>4. u.size = Lines(u)
    <3> DEFINE a == Len(u.live)
    <3>1. Len(u.buf) = 0 /\ a \in Nat /\ u.size = a
      BY <2>2, <2>3
    <3>2. Lines(u) = a + 0
      BY <3>1, LinesAre
    <3> HIDE DEF a
    <3> QED
      BY <3>1, <3>2
  <2>5. Bounded(u)
    BY <1>2, <2>2, <2>3, <2>4 DEF Bounded
  <2> QED
    BY <1>3, <2>2, <2>5
<1>4. CASE s.file # "nil"
  <2> DEFINE f == Flush(s, "none")  k == Cut(f, "none")
  <2>1. u = Open(k, "none")
    BY <1>4, rotateIs
  <2>2. s.file = "open"
    BY <1>1, <1>4 DEF Writers, Bounded
  <2>3. f \in Writers /\ f.live # NoFile /\ f.file = "open" /\ Bounded(f)
    BY <2>2, FlushedFine, FlushBounded DEF Fine, Named
  <2> HIDE DEF f
  <2>4. /\ k \in Writers /\ k.file = "closed" /\ k.size = 0 /\ k.live = NoFile
        /\ k.zips = Set(f.zips, f.created, f.live)
    BY <2>3, CutOff
  <2> HIDE DEF k
  <2>5. /\ u.zips = k.zips /\ u.size = 0
        /\ u.file = "open" /\ u.buf = <<>> /\ u.live = <<>> /\ u.live # NoFile
    BY <1>1, <2>1, <2>4, IsOpened DEF Live
  <2>6. Small(u.zips)
    <3> DEFINE y == f.zips  e == f.created  q == f.live  z == u.zips
    <3>1. y \in Archives /\ e \in Nat /\ q \in Seq(Nat) /\ z = Set(y, e, q) /\ Len(q) < MaxSize
      BY <2>3, <2>4, <2>5 DEF Writers, Bounded
    <3>2. Small(y)
      BY <2>3 DEF Bounded
    <3> HIDE DEF y, e, q, z
    <3>3. /\ DOMAIN z = DOMAIN y \cup {e} /\ z[e] = q
          /\ \A c \in DOMAIN y : c # e => z[c] = y[c]
      BY <3>1, SetFacts
    <3>4. ASSUME NEW c \in DOMAIN z PROVE Len(z[c]) < MaxSize
      <4>1. CASE c = e
        BY <3>1, <3>3, <4>1
      <4>2. CASE c # e
        BY <3>2, <3>3, <4>2 DEF Small
      <4> QED
        BY <4>1, <4>2
    <3> QED
      BY <3>4 DEF z, Small
  <2>7. Len(u.live) = 0 /\ Len(u.buf) = 0
    BY <2>5
  <2>8. u.size = Lines(u) /\ u.size < MaxSize /\ Len(u.live) < MaxSize
    <3>1. Lines(u) = 0 + 0
      BY <2>7, LinesAre
    <3> QED
      BY <1>2, <2>5, <2>7, <3>1
  <2>9. Bounded(u)
    BY <2>5, <2>6, <2>8 DEF Bounded
  <2> QED
    BY <2>5, <2>9
<1> QED
  BY <1>3, <1>4

\* There is room for the line.
LEMMA BufferedBounded ==
  ASSUME NEW s, NEW fault, Fine(s), Clock(wrote, now), Bounded(s), s.file = "open", ~TooLarge(s),
         NEW t, t = Buffered(s, Len(wrote) + 1, fault)
  PROVE  Bounded(t)
<1> DEFINE r == Room(s, fault)  n == Len(wrote)
<1>1. /\ Fine(r) /\ Bounded(r) /\ r.file = "open" /\ r.size = s.size
      /\ s \in Writers /\ r \in Writers
  BY RoomFine, FlushBounded, FlushedFine DEF Room, Fine
<1>2. n + 1 \in Nat /\ s.size + 1 < MaxSize /\ MaxSize \in Nat /\ s.size \in Nat
  <2>1. n \in Nat /\ s.size \in Nat /\ ~(s.size + 1 >= MaxSize)
    BY <1>1, LiveFacts DEF Clock, TooLarge
  <2> QED
    BY <2>1, ConstantFacts
<1>3. /\ r.bad => t = r
      /\ ~r.bad =>
           /\ t.buf = Append(r.buf, n + 1) /\ t.file = r.file /\ t.live = r.live
           /\ t.size = r.size + 1 /\ t.zips = r.zips
  BY <1>1, <1>2, Added
<1> HIDE DEF r
<1>4. CASE ~r.bad
  <2>1. r.buf \in Seq(Nat) /\ r.live \in Seq(Nat) /\ Len(r.buf) \in Nat /\ Len(r.live) \in Nat
    BY <1>1, LiveFacts
  <2>2. Len(t.buf) = Len(r.buf) + 1
    BY <1>2, <1>3, <1>4, <2>1, Appended
  <2>3. r.size = Lines(r) /\ Len(r.live) < MaxSize /\ r.live # NoFile
    BY <1>1 DEF Bounded, Fine, Named
  <2>4. t.size = Lines(t) /\ t.size < MaxSize /\ Len(t.live) < MaxSize
    <3> DEFINE a == Len(r.live)  b == Len(r.buf)
    <3>1. /\ a \in Nat /\ b \in Nat /\ Len(t.live) = a /\ Len(t.buf) = b + 1 /\ a < MaxSize
          /\ Lines(r) = a + b
      BY <1>3, <1>4, <2>1, <2>2, <2>3, LinesAre
    <3> HIDE DEF a, b
    <3>2. Lines(t) = a + (b + 1)
      BY <3>1, LinesAre
    <3> QED
      BY <1>1, <1>2, <1>3, <1>4, <2>3, <3>1, <3>2
  <2>5. Small(t.zips)
    BY <1>1, <1>3, <1>4 DEF Bounded
  <2> QED
    BY <1>1, <1>3, <1>4, <2>3, <2>4, <2>5 DEF Bounded
<1> QED
  BY <1>1, <1>3, <1>4

\* Whatever Write returns, without a fault the files are small.
LEMMA WrittenBounded ==
  ASSUME MaxSize > 1, NEW s, Fine(s), Clock(wrote, now), Bounded(s),
         NEW t, t = Written(s, Len(wrote) + 1, "none")
  PROVE  Bounded(t)
<1> DEFINE a == Opened(s, "none")  b == DayCut(a, "none")  c == SizeCut(b, "none")
<1>1. t = Buffered(c, Len(wrote) + 1, "none")
  BY WrittenIs
<1>2. Fine(a) /\ Bounded(a) /\ a.file = "open"
  <2>1. CASE s.file = "nil"
    BY <2>1, rotateBounded, CutsFine DEF Opened
  <2>2. CASE s.file # "nil"
    BY <2>2 DEF Opened, Bounded, Fine, Writers
  <2> QED
    BY <2>1, <2>2
<1> HIDE DEF a
<1>3. Fine(b) /\ Bounded(b) /\ b.file = "open"
  BY <1>2, rotateBounded, CutsFine DEF DayCut
<1> HIDE DEF b
<1>4. Fine(c) /\ Bounded(c) /\ c.file = "open"
  BY <1>3, rotateBounded, CutsFine DEF SizeCut
<1>5. ~TooLarge(c)
  <2>1. ASSUME TooLarge(b) PROVE c.size = 0 /\ c = rotate(b, "none")
    BY <1>3, <2>1, rotateBounded DEF SizeCut
  <2>2. ASSUME TooLarge(b) PROVE ~TooLarge(c)
    <3>1. c.size = 0
      BY <2>1, <2>2
    <3> HIDE DEF c
    <3>2. ~(c.size + 1 >= MaxSize)
      BY <3>1, ConstantFacts
    <3> QED
      BY <3>2 DEF TooLarge
  <2>3. ASSUME ~TooLarge(b) PROVE ~TooLarge(c)
    BY <2>3 DEF SizeCut
  <2> QED
    BY <2>2, <2>3
<1> QED
  BY <1>1, <1>4, <1>5, BufferedBounded

-----------------------------------------------------------------------------
(* The steps                                                                *)

\* Without a file, whether it was closed or the process is a new one.
LEMMA Shut ==
  ASSUME NEW s \in Writers, NEW u \in Writers, NEW n \in Nat, Below(s, n), Ordered(s),
         Named(s, now), Clock(wrote, now),
         u.file = "nil", u.buf = s.buf \/ u.buf = <<>>, u.created = s.created \/ u.created = 0,
         u.live = s.live, u.mtime = s.mtime, u.zips = s.zips, u.logs = s.logs
  PROVE  /\ Below(u, n) /\ Ordered(u) /\ Named(u, now) /\ \A w : Fresh(u, w, now)
         /\ \A w : Dated(s, w) => Dated(u, w)
         /\ Bounded(s) /\ u.size \in {0, s.size} => Bounded(u)
<1>1. Names(u) = Names(s) /\ \A c : Content(u, c) = Content(s, c)
  BY SameArchives
<1>2. Live(u) = Live(s) /\ Held(u) = <<>>
  BY DEF Live, Held
<1>3. Below(u, n) /\ Ordered(u)
  BY <1>2, OrderKept
<1>4. Named(u, now) /\ \A w : Fresh(u, w, now)
  <2>1. 0 <= now
    BY DEF Clock
  <2> QED
    BY <1>1, <2>1 DEF Named, Fresh
<1>5. ASSUME NEW w, Dated(s, w) PROVE Dated(u, w)
  BY <1>1, <1>2, <1>5 DEF Dated
<1>6. ASSUME Bounded(s), u.size \in {0, s.size} PROVE Bounded(u)
  BY <1>6 DEF Bounded
<1> QED
  BY <1>3, <1>4, <1>5, <1>6

Ended(s) == [s EXCEPT !.file = "nil", !.buf = <<>>, !.bad = FALSE, !.size = 0, !.created = 0]

\* What Ends leaves.
LEMMA EndedIs ==
  ASSUME NEW s \in Writers
  PROVE  /\ Ended(s) \in Writers /\ Ended(s).file = "nil" /\ Ended(s).buf = <<>>
         /\ Ended(s).created = 0 /\ Ended(s).size = 0 /\ Ended(s).live = s.live
         /\ Ended(s).mtime = s.mtime /\ Ended(s).zips = s.zips /\ Ended(s).logs = s.logs
<1>1. <<>> \in Seq(Nat)
  OBVIOUS
<1> QED
  BY <1>1 DEF Ended, Writers

\* A Log, with what it leaves of the writer.
LEMMA FaultsGrow ==
  ASSUME NEW l, NEW fault, Log(l, fault)
  PROVE  /\ failed \subseteq failed' /\ (fault # "none" => fault \in failed')
         /\ now' = now /\ closes' = closes
         /\ wrote' = Grown(Written(io, Len(wrote) + 1, fault))
         /\ \/ io' = Written(io, Len(wrote) + 1, fault) /\ exits' = exits /\ ~OsExit(l)
            \/ io' = Ended(Written(io, Len(wrote) + 1, fault)) /\ exits' = exits + 1 /\ OsExit(l)
BY DEF Log, Suffers, Grown, Ends, Ended

\* The invariant in parts.
LEMMA InvFine ==
  ASSUME LogInv
  PROVE  /\ Fine(io) /\ Clock(wrote, now) /\ exits \in Nat /\ io \in Writers
         /\ Len(wrote) \in Nat /\ now \in Nat /\ DOMAIN wrote = 1..Len(wrote)
BY DEF LogInv, Fine, Clock

\* A Log keeps the invariant, and so does every other action.
LEMMA LogKeeps ==
  ASSUME LogInv, NEW l, NEW fault, Log(l, fault)
  PROVE  LogInv'
<1> DEFINE t == Written(io, Len(wrote) + 1, fault)
<1>1. Fine(io) /\ Clock(wrote, now) /\ exits \in Nat
  BY InvFine
<1>2. /\ t \in Writers /\ Below(t, Len(Grown(t))) /\ Ordered(t) /\ Named(t, now)
      /\ Fresh(t, Grown(t), now) /\ Clock(Grown(t), now)
  BY <1>1, WrittenFine
<1>3. "rename" \notin failed' => Dated(t, Grown(t))
  BY <1>1, WrittenDated, FaultsGrow DEF LogInv
<1>4. /\ now' = now /\ wrote' = Grown(t)
      /\ \/ io' = t /\ exits' = exits
         \/ io' = Ended(t) /\ exits' = exits + 1
  BY FaultsGrow
<1> HIDE DEF t
<1>5. CASE io' = t /\ exits' = exits
  BY <1>1, <1>2, <1>3, <1>4, <1>5 DEF LogInv
<1>6. CASE io' = Ended(t) /\ exits' = exits + 1
  <2> DEFINE u == Ended(t)
  <2>1. /\ u \in Writers /\ u.file = "nil" /\ u.buf = <<>> /\ u.created = 0
        /\ u.live = t.live /\ u.mtime = t.mtime /\ u.zips = t.zips /\ u.logs = t.logs
    BY <1>2, EndedIs
  <2>2. Len(Grown(t)) \in Nat
    BY <1>2 DEF Clock
  <2> HIDE DEF u
  <2>3. /\ Below(u, Len(Grown(t))) /\ Ordered(u) /\ Named(u, now) /\ Fresh(u, Grown(t), now)
        /\ Dated(t, Grown(t)) => Dated(u, Grown(t))
    BY <1>1, <1>2, <2>1, <2>2, Shut
  <2>4. io' = u
    BY <1>6 DEF u
  <2>5. exits' \in Nat
    BY <1>1, <1>6
  <2> QED
    BY <1>2, <1>3, <1>4, <2>1, <2>3, <2>4, <2>5 DEF LogInv
<1> QED
  BY <1>4, <1>5, <1>6

LEMMA ExitKeeps ==
  ASSUME LogInv, Exit
  PROVE  LogInv'
<1> DEFINE u == Ended(io)
<1>1. Fine(io) /\ Clock(wrote, now) /\ exits \in Nat /\ io \in Writers /\ Len(wrote) \in Nat
  BY InvFine
<1>2. /\ u \in Writers /\ u.file = "nil" /\ u.buf = <<>> /\ u.created = 0
      /\ u.live = io.live /\ u.mtime = io.mtime /\ u.zips = io.zips /\ u.logs = io.logs
  BY <1>1, EndedIs
<1>3. /\ io' = u /\ exits' = exits + 1
      /\ now' = now /\ wrote' = wrote /\ failed' = failed
  BY DEF Exit, Ends, Ended
<1> HIDE DEF u
<1>4. /\ Below(u, Len(wrote)) /\ Ordered(u) /\ Named(u, now) /\ Fresh(u, wrote, now)
      /\ Dated(io, wrote) => Dated(u, wrote)
  BY <1>1, <1>2, Shut DEF Fine
<1> QED
  BY <1>1, <1>2, <1>3, <1>4 DEF LogInv

LEMMA FlushKeeps ==
  ASSUME LogInv, NEW fault, io' = Flush(io, fault), Suffers(fault),
         UNCHANGED <<now, wrote, exits>>
  PROVE  LogInv'
<1> DEFINE u == Flush(io, fault)
<1>1. Fine(u) /\ ("rename" \notin failed => Dated(u, wrote))
  BY InvFine, FlushFine, FlushDated DEF LogInv
<1> HIDE DEF u
<1>2. io' = u
  BY DEF u
<1>3. failed \subseteq failed'
  BY DEF Suffers
<1> QED
  BY <1>1, <1>2, <1>3 DEF LogInv, Fine

LEMMA CloseFileKeeps ==
  ASSUME LogInv, CloseFile
  PROVE  LogInv'
<1> DEFINE u == [io EXCEPT !.file = "nil"]
<1>1. Fine(io) /\ Clock(wrote, now) /\ exits \in Nat /\ io \in Writers /\ Len(wrote) \in Nat
  BY InvFine
<1>2. /\ u \in Writers /\ u.file = "nil" /\ u.buf = io.buf /\ u.created = io.created
      /\ u.live = io.live /\ u.mtime = io.mtime /\ u.zips = io.zips /\ u.logs = io.logs
  BY <1>1 DEF Writers
<1>3. io' = u /\ UNCHANGED <<now, wrote, failed, exits>>
  BY DEF CloseFile
<1> HIDE DEF u
<1>4. /\ Below(u, Len(wrote)) /\ Ordered(u) /\ Named(u, now) /\ Fresh(u, wrote, now)
      /\ Dated(io, wrote) => Dated(u, wrote)
  BY <1>1, <1>2, Shut DEF Fine
<1> QED
  BY <1>1, <1>2, <1>3, <1>4 DEF LogInv

\* What delete leaves of the archives.
Rest(z) == [c \in {k \in DOMAIN z : MaxAge = 0 \/ name2time(k) >= now - MaxAge} |-> z[c]]

\* The archives that are not too old.
LEMMA RestFacts ==
  ASSUME NEW z \in Archives
  PROVE  /\ Rest(z) \in Archives /\ DOMAIN Rest(z) \subseteq DOMAIN z
         /\ \A c \in DOMAIN Rest(z) : Rest(z)[c] = z[c]
         /\ \A c \in DOMAIN z \ DOMAIN Rest(z) : ~(name2time(c) >= now - MaxAge)
<1>1. DOMAIN z \subseteq Nat /\ \A c \in DOMAIN z : z[c] \in Seq(Nat)
  BY ArchiveFacts
<1> DEFINE D == {k \in DOMAIN z : MaxAge = 0 \/ name2time(k) >= now - MaxAge}
<1>2. D \in SUBSET Nat /\ D \subseteq DOMAIN z
  BY <1>1
<1>3. \A c \in DOMAIN z : c \notin D => ~(name2time(c) >= now - MaxAge)
  OBVIOUS
<1>4. Rest(z) = [c \in D |-> z[c]]
  BY DEF Rest
<1> HIDE DEF D
<1>5. Rest(z) \in [D -> Seq(Nat)] /\ DOMAIN Rest(z) = D /\ \A c \in D : Rest(z)[c] = z[c]
  BY <1>1, <1>2, <1>4
<1>6. Rest(z) \in Archives
  BY <1>2, <1>5, IsArchive
<1> QED
  BY <1>2, <1>3, <1>5, <1>6

\* delete takes names away, and no others than old ones.
LEMMA Deleted ==
  ASSUME io \in Writers, Delete
  PROVE  /\ io' \in Writers /\ io'.file = io.file /\ io'.buf = io.buf /\ io'.created = io.created
         /\ io'.live = io.live /\ io'.mtime = io.mtime /\ io'.size = io.size
         /\ io'.bad = io.bad
         /\ io'.logs = io.logs /\ io'.zips = Rest(io.zips)
         /\ Names(io') \subseteq Names(io) /\ \A c \in Names(io') : Content(io', c) = Content(io, c)
         /\ \A c \in Names(io) \ Names(io') : ~(name2time(c) >= now - MaxAge)
<1> DEFINE z == Rest(io.zips)
<1>1. io.zips \in Archives
  BY DEF Writers
<1>2. /\ z \in Archives /\ DOMAIN z \subseteq DOMAIN io.zips
      /\ \A c \in DOMAIN z : z[c] = io.zips[c]
      /\ \A c \in DOMAIN io.zips \ DOMAIN z : ~(name2time(c) >= now - MaxAge)
  BY <1>1, RestFacts
<1>3. io' = [io EXCEPT !.zips = z]
  BY DEF Delete, Rest
<1> HIDE DEF z
<1>4. /\ io' \in Writers /\ io'.file = io.file /\ io'.buf = io.buf /\ io'.created = io.created
      /\ io'.live = io.live /\ io'.mtime = io.mtime /\ io'.size = io.size
      /\ io'.bad = io.bad
      /\ io'.logs = io.logs /\ io'.zips = z
  BY <1>2, <1>3 DEF Writers
<1>5. /\ Names(io') \subseteq Names(io) /\ \A c \in Names(io') : Content(io', c) = Content(io, c)
      /\ \A c \in Names(io) \ Names(io') : ~(name2time(c) >= now - MaxAge)
  BY <1>2, <1>4 DEF Names, Content
<1> QED
  BY <1>4, <1>5 DEF z

LEMMA DeleteKeeps ==
  ASSUME LogInv, Delete
  PROVE  LogInv'
<1> DEFINE u == io'
<1>1. io \in Writers /\ Clock(wrote, now) /\ exits \in Nat
  BY InvFine
<1>2. /\ u \in Writers /\ u.file = io.file /\ u.buf = io.buf /\ u.created = io.created
      /\ u.live = io.live /\ u.mtime = io.mtime /\ u.bad = io.bad
      /\ Names(u) \subseteq Names(io) /\ \A c \in Names(u) : Content(u, c) = Content(io, c)
  BY <1>1, Deleted
<1>3. UNCHANGED <<now, wrote, failed, exits>>
  BY DEF Delete
<1> HIDE DEF u
<1>4. Live(u) = Live(io) /\ Held(u) = Held(io)
  BY <1>2 DEF Live, Held
<1>5. Below(u, Len(wrote))
  BY <1>2, <1>4 DEF LogInv, Below
<1>6. Ordered(u)
  <2>1. ASSUME NEW c \in Names(u)
        PROVE  /\ Rising(Content(u, c))
               /\ \A x \in Range(Content(u, c)) :
                    /\ \A y \in Range(Live(u)) \cup Range(Held(u)) : x < y
                    /\ \A d \in Names(u) : c < d => \A y \in Range(Content(u, d)) : x < y
    <3>1. /\ Rising(Content(io, c))
          /\ \A x \in Range(Content(io, c)) :
               /\ \A y \in Range(Live(io)) \cup Range(Held(io)) : x < y
               /\ \A d \in Names(io) : c < d => \A y \in Range(Content(io, d)) : x < y
      BY <1>2 DEF LogInv, Ordered
    <3> QED
      BY <1>2, <1>4, <3>1
  <2> QED
    BY <1>4, <2>1 DEF LogInv, Ordered
<1>7. Named(u, now) /\ Fresh(u, wrote, now) /\ ("rename" \notin failed => Dated(u, wrote))
  BY <1>2, <1>4 DEF LogInv, Named, Fresh, Dated
<1> QED
  BY <1>1, <1>2, <1>3, <1>5, <1>6, <1>7 DEF LogInv, u

\* The first line of the buffer is the oldest.
LEMMA TickKeeps ==
  ASSUME LogInv, Tick
  PROVE  LogInv'
<1>1. /\ io \in Writers /\ Clock(wrote, now) /\ exits \in Nat /\ now \in Nat
      /\ Fine(io) /\ DOMAIN wrote = 1..Len(wrote) /\ Len(wrote) \in Nat
  BY InvFine
<1>2. /\ now' = now + 1 /\ UNCHANGED <<io, wrote, failed, exits>>
      /\ io.file = "open" /\ ~io.bad /\ io.buf # <<>> => now' - wrote[Head(io.buf)] <= FlushEvery
  BY DEF Tick
<1>3. Named(io, now + 1)
  <2>1. io.created \in Nat /\ io.mtime \in Nat /\ \A c \in Names(io) : c \in Nat
    BY <1>1, LiveFacts, Archived
  <2> QED
    BY <1>1, <2>1 DEF LogInv, Named
<1>4. Clock(wrote, now + 1)
  BY <1>1 DEF Clock
<1>5. Fresh(io, wrote, now + 1)
  <2>1. SUFFICES ASSUME io.file = "open", ~io.bad, NEW n \in Range(io.buf)
                 PROVE  (now + 1) - wrote[n] <= FlushEvery
    BY <1>1 DEF Fresh
  <2>2. io.buf \in Seq(Nat) /\ Rising(io.buf) /\ Range(io.buf) \subseteq 1..Len(wrote)
    BY <1>1, <2>1, LiveFacts DEF LogInv, Ordered, Held, Below
  <2>3. PICK k \in DOMAIN io.buf : n = io.buf[k]
    BY <2>1 DEF Range
  <2>4. /\ io.buf # <<>> /\ 1 \in DOMAIN io.buf /\ k \in Nat /\ k >= 1
        /\ Head(io.buf) = io.buf[1] /\ io.buf[1] \in Range(io.buf)
    BY <2>2, <2>3 DEF Range
  <2>5. Head(io.buf) \in DOMAIN wrote /\ n \in DOMAIN wrote
    BY <1>1, <2>1, <2>2, <2>4
  <2>6. Head(io.buf) <= n
    <3>1. CASE k = 1
      BY <1>1, <2>3, <2>4, <2>5, <3>1
    <3>2. CASE k # 1
      <4>1. 1 < k
        BY <2>4, <3>2
      <4>2. io.buf[1] < io.buf[k]
        BY <2>2, <2>3, <2>4, <4>1 DEF Rising
      <4> QED
        BY <1>1, <2>3, <2>4, <2>5, <4>2
    <3> QED
      BY <3>1, <3>2
  <2> DEFINE h == Head(io.buf)
  <2>7. h \in DOMAIN wrote /\ h <= n
    BY <2>5, <2>6
  <2>8. now' = now + 1 /\ now' - wrote[h] <= FlushEvery
    BY <1>2, <2>1, <2>4
  <2> HIDE DEF h
  <2>9. wrote[h] <= wrote[n] /\ wrote[h] \in Nat /\ wrote[n] \in Nat
    <3>1. wrote[h] \in Nat /\ wrote[n] \in Nat
      BY <1>1, <2>5, <2>7 DEF Clock
    <3>2. CASE h = n
      BY <3>1, <3>2
    <3>3. CASE h # n
      BY <1>1, <2>5, <2>7, <3>1, <3>3 DEF Clock
    <3> QED
      BY <3>1, <3>2, <3>3
  <2> QED
    BY <1>1, <2>8, <2>9, ConstantFacts
<1> QED
  BY <1>1, <1>2, <1>3, <1>4, <1>5 DEF LogInv

-----------------------------------------------------------------------------
(* The invariant                                                            *)

\* The invariant holds at first and every step keeps it.
LEMMA InitInv == Init => LogInv /\ SizeInv
<1> SUFFICES ASSUME Init PROVE LogInv /\ SizeInv
  OBVIOUS
<1>1. /\ now = 0 /\ wrote = <<>> /\ exits = 0 /\ failed = {}
      /\ io.file = "nil" /\ io.buf = <<>> /\ io.size = 0 /\ io.created = 0 /\ io.live = NoFile
      /\ io.mtime = 0 /\ io.zips = <<>> /\ io.logs = <<>>
  BY DEF Init
<1>2. <<>> \in Archives /\ <<>> \in Seq(Nat) /\ NoFile \in Seq(Nat)
  <2>1. <<>> \in [{} -> Seq(Nat)] /\ {} \in SUBSET Nat
    OBVIOUS
  <2>2. <<>> \in Archives
    BY <2>1, IsArchive
  <2> QED
    BY <2>2, OneLine DEF NoFile
<1>3. io \in Writers
  BY <1>2 DEF Init, Writers
<1>4. Names(io) = {} /\ Live(io) = <<>> /\ Held(io) = <<>> /\ Len(wrote) = 0
  BY <1>1 DEF Names, Live, Held
<1>5. Below(io, Len(wrote)) /\ Ordered(io)
  BY <1>1, <1>4, RisingEmpty DEF Below, Ordered
<1>6. Named(io, now) /\ Fresh(io, wrote, now) /\ Dated(io, wrote)
  BY <1>1, <1>4, RisingEmpty DEF Named, Fresh, Dated
<1>7. Clock(wrote, now) /\ exits \in Nat
  BY <1>1 DEF Clock
<1>8. Bounded(io)
  BY <1>1 DEF Bounded, Small
<1> QED
  BY <1>3, <1>5, <1>6, <1>7, <1>8 DEF LogInv, SizeInv

LEMMA NextInv == LogInv /\ [Next]_vars => LogInv'
<1> SUFFICES ASSUME LogInv, [Next]_vars PROVE LogInv'
  OBVIOUS
<1>1. CASE \E fault \in Faults \cup {"none"} : \E l \in Levels : Log(l, fault)
  BY <1>1, LogKeeps
<1>2. CASE Exit
  BY <1>2, ExitKeeps
<1>3. CASE \E fault \in {"none", "write"} : Daemon(fault) \/ CloseFlush(fault)
  BY <1>3, FlushKeeps DEF Daemon, CloseFlush
<1>4. CASE CloseFile
  BY <1>4, CloseFileKeeps
<1>5. CASE Delete
  BY <1>5, DeleteKeeps
<1>6. CASE Tick
  BY <1>6, TickKeeps
<1>7. CASE UNCHANGED vars
  BY <1>7 DEF vars, LogInv
<1> QED
  BY <1>1, <1>2, <1>3, <1>4, <1>5, <1>6, <1>7 DEF Next

\* The inductive invariant holds in every behaviour, whatever fails (Write, rotate,
\* Close, delete).
THEOREM LogInvariance == Spec => []LogInv
<1>1. Init => LogInv
  BY InitInv
<1> QED
  BY <1>1, NextInv, PTL DEF Spec

\* The sizes stay bounded.  A line has to be shorter than a file may be.
LEMMA SizeStep ==
  ASSUME MaxSize > 1
  PROVE  LogInv /\ SizeInv /\ [Next]_vars => SizeInv'
<1> SUFFICES ASSUME LogInv, SizeInv, [Next]_vars, failed' = {} PROVE Bounded(io')
  BY DEF SizeInv
<1>1. /\ Fine(io) /\ Clock(wrote, now) /\ io \in Writers /\ Len(wrote) \in Nat
      /\ Below(io, Len(wrote)) /\ Ordered(io) /\ Named(io, now)
  BY InvFine DEF Fine
<1>2. CASE \E fault \in Faults \cup {"none"} : \E l \in Levels : Log(l, fault)
  <2>1. PICK fault \in Faults \cup {"none"}, l \in Levels : Log(l, fault)
    BY <1>2
  <2>2. fault = "none" /\ failed = {}
    BY <2>1, FaultsGrow
  <2> DEFINE t == Written(io, Len(wrote) + 1, "none")
  <2>3. Bounded(t) /\ t \in Writers
    BY <1>1, <2>2, WrittenBounded, WrittenFine DEF SizeInv
  <2>4. io' = t \/ io' = Ended(t)
    BY <2>1, <2>2, FaultsGrow
  <2> HIDE DEF t
  <2>5. Bounded(Ended(t))
    BY <2>3, EndedIs DEF Bounded
  <2> QED
    BY <2>3, <2>4, <2>5
<1>3. CASE Exit
  <2>1. io' = Ended(io) /\ failed' = failed
    BY <1>3 DEF Exit, Ends, Ended
  <2> QED
    BY <1>1, <2>1, EndedIs DEF Bounded, SizeInv
<1>4. CASE \E fault \in {"none", "write"} : Daemon(fault) \/ CloseFlush(fault)
  <2>1. PICK fault \in {"none", "write"} : io' = Flush(io, fault) /\ Suffers(fault)
    BY <1>4 DEF Daemon, CloseFlush
  <2>2. failed = {}
    BY <2>1 DEF Suffers
  <2> QED
    BY <1>1, <2>1, <2>2, FlushBounded DEF SizeInv
<1>5. CASE CloseFile
  <2> DEFINE u == [io EXCEPT !.file = "nil"]
  <2>1. /\ u \in Writers /\ u.file = "nil" /\ u.buf = io.buf /\ u.created = io.created
        /\ u.live = io.live /\ u.mtime = io.mtime /\ u.zips = io.zips /\ u.logs = io.logs
        /\ u.size = io.size
    BY <1>1 DEF Writers
  <2>2. io' = u /\ failed' = failed
    BY <1>5 DEF CloseFile
  <2> HIDE DEF u
  <2>3. Bounded(u)
    BY <1>1, <2>1, <2>2, Shut DEF SizeInv
  <2> QED
    BY <2>2, <2>3
<1>6. CASE Delete
  <2> DEFINE u == io'  z == io.zips
  <2>1. /\ u.file = io.file /\ u.buf = io.buf /\ u.live = io.live /\ u.size = io.size
        /\ u.zips = Rest(z) /\ z \in Archives
    BY <1>1, <1>6, Deleted DEF Writers
  <2>2. Bounded(io) /\ Small(z)
    BY <1>6 DEF Delete, SizeInv, Bounded
  <2> HIDE DEF u, z
  <2>3. Small(u.zips)
    BY <2>1, <2>2, RestFacts DEF Small
  <2>4. Lines(u) = Lines(io)
    BY <2>1 DEF Lines
  <2>5. Bounded(u)
    BY <2>1, <2>2, <2>3, <2>4 DEF Bounded
  <2> QED
    BY <2>5 DEF u
<1>7. CASE Tick \/ UNCHANGED vars
  BY <1>7 DEF Tick, vars, SizeInv
<1> QED
  BY <1>2, <1>3, <1>4, <1>5, <1>6, <1>7 DEF Next

\* Where nothing failed and a line is shorter than a file may be, the counted size
\* is that of the file and below MaxSize (rotate, Write).
THEOREM SizeInvariance ==
  ASSUME MaxSize > 1
  PROVE  Spec => []SizeInv
<1>1. Init => SizeInv
  BY InitInv
<1>2. LogInv /\ SizeInv /\ [Next]_vars => SizeInv'
  BY SizeStep
<1> QED
  BY <1>1, <1>2, LogInvariance, PTL DEF Spec

\* The backups by their names, the live file and the buffer hold the lines in the
\* order they were logged, whatever failed and however often it was restarted.
THEOREM LinesInOrder == Spec => []InOrder
<1>1. LogInv => InOrder
  <2> SUFFICES ASSUME LogInv PROVE InOrder
    OBVIOUS
  <2>1. io \in Writers /\ Ordered(io)
    BY DEF LogInv
  <2>2. Rising(Live(io) \o Held(io))
    BY <2>1, LiveFacts, RisingJoined DEF Ordered
  <2>3. \A c \in Names(io) :
          /\ Rising(Content(io, c))
          /\ \A x \in Range(Content(io, c)) :
               /\ \A y \in Range(Live(io)) : x < y
               /\ \A d \in Names(io) : c < d => \A y \in Range(Content(io, d)) : x < y
    BY <2>1 DEF Ordered
  <2> QED
    BY <2>2, <2>3 DEF InOrder, Live, Held
<1> QED
  BY <1>1, LogInvariance, PTL

\* No file grows to MaxSize where nothing failed, if a line is shorter than that
\* (TooLarge adds the line before it compares).
THEOREM FilesStayBounded ==
  ASSUME MaxSize > 1
  PROVE  Spec => []FilesBounded
<1>1. SizeInv => FilesBounded
  BY DEF SizeInv, Bounded, Small, FilesBounded
<1> QED
  BY <1>1, SizeInvariance, PTL

-----------------------------------------------------------------------------
(* What happens to a line                                                   *)

\* The lines in a buffer that can be flushed.
Sound(s) == IF s.bad THEN {} ELSE Range(Held(s))

\* Those are the ones that a rotation takes along.
LEMMA SoundFacts ==
  ASSUME NEW s, NEW fault
  PROVE  /\ Flushable(s, fault) = Range(Live(s)) \cup (IF fault = "write" THEN {} ELSE Sound(s))
         /\ s.file = "nil" => Sound(s) = {}
BY RisingEmpty DEF Flushable, Sound, Held, Writes

\* A flush drops no line.
LEMMA RoomIs ==
  ASSUME NEW s, NEW fault, Fine(s), Clock(wrote, now)
  PROVE  /\ Names(Room(s, fault)) = Names(s) /\ Packed(Room(s, fault)) = Packed(s)
         /\ Range(Live(s)) \subseteq Range(Live(Room(s, fault)))
         /\ fault # "write" =>
              Sound(s) \subseteq Range(Live(Room(s, fault))) \cup Sound(Room(s, fault))
<1>1. CASE Room(s, fault) = s
  BY <1>1
<1>2. CASE Room(s, fault) = Flush(s, fault)
  <2> DEFINE u == Flush(s, fault)
  <2>1. /\ u.zips = s.zips /\ u.logs = s.logs
        /\ ~Writes(s, fault) => Live(u) = Live(s)
        /\ Writes(s, fault) => Range(Live(u)) = Range(Live(s)) \cup Range(s.buf)
    BY FlushedFine
  <2> HIDE DEF u
  <2>2. Names(u) = Names(s) /\ Packed(u) = Packed(s) /\ Range(Live(s)) \subseteq Range(Live(u))
    BY <2>1, SameArchives
  <2>3. ASSUME fault # "write" PROVE Sound(s) \subseteq Range(Live(u))
    BY <2>1, <2>3, RisingEmpty DEF Sound, Held, Writes
  <2> QED
    BY <1>2, <2>2, <2>3 DEF u
<1> QED
  BY <1>1, <1>2 DEF Room

\* Nor does the line that is added.
LEMMA BufferedReaches ==
  ASSUME NEW s, NEW fault, Fine(s), Clock(wrote, now),
         NEW t, t = Buffered(s, Len(wrote) + 1, fault)
  PROVE  /\ Names(t) = Names(s) /\ Packed(t) = Packed(s)
         /\ Range(Live(s)) \subseteq Range(Live(t))
         /\ fault # "write" => Sound(s) \subseteq Range(Live(t)) \cup Sound(t)
<1> DEFINE r == Room(s, fault)  n == Len(wrote)
<1>1. /\ Names(r) = Names(s) /\ Packed(r) = Packed(s)
      /\ Range(Live(s)) \subseteq Range(Live(r))
      /\ fault # "write" => Sound(s) \subseteq Range(Live(r)) \cup Sound(r)
  BY RoomIs
<1>2. r \in Writers /\ n + 1 \in Nat /\ s \in Writers
  BY RoomFine DEF Fine, Clock
<1>3. /\ r.bad => t = r
      /\ ~r.bad =>
           /\ t.buf = Append(r.buf, n + 1) /\ t.file = r.file /\ t.live = r.live
           /\ t.zips = r.zips /\ t.logs = r.logs /\ t.bad = r.bad
  BY <1>2, Added
<1> HIDE DEF r
<1>4. CASE ~r.bad
  <2>1. Names(t) = Names(r) /\ Packed(t) = Packed(r) /\ Live(t) = Live(r)
    BY <1>3, <1>4, SameArchives DEF Live
  <2>2. Range(r.buf) \subseteq Range(t.buf)
    <3>1. r.buf \in Seq(Nat)
      BY <1>2, LiveFacts
    <3>2. Range(Append(r.buf, n + 1)) = Range(r.buf) \cup {n + 1}
      BY <1>2, <3>1, Appended
    <3> QED
      BY <1>3, <1>4, <3>2
  <2>3. Sound(r) \subseteq Sound(t)
    BY <1>3, <1>4, <2>2, RisingEmpty DEF Sound, Held
  <2> QED
    BY <1>1, <2>1, <2>3
<1> QED
  BY <1>1, <1>3, <1>4

\* The line n is in the file or a backup of t, or it was only on its way there.
Reached(s, t, n, fault) ==
  /\ n \in Range(Live(s)) => n \in Range(Live(t)) \cup Packed(t)
  /\ n \in Sound(s) /\ fault # "write" => n \in Range(Live(t)) \cup Sound(t) \cup Packed(t)

\* Nor do the cuts of Write, unless an archive failed at its end: the second one has
\* another name than the first.
LEMMA WrittenReaches ==
  ASSUME NEW s, NEW fault, Fine(s), Clock(wrote, now), NEW n,
         NEW t, t = Written(s, Len(wrote) + 1, fault)
  PROVE  /\ Names(s) \subseteq Names(t)
         /\ fault # "close" => Reached(s, t, n, fault)
<1> DEFINE a == Opened(s, fault)  b == DayCut(a, fault)  c == SizeCut(b, fault)
<1>1. Fine(a) /\ a \in Writers
  BY CutsFine DEF Fine
<1>2. Fine(b) /\ b \in Writers
  BY <1>1, CutsFine DEF Fine
<1>3. Fine(c) /\ c \in Writers
  BY <1>2, CutsFine DEF Fine
<1>4. t \in {a, b, c} \/ t = Buffered(c, Len(wrote) + 1, fault)
  BY WrittenIs
<1>5. /\ Names(s) \subseteq Names(a)
      /\ fault # "close" => Range(Live(s)) \subseteq Range(Live(a)) /\ Sound(s) \subseteq Sound(a)
  <2>1. CASE s.file = "nil"
    <3>1. a = rotate(s, fault) /\ Sound(s) = {} /\ Range(Live(s)) \subseteq Flushable(s, fault)
      BY <2>1, SoundFacts DEF Opened
    <3> HIDE DEF a
    <3> QED
      BY <2>1, <3>1, Rotated
  <2>2. CASE s.file # "nil"
    BY <2>2 DEF Opened
  <2> QED
    BY <2>1, <2>2
<1>6. \/ b = a
      \/ b = rotate(a, fault) /\ NewDay(a)
  BY DEF DayCut
<1>7. c = b \/ c = rotate(b, fault)
  BY DEF SizeCut
<1> HIDE DEF a, b, c
<1> DEFINE Late(u, k) == k \in Names(u) /\ n \in Range(Content(u, k)) /\ k # u.created
           W(u) == fault # "write" /\ n \in Sound(u)
<1>8. /\ Names(a) \subseteq Names(b)
      /\ fault # "close" =>
           /\ n \in Range(Live(a)) => n \in Range(Live(b)) \/ \E k : Late(b, k)
           /\ W(a) => n \in Range(Live(b)) \/ W(b) \/ \E k : Late(b, k)
  <2>1. CASE b = a
    BY <2>1
  <2>2. CASE b = rotate(a, fault) /\ NewDay(a)
    <3>1. /\ Names(a) \subseteq Names(b)
          /\ a.file # "nil" /\ fault # "rename" => b.created = now
          /\ fault # "close" => \A x \in Flushable(a, fault) :
               \/ x \in Range(Live(b))
               \/ /\ a.created \in Names(b) /\ x \in Range(Content(b, a.created))
                  /\ a.file # "nil" /\ fault # "rename"
      BY <1>1, <2>2, Rotated
    <3>2. a.created # now
      BY <2>2 DEF NewDay
    <3>3. ASSUME fault # "close", n \in Flushable(a, fault)
          PROVE  n \in Range(Live(b)) \/ Late(b, a.created)
      BY <3>1, <3>2, <3>3
    <3>4. n \in Range(Live(a)) \/ W(a) => n \in Flushable(a, fault)
      BY SoundFacts
    <3> QED
      BY <3>1, <3>3, <3>4
  <2> QED
    BY <1>6, <2>1, <2>2
<1>9. /\ Names(b) \subseteq Names(c)
      /\ fault # "close" =>
           /\ n \in Range(Live(b)) => n \in Range(Live(c)) \cup Packed(c)
           /\ W(b) => n \in Range(Live(c)) \cup Sound(c) \cup Packed(c)
           /\ (\E k : Late(b, k)) => n \in Packed(c)
  <2>1. \A k \in Names(c) : n \in Range(Content(c, k)) => n \in Packed(c)
    BY <1>3, Archived
  <2>2. CASE c = b
    BY <2>1, <2>2
  <2>3. CASE c = rotate(b, fault)
    <3>1. /\ Names(b) \subseteq Names(c)
          /\ \A k \in Names(b) : Content(c, k) = Content(b, k) \/ k = b.created
          /\ fault # "close" => \A x \in Flushable(b, fault) :
               \/ x \in Range(Live(c))
               \/ b.created \in Names(c) /\ x \in Range(Content(c, b.created))
      BY <1>2, <2>3, Rotated
    <3>2. n \in Range(Live(b)) \/ W(b) => n \in Flushable(b, fault)
      BY SoundFacts
    <3>3. (\E k : Late(b, k)) => n \in Packed(c)
      BY <2>1, <3>1
    <3> QED
      BY <2>1, <3>1, <3>2, <3>3
  <2> QED
    BY <1>7, <2>2, <2>3
<1>10. (\E k : Late(b, k)) => n \in Packed(b)
  BY <1>2, Archived
<1> HIDE DEF Late
<1>11. CASE t = a
  BY <1>5, <1>11 DEF Reached
<1>12. CASE t = b
  BY <1>5, <1>8, <1>10, <1>12 DEF Reached
<1>13. Names(s) \subseteq Names(c) /\ (fault # "close" => Reached(s, c, n, fault))
  BY <1>5, <1>8, <1>9 DEF Reached
<1>14. CASE t = Buffered(c, Len(wrote) + 1, fault)
  <2>1. /\ Names(t) = Names(c) /\ Packed(t) = Packed(c)
        /\ Range(Live(c)) \subseteq Range(Live(t))
        /\ fault # "write" => Sound(c) \subseteq Range(Live(t)) \cup Sound(t)
    BY <1>3, <1>14, BufferedReaches
  <2> QED
    BY <1>13, <2>1 DEF Reached
<1> QED
  BY <1>4, <1>11, <1>12, <1>13, <1>14

\* The lines that are not in a backup.
LEMMA UnpackedIs ==
  ASSUME NEW s
  PROVE  Unpacked(s) = Range(Live(s)) \cup Range(s.buf)
BY RisingEmpty DEF Unpacked, Live

LEMMA SameUnpacked ==
  ASSUME NEW s, NEW u, u.live = s.live
  PROVE  Live(u) = Live(s)
BY DEF Live

\* A Log, also one that ends the process.
LEMMA LogReaches ==
  ASSUME LogInv, NEW l \in Levels, NEW fault, Log(l, fault)
  PROVE  UnpackedStays /\ PackedStays
<1> DEFINE t == Written(io, Len(wrote) + 1, fault)
<1>1. /\ Fine(io) /\ Clock(wrote, now) /\ exits \in Nat /\ io \in Writers /\ t \in Writers
      /\ Fresh(io, wrote, now)
  BY InvFine, WrittenFine DEF Fine
<1>2. \A n : Names(io) \subseteq Names(t) /\ (fault # "close" => Reached(io, t, n, fault))
  BY <1>1, WrittenReaches
<1>3. \/ io' = t
      \/ io' = Ended(t) /\ exits' = exits + 1
  BY FaultsGrow
<1> HIDE DEF t
<1>4. /\ Names(io') = Names(t) /\ Packed(io') = Packed(t) /\ Live(io') = Live(t)
      /\ io' = t \/ exits' > exits
  <2>1. CASE io' = t
    BY <2>1
  <2>2. CASE io' = Ended(t) /\ exits' = exits + 1
    <3> DEFINE u == Ended(t)
    <3>1. u.live = t.live /\ u.zips = t.zips /\ u.logs = t.logs
      BY <1>1, EndedIs
    <3>2. io' = u /\ exits' > exits
      BY <1>1, <2>2
    <3> HIDE DEF u
    <3>3. Names(u) = Names(t) /\ Packed(u) = Packed(t) /\ Live(u) = Live(t)
      BY <3>1, SameArchives, SameUnpacked
    <3> QED
      BY <3>2, <3>3
  <2> QED
    BY <1>3, <2>1, <2>2
<1>5. UnpackedStays
  <2> SUFFICES ASSUME NEW n \in Unpacked(io), n \notin Unpacked(io') \cup Packed(io')
               PROVE  \/ /\ n \in Range(io.buf)
                         /\ \/ exits' > exits /\ now - wrote[n] <= FlushEvery
                            \/ io.file # "open" \/ io.bad
                            \/ \E k \in Levels : Log(k, "write")
                      \/ \E k \in Levels : Log(k, "close")
    BY DEF UnpackedStays
  <2>0. CASE fault = "close"
    BY <2>0
  <2>5. CASE fault # "close"
    <3>1. n \in Range(Live(io)) \cup Range(io.buf)
      BY UnpackedIs
    <3>2. n \notin Range(Live(t)) /\ n \notin Packed(t) /\ n \notin Range(io'.buf)
      BY <1>4, UnpackedIs
    <3>3. n \notin Range(Live(io)) /\ n \in Range(io.buf)
      BY <1>2, <2>5, <3>1, <3>2 DEF Reached
    <3>4. CASE io.file = "open" /\ ~io.bad /\ fault # "write"
      <4>1. n \in Sound(io)
        BY <3>3, <3>4 DEF Sound, Held
      <4>2. n \in Sound(t) /\ n \in Range(t.buf)
        BY <1>1, <1>2, <2>5, <3>2, <3>4, <4>1, LiveFacts DEF Reached, Sound
      <4>3. exits' > exits
        BY <1>4, <3>2, <4>2
      <4>4. now - wrote[n] <= FlushEvery
        BY <1>1, <3>3, <3>4 DEF Fresh
      <4> QED
        BY <3>3, <4>3, <4>4
    <3>5. CASE fault = "write"
      BY <3>3, <3>5
    <3> QED
      BY <3>3, <3>4, <3>5
  <2> QED
    BY <2>0, <2>5
<1>6. PackedStays
  <2> SUFFICES ASSUME NEW n \in Packed(io)
               PROVE  \E c \in Names(io) \cap Names(io') : n \in Range(Content(io, c))
    BY DEF PackedStays
  <2> QED
    BY <1>1, <1>2, <1>4, Archived
<1> QED
  BY <1>5, <1>6

\* The steps that leave the archives alone.
LEMMA ArchivesStay ==
  ASSUME io'.zips = io.zips, io'.logs = io.logs
  PROVE  PackedStays /\ Packed(io') = Packed(io)
<1> DEFINE u == io'
<1>1. u.zips = io.zips /\ u.logs = io.logs
  OBVIOUS
<1> HIDE DEF u
<1>2. Packed(u) = Packed(io)
  BY <1>1, SameArchives
<1> QED
  BY <1>2 DEF PackedStays, u

\* A backup that delete takes away is too old, but for the day its file spans.
LEMMA DeleteStays ==
  ASSUME LogInv, Delete
  PROVE  PackedStays
<1>1. /\ io \in Writers /\ Clock(wrote, now) /\ now \in Nat /\ Below(io, Len(wrote))
      /\ DOMAIN wrote = 1..Len(wrote)
  BY InvFine DEF Fine
<1> SUFFICES ASSUME NEW n \in Packed(io), n \notin Packed(io'), "rename" \notin failed,
                    ~\E c \in Names(io) \cap Names(io') : n \in Range(Content(io, c))
             PROVE  now - wrote[n] > MaxAge - DayLen - West
  BY DEF PackedStays
<1>2. PICK c \in Names(io) : n \in Range(Content(io, c))
  BY <1>1, Archived
<1>3. c \notin Names(io') /\ c \in Nat
  BY <1>1, <1>2, Archived
<1>4. ~(name2time(c) >= now - MaxAge)
  BY <1>1, <1>2, <1>3, Deleted
<1>5. wrote[n] < c + DayLen
  BY <1>2 DEF LogInv, Dated
<1>6. wrote[n] \in Nat
  BY <1>1, <1>2 DEF Below, Clock
<1>7. ~(c - West >= now - MaxAge)
  BY <1>4 DEF name2time
<1> QED
  BY <1>1, <1>3, <1>5, <1>6, <1>7, ConstantFacts

\* The steps that leave the file and the buffer alone.
LEMMA LinesStay ==
  ASSUME io'.live = io.live, io'.buf = io.buf
  PROVE  UnpackedStays
<1> DEFINE u == io'
<1>1. u.live = io.live /\ u.buf = io.buf
  OBVIOUS
<1> HIDE DEF u
<1>2. Unpacked(u) = Unpacked(io)
  BY <1>1, SameUnpacked, UnpackedIs
<1> QED
  BY <1>2 DEF UnpackedStays, u

LEMMA FlushStays ==
  ASSUME LogInv, NEW fault, io' = Flush(io, fault)
  PROVE  UnpackedStays /\ PackedStays
<1> DEFINE u == Flush(io, fault)
<1>1. /\ u.zips = io.zips /\ u.logs = io.logs
      /\ Range(Live(u)) \cup Range(u.buf) = Range(Live(io)) \cup Range(io.buf)
  <2>1. CASE Writes(io, fault)
    BY <2>1, InvFine, FlushedFine, RisingEmpty
  <2>2. CASE ~Writes(io, fault)
    BY <2>2, InvFine, FlushedFine
  <2> QED
    BY <2>1, <2>2
<1>2. io' = u
  OBVIOUS
<1> HIDE DEF u
<1>3. PackedStays
  BY <1>1, <1>2, ArchivesStay
<1>4. Unpacked(u) = Unpacked(io)
  BY <1>1, UnpackedIs
<1> QED
  BY <1>2, <1>3, <1>4 DEF UnpackedStays

\* An exit drops what is in the buffer.
LEMMA ExitStays ==
  ASSUME LogInv, Exit
  PROVE  UnpackedStays /\ PackedStays
<1> DEFINE u == Ended(io)
<1>1. io \in Writers /\ exits \in Nat /\ Fresh(io, wrote, now)
  BY InvFine DEF LogInv
<1>2. u.live = io.live /\ u.zips = io.zips /\ u.logs = io.logs
  BY <1>1, EndedIs
<1>3. io' = u /\ exits' > exits
  BY <1>1 DEF Exit, Ends, Ended
<1> HIDE DEF u
<1>4. PackedStays
  BY <1>2, <1>3, ArchivesStay
<1>5. Live(u) = Live(io)
  BY <1>2, SameUnpacked
<1>6. ASSUME NEW n \in Unpacked(io), n \notin Unpacked(u)
      PROVE  n \in Range(io.buf) /\ (io.file = "open" /\ ~io.bad => now - wrote[n] <= FlushEvery)
  BY <1>1, <1>5, <1>6, UnpackedIs DEF Fresh
<1> QED
  BY <1>3, <1>4, <1>6 DEF UnpackedStays

\* Every step keeps the lines.
LEMMA LinesStep == LogInv /\ [Next]_vars => [UnpackedStays /\ PackedStays]_vars
<1> SUFFICES ASSUME LogInv, Next PROVE UnpackedStays /\ PackedStays
  OBVIOUS
<1>1. CASE \E fault \in Faults \cup {"none"} : \E l \in Levels : Log(l, fault)
  BY <1>1, LogReaches
<1>2. CASE Exit
  BY <1>2, ExitStays
<1>3. CASE \E fault \in {"none", "write"} : Daemon(fault) \/ CloseFlush(fault)
  BY <1>3, FlushStays DEF Daemon, CloseFlush
<1>4. CASE CloseFile
  <2>1. io \in Writers
    BY InvFine
  <2>2. io'.live = io.live /\ io'.buf = io.buf /\ io'.zips = io.zips /\ io'.logs = io.logs
    BY <1>4, <2>1 DEF CloseFile, Writers
  <2> QED
    BY <2>2, LinesStay, ArchivesStay
<1>5. CASE Delete
  BY <1>5, InvFine, Deleted, LinesStay, DeleteStays
<1>6. CASE Tick
  BY <1>6, LinesStay, ArchivesStay DEF Tick
<1> QED
  BY <1>1, <1>2, <1>3, <1>4, <1>5, <1>6 DEF Next

\* A line leaves its backup only when it is MaxAge old, give or take a day and the
\* time zone, or when the backup is overwritten or a rename failed (delete).
THEOREM BackupsKept == Spec => BackupsLast
<1>1. LogInv /\ [Next]_vars => [PackedStays]_vars
  BY LinesStep
<1> QED
  BY <1>1, LogInvariance, PTL DEF Spec, BackupsLast

\* A line leaves the file for a backup, unless the archive failed at its end and
\* ZipToFile did not say so; it leaves the buffer for the file, unless the process
\* ended, the file was closed under it or a write of it failed (Write, rotate,
\* Close, ZipToFile).
THEOREM LinesKept == Spec => LinesReachDisk
<1>1. LogInv /\ [Next]_vars => [UnpackedStays]_vars
  BY LinesStep
<1> QED
  BY <1>1, LogInvariance, PTL DEF Spec, LinesReachDisk
=============================================================================
