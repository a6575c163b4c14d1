----------------------------- MODULE WorldProof -----------------------------
(***************************************************************************)
(* Every safety invariant of the MMO world, for every map, set of spawns   *)
(* and targets, and number of players and moves.                           *)
(*                                                                         *)
(* The invariants are not inductive.  WorldInv adds where each thread can  *)
(* be (Phases), who the map knows (Known), in which one area a player can  *)
(* be listed at every point of a move (Located, Placed), that two players  *)
(* active at once have met (Apart), and, loop by loop, what two players    *)
(* show of each other (Pairs).                                             *)
(***************************************************************************)
EXTENDS World, TLAPS

-----------------------------------------------------------------------------
(* Arithmetic and the areas of the map                                      *)

\* Division with remainder, as the positions of areas use it.
LEMMA DivRange ==
  ASSUME NEW a \in Nat, NEW b \in Nat \ {0}
  PROVE  a \div b \in Nat /\ a % b \in 0..(b - 1) /\ a = (a \div b) * b + (a % b)
OBVIOUS

LEMMA DivUnique ==
  ASSUME NEW b \in Nat \ {0}, NEW x \in 0..(b - 1), NEW y \in Nat
  PROVE  (y * b + x) % b = x /\ (y * b + x) \div b = y
OBVIOUS

LEMMA DivBelow ==
  ASSUME NEW b \in Nat \ {0}, NEW c \in Nat, NEW a \in 0..(c * b - 1)
  PROVE  a \div b \in 0..(c - 1)
OBVIOUS

LEMMA DivPositive ==
  ASSUME NEW b \in Nat \ {0}, NEW a \in Int, a >= b
  PROVE  a \div b \in Nat \ {0}
OBVIOUS

\* The areas have a width and a length.
LEMMA Sizes == /\ Width \in Nat \ {0} /\ Length \in Nat \ {0}
               /\ CntsX \in Nat \ {0} /\ CntsY \in Nat \ {0}
               /\ MinX \in Int /\ MinY \in Int /\ MaxX \in Int /\ MaxY \in Int
<1>1. MinX \in Int /\ MinY \in Int /\ MaxX \in Int /\ MaxY \in Int
  BY WorldAssumption
<1>2. CntsX \in Nat \ {0} /\ CntsY \in Nat \ {0}
      /\ MaxX - MinX >= CntsX /\ MaxY - MinY >= CntsY
  BY WorldAssumption
<1>3. MaxX - MinX \in Int /\ MaxY - MinY \in Int
  BY <1>1
<1> QED
  BY <1>1, <1>2, <1>3, DivPositive DEF Width, Length

\* An area is a column and a row, and back.
LEMMA Cell ==
  ASSUME NEW x \in 0..(CntsX - 1), NEW y \in 0..(CntsY - 1)
  PROVE  /\ y * CntsX + x \in GIDs
         /\ (y * CntsX + x) % CntsX = x /\ (y * CntsX + x) \div CntsX = y
<1>1. CntsX \in Nat \ {0} /\ CntsY \in Nat \ {0}
  BY Sizes
<1>2. (y + 1) * CntsX <= CntsY * CntsX
  BY <1>1
<1> QED
  BY <1>1, <1>2, DivUnique DEF GIDs

LEMMA CellOf ==
  ASSUME NEW g \in GIDs
  PROVE  /\ g % CntsX \in 0..(CntsX - 1) /\ g \div CntsX \in 0..(CntsY - 1)
         /\ g = (g \div CntsX) * CntsX + (g % CntsX)
<1>1. CntsX \in Nat \ {0} /\ CntsY \in Nat \ {0} /\ g \in Nat
  BY Sizes DEF GIDs
<1>2. g \in 0..(CntsY * CntsX - 1)
  BY <1>1 DEF GIDs
<1> QED
  BY <1>1, <1>2, DivRange, DivBelow

Elem(s, a) == \E i \in DOMAIN s : s[i] = a

\* What is in two sequences one after the other.
LEMMA Joined ==
  ASSUME NEW X, NEW s \in Seq(X), NEW t \in Seq(X)
  PROVE  s \o t \in Seq(X) /\ \A a : Elem(s \o t, a) <=> Elem(s, a) \/ Elem(t, a)
<1>1. s \o t \in Seq(X) /\ Len(s \o t) = Len(s) + Len(t) /\ Len(s) \in Nat /\ Len(t) \in Nat
      /\ DOMAIN s = 1..Len(s) /\ DOMAIN t = 1..Len(t) /\ DOMAIN (s \o t) = 1..(Len(s) + Len(t))
  OBVIOUS
<1>2. ASSUME NEW a, Elem(s \o t, a) PROVE Elem(s, a) \/ Elem(t, a)
  <2>1. PICK i \in DOMAIN (s \o t) : (s \o t)[i] = a
    BY <1>2 DEF Elem
  <2>2. CASE i <= Len(s)
    BY <1>1, <2>1, <2>2 DEF Elem
  <2>3. CASE i > Len(s)
    <3>1. (s \o t)[i] = t[i - Len(s)] /\ i - Len(s) \in DOMAIN t
      BY <1>1, <2>1, <2>3
    <3> QED
      BY <2>1, <3>1 DEF Elem
  <2> QED
    BY <1>1, <2>1, <2>2, <2>3
<1>3. ASSUME NEW a, Elem(s, a) PROVE Elem(s \o t, a)
  <2>1. PICK i \in DOMAIN s : s[i] = a
    BY <1>3 DEF Elem
  <2>2. (s \o t)[i] = a /\ i \in DOMAIN (s \o t)
    BY <1>1, <2>1
  <2> QED
    BY <2>2 DEF Elem
<1>4. ASSUME NEW a, Elem(t, a) PROVE Elem(s \o t, a)
  <2>1. PICK i \in DOMAIN t : t[i] = a
    BY <1>4 DEF Elem
  <2>2. (s \o t)[Len(s) + i] = a /\ Len(s) + i \in DOMAIN (s \o t)
    BY <1>1, <2>1
  <2> QED
    BY <2>2 DEF Elem
<1> QED
  BY <1>1, <1>2, <1>3, <1>4

\* Columns and rows of the two areas differ by at most one.
Close(u, v) == u = v \/ u = v + 1 \/ u = v - 1
Adjacent(g, a) == Close(a % CntsX, g % CntsX) /\ Close(a \div CntsX, g \div CntsX)

\* One direction of GetSurroundGrIDsByGID yields the area one step away, if it
\* is on the map and wanted.
LEMMA OneNeighbour ==
  ASSUME NEW g \in GIDs, NEW d \in (-1..1) \X (-1..1), NEW W \in SUBSET GIDs
  PROVE  /\ Neighbour(g, d, W) \in Seq(W)
         /\ \A a : Elem(Neighbour(g, d, W), a) <=>
              a \in W /\ a % CntsX = (g % CntsX) + d[1] /\ a \div CntsX = (g \div CntsX) + d[2]
<1> DEFINE x == (g % CntsX) + d[1]  y == (g \div CntsX) + d[2]  b == y * CntsX + x
           OnMap == x \in 0..(CntsX - 1) /\ y \in 0..(CntsY - 1)
<1>1. Neighbour(g, d, W) = IF OnMap /\ b \in W THEN <<b>> ELSE <<>>
  BY DEF Neighbour
<1>2. OnMap => b % CntsX = x /\ b \div CntsX = y
  BY Cell
<1>3. ASSUME NEW a \in W, a % CntsX = x, a \div CntsX = y PROVE OnMap /\ a = b
  BY <1>3, CellOf
<1>4. \A c : Elem(<<c>>, c) /\ \A a : Elem(<<c>>, a) => a = c
  BY DEF Elem
<1>5. \A a : ~Elem(<<>>, a)
  BY DEF Elem
<1>6. CASE OnMap /\ b \in W
  <2>1. Neighbour(g, d, W) = <<b>>
    BY <1>1, <1>6
  <2> HIDE DEF x, y, b
  <2> QED
    BY <1>2, <1>3, <1>4, <1>6, <2>1 DEF x, y
<1>7. CASE ~(OnMap /\ b \in W)
  <2>1. Neighbour(g, d, W) = <<>>
    BY <1>1, <1>7
  <2> HIDE DEF x, y, b
  <2> QED
    BY <1>3, <1>5, <1>7, <2>1 DEF x, y
<1> QED
  BY <1>6, <1>7

\* The nine directions together yield the wanted areas that touch g, and no
\* other.
LEMMA AroundFacts ==
  ASSUME NEW g \in GIDs, NEW W \in SUBSET GIDs
  PROVE  /\ Around(g, W) \in Seq(W)
         /\ \A a : Elem(Around(g, W), a) <=> a \in W /\ Adjacent(g, a)
<1> DEFINE N(i) == Neighbour(g, Directions[i], W)
           Dir(a, i) == /\ a % CntsX = (g % CntsX) + Directions[i][1]
                        /\ a \div CntsX = (g \div CntsX) + Directions[i][2]
           C2 == N(1) \o N(2)
           C3 == C2 \o N(3)
           C4 == C3 \o N(4)
           C5 == C4 \o N(5)
           C6 == C5 \o N(6)
           C7 == C6 \o N(7)
           C8 == C7 \o N(8)
           C9 == C8 \o N(9)
<1>1. \A i \in 1..9 : Directions[i] \in (-1..1) \X (-1..1)
  BY DEF Directions
<1>2. \A i \in 1..9 : N(i) \in Seq(W) /\ \A a : Elem(N(i), a) <=> a \in W /\ Dir(a, i)
  BY <1>1, OneNeighbour
<1>3. Around(g, W) = C9
  BY DEF Around
<1>4. ASSUME NEW a \in W PROVE Adjacent(g, a) <=> \E i \in 1..9 : Dir(a, i)
  <2>1. a \in GIDs /\ g % CntsX \in Int /\ g \div CntsX \in Int
    BY CellOf
  <2>2. a % CntsX \in Int /\ a \div CntsX \in Int
    BY <2>1, CellOf
  <2>3. /\ Dir(a, 1) <=> a % CntsX = g % CntsX /\ a \div CntsX = g \div CntsX
        /\ Dir(a, 2) <=> a % CntsX = (g % CntsX) - 1 /\ a \div CntsX = (g \div CntsX) - 1
        /\ Dir(a, 3) <=> a % CntsX = (g % CntsX) - 1 /\ a \div CntsX = g \div CntsX
        /\ Dir(a, 4) <=> a % CntsX = (g % CntsX) - 1 /\ a \div CntsX = (g \div CntsX) + 1
        /\ Dir(a, 5) <=> a % CntsX = g % CntsX /\ a \div CntsX = (g \div CntsX) - 1
        /\ Dir(a, 6) <=> a % CntsX = g % CntsX /\ a \div CntsX = (g \div CntsX) + 1
        /\ Dir(a, 7) <=> a % CntsX = (g % CntsX) + 1 /\ a \div CntsX = (g \div CntsX) - 1
        /\ Dir(a, 8) <=> a % CntsX = (g % CntsX) + 1 /\ a \div CntsX = g \div CntsX
        /\ Dir(a, 9) <=> a % CntsX = (g % CntsX) + 1 /\ a \div CntsX = (g \div CntsX) + 1
    BY <2>1 DEF Directions
  <2> HIDE DEF Dir
  <2>4. (\E i \in 1..9 : Dir(a, i)) <=>
          \/ Dir(a, 1) \/ Dir(a, 2) \/ Dir(a, 3) \/ Dir(a, 4) \/ Dir(a, 5)
          \/ Dir(a, 6) \/ Dir(a, 7) \/ Dir(a, 8) \/ Dir(a, 9)
    OBVIOUS
  <2> DEFINE ax == a % CntsX  ay == a \div CntsX  gx == g % CntsX  gy == g \div CntsX
  <2> HIDE DEF ax, ay, gx, gy
  <2>5. Adjacent(g, a) <=> Close(ax, gx) /\ Close(ay, gy)
    BY DEF Adjacent, ax, ay, gx, gy
  <2> QED
    BY <2>3, <2>4, <2>5 DEF Close, ax, ay, gx, gy
<1> HIDE DEF N, Dir
<1>5. C2 \in Seq(W) /\ \A a : Elem(C2, a) <=> Elem(N(1), a) \/ Elem(N(2), a)
  BY <1>2, Joined
<1> HIDE DEF C2
<1>6. C3 \in Seq(W) /\ \A a : Elem(C3, a) <=> Elem(C2, a) \/ Elem(N(3), a)
  BY <1>2, <1>5, Joined
<1> HIDE DEF C3
<1>7. C4 \in Seq(W) /\ \A a : Elem(C4, a) <=> Elem(C3, a) \/ Elem(N(4), a)
  BY <1>2, <1>6, Joined
<1> HIDE DEF C4
<1>8. C5 \in Seq(W) /\ \A a : Elem(C5, a) <=> Elem(C4, a) \/ Elem(N(5), a)
  BY <1>2, <1>7, Joined
<1> HIDE DEF C5
<1>9. C6 \in Seq(W) /\ \A a : Elem(C6, a) <=> Elem(C5, a) \/ Elem(N(6), a)
  BY <1>2, <1>8, Joined
<1> HIDE DEF C6
<1>10. C7 \in Seq(W) /\ \A a : Elem(C7, a) <=> Elem(C6, a) \/ Elem(N(7), a)
  BY <1>2, <1>9, Joined
<1> HIDE DEF C7
<1>11. C8 \in Seq(W) /\ \A a : Elem(C8, a) <=> Elem(C7, a) \/ Elem(N(8), a)
  BY <1>2, <1>10, Joined
<1> HIDE DEF C8
<1>12. C9 \in Seq(W) /\ \A a : Elem(C9, a) <=> Elem(C8, a) \/ Elem(N(9), a)
  BY <1>2, <1>11, Joined
<1> HIDE DEF C9
<1>13. \A a : Elem(C9, a) <=> \E i \in 1..9 : Elem(N(i), a)
  BY <1>5, <1>6, <1>7, <1>8, <1>9, <1>10, <1>11, <1>12
<1> QED
  BY <1>2, <1>3, <1>4, <1>12, <1>13

\* GetSurroundGrIDsByGID finds the areas that touch an area, itself included and
\* none besides, and to be found is mutual.
THEOREM AreasAround ==
  /\ \A g \in GIDs : Areas(g) = {a \in GIDs : Adjacent(g, a)} /\ g \in Areas(g)
  /\ \A g : Areas(g) \subseteq GIDs
  /\ \A g : g \notin GIDs => Areas(g) = {}
  /\ \A g, h \in GIDs : g \in Areas(h) <=> h \in Areas(g)
<1>1. \A g : g \notin GIDs => Surround(g) = <<>>
  BY DEF Surround, Around
<1>2. \A g \in GIDs : \A a : Elem(Surround(g), a) <=> a \in GIDs /\ Adjacent(g, a)
  BY AroundFacts DEF Surround
<1>3. \A g : Areas(g) = {Surround(g)[i] : i \in DOMAIN Surround(g)}
  BY DEF Areas
<1>4. \A g \in GIDs : Areas(g) = {a \in GIDs : Adjacent(g, a)}
  BY <1>2, <1>3 DEF Elem
<1>5. \A g : g \notin GIDs => Areas(g) = {}
  BY <1>1, <1>3
<1>6. \A u, v \in Int : Close(u, v) => Close(v, u)
  BY DEF Close
<1>7. \A g \in GIDs : g % CntsX \in Int /\ g \div CntsX \in Int
  BY CellOf
<1>8. \A g, h \in GIDs : Adjacent(g, h) => Adjacent(h, g)
  BY <1>6, <1>7 DEF Adjacent
<1>9. \A g \in GIDs : Adjacent(g, g)
  BY DEF Adjacent, Close
<1> QED
  BY <1>4, <1>5, <1>8, <1>9

\* What the loops walk over.
LEMMA Walks ==
  ASSUME NEW g, NEW h
  PROVE  /\ Surround(g) \in Seq(GIDs) /\ NotAround(g, h) \in Seq(GIDs)
         /\ \A a : Elem(Surround(g), a) <=> a \in Areas(g)
         /\ \A a : Elem(NotAround(g, h), a) <=> a \in Areas(g) \ Areas(h)
<1>1. CASE g \in GIDs
  <2>1. Surround(g) \in Seq(GIDs) /\ \A a : Elem(Surround(g), a) <=> a \in GIDs /\ Adjacent(g, a)
    BY <1>1, AroundFacts DEF Surround
  <2>2. GIDs \ Areas(h) \in SUBSET GIDs
    OBVIOUS
  <2>3. /\ NotAround(g, h) \in Seq(GIDs \ Areas(h))
        /\ \A a : Elem(NotAround(g, h), a) <=> a \in GIDs \ Areas(h) /\ Adjacent(g, a)
    BY <1>1, <2>2, AroundFacts DEF NotAround
  <2>4. NotAround(g, h) \in Seq(GIDs)
    BY <2>3
  <2> QED
    BY <1>1, <2>1, <2>3, <2>4, AreasAround
<1>2. CASE g \notin GIDs
  <2>1. Surround(g) = <<>> /\ NotAround(g, h) = <<>> /\ Areas(g) = {}
    BY <1>2, AreasAround DEF Surround, NotAround, Around
  <2> QED
    BY <2>1 DEF Elem
<1> QED
  BY <1>1, <1>2

\* Positions have areas whose numbers are integers, if not of the map.
LEMMA QuotInt == ASSUME NEW a \in Int, NEW b \in Nat \ {0} PROVE Quot(a, b) \in Int
BY DEF Quot

LEMMA GIDInt == ASSUME NEW xy \in Int \X Int PROVE GetGIDByPos(xy) \in Int
<1> DEFINE qx == Quot(xy[1] - MinX, Width)  qy == Quot(xy[2] - MinY, Length)
<1>1. qx \in Int /\ qy \in Int
  BY Sizes, QuotInt
<1>2. GetGIDByPos(xy) = qy * CntsX + qx
  BY DEF GetGIDByPos
<1> HIDE DEF qx, qy
<1> QED
  BY <1>1, <1>2, Sizes

\* A position that the areas cover is in the rectangle of its area.
THEOREM CoveredInside ==
  ASSUME NEW xy, Covered(xy)
  PROVE  GetGIDByPos(xy) \in GIDs /\ Inside(xy, GetGIDByPos(xy))
<1> DEFINE u == xy[1] - MinX  v == xy[2] - MinY
           qx == u \div Width  qy == v \div Length  g == GetGIDByPos(xy)
<1>1. /\ u \in 0..(CntsX * Width - 1) /\ v \in 0..(CntsY * Length - 1)
      /\ xy[1] = MinX + u /\ xy[2] = MinY + v
  <2>1. CntsX * Width \in Int /\ CntsY * Length \in Int
    BY Sizes
  <2> HIDE DEF g
  <2> QED
    BY <2>1, Sizes DEF Covered
<1>2. g = qy * CntsX + qx
  <2>1. ~(u < 0) /\ ~(v < 0)
    BY <1>1, Sizes
  <2>2. Quot(u, Width) = qx /\ Quot(v, Length) = qy
    BY <2>1 DEF Quot
  <2> QED
    BY <2>2 DEF GetGIDByPos
<1> HIDE DEF u, v, g
<1>3. qx \in 0..(CntsX - 1) /\ qy \in 0..(CntsY - 1)
  BY <1>1, Sizes, DivBelow
<1>4. g \in GIDs /\ g % CntsX = qx /\ g \div CntsX = qy
  <2> HIDE DEF qx, qy
  <2> QED
    BY <1>2, <1>3, Cell
<1>5. /\ u = qx * Width + (u % Width) /\ u % Width \in 0..(Width - 1)
      /\ v = qy * Length + (v % Length) /\ v % Length \in 0..(Length - 1)
  BY <1>1, Sizes, DivRange
<1>6. qx * Width <= u /\ u < (qx + 1) * Width /\ qy * Length <= v /\ v < (qy + 1) * Length
  <2> DEFINE ru == u % Width  rv == v % Length
  <2>1. u = qx * Width + ru /\ ru \in 0..(Width - 1) /\ v = qy * Length + rv /\ rv \in 0..(Length - 1)
    BY <1>5
  <2> HIDE DEF ru, rv, qx, qy
  <2> QED
    BY <1>1, <1>3, <2>1, Sizes
<1>7. Inside(xy, g)
  <2> HIDE DEF qx, qy
  <2>1. qx \in Int /\ qy \in Int /\ u \in Int /\ v \in Int
    BY <1>1, <1>3, Sizes
  <2>2. /\ qx * Width \in Int /\ (qx + 1) * Width \in Int
        /\ qy * Length \in Int /\ (qy + 1) * Length \in Int
    BY <2>1, Sizes
  <2>3. /\ MinX + qx * Width <= xy[1] /\ xy[1] < MinX + (qx + 1) * Width
        /\ MinY + qy * Length <= xy[2] /\ xy[2] < MinY + (qy + 1) * Length
    BY <1>1, <1>6, <2>1, <2>2, Sizes
  <2> QED
    BY <1>4, <2>3 DEF Inside
<1> QED
  BY <1>4, <1>7 DEF g

\* The two threads of a player.
LEMMA ThreadFacts ==
  /\ \A p \in PIDs : Hook(p) \in Threads /\ Work(p) \in Threads
       /\ Hook(p)[1] = "hook" /\ Work(p)[1] = "work" /\ Hook(p)[2] = p /\ Work(p)[2] = p
  /\ \A p, q \in PIDs : Hook(p) # Work(q) /\ (Hook(p) = Hook(q) => p = q)
                        /\ (Work(p) = Work(q) => p = q)
  /\ \A t \in Threads : t[2] \in PIDs /\ t[1] \in {"hook", "work"}
                        /\ (t[1] = "hook" => t = Hook(t[2])) /\ (t[1] = "work" => t = Work(t[2]))
BY DEF Threads, Hook, Work

-----------------------------------------------------------------------------
(* Where the threads are, and the types                                     *)

HookAt == {"off", "addmap", "addgrid", "loop", "online", "leavegrid", "leavemap",
           "gone", "dead", "stuck"}
WorkAt == {"idle", "update", "unlist", "list", "loop"}

Ops == {"none", "sync", "lost", "leaving", "entering", "moved"}

LocalTypes ==
  /\ pc \in [Threads -> HookAt \cup WorkAt] /\ op \in [Threads -> Ops]
  /\ todo \in [Threads -> Seq(GIDs)] /\ ids \in [Threads -> SUBSET PIDs]
  /\ unsent \in [Threads -> SUBSET PIDs] /\ sent \in [Threads -> SUBSET PIDs]
  /\ hasNil \in [Threads -> BOOLEAN]

Types ==
  /\ pidGen \in 0..MaxPlayers /\ players \in SUBSET PIDs
  /\ grids \in [GIDs -> SUBSET PIDs] /\ pos \in [PIDs -> Int \X Int]
  /\ oldGID \in [PIDs -> Int] /\ view \in [PIDs -> SUBSET PIDs]
  /\ LocalTypes

\* OnConnectionAdd is not over, or has panicked; OnConnectionLost has begun.
Early(p)   == pc[Hook(p)] \in {"off", "addmap", "addgrid", "dead"} \/ op[Hook(p)] = "sync"
Leaving(p) == pc[Hook(p)] \in {"leavegrid", "leavemap", "gone"} \/ op[Hook(p)] = "lost"

\* Which loop a thread may be in, and that it has no ids and players outside.
Phases ==
  /\ \A p \in PIDs : pc[Hook(p)] \in HookAt /\ pc[Work(p)] \in WorkAt
  /\ \A p \in PIDs : pc[Hook(p)] = "loop" => op[Hook(p)] \in {"sync", "lost"}
  /\ \A p \in PIDs : pc[Work(p)] = "loop" => op[Work(p)] \in {"leaving", "entering", "moved"}
  /\ \A t \in Threads : pc[t] # "loop" =>
       op[t] = "none" /\ ids[t] = {} /\ unsent[t] = {} /\ sent[t] = {}
  /\ \A t \in Threads : ByArea(t) => \A q, r \in sent[t] : q = r
  /\ \A p \in PIDs : Early(p) => pc[Work(p)] = "idle"
  /\ \A p \in PIDs : pc[Hook(p)] = "off" <=> p > pidGen

\* Entering and leaving a loop keep the types of the locals.
LEMMA EnterTypes ==
  ASSUME LocalTypes, NEW t \in Threads, NEW o \in Ops, NEW areas \in Seq(GIDs), Enter(t, o, areas)
  PROVE  LocalTypes'
BY DEF LocalTypes, Enter, HookAt

LEMMA LeaveTypes ==
  ASSUME LocalTypes, NEW t \in Threads, NEW at \in HookAt \cup WorkAt, Leave(t, at)
  PROVE  LocalTypes'
<1>1. <<>> \in Seq(GIDs) /\ {} \in SUBSET PIDs
  OBVIOUS
<1> QED
  BY <1>1 DEF LocalTypes, Leave, Ops

\* The loops of the two threads of a player.
LEMMA LoopOf ==
  ASSUME Phases, NEW t \in Threads, pc[t] = "loop"
  PROVE  /\ t[2] \in PIDs
         /\ \/ t = Hook(t[2]) /\ op[t] \in {"sync", "lost"}
            \/ t = Work(t[2]) /\ op[t] \in {"leaving", "entering", "moved"}
<1>1. t[2] \in PIDs /\ (t = Hook(t[2]) \/ t = Work(t[2]))
  BY ThreadFacts
<1>2. CASE t = Hook(t[2])
  BY <1>1, <1>2 DEF Phases
<1>3. CASE t = Work(t[2])
  BY <1>1, <1>3 DEF Phases
<1> QED
  BY <1>1, <1>2, <1>3

\* A message changes what its receiver shows, or is lost and remembered.
LEMMA Delivery ==
  ASSUME view \in [PIDs -> SUBSET PIDs], NEW r \in PIDs, NEW o, NEW about, SendMsg(r, o, about)
  PROVE  /\ \A q \in PIDs \ {r} : view'[q] = view[q]
         /\ view'[r] \in {view[r], Shown(o, r, about)}
         /\ missed \subseteq missed'
         /\ \A q \in PIDs \ {r} :
              {q, r} \notin missed' => (q \in view'[r] <=> q \in Shown(o, r, about))
         /\ about \subseteq PIDs => view' \in [PIDs -> SUBSET PIDs]
<1>1. CASE view' = [view EXCEPT ![r] = Shown(o, r, about)] /\ UNCHANGED missed
  <2>1. about \subseteq PIDs => Shown(o, r, about) \in SUBSET PIDs
    BY DEF Shown
  <2> QED
    BY <1>1, <2>1
<1>2. CASE missed' = missed \cup {{r, q} : q \in about \ {r}} /\ UNCHANGED view
  <2>1. ASSUME NEW q \in PIDs \ {r}, {q, r} \notin missed'
        PROVE  q \in view'[r] <=> q \in Shown(o, r, about)
    <3>1. {q, r} = {r, q}
      OBVIOUS
    <3>2. q \notin about
      BY <1>2, <2>1, <3>1
    <3> QED
      BY <1>2, <3>2 DEF Shown
  <2> QED
    BY <1>2, <2>1
<1> QED
  BY <1>1, <1>2 DEF SendMsg

\* Every step keeps the types.
LEMMA TypesStep == Types /\ Phases /\ [Next]_vars => Types'
<1> SUFFICES ASSUME Types, Phases, [Next]_vars PROVE Types'
  OBVIOUS
<1> USE DEF Types, worldVars, Locals, pastVars
<1>1. CASE NewPlayer
  <2>1. pidGen + 1 \in PIDs /\ pidGen' = pidGen + 1
    BY <1>1, WorldAssumption DEF NewPlayer, PIDs
  <2>2. pos' \in [PIDs -> Int \X Int]
    BY <1>1, <2>1, WorldAssumption DEF NewPlayer
  <2>3. pidGen' \in 0..MaxPlayers
    BY <2>1, WorldAssumption DEF PIDs
  <2> QED
    BY <1>1, <2>1, <2>2, <2>3, ThreadFacts DEF NewPlayer, Go, LocalTypes, HookAt
<1>2. ASSUME NEW p \in PIDs, AddToMap(p) PROVE Types'
  BY <1>2, ThreadFacts DEF AddToMap, Go, LocalTypes, HookAt
<1>3. ASSUME NEW p \in PIDs, AddToGrid(p) PROVE Types'
  <2>1. Surround(GetGIDByPos(pos[p])) \in Seq(GIDs)
    BY Walks
  <2>2. Enter(Hook(p), "sync", Surround(GetGIDByPos(pos[p]))) /\ Hook(p) \in Threads /\ "sync" \in Ops
    BY <1>3, ThreadFacts DEF AddToGrid, Ops
  <2>3. LocalTypes'
    BY <2>1, <2>2, EnterTypes
  <2>4. grids' \in [GIDs -> SUBSET PIDs]
    BY <1>3 DEF AddToGrid
  <2> QED
    BY <1>3, <2>3, <2>4 DEF AddToGrid
<1>4. ASSUME NEW p \in PIDs, ConnectionLost(p) PROVE Types'
  <2>1. Surround(GetGIDByPos(pos[p])) \in Seq(GIDs)
    BY Walks
  <2> QED
    BY <1>4, <2>1, ThreadFacts, EnterTypes DEF ConnectionLost, Ops
<1>5. ASSUME NEW t \in Threads, Panic(t) PROVE Types'
  <2>1. LocalTypes'
    BY <1>5, LeaveTypes DEF Panic, HookAt, WorkAt
  <2> QED
    BY <1>5, <2>1, ThreadFacts DEF Panic
<1>6. ASSUME NEW p \in PIDs, LeaveGrid(p) \/ LeaveMap(p) \/ RemovePID(p) PROVE Types'
  <2>1. LocalTypes'
    <3>1. UNCHANGED Locals /\ \E t \in Threads : \E at \in HookAt \cup WorkAt : pc' = [pc EXCEPT ![t] = at]
      BY <1>6, ThreadFacts DEF LeaveGrid, LeaveMap, RemovePID, Go, HookAt, WorkAt
    <3> QED
      BY <3>1 DEF LocalTypes
  <2>2. grids' \in [GIDs -> SUBSET PIDs]
    BY <1>6 DEF LeaveGrid, LeaveMap, RemovePID
  <2>3. view' \in [PIDs -> SUBSET PIDs]
    BY <1>6 DEF LeaveGrid, LeaveMap, RemovePID
  <2> QED
    BY <1>6, <2>1, <2>2, <2>3 DEF LeaveGrid, LeaveMap, RemovePID
<1>7. ASSUME NEW p \in PIDs, Move(p) PROVE Types'
  BY <1>7, ThreadFacts DEF Move, Go, LocalTypes, WorkAt
<1>8. ASSUME NEW p \in PIDs, NEW xy \in Targets, UpdatePos(p, xy) PROVE Types'
  <2>1. xy \in Int \X Int
    BY WorldAssumption
  <2>2. Surround(GetGIDByPos(xy)) \in Seq(GIDs) /\ GetGIDByPos(pos[p]) \in Int
    BY Walks, GIDInt
  <2> QED
    <3>1. LocalTypes'
      <4>1. CASE Enter(Work(p), "moved", Surround(GetGIDByPos(xy)))
        BY <4>1, <2>2, ThreadFacts, EnterTypes DEF Ops
      <4>2. CASE pc' = [pc EXCEPT ![Work(p)] = "unlist"] /\ UNCHANGED Locals
        BY <4>2 DEF LocalTypes, WorkAt
      <4> QED
        BY <1>8, <4>1, <4>2 DEF UpdatePos
    <3> QED
      BY <1>8, <2>1, <2>2, <3>1, ThreadFacts DEF UpdatePos
<1>9. ASSUME NEW p \in PIDs, AddPID(p) PROVE Types'
  <2>1. NotAround(oldGID[p], GetGIDByPos(pos[p])) \in Seq(GIDs)
    BY Walks
  <2> QED
    BY <1>9, <2>1, ThreadFacts, EnterTypes DEF AddPID, Ops
<1>10. ASSUME NEW t \in Threads, Scan(t) PROVE Types'
  <2>1. todo[t] # <<>> /\ todo[t] \in Seq(GIDs)
    BY <1>10 DEF Scan, Reads, LocalTypes
  <2>2. Head(todo[t]) \in GIDs /\ Tail(todo[t]) \in Seq(GIDs)
    BY <2>1
  <2> QED
    BY <1>10, <2>2 DEF Scan, Same, LocalTypes
<1>11. ASSUME NEW t \in Threads, Lookup(t) PROVE Types'
  <2>1. \A some \in IF ByArea(t) THEN {ids[t]} ELSE {{q} : q \in ids[t]} : some \in SUBSET PIDs
    BY DEF LocalTypes
  <2>2. PICK some \in SUBSET PIDs : 
       /\ ids' = [ids EXCEPT ![t] = @ \ some]
       /\ unsent' = [unsent EXCEPT ![t] = @ \cup (some \cap players)]
       /\ hasNil' = [hasNil EXCEPT ![t] = @ \/ ~(some \subseteq players)]
    BY <1>11, <2>1 DEF Lookup
  <2> QED
    BY <1>11, <2>2 DEF Lookup, Same, LocalTypes
<1>12. ASSUME NEW t \in Threads, Send(t) PROVE Types'
  <2>1. PICK q \in unsent[t] : SendMsg(q, op[t], {t[2]})
    BY <1>12 DEF Send
  <2>2. q \in PIDs /\ {t[2]} \subseteq PIDs
    BY ThreadFacts DEF LocalTypes
  <2>3. view' \in [PIDs -> SUBSET PIDs]
    BY <2>1, <2>2, Delivery DEF Types
  <2> QED
    BY <1>12, <2>3 DEF Send, Same, LocalTypes
<1>13. ASSUME NEW t \in Threads, SendBack(t) PROVE Types'
  <2>1. PICK q \in sent[t] : SendMsg(t[2], op[t], {q})
    BY <1>13 DEF SendBack
  <2>2. t[2] \in PIDs /\ {q} \subseteq PIDs
    BY ThreadFacts DEF LocalTypes
  <2>3. view' \in [PIDs -> SUBSET PIDs]
    BY <2>1, <2>2, Delivery DEF Types
  <2> QED
    BY <1>13, <2>3 DEF SendBack, Same, LocalTypes
<1>14. ASSUME NEW t \in Threads, LoopDone(t) PROVE Types'
  <2>1. t[2] \in PIDs
    BY ThreadFacts
  <2>2. \A g, h : NotAround(g, h) \in Seq(GIDs) /\ Surround(g) \in Seq(GIDs)
    BY Walks
  <2>3. oldGID' \in [PIDs -> Int] /\ view' \in [PIDs -> SUBSET PIDs]
    <3>1. sent[t] \subseteq PIDs
      BY DEF LocalTypes
    <3>2. SendMsg(t[2], "sync", sent[t]) => view' \in [PIDs -> SUBSET PIDs]
      BY <2>1, <3>1, Delivery DEF Types
    <3> QED
      BY <1>14, <2>1, <3>2 DEF LoopDone
  <2>4. op[t] \in Ops \ {"none"}
    <3>1. pc[t] = "loop"
      BY <1>14 DEF LoopDone, Sends
    <3> QED
      BY <3>1, LoopOf DEF Ops
  <2>5. \/ \E o \in Ops : \E areas \in Seq(GIDs) : Enter(t, o, areas)
        \/ \E at \in HookAt \cup WorkAt : Leave(t, at)
    BY <1>14, <2>2, <2>4, ThreadFacts DEF LoopDone, Ops, HookAt, WorkAt
  <2> QED
    BY <1>14, <2>3, <2>5, EnterTypes, LeaveTypes DEF LoopDone
<1>15. CASE UNCHANGED vars
  BY <1>15 DEF vars, LocalTypes
<1> QED
  BY <1>1, <1>2, <1>3, <1>4, <1>5, <1>6, <1>7, <1>8, <1>9, <1>10, <1>11, <1>12, <1>13,
     <1>14, <1>15, ThreadFacts
     DEF Next, Loop, LeaveGridPanics, MovePanics, SendPanics

\* What Go, Enter and Leave do, thread by thread.
LEMMA GoAt ==
  ASSUME LocalTypes, NEW t \in Threads, NEW from, NEW to, Go(t, from, to)
  PROVE  pc[t] = from /\ pc'[t] = to /\ \A u \in Threads \ {t} : pc'[u] = pc[u]
BY DEF LocalTypes, Go

LEMMA EnterAt ==
  ASSUME LocalTypes, NEW t \in Threads, NEW o, NEW areas, Enter(t, o, areas)
  PROVE  /\ pc'[t] = "loop" /\ op'[t] = o /\ todo'[t] = areas
         /\ UNCHANGED <<ids, unsent, sent, hasNil>>
         /\ \A u \in Threads \ {t} : pc'[u] = pc[u] /\ op'[u] = op[u] /\ todo'[u] = todo[u]
BY DEF LocalTypes, Enter

LEMMA LeaveAt ==
  ASSUME LocalTypes, NEW t \in Threads, NEW at, Leave(t, at)
  PROVE  /\ pc'[t] = at /\ op'[t] = "none" /\ hasNil'[t] = FALSE
         /\ ids'[t] = {} /\ unsent'[t] = {} /\ sent'[t] = {}
         /\ \A u \in Threads \ {t} : /\ pc'[u] = pc[u] /\ op'[u] = op[u] /\ todo'[u] = todo[u]
                                   /\ ids'[u] = ids[u] /\ unsent'[u] = unsent[u]
                                   /\ sent'[u] = sent[u] /\ hasNil'[u] = hasNil[u]
BY DEF LocalTypes, Leave

\* A thread goes from one place outside the loops to another, or into a loop,
\* or out of one.
LEMMA GoPhases ==
  ASSUME Types, Phases, UNCHANGED <<pidGen, Locals>>, NEW p \in PIDs,
         \/ \E from, to \in HookAt \ {"off", "loop"} :
              /\ Go(Hook(p), from, to)
              /\ to \in {"addmap", "addgrid", "dead"} => from \in {"addmap", "addgrid"}
         \/ \E from, to \in WorkAt \ {"loop"} : Go(Work(p), from, to) /\ ~Early(p)
  PROVE  Phases'
<1> USE DEF Types, LocalTypes, Locals, Go
<1>1. \A q \in PIDs : /\ (pc[Hook(q)] = "off" <=> pc'[Hook(q)] = "off")
                      /\ (pc[Hook(q)] = "loop" <=> pc'[Hook(q)] = "loop")
                      /\ (pc[Work(q)] = "loop" <=> pc'[Work(q)] = "loop")
                      /\ pc'[Hook(q)] \in HookAt /\ pc'[Work(q)] \in WorkAt
  BY ThreadFacts DEF Phases
<1>2. \A t \in Threads : pc'[t] = "loop" <=> pc[t] = "loop"
  BY <1>1, ThreadFacts
<1>3. \A q \in PIDs : Early(q)' => pc'[Work(q)] = "idle"
  BY ThreadFacts DEF Phases, Early
<1> QED
  BY <1>1, <1>2, <1>3 DEF Phases, ByArea

LEMMA EnterPhases ==
  ASSUME Types, Phases, UNCHANGED pidGen, NEW p \in PIDs, NEW t \in Threads, NEW o, NEW areas,
         Enter(t, o, areas),
         \/ /\ t = Hook(p) /\ o \in {"sync", "lost"} /\ pc[t] # "off"
            /\ o = "sync" => Early(p)
         \/ /\ t = Work(p) /\ o \in {"leaving", "entering", "moved"} /\ ~Early(p)
            /\ \A q, r \in sent[t] : q = r
  PROVE  Phases'
<1>1. /\ pc'[t] = "loop" /\ op'[t] = o /\ UNCHANGED <<ids, unsent, sent>>
      /\ \A u \in Threads \ {t} : pc'[u] = pc[u] /\ op'[u] = op[u]
  BY EnterAt DEF Types
<1>2. \A q \in PIDs : /\ (pc[Hook(q)] = "off" <=> pc'[Hook(q)] = "off")
                      /\ pc'[Hook(q)] \in HookAt /\ pc'[Work(q)] \in WorkAt
  BY <1>1, ThreadFacts DEF Phases, HookAt, WorkAt
<1>3. \A q \in PIDs : pc'[Hook(q)] = "loop" => op'[Hook(q)] \in {"sync", "lost"}
  BY <1>1, ThreadFacts DEF Phases
<1>4. \A q \in PIDs : pc'[Work(q)] = "loop" => op'[Work(q)] \in {"leaving", "entering", "moved"}
  BY <1>1, ThreadFacts DEF Phases
<1>5. \A u \in Threads : pc'[u] # "loop" => pc[u] # "loop" /\ op'[u] = op[u]
  BY <1>1
<1>6. \A u \in Threads : ByArea(u)' => \A q, r \in sent[u] : q = r
  BY <1>1, ThreadFacts DEF Phases, ByArea
<1>7. \A q \in PIDs : Early(q)' => pc'[Work(q)] = "idle"
  BY <1>1, ThreadFacts DEF Phases, Early
<1> QED
  BY <1>1, <1>2, <1>3, <1>4, <1>5, <1>6, <1>7 DEF Phases, ByArea

LEMMA LeavePhases ==
  ASSUME Types, Phases, UNCHANGED pidGen, NEW p \in PIDs, NEW t \in Threads, NEW at, Leave(t, at),
         \/ /\ t = Hook(p) /\ at \in HookAt \ {"off", "addmap", "addgrid", "loop"}
            /\ pc[t] # "off"
            /\ at = "dead" => Early(p)
         \/ t = Work(p) /\ at = "idle"
  PROVE  Phases'
<1>1. /\ pc'[t] = at /\ op'[t] = "none" /\ ids'[t] = {} /\ unsent'[t] = {} /\ sent'[t] = {}
      /\ \A u \in Threads \ {t} : pc'[u] = pc[u] /\ op'[u] = op[u] /\ ids'[u] = ids[u]
                                /\ unsent'[u] = unsent[u] /\ sent'[u] = sent[u]
  BY LeaveAt DEF Types
<1>2. \A q \in PIDs : /\ (pc[Hook(q)] = "off" <=> pc'[Hook(q)] = "off")
                      /\ pc'[Hook(q)] \in HookAt /\ pc'[Work(q)] \in WorkAt
  <2>1. \A q \in PIDs : Hook(q) = t => at \in HookAt \ {"off"} /\ pc[t] # "off"
    BY ThreadFacts
  <2>2. \A q \in PIDs : Work(q) = t => at \in WorkAt
    BY ThreadFacts DEF WorkAt
  <2> QED
    BY <1>1, <2>1, <2>2, ThreadFacts DEF Phases
<1>3. \A q \in PIDs : pc'[Hook(q)] = "loop" => op'[Hook(q)] \in {"sync", "lost"}
  BY <1>1, ThreadFacts DEF Phases
<1>4. \A q \in PIDs : pc'[Work(q)] = "loop" => op'[Work(q)] \in {"leaving", "entering", "moved"}
  BY <1>1, ThreadFacts DEF Phases
<1>5. \A u \in Threads : pc'[u] # "loop" =>
        op'[u] = "none" /\ ids'[u] = {} /\ unsent'[u] = {} /\ sent'[u] = {}
  BY <1>1 DEF Phases
<1>6. \A u \in Threads : ByArea(u)' => \A q, r \in sent'[u] : q = r
  BY <1>1 DEF Phases, ByArea
<1>7. \A q \in PIDs : Early(q)' => pc'[Work(q)] = "idle"
  BY <1>1, ThreadFacts DEF Phases, Early
<1> QED
  BY <1>2, <1>3, <1>4, <1>5, <1>6, <1>7 DEF Phases

\* What a loop does to the ids and players it has found.
LEMMA LoopPhases ==
  ASSUME Types, Phases, UNCHANGED <<pidGen, pc, op>>, NEW t \in Threads, pc[t] = "loop",
         \A u \in Threads \ {t} : ids'[u] = ids[u] /\ unsent'[u] = unsent[u] /\ sent'[u] = sent[u],
         ByArea(t) => \A q, r \in sent'[t] : q = r
  PROVE  Phases'
BY DEF Phases, ByArea, Early

\* Every step keeps a thread to its places.
LEMMA PhasesStep == Types /\ Phases /\ [Next]_vars => Phases'
<1> SUFFICES ASSUME Types, Phases, [Next]_vars PROVE Phases'
  OBVIOUS
<1>1. CASE NewPlayer
  <2>1. pidGen \in Int /\ pidGen' = pidGen + 1 /\ pidGen + 1 \in PIDs /\ PIDs \subseteq Int
    <3>1. pidGen < MaxPlayers /\ pidGen' = pidGen + 1 /\ pidGen \in 0..MaxPlayers
      BY <1>1 DEF NewPlayer, Types
    <3>2. MaxPlayers \in Nat
      BY WorldAssumption
    <3> QED
      BY <3>1, <3>2 DEF PIDs
  <2>2. pc' = [pc EXCEPT ![Hook(pidGen + 1)] = "addmap"] /\ pc[Hook(pidGen + 1)] = "off"
        /\ UNCHANGED Locals
    BY <1>1, <2>1 DEF NewPlayer, Go
  <2>3. \A p \in PIDs : p # pidGen + 1 => pc'[Hook(p)] = pc[Hook(p)]
    BY <2>1, <2>2, ThreadFacts DEF Types, LocalTypes
  <2>4. pc'[Hook(pidGen + 1)] = "addmap" /\ \A p \in PIDs : pc'[Work(p)] = pc[Work(p)]
    BY <2>1, <2>2, ThreadFacts DEF Types, LocalTypes
  <2>5. \A p \in PIDs : pc'[Hook(p)] = "off" <=> p > pidGen'
    BY <2>1, <2>3, <2>4 DEF Phases
  <2>6. \A t \in Threads : pc'[t] = pc[t] \/ (pc[t] = "off" /\ pc'[t] = "addmap")
    <3>1. Go(Hook(pidGen + 1), "off", "addmap")
      BY <1>1, <2>1 DEF NewPlayer
    <3>2. LocalTypes /\ Hook(pidGen + 1) \in Threads
      BY <2>1, ThreadFacts DEF Types
    <3>3. /\ pc[Hook(pidGen + 1)] = "off" /\ pc'[Hook(pidGen + 1)] = "addmap"
          /\ \A u \in Threads \ {Hook(pidGen + 1)} : pc'[u] = pc[u]
      BY <3>1, <3>2, GoAt
    <3> QED
      BY <3>3
  <2>7. \A p \in PIDs : Early(p)' => Early(p)
    BY <2>2, <2>3, <2>4, <2>1 DEF Early, Locals
  <2> QED
    BY <2>2, <2>3, <2>4, <2>5, <2>6, <2>7 DEF Phases, Locals, HookAt, ByArea
<1>2. ASSUME NEW p \in PIDs, AddToMap(p) PROVE Phases'
  BY <1>2, GoPhases DEF AddToMap, HookAt
<1>3. ASSUME NEW p \in PIDs, AddToGrid(p) PROVE Phases'
  BY <1>3, ThreadFacts, EnterPhases DEF AddToGrid, Early
<1>4. ASSUME NEW p \in PIDs, ConnectionLost(p) PROVE Phases'
  BY <1>4, ThreadFacts, EnterPhases DEF ConnectionLost
<1>5. ASSUME NEW p \in PIDs, LeaveGrid(p) \/ LeaveMap(p) PROVE Phases'
  BY <1>5, GoPhases DEF LeaveGrid, LeaveMap, HookAt
<1>6. ASSUME NEW p \in PIDs, LeaveGridPanics(p) PROVE Phases'
  <2>1. Hook(p)[1] = "hook" /\ op[Hook(p)] = "none"
    BY <1>6, ThreadFacts DEF LeaveGridPanics, Phases
  <2>2. Leave(Hook(p), "stuck") /\ pc[Hook(p)] # "off" /\ UNCHANGED pidGen
    BY <1>6, <2>1 DEF LeaveGridPanics, Panic
  <2> QED
    BY <2>2, ThreadFacts, LeavePhases DEF HookAt
<1>7. ASSUME NEW p \in PIDs, Move(p) PROVE Phases'
  <2>1. ~Early(p) /\ Go(Work(p), "idle", "update") /\ UNCHANGED <<pidGen, Locals>>
    BY <1>7 DEF Move, Early
  <2> QED
    BY <2>1, GoPhases DEF WorkAt
<1>8. ASSUME NEW p \in PIDs, NEW xy \in Targets, UpdatePos(p, xy) PROVE Phases'
  <2>1. ~Early(p) /\ pc[Work(p)] = "update" /\ sent[Work(p)] = {} /\ UNCHANGED pidGen
    BY <1>8, ThreadFacts DEF UpdatePos, Phases
  <2>2. CASE Enter(Work(p), "moved", Surround(GetGIDByPos(xy)))
    BY <2>1, <2>2, ThreadFacts, EnterPhases
  <2>3. CASE pc' = [pc EXCEPT ![Work(p)] = "unlist"] /\ UNCHANGED Locals
    <3>1. Go(Work(p), "update", "unlist")
      BY <2>1, <2>3 DEF Go
    <3> QED
      BY <2>1, <2>3, <3>1, GoPhases DEF WorkAt
  <2> QED
    BY <1>8, <2>2, <2>3 DEF UpdatePos
<1>9. ASSUME NEW p \in PIDs, RemovePID(p) PROVE Phases'
  <2>1. ~Early(p) /\ Go(Work(p), "unlist", "list") /\ UNCHANGED <<pidGen, Locals>>
    BY <1>9 DEF RemovePID, Phases, Go
  <2> QED
    BY <2>1, GoPhases DEF WorkAt
<1>10. ASSUME NEW p \in PIDs, AddPID(p) PROVE Phases'
  <2>1. ~Early(p) /\ sent[Work(p)] = {} /\ UNCHANGED pidGen
    BY <1>10, ThreadFacts DEF AddPID, Phases
  <2> QED
    BY <1>10, <2>1, ThreadFacts, EnterPhases DEF AddPID
<1>11. ASSUME NEW p \in PIDs, MovePanics(p) PROVE Phases'
  <2>1. Leave(Work(p), "idle") /\ UNCHANGED pidGen
    BY <1>11, ThreadFacts DEF MovePanics, Panic
  <2> QED
    BY <2>1, ThreadFacts, LeavePhases
<1>12. ASSUME NEW t \in Threads, Scan(t) \/ Lookup(t) \/ Send(t) \/ SendBack(t) PROVE Phases'
  <2>1. pc[t] = "loop" /\ UNCHANGED <<pidGen, pc, op>>
    BY <1>12 DEF Scan, Reads, Lookup, Looks, Send, Sends, SendBack, Same
  <2>2. \A u \in Threads \ {t} : ids'[u] = ids[u] /\ unsent'[u] = unsent[u] /\ sent'[u] = sent[u]
    BY <1>12 DEF Scan, Lookup, Send, SendBack, Types, LocalTypes
  <2>3. ByArea(t) => \A q, r \in sent'[t] : q = r
    <3>1. CASE Scan(t) \/ Lookup(t)
      BY <3>1 DEF Scan, Lookup, Phases
    <3>2. CASE Send(t)
      BY <3>2 DEF Send, Sends, Owes, Types, LocalTypes
    <3>3. CASE SendBack(t)
      BY <3>3 DEF SendBack, Types, LocalTypes
    <3> QED
      BY <1>12, <3>1, <3>2, <3>3
  <2> QED
    BY <2>1, <2>2, <2>3, LoopPhases
<1>13. ASSUME NEW t \in Threads, SendPanics(t) PROVE Phases'
  <2>1. pc[t] = "loop" /\ Panic(t)
    BY <1>13 DEF SendPanics, Sends
  <2>2. CASE t = Hook(t[2])
    <3>1. t[1] = "hook" /\ t[2] \in PIDs
      BY <2>2, ThreadFacts
    <3>2. /\ Leave(Hook(t[2]), IF op[t] = "sync" THEN "dead" ELSE "stuck")
          /\ op[t] = "sync" => Early(t[2])
      BY <2>1, <2>2, <3>1 DEF Panic, Early
    <3> QED
      BY <2>1, <2>2, <3>1, <3>2, LeavePhases DEF Panic, HookAt
  <2>3. CASE t = Work(t[2])
    BY <2>1, <2>3, ThreadFacts, LeavePhases DEF Panic
  <2> QED
    BY <2>1, <2>2, <2>3, LoopOf
<1>14. ASSUME NEW t \in Threads, LoopDone(t) PROVE Phases'
  <2>1. pc[t] = "loop" /\ UNCHANGED pidGen /\ ~Owes(t)
    BY <1>14 DEF LoopDone, Sends
  <2>2. CASE op[t] \in {"leaving", "entering"}
    <3>1. t = Work(t[2]) /\ t[2] \in PIDs /\ ~Early(t[2]) /\ sent[t] = {}
      BY <2>1, <2>2, LoopOf DEF Phases, Owes, ByArea
    <3>2. \E areas : \E o \in {"entering", "moved"} : Enter(t, o, areas)
      BY <1>14, <2>2 DEF LoopDone
    <3> QED
      BY <2>1, <3>1, <3>2, EnterPhases
  <2>3. CASE op[t] = "moved"
    BY <1>14, <2>1, <2>3, LoopOf, LeavePhases DEF LoopDone
  <2>4. CASE op[t] \in {"lost", "sync"}
    <3>1. t = Hook(t[2]) /\ t[2] \in PIDs
      BY <2>1, <2>4, LoopOf
    <3>2. \E at \in {"leavegrid", "online"} : Leave(t, at)
      BY <1>14, <2>4 DEF LoopDone
    <3> QED
      BY <2>1, <3>1, <3>2, LeavePhases DEF HookAt
  <2> QED
    BY <2>1, <2>2, <2>3, <2>4, LoopOf
<1>15. CASE UNCHANGED vars
  BY <1>15 DEF vars, Phases, Locals, Early, ByArea
<1> QED
  BY <1>1, <1>2, <1>3, <1>4, <1>5, <1>6, <1>7, <1>8, <1>9, <1>10, <1>11, <1>12, <1>13,
     <1>14, <1>15 DEF Next, Loop

-----------------------------------------------------------------------------
(* Who is in the map                                                        *)

Listed(p) == \E g \in GIDs : p \in grids[g]
Mentioned(p, t) == p \in ids[t] \/ p \in unsent[t] \/ p \in sent[t]

\* A player is nowhere to be found before AddPlayer, and in the map from then
\* on until LostConnection took it out; who looks one up in vain looks up one
\* that is gone.
Known ==
  /\ \A p \in PIDs : pc[Hook(p)] \in {"off", "addmap"} =>
       /\ ~Listed(p) /\ \A t \in Threads : ~Mentioned(p, t)
       /\ \A q \in PIDs : q # p => p \notin view[q] /\ q \notin view[p]
  /\ \A p \in PIDs : pc[Hook(p)] \notin {"off", "addmap", "gone"} => p \in players
  /\ \A p \in PIDs : pc[Hook(p)] = "gone" => p \notin players
  /\ \A t \in Threads : hasNil[t] => \E q \in PIDs : pc[Hook(q)] = "gone"

\* The worker's actions outside its loops leave the hooks alone.
LEMMA WorkerMoves ==
  ASSUME Types, NEW p \in PIDs,
         \/ Move(p) \/ RemovePID(p) \/ AddPID(p) \/ MovePanics(p)
         \/ \E xy \in Targets : UpdatePos(p, xy)
  PROVE  /\ UNCHANGED <<pidGen, players, view>>
         /\ \A t \in Threads \ {Work(p)} : /\ pc'[t] = pc[t] /\ op'[t] = op[t] /\ todo'[t] = todo[t]
              /\ ids'[t] = ids[t] /\ unsent'[t] = unsent[t] /\ sent'[t] = sent[t]
              /\ hasNil'[t] = hasNil[t]
         /\ ids'[Work(p)] \subseteq ids[Work(p)] /\ unsent'[Work(p)] \subseteq unsent[Work(p)]
         /\ sent'[Work(p)] \subseteq sent[Work(p)] /\ (hasNil'[Work(p)] => hasNil[Work(p)])
<1> DEFINE t == Work(p)
<1>0. t \in Threads /\ t[2] = p /\ LocalTypes
  BY ThreadFacts DEF Types
<1>1. CASE Move(p) \/ RemovePID(p)
  <2>1. \E from, to : Go(t, from, to)
    BY <1>1 DEF Move, RemovePID
  <2> HIDE DEF t
  <2>2. \A u \in Threads \ {t} : pc'[u] = pc[u]
    BY <1>0, <2>1, GoAt
  <2> QED
    BY <1>1, <2>2 DEF Move, RemovePID, Locals, worldVars, t
<1>2. CASE AddPID(p)
  <2>1. \E o, areas : Enter(t, o, areas)
    BY <1>2 DEF AddPID
  <2> HIDE DEF t
  <2> QED
    BY <1>0, <1>2, <2>1, EnterAt DEF AddPID, t
<1>3. CASE MovePanics(p)
  <2>1. (\E at : Leave(t, at)) /\ UNCHANGED <<pidGen, worldVars, view>>
    BY <1>3 DEF MovePanics, Panic
  <2> HIDE DEF t
  <2> QED
    BY <1>0, <2>1, LeaveAt DEF worldVars, t
<1>4. ASSUME NEW xy \in Targets, UpdatePos(p, xy)
      PROVE  /\ UNCHANGED <<pidGen, players, view, ids, unsent, sent, hasNil>>
             /\ \A u \in Threads \ {t} : pc'[u] = pc[u] /\ op'[u] = op[u] /\ todo'[u] = todo[u]
  <2>1. UNCHANGED <<pidGen, players, view>>
    BY <1>4 DEF UpdatePos
  <2>2. CASE Enter(t, "moved", Surround(GetGIDByPos(xy)))
    <3> HIDE DEF t
    <3> QED
      BY <1>0, <2>1, <2>2, EnterAt
  <2>3. CASE pc' = [pc EXCEPT ![t] = "unlist"] /\ UNCHANGED Locals
    <3>1. Go(t, pc[t], "unlist")
      BY <2>3 DEF Go
    <3> HIDE DEF t
    <3> QED
      BY <1>0, <2>1, <2>3, <3>1, GoAt DEF Locals
  <2> QED
    BY <1>4, <2>2, <2>3 DEF UpdatePos
<1> QED
  BY <1>1, <1>2, <1>3, <1>4

\* The hook's actions outside its loops.
LEMMA HookMoves ==
  ASSUME Types, Phases, NEW p \in PIDs,
         AddToMap(p) \/ AddToGrid(p) \/ ConnectionLost(p) \/ LeaveGrid(p)
         \/ LeaveGridPanics(p) \/ LeaveMap(p)
  PROVE  /\ UNCHANGED <<pidGen, pos>>
         /\ \A t \in Threads \ {Hook(p)} : pc'[t] = pc[t] /\ op'[t] = op[t] /\ todo'[t] = todo[t]
         /\ \A t \in Threads : /\ ids'[t] \subseteq ids[t] /\ unsent'[t] \subseteq unsent[t]
                               /\ sent'[t] \subseteq sent[t] /\ (hasNil'[t] => hasNil[t])
         /\ pc[Hook(p)] \notin {"off", "gone", "dead", "stuck"}
         /\ pc'[Hook(p)] \notin {"off", "addmap", "dead"}
<1> DEFINE t == Hook(p)
<1>0. t \in Threads /\ t[2] = p /\ t[1] = "hook" /\ LocalTypes
  BY ThreadFacts DEF Types
<1>1. CASE AddToMap(p) \/ LeaveGrid(p) \/ LeaveMap(p)
  <2>1. /\ \E from \in {"addmap", "leavegrid", "leavemap"}, to \in {"addgrid", "leavemap", "gone"} :
             Go(t, from, to)
        /\ UNCHANGED <<pidGen, pos, Locals>>
    BY <1>1 DEF AddToMap, LeaveGrid, LeaveMap
  <2> HIDE DEF t
  <2> QED
    BY <1>0, <2>1, GoAt DEF Locals, t
<1>2. CASE AddToGrid(p) \/ ConnectionLost(p)
  <2>1. (\E o, areas : Enter(t, o, areas)) /\ UNCHANGED <<pidGen, pos>> /\ pc[t] \in {"addgrid", "online"}
    BY <1>2 DEF AddToGrid, ConnectionLost, worldVars
  <2> HIDE DEF t
  <2> QED
    BY <1>0, <2>1, EnterAt DEF t
<1>3. CASE LeaveGridPanics(p)
  <2>1. pc[t] = "leavegrid" /\ op[t] = "none"
    BY <1>0, <1>3 DEF LeaveGridPanics, Phases
  <2>2. Leave(t, "stuck") /\ UNCHANGED <<pidGen, pos>>
    BY <1>0, <1>3, <2>1 DEF LeaveGridPanics, Panic, worldVars
  <2> HIDE DEF t
  <2>3. /\ pc'[t] = "stuck" /\ hasNil'[t] = FALSE
        /\ ids'[t] = {} /\ unsent'[t] = {} /\ sent'[t] = {}
        /\ \A u \in Threads \ {t} : /\ pc'[u] = pc[u] /\ op'[u] = op[u] /\ todo'[u] = todo[u]
                                  /\ ids'[u] = ids[u] /\ unsent'[u] = unsent[u]
                                  /\ sent'[u] = sent[u] /\ hasNil'[u] = hasNil[u]
    BY <1>0, <2>2, LeaveAt
  <2>4. \A u \in Threads : /\ ids'[u] \subseteq ids[u] /\ unsent'[u] \subseteq unsent[u]
                           /\ sent'[u] \subseteq sent[u] /\ (hasNil'[u] => hasNil[u])
    BY <2>3
  <2> QED
    BY <2>1, <2>2, <2>3, <2>4 DEF t
<1> QED
  BY <1>1, <1>2, <1>3

\* A step within a loop.
LEMMA LoopMoves ==
  ASSUME Types, NEW t \in Threads, Scan(t) \/ Lookup(t) \/ Send(t) \/ SendBack(t)
  PROVE  /\ UNCHANGED <<pidGen, players, grids, pos, oldGID, pc, op, met, strayed>>
         /\ pc[t] = "loop"
         /\ \A u \in Threads \ {t} : /\ todo'[u] = todo[u] /\ ids'[u] = ids[u]
                                   /\ unsent'[u] = unsent[u] /\ sent'[u] = sent[u]
                                   /\ hasNil'[u] = hasNil[u]
BY DEF Types, LocalTypes, Scan, Reads, Lookup, Looks, Send, Sends, SendBack, Same, worldVars, pastVars

\* Every step keeps the map filled.
LEMMA KnownStep == Types /\ Phases /\ Known /\ [Next]_vars => Known'
<1> SUFFICES ASSUME Types, Phases, Known, [Next]_vars PROVE Known'
  OBVIOUS
<1>1. CASE NewPlayer
  <2> DEFINE n == pidGen + 1
  <2>1. n \in PIDs /\ pidGen' = n
    BY <1>1, WorldAssumption DEF NewPlayer, PIDs, Types
  <2>2. Go(Hook(n), "off", "addmap") /\ view' = [view EXCEPT ![n] = {n}]
        /\ UNCHANGED <<players, grids, Locals>>
    BY <1>1, <2>1 DEF NewPlayer
  <2> HIDE DEF n
  <2>3. /\ pc[Hook(n)] = "off" /\ pc'[Hook(n)] = "addmap"
        /\ \A p \in PIDs \ {n} : pc'[Hook(p)] = pc[Hook(p)]
    BY <2>1, <2>2, ThreadFacts, GoAt DEF Types
  <2>4. \A p \in PIDs \ {n} : view'[p] = view[p]
    BY <2>1, <2>2 DEF Types
  <2>5. view'[n] = {n}
    BY <2>1, <2>2 DEF Types
  <2> QED
    BY <2>1, <2>2, <2>3, <2>4, <2>5 DEF Known, Locals, Listed, Mentioned
<1>2. ASSUME NEW p \in PIDs, AddToMap(p) PROVE Known'
  <2>1. /\ Go(Hook(p), "addmap", "addgrid") /\ players' = players \cup {p}
        /\ UNCHANGED <<grids, Locals, view>>
    BY <1>2 DEF AddToMap
  <2>2. /\ pc[Hook(p)] = "addmap" /\ pc'[Hook(p)] = "addgrid"
        /\ \A q \in PIDs \ {p} : pc'[Hook(q)] = pc[Hook(q)]
    BY <2>1, ThreadFacts, GoAt DEF Types
  <2> QED
    BY <2>1, <2>2 DEF Known, Locals, Listed, Mentioned
<1>3. ASSUME NEW p \in PIDs, AddToGrid(p) \/ ConnectionLost(p) \/ LeaveGrid(p) \/ LeaveGridPanics(p)
      PROVE Known'
  <2>1. /\ UNCHANGED <<players, view>>
        /\ \A q \in PIDs \ {p} : \A g \in GIDs : q \in grids'[g] => q \in grids[g]
    BY <1>3 DEF AddToGrid, ConnectionLost, LeaveGrid, LeaveGridPanics, Panic, worldVars, Types
  <2>2. pc'[Hook(p)] # "gone"
    <3>1. CASE AddToGrid(p) \/ ConnectionLost(p)
      BY <3>1, ThreadFacts, EnterAt DEF AddToGrid, ConnectionLost, Types
    <3>2. CASE LeaveGrid(p)
      BY <3>2, ThreadFacts, GoAt DEF LeaveGrid, Types
    <3>3. CASE LeaveGridPanics(p)
      <4>1. op[Hook(p)] = "none"
        BY <3>3, ThreadFacts DEF LeaveGridPanics, Phases
      <4>2. Leave(Hook(p), "stuck")
        BY <3>3, <4>1, ThreadFacts DEF LeaveGridPanics, Panic
      <4>3. LocalTypes /\ Hook(p) \in Threads
        BY ThreadFacts DEF Types
      <4>4. pc'[Hook(p)] = "stuck"
        BY <4>2, <4>3, LeaveAt
      <4> QED
        BY <4>4
    <3> QED
      BY <1>3, <3>1, <3>2, <3>3
  <2>3. /\ \A t \in Threads : /\ ids'[t] \subseteq ids[t] /\ unsent'[t] \subseteq unsent[t]
                              /\ sent'[t] \subseteq sent[t] /\ (hasNil'[t] => hasNil[t])
        /\ pc'[Hook(p)] \notin {"off", "addmap", "dead"} /\ pc[Hook(p)] \notin {"off", "gone"}
        /\ \A q \in PIDs \ {p} : pc'[Hook(q)] = pc[Hook(q)]
    BY <1>3, HookMoves, ThreadFacts
  <2>4. pc[Hook(p)] # "addmap"
    BY <1>3 DEF AddToGrid, ConnectionLost, LeaveGrid, LeaveGridPanics, Go
  <2> QED
    BY <2>1, <2>2, <2>3, <2>4 DEF Known, Listed, Mentioned
<1>4. ASSUME NEW p \in PIDs, LeaveMap(p) PROVE Known'
  <2>1. /\ Go(Hook(p), "leavemap", "gone") /\ players' = players \ {p}
        /\ view' = [view EXCEPT ![p] = {}] /\ UNCHANGED <<grids, Locals>>
    BY <1>4 DEF LeaveMap
  <2>2. /\ pc[Hook(p)] = "leavemap" /\ pc'[Hook(p)] = "gone"
        /\ \A q \in PIDs \ {p} : pc'[Hook(q)] = pc[Hook(q)]
    BY <2>1, ThreadFacts, GoAt DEF Types
  <2>3. \A q \in PIDs : view'[q] \subseteq view[q]
    BY <2>1 DEF Types
  <2> QED
    BY <2>1, <2>2, <2>3 DEF Known, Locals, Listed, Mentioned
<1>5. ASSUME NEW p \in PIDs,
             \/ Move(p) \/ RemovePID(p) \/ AddPID(p) \/ MovePanics(p)
             \/ \E xy \in Targets : UpdatePos(p, xy)
      PROVE Known'
  <2>1. UNCHANGED <<players, view>> /\ \A q \in PIDs : pc'[Hook(q)] = pc[Hook(q)]
    BY <1>5, WorkerMoves, ThreadFacts
  <2>2. \A t \in Threads : /\ ids'[t] \subseteq ids[t] /\ unsent'[t] \subseteq unsent[t]
                           /\ sent'[t] \subseteq sent[t] /\ (hasNil'[t] => hasNil[t])
    BY <1>5, WorkerMoves, ThreadFacts
  <2>3. \A q \in PIDs : Early(q) /\ ~Listed(q) => ~Listed(q)'
    <3>1. \A q \in PIDs \ {p} : \A g \in GIDs : q \in grids'[g] => q \in grids[g]
      BY <1>5 DEF Move, RemovePID, AddPID, MovePanics, Panic, UpdatePos, worldVars, Types
    <3>2. Early(p) => UNCHANGED grids
      BY <1>5 DEF Phases, Move, RemovePID, AddPID, MovePanics, Panic, UpdatePos, worldVars, Go
    <3> QED
      BY <3>1, <3>2 DEF Listed
  <2> QED
    BY <2>1, <2>2, <2>3 DEF Known, Mentioned, Early
<1>6. ASSUME NEW t \in Threads, Scan(t) PROVE Known'
  <2>1. ids'[t] = ids[t] \cup grids[Head(todo[t])] /\ Head(todo[t]) \in GIDs
        /\ UNCHANGED <<view, unsent, sent, hasNil>>
    <3>1. todo[t] # <<>> /\ todo[t] \in Seq(GIDs)
      BY <1>6 DEF Scan, Reads, Types, LocalTypes
    <3> QED
      BY <1>6, <3>1 DEF Scan, Types, LocalTypes
  <2>2. \A p \in PIDs : ~Listed(p) => p \notin grids[Head(todo[t])]
    BY <2>1 DEF Listed
  <2> QED
    BY <1>6, <2>1, <2>2, LoopMoves DEF Known, Listed, Mentioned
<1>7. ASSUME NEW t \in Threads, Lookup(t) PROVE Known'
  <2>0. \A some \in IF ByArea(t) THEN {ids[t]} ELSE {{q} : q \in ids[t]} : some \in SUBSET ids[t]
    OBVIOUS
  <2>1. PICK some \in SUBSET ids[t] :
          /\ ids' = [ids EXCEPT ![t] = @ \ some]
          /\ unsent' = [unsent EXCEPT ![t] = @ \cup (some \cap players)]
          /\ hasNil' = [hasNil EXCEPT ![t] = @ \/ ~(some \subseteq players)]
    BY <1>7, <2>0 DEF Lookup
  <2>2. /\ ids'[t] \subseteq ids[t] /\ unsent'[t] \subseteq unsent[t] \cup ids[t]
        /\ UNCHANGED <<view, sent>>
        /\ hasNil'[t] => hasNil[t] \/ \E q \in ids[t] : q \notin players
    BY <1>7, <2>1 DEF Lookup, Types, LocalTypes
  <2>3. \A q \in ids[t] : q \notin players => pc[Hook(q)] = "gone" /\ q \in PIDs
    BY DEF Known, Mentioned, Types, LocalTypes
  <2>4. \A u \in Threads : hasNil'[u] => \E q \in PIDs : pc'[Hook(q)] = "gone"
    BY <1>7, <2>2, <2>3, LoopMoves DEF Known
  <2>5. \A p \in PIDs : \A u \in Threads : Mentioned(p, u)' => Mentioned(p, u)
    BY <1>7, <2>2, LoopMoves DEF Mentioned
  <2> QED
    BY <1>7, <2>2, <2>4, <2>5, LoopMoves DEF Known, Listed
<1>8. ASSUME NEW t \in Threads, Send(t) \/ SendBack(t) PROVE Known'
  <2>1. t[2] \in PIDs /\ pc[Hook(t[2])] \notin {"off", "addmap"}
    <3>1. pc[t] = "loop"
      BY <1>8, LoopMoves
    <3> QED
      BY <3>1, LoopOf DEF Phases, Early
  <2>2. UNCHANGED <<ids, hasNil>> /\ \A p \in PIDs : \A u \in Threads : Mentioned(p, u)' => Mentioned(p, u)
    <3>1. CASE Send(t)
      <4>1. PICK q \in unsent[t] :
              /\ unsent' = [unsent EXCEPT ![t] = @ \ {q}]
              /\ sent' = IF op[t] \in {"moved", "lost"} THEN sent ELSE [sent EXCEPT ![t] = @ \cup {q}]
        BY <3>1 DEF Send
      <4>2. unsent'[t] \subseteq unsent[t] /\ sent'[t] \subseteq sent[t] \cup unsent[t]
        BY <4>1 DEF Types, LocalTypes
      <4> QED
        BY <3>1, <4>2, LoopMoves DEF Send, Mentioned
    <3>2. CASE SendBack(t)
      <4>1. sent'[t] = {} /\ UNCHANGED <<ids, unsent, hasNil>>
        BY <3>2 DEF SendBack, Types, LocalTypes
      <4> QED
        BY <3>2, <4>1, LoopMoves DEF Mentioned
    <3> QED
      BY <1>8, <3>1, <3>2
  <2>3. ASSUME NEW p \in PIDs, NEW q \in PIDs, q # p, pc[Hook(p)] \in {"off", "addmap"}
        PROVE  p \notin view'[q] /\ q \notin view'[p]
    <3>1. CASE Send(t)
      <4>1. PICK r \in unsent[t] : SendMsg(r, op[t], {t[2]})
        BY <3>1 DEF Send
      <4>2. r # p /\ t[2] # p /\ r \in PIDs
        BY <2>1, <2>3, <4>1 DEF Known, Mentioned, Types, LocalTypes
      <4>3. /\ \A s \in PIDs \ {r} : view'[s] = view[s]
            /\ view'[r] \in {view[r], Shown(op[t], r, {t[2]})}
        BY <4>1, <4>2, Delivery DEF Types
      <4> QED
        BY <2>3, <4>2, <4>3 DEF Known, Shown
    <3>2. CASE SendBack(t)
      <4>1. PICK r \in sent[t] : SendMsg(t[2], op[t], {r})
        BY <3>2 DEF SendBack
      <4>2. r # p /\ t[2] # p /\ r \in PIDs
        BY <2>1, <2>3, <4>1 DEF Known, Mentioned, Types, LocalTypes
      <4>3. /\ \A s \in PIDs \ {t[2]} : view'[s] = view[s]
            /\ view'[t[2]] \in {view[t[2]], Shown(op[t], t[2], {r})}
        BY <2>1, <4>1, Delivery DEF Types
      <4> QED
        BY <2>1, <2>3, <4>2, <4>3 DEF Known, Shown
    <3> QED
      BY <1>8, <3>1, <3>2
  <2> QED
    BY <1>8, <2>2, <2>3, LoopMoves DEF Known, Listed
<1>9. ASSUME NEW t \in Threads, SendPanics(t) PROVE Known'
  <2>1. (\E at \in {"idle", "dead", "stuck"} : Leave(t, at)) /\ UNCHANGED <<players, grids, view>> /\ pc[t] = "loop"
    BY <1>9 DEF SendPanics, Sends, Panic, worldVars
  <2>2. /\ pc'[t] \in {"idle", "dead", "stuck"} /\ ids'[t] = {} /\ unsent'[t] = {} /\ sent'[t] = {} /\ hasNil'[t] = FALSE
        /\ \A u \in Threads \ {t} : /\ pc'[u] = pc[u] /\ ids'[u] = ids[u] /\ unsent'[u] = unsent[u]
                                  /\ sent'[u] = sent[u] /\ hasNil'[u] = hasNil[u]
    BY <2>1, LeaveAt DEF Types
  <2> QED
    BY <2>1, <2>2, ThreadFacts DEF Known, Listed, Mentioned
<1>10. ASSUME NEW t \in Threads, LoopDone(t) PROVE Known'
  <2>1. pc[t] = "loop" /\ UNCHANGED <<players, grids>> /\ t[2] \in PIDs
    BY <1>10, ThreadFacts DEF LoopDone, Sends, worldVars
  <2>2. \/ \E o, areas : Enter(t, o, areas)
        \/ \E at \in {"idle", "leavegrid", "online"} : Leave(t, at)
    BY <1>10, <2>1, LoopOf DEF LoopDone
  <2>3. /\ pc'[t] \in {"loop", "idle", "leavegrid", "online"}
        /\ \A u \in Threads \ {t} : pc'[u] = pc[u]
        /\ \A u \in Threads : /\ ids'[u] \subseteq ids[u] /\ unsent'[u] \subseteq unsent[u]
                              /\ sent'[u] \subseteq sent[u] /\ (hasNil'[u] => hasNil[u])
    <3>1. CASE \E o, areas : Enter(t, o, areas)
      BY <3>1, EnterAt DEF Types
    <3>2. ASSUME NEW at \in {"idle", "leavegrid", "online"}, Leave(t, at)
          PROVE  /\ pc'[t] = at
                 /\ ids'[t] = {} /\ unsent'[t] = {} /\ sent'[t] = {} /\ hasNil'[t] = FALSE
                 /\ \A u \in Threads \ {t} : /\ pc'[u] = pc[u] /\ ids'[u] = ids[u]
                      /\ unsent'[u] = unsent[u] /\ sent'[u] = sent[u] /\ hasNil'[u] = hasNil[u]
      BY <3>2, LeaveAt DEF Types
    <3> QED
      BY <2>2, <3>1, <3>2
  <2>4. pc[Hook(t[2])] \notin {"off", "addmap"}
    BY <2>1, LoopOf DEF Phases, Early
  <2>5. ASSUME NEW p \in PIDs, NEW q \in PIDs, q # p, pc[Hook(p)] \in {"off", "addmap"}
        PROVE  p \notin view'[q] /\ q \notin view'[p]
    <3>0. \/ SendMsg(t[2], "sync", sent[t])
          \/ UNCHANGED view
      BY <1>10 DEF LoopDone
    <3>1. \A r \in PIDs : r # t[2] => view'[r] = view[r]
      BY <2>1, <3>0, Delivery DEF Types
    <3>2. view'[t[2]] \subseteq view[t[2]] \cup sent[t]
      <4>1. Shown("sync", t[2], sent[t]) \subseteq view[t[2]] \cup sent[t]
        BY DEF Shown
      <4> QED
        BY <2>1, <3>0, <4>1, Delivery DEF Types
    <3>3. p # t[2]
      BY <2>4, <2>5
    <3>4. p \notin sent[t]
      BY <2>5 DEF Known, Mentioned
    <3> QED
      BY <2>5, <3>1, <3>2, <3>3, <3>4 DEF Known
  <2> QED
    BY <2>1, <2>3, <2>5, ThreadFacts DEF Known, Listed, Mentioned
<1>11. CASE UNCHANGED vars
  BY <1>11 DEF vars, Locals, worldVars, Known, Listed, Mentioned
<1> QED
  BY <1>1, <1>2, <1>3, <1>4, <1>5, <1>6, <1>7, <1>8, <1>9, <1>10, <1>11 DEF Next, Loop

-----------------------------------------------------------------------------
(* What the steps of one thread leave alone                                 *)

\* The actions of one thread.
Steps(t) ==
  \/ t = Hook(pidGen + 1) /\ NewPlayer
  \/ \E p \in PIDs :
       \/ /\ t = Hook(p)
          /\ \/ AddToMap(p) \/ AddToGrid(p) \/ ConnectionLost(p) \/ LeaveGrid(p)
             \/ LeaveGridPanics(p) \/ LeaveMap(p)
       \/ /\ t = Work(p)
          /\ \/ Move(p) \/ RemovePID(p) \/ AddPID(p) \/ MovePanics(p)
             \/ \E xy \in Targets : UpdatePos(p, xy)
  \/ Loop(t)

\* Every step is a step of some thread.
LEMMA EveryStep == Types /\ Next => \E t \in Threads : Steps(t)
<1> SUFFICES ASSUME Types, Next PROVE \E t \in Threads : Steps(t)
  OBVIOUS
<1>1. CASE NewPlayer
  <2>1. pidGen + 1 \in PIDs
    BY <1>1, WorldAssumption DEF NewPlayer, PIDs, Types
  <2> QED
    BY <1>1, <2>1, ThreadFacts DEF Steps
<1>2. CASE \E t \in Threads : Loop(t)
  BY <1>2 DEF Steps
<1> QED
  BY <1>1, <1>2, ThreadFacts DEF Next, Steps

\* What the steps of a thread change is its own locals, where its player is
\* listed and stands, and what it and others show of each other.
OthersKept(t) ==
  /\ \A u \in Threads \ {t} : /\ pc'[u] = pc[u] /\ op'[u] = op[u] /\ todo'[u] = todo[u]
       /\ ids'[u] = ids[u] /\ unsent'[u] = unsent[u] /\ sent'[u] = sent[u]
       /\ hasNil'[u] = hasNil[u]
  /\ \A q \in PIDs \ {t[2]} :
       /\ pos'[q] = pos[q] /\ oldGID'[q] = oldGID[q]
       /\ \A g \in GIDs : q \in grids'[g] <=> q \in grids[g]
       /\ \A r \in PIDs \ {t[2]} : q \in view'[r] <=> q \in view[r]
  /\ strayed \subseteq strayed' /\ strayed' \subseteq strayed \cup {t[2]}
  /\ met \subseteq met' /\ missed \subseteq missed'

\* The end of an operation, and a panic, concern one thread.
LEMMA LeaveKeeps ==
  ASSUME LocalTypes, NEW t \in Threads, NEW at, Leave(t, at)
  PROVE  \A u \in Threads \ {t} : /\ pc'[u] = pc[u] /\ op'[u] = op[u] /\ todo'[u] = todo[u]
       /\ ids'[u] = ids[u] /\ unsent'[u] = unsent[u] /\ sent'[u] = sent[u]
       /\ hasNil'[u] = hasNil[u]
BY LeaveAt

LEMMA PanicKeeps ==
  ASSUME Types, NEW t \in Threads, Panic(t)
  PROVE  OthersKept(t) /\ t[2] \in strayed' /\ UNCHANGED <<pidGen, worldVars, moves, view, met, missed>>
<1>1. \E at : Leave(t, at)
  BY DEF Panic
<1>2. \A u \in Threads \ {t} : /\ pc'[u] = pc[u] /\ op'[u] = op[u] /\ todo'[u] = todo[u]
       /\ ids'[u] = ids[u] /\ unsent'[u] = unsent[u] /\ sent'[u] = sent[u]
       /\ hasNil'[u] = hasNil[u]
  BY <1>1, LeaveKeeps DEF Types
<1>3. /\ strayed' = strayed \cup {t[2]} /\ UNCHANGED <<pidGen, worldVars, moves, view, met, missed>>
      /\ \A q \in PIDs \ {t[2]} : oldGID'[q] = oldGID[q]
  BY DEF Panic, Types
<1> QED
  BY <1>2, <1>3 DEF OthersKept, worldVars

\* Every step of a thread leaves the others alone.
LEMMA StepKeeps ==
  ASSUME Types, Phases, NEW t \in Threads, Steps(t)
  PROVE  OthersKept(t)
<1>0. LocalTypes /\ t[2] \in PIDs
  BY ThreadFacts DEF Types
<1>1. CASE t = Hook(pidGen + 1) /\ NewPlayer
  <2> DEFINE n == pidGen + 1
  <2>0. n \in PIDs
    <3>1. pidGen < MaxPlayers /\ pidGen \in 0..MaxPlayers
      BY <1>1 DEF NewPlayer, Types
    <3>2. MaxPlayers \in Nat
      BY WorldAssumption
    <3> QED
      BY <3>1, <3>2 DEF PIDs
  <2>1. n \in PIDs /\ t[2] = n
    <3> HIDE DEF n
    <3>1. t = Hook(n)
      BY <1>1 DEF n
    <3> QED
      BY <2>0, <3>1, ThreadFacts
  <2>2. /\ Go(Hook(n), "off", "addmap") /\ view' = [view EXCEPT ![n] = {n}]
        /\ \E s \in Spawns : pos' = [pos EXCEPT ![n] = s]
        /\ met \subseteq met' /\ UNCHANGED <<players, grids, oldGID, Locals, strayed, missed>>
    BY <1>1 DEF NewPlayer, Begins
  <2> HIDE DEF n
  <2>3. \A u \in Threads \ {t} : pc'[u] = pc[u]
    BY <1>0, <1>1, <2>2, GoAt DEF n
  <2>4. \A q \in PIDs \ {n} : pos'[q] = pos[q] /\ view'[q] = view[q]
    BY <2>1, <2>2 DEF Types
  <2> QED
    BY <1>0, <2>1, <2>2, <2>3, <2>4 DEF OthersKept, Locals
<1>2. ASSUME NEW p \in PIDs, t = Hook(p),
             \/ AddToMap(p) \/ AddToGrid(p) \/ ConnectionLost(p) \/ LeaveGrid(p) \/ LeaveMap(p)
      PROVE  OthersKept(t)
  <2>1. /\ \A u \in Threads \ {t} : pc'[u] = pc[u] /\ op'[u] = op[u] /\ todo'[u] = todo[u]
        /\ UNCHANGED <<pos, oldGID, strayed, missed, ids, unsent, sent, hasNil>> /\ met \subseteq met'
    <3>1. CASE AddToGrid(p) \/ ConnectionLost(p)
      <4>1. (\E o, areas : Enter(t, o, areas)) /\ UNCHANGED <<pos, oldGID, strayed, missed>> /\ met \subseteq met'
        BY <1>2, <3>1 DEF AddToGrid, ConnectionLost, worldVars, pastVars, Begins
      <4> QED
        BY <1>0, <4>1, EnterAt
    <3>2. CASE AddToMap(p) \/ LeaveGrid(p) \/ LeaveMap(p)
      <4>1. (\E from, to : Go(t, from, to)) /\ UNCHANGED <<pos, oldGID, Locals, pastVars>>
        BY <1>2, <3>2 DEF AddToMap, LeaveGrid, LeaveMap
      <4> QED
        BY <1>0, <4>1, GoAt DEF Locals, pastVars
    <3> QED
      BY <1>2, <3>1, <3>2
  <2>2. t[2] = p
    BY <1>2, ThreadFacts
  <2>3. \A q \in PIDs \ {p} : view'[q] = view[q] /\ \A g \in GIDs : q \in grids'[g] <=> q \in grids[g]
    <3>1. CASE AddToMap(p) \/ ConnectionLost(p)
      BY <3>1 DEF AddToMap, ConnectionLost, worldVars
    <3>2. CASE AddToGrid(p) \/ LeaveGrid(p) \/ LeaveMap(p)
      BY <3>2 DEF AddToGrid, LeaveGrid, LeaveMap, Types
    <3> QED
      BY <1>2, <3>1, <3>2
  <2> QED
    BY <2>1, <2>2, <2>3 DEF OthersKept
<1>3. ASSUME NEW p \in PIDs, t = Work(p),
             \/ Move(p) \/ RemovePID(p) \/ AddPID(p) \/ \E xy \in Targets : UpdatePos(p, xy)
      PROVE  OthersKept(t)
  <2>1. /\ UNCHANGED <<pidGen, players, view>>
        /\ \A u \in Threads \ {t} : /\ pc'[u] = pc[u] /\ op'[u] = op[u] /\ todo'[u] = todo[u]
              /\ ids'[u] = ids[u] /\ unsent'[u] = unsent[u] /\ sent'[u] = sent[u]
              /\ hasNil'[u] = hasNil[u]
    BY <1>3, WorkerMoves
  <2>2. t[2] = p
    BY <1>3, ThreadFacts
  <2>3. \A q \in PIDs \ {p} : /\ pos'[q] = pos[q] /\ oldGID'[q] = oldGID[q]
           /\ \A g \in GIDs : q \in grids'[g] <=> q \in grids[g]
    <3>1. CASE Move(p)
      BY <3>1 DEF Move, worldVars
    <3>2. CASE RemovePID(p) \/ AddPID(p)
      BY <3>2 DEF RemovePID, AddPID, Types
    <3>3. CASE \E xy \in Targets : UpdatePos(p, xy)
      <4>1. PICK xy \in Targets : UpdatePos(p, xy)
        BY <3>3
      <4>2. /\ pos' = [pos EXCEPT ![p] = xy] /\ UNCHANGED grids
            /\ (oldGID' = [oldGID EXCEPT ![p] = GetGIDByPos(pos[p])] \/ UNCHANGED oldGID)
        BY <4>1 DEF UpdatePos
      <4> QED
        BY <4>2 DEF Types
    <3> QED
      BY <1>3, <3>1, <3>2, <3>3
  <2>4. UNCHANGED <<strayed, missed>> /\ met \subseteq met'
    BY <1>3 DEF Move, RemovePID, AddPID, UpdatePos, pastVars, Begins
  <2> QED
    BY <2>1, <2>2, <2>3, <2>4 DEF OthersKept
<1>4. CASE Scan(t) \/ Lookup(t) \/ Send(t) \/ SendBack(t)
  <2>1. /\ UNCHANGED <<pidGen, players, grids, pos, oldGID, pc, op, met, strayed>>
        /\ \A u \in Threads \ {t} : /\ todo'[u] = todo[u] /\ ids'[u] = ids[u]
                                   /\ unsent'[u] = unsent[u] /\ sent'[u] = sent[u]
                                   /\ hasNil'[u] = hasNil[u]
    BY <1>4, LoopMoves
  <2>2. /\ \A q, r \in PIDs \ {t[2]} : q \in view'[r] <=> q \in view[r]
        /\ missed \subseteq missed'
    <3>1. CASE Scan(t) \/ Lookup(t)
      BY <3>1 DEF Scan, Lookup
    <3>2. CASE Send(t)
      <4>1. PICK s \in unsent[t] : SendMsg(s, op[t], {t[2]})
        BY <3>2 DEF Send
      <4>2. /\ \A q \in PIDs \ {s} : view'[q] = view[q]
            /\ view'[s] \in {view[s], Shown(op[t], s, {t[2]})} /\ missed \subseteq missed'
        BY <1>0, <4>1, Delivery DEF Types, LocalTypes
      <4> QED
        BY <4>2 DEF Shown
    <3>3. CASE SendBack(t)
      <4>1. PICK s \in sent[t] : SendMsg(t[2], op[t], {s})
        BY <3>3 DEF SendBack
      <4> QED
        BY <1>0, <4>1, Delivery DEF Types
    <3> QED
      BY <1>4, <3>1, <3>2, <3>3
  <2> QED
    BY <2>1, <2>2 DEF OthersKept
<1>5. CASE LoopDone(t)
  <2>1. pc[t] = "loop"
    BY <1>5 DEF LoopDone, Sends
  <2>2. /\ \A q \in PIDs \ {t[2]} : oldGID'[q] = oldGID[q] /\ view'[q] = view[q]
        /\ UNCHANGED <<grids, pos, met, strayed>> /\ missed \subseteq missed'
    <3>1. SendMsg(t[2], "sync", sent[t]) \/ UNCHANGED <<view, missed>>
      BY <1>5 DEF LoopDone
    <3>2. (\A q \in PIDs \ {t[2]} : view'[q] = view[q]) /\ missed \subseteq missed'
      BY <1>0, <3>1, Delivery DEF Types
    <3> QED
      BY <1>5, <3>2 DEF LoopDone, worldVars, Types
  <2>3. (\E o, areas : Enter(t, o, areas)) \/ (\E at : Leave(t, at))
    BY <1>5, <2>1, LoopOf DEF LoopDone
  <2>4. \A u \in Threads \ {t} : /\ pc'[u] = pc[u] /\ op'[u] = op[u] /\ todo'[u] = todo[u]
       /\ ids'[u] = ids[u] /\ unsent'[u] = unsent[u] /\ sent'[u] = sent[u]
       /\ hasNil'[u] = hasNil[u]
    <3>1. CASE \E o, areas : Enter(t, o, areas)
      BY <1>0, <3>1, EnterAt
    <3>2. CASE \E at : Leave(t, at)
      BY <1>0, <3>2, LeaveKeeps
    <3> QED
      BY <2>3, <3>1, <3>2
  <2> QED
    BY <2>2, <2>4 DEF OthersKept
<1> QED
  BY <1>1, <1>2, <1>3, <1>4, <1>5, PanicKeeps
     DEF Steps, Loop, LeaveGridPanics, MovePanics, SendPanics

-----------------------------------------------------------------------------
(* Where a player is listed                                                 *)

\* The actions of a thread, by its player.
LEMMA StepCases ==
  ASSUME Types, NEW t \in Threads, Steps(t), NEW p, p = t[2]
  PROVE  /\ p \in PIDs
         /\ \/ /\ t = Hook(p)
               /\ \/ NewPlayer /\ p = pidGen + 1
                  \/ AddToMap(p) \/ AddToGrid(p) \/ ConnectionLost(p) \/ LeaveGrid(p)
                  \/ LeaveGridPanics(p) \/ LeaveMap(p)
            \/ /\ t = Work(p)
               /\ \/ Move(p) \/ RemovePID(p) \/ AddPID(p) \/ MovePanics(p)
                  \/ \E xy \in Targets : UpdatePos(p, xy)
            \/ Loop(t)
<1>1. CASE t = Hook(pidGen + 1) /\ NewPlayer
  <2> DEFINE n == pidGen + 1
  <2>1. n \in PIDs
    BY <1>1, WorldAssumption DEF NewPlayer, PIDs, Types
  <2>2. t = Hook(n)
    BY <1>1
  <2> HIDE DEF n
  <2>3. p = n
    BY <2>1, <2>2, ThreadFacts
  <2> QED
    BY <1>1, <2>1, <2>2, <2>3 DEF n
<1> QED
  BY <1>1, ThreadFacts DEF Steps

LEMMA LeavesTo ==
  ASSUME LocalTypes, NEW t \in Threads, NEW at, Leave(t, at)
  PROVE  pc'[t] = at /\ op'[t] = "none"
BY LeaveAt

\* The area a player is listed in: it leaves the old one before it stands in
\* the new one.
Home(p) == IF pc[Work(p)] = "unlist" THEN oldGID[p] ELSE GetGIDByPos(pos[p])

LocatedOf(p) ==
  /\ \A g \in GIDs : p \in grids[g] => pc[Work(p)] # "list" /\ g = Home(p)
  /\ {p} \notin met /\ Leaving(p) => pc[Work(p)] = "idle"
  /\ {p} \notin met /\ pc[Hook(p)] \in {"leavemap", "gone"} => ~Listed(p)
Located == \A p \in PIDs : LocatedOf(p)

\* A worker is not idle when its player's own connection goes: they overlap.
LEMMA Busy ==
  ASSUME NEW p \in PIDs, Begins(p), {p} \notin met', NEW t \in Threads, t[2] = p
  PROVE  pc[t] \in Idle
<1>1. pc[t] \notin Idle => {p, p} \in met'
  BY DEF Begins
<1> QED
  BY <1>1

\* The steps of a hook, of a worker, of their loops, and of other players keep
\* a player in its area.
LEMMA HookLocated ==
  ASSUME Types, Phases, Known, NEW p \in PIDs, LocatedOf(p), OthersKept(Hook(p)),
         \/ NewPlayer /\ p = pidGen + 1
         \/ AddToMap(p) \/ AddToGrid(p) \/ ConnectionLost(p) \/ LeaveGrid(p)
         \/ LeaveGridPanics(p) \/ LeaveMap(p)
  PROVE  LocatedOf(p)'
<1> DEFINE h == Hook(p)  w == Work(p)
<1>1. pc'[w] = pc[w] /\ met \subseteq met' /\ h \in Threads /\ w \in Threads /\ h # w
      /\ h[1] = "hook" /\ h[2] = p /\ w[2] = p /\ LocalTypes
  BY ThreadFacts DEF OthersKept, Types
<1>2. CASE NewPlayer /\ p = pidGen + 1
  <2>1. Go(h, "off", "addmap") /\ UNCHANGED <<grids, op>>
    BY <1>2 DEF NewPlayer, Locals
  <2> HIDE DEF h, w
  <2>2. pc[h] = "off" /\ pc'[h] = "addmap" /\ op'[h] = "none"
    BY <1>1, <2>1, GoAt DEF Phases
  <2> QED
    BY <2>1, <2>2 DEF LocatedOf, Leaving, Known, Listed, h
<1>3. CASE AddToMap(p)
  <2>1. Go(h, "addmap", "addgrid") /\ UNCHANGED <<grids, op>>
    BY <1>3 DEF AddToMap, Locals
  <2> HIDE DEF h, w
  <2>2. pc[h] = "addmap" /\ pc'[h] = "addgrid" /\ op'[h] = "none"
    BY <1>1, <2>1, GoAt DEF Phases
  <2> QED
    BY <2>1, <2>2 DEF LocatedOf, Leaving, Known, Listed, h
<1>4. CASE AddToGrid(p)
  <2> DEFINE new == GetGIDByPos(pos[p])
  <2>1. /\ pc[h] = "addgrid" /\ grids' = [grids EXCEPT ![new] = @ \cup {p}]
        /\ Enter(h, "sync", Surround(new)) /\ UNCHANGED <<pos, oldGID>>
    BY <1>4 DEF AddToGrid
  <2> HIDE DEF h, w, new
  <2>2. pc'[h] = "loop" /\ op'[h] = "sync"
    BY <1>1, <2>1, EnterAt
  <2>3. pc[w] = "idle"
    BY <2>1 DEF Phases, Early, h, w
  <2>4. \A g \in GIDs : p \in grids'[g] => p \in grids[g] \/ g = new
    BY <2>1 DEF Types
  <2> QED
    BY <1>1, <2>1, <2>2, <2>3, <2>4 DEF LocatedOf, Leaving, Home, h, w, new
<1>5. CASE ConnectionLost(p)
  <2>1. /\ pc[h] = "online" /\ Begins(p) /\ UNCHANGED <<grids, pos, oldGID>>
        /\ \E a : Enter(h, "lost", a)
    BY <1>5 DEF ConnectionLost, worldVars
  <2> HIDE DEF h, w
  <2>2. pc'[h] = "loop" /\ op'[h] = "lost"
    BY <1>1, <2>1, EnterAt
  <2>3. {p} \notin met' => pc[w] = "idle"
    BY <1>1, <2>1, Busy DEF Phases, WorkAt, Idle, w
  <2> QED
    BY <1>1, <2>1, <2>2, <2>3 DEF LocatedOf, Leaving, Home, h, w
<1>6. CASE LeaveGrid(p)
  <2> DEFINE new == GetGIDByPos(pos[p])
  <2>1. /\ Go(h, "leavegrid", "leavemap") /\ grids' = [grids EXCEPT ![new] = @ \ {p}]
        /\ UNCHANGED <<pos, oldGID, op>> /\ new \in GIDs
    BY <1>6 DEF LeaveGrid, Locals
  <2> HIDE DEF h, w, new
  <2>2. pc[h] = "leavegrid" /\ pc'[h] = "leavemap"
    BY <1>1, <2>1, GoAt
  <2>3. {p} \notin met => pc[w] = "idle"
    BY <2>2 DEF LocatedOf, Leaving, h, w
  <2>4. \A g \in GIDs : p \in grids'[g] => p \in grids[g] /\ g # new
    BY <2>1 DEF Types
  <2>5. {p} \notin met => ~Listed(p)'
    BY <2>3, <2>4 DEF LocatedOf, Listed, Home, w, new
  <2> QED
    BY <1>1, <2>1, <2>2, <2>3, <2>4, <2>5 DEF LocatedOf, Leaving, Home, h, w
<1>7. CASE LeaveGridPanics(p)
  <2>1. pc[h] = "leavegrid" /\ op[h] = "none" /\ Panic(h)
    BY <1>1, <1>7 DEF LeaveGridPanics, Phases
  <2>2. Leave(h, "stuck") /\ UNCHANGED <<grids, pos, oldGID>>
    BY <1>1, <2>1 DEF Panic, worldVars
  <2> HIDE DEF h, w
  <2>3. pc'[h] = "stuck" /\ op'[h] = "none"
    BY <1>1, <2>2, LeavesTo
  <2> QED
    BY <1>1, <2>2, <2>3 DEF LocatedOf, Leaving, Home, h, w
<1>8. CASE LeaveMap(p)
  <2>1. Go(h, "leavemap", "gone") /\ UNCHANGED <<grids, pos, oldGID, op>>
    BY <1>8 DEF LeaveMap, Locals
  <2> HIDE DEF h, w
  <2>2. pc[h] = "leavemap" /\ pc'[h] = "gone"
    BY <1>1, <2>1, GoAt
  <2> QED
    BY <1>1, <2>1, <2>2 DEF LocatedOf, Leaving, Home, Listed, h, w
<1> QED
  BY <1>2, <1>3, <1>4, <1>5, <1>6, <1>7, <1>8

LEMMA WorkLocated ==
  ASSUME Types, Phases, Known, NEW p \in PIDs, LocatedOf(p), OthersKept(Work(p)),
         \/ Move(p) \/ RemovePID(p) \/ AddPID(p) \/ MovePanics(p)
         \/ \E xy \in Targets : UpdatePos(p, xy)
  PROVE  LocatedOf(p)'
<1> DEFINE h == Hook(p)  w == Work(p)
<1>1. pc'[h] = pc[h] /\ op'[h] = op[h] /\ met \subseteq met' /\ h \in Threads /\ w \in Threads
      /\ h # w /\ w[1] = "work" /\ h[2] = p /\ w[2] = p /\ LocalTypes
  BY ThreadFacts DEF OthersKept, Types
\* Once the request is being handled the hook leaves only in an overlap.
<1>2. pc[w] # "idle" /\ {p} \notin met' => ~Leaving(p)'
  BY <1>1 DEF LocatedOf, Leaving
<1>3. CASE Move(p)
  <2>1. /\ p \in players /\ Begins(p) /\ Go(w, "idle", "update") /\ UNCHANGED <<grids, pos, oldGID>>
    BY <1>3 DEF Move, worldVars
  <2> HIDE DEF h, w
  <2>2. pc[w] = "idle" /\ pc'[w] = "update"
    BY <1>1, <2>1, GoAt
  <2>3. {p} \notin met' => pc[h] \in Idle /\ pc[h] # "gone"
    BY <1>1, <2>1, Busy DEF Known, h
  <2>4. pc[h] \in Idle => op[h] = "none"
    BY <1>1 DEF Phases, Idle
  <2>5. {p} \notin met' => ~Leaving(p)'
    BY <1>1, <2>3, <2>4 DEF Leaving, Idle, h
  <2> QED
    BY <1>1, <2>1, <2>2, <2>5 DEF LocatedOf, Leaving, Home, h, w
<1>4. CASE RemovePID(p)
  <2>1. /\ Go(w, "unlist", "list") /\ grids' = [grids EXCEPT ![oldGID[p]] = @ \ {p}]
        /\ UNCHANGED <<pos, oldGID>>
    BY <1>4 DEF RemovePID
  <2> HIDE DEF h, w
  <2>2. pc[w] = "unlist" /\ pc'[w] = "list"
    BY <1>1, <2>1, GoAt
  <2>3. \A g \in GIDs : p \in grids'[g] => p \in grids[g] /\ g # oldGID[p]
    BY <2>1 DEF Types
  <2>4. ~Listed(p)'
    BY <2>2, <2>3 DEF LocatedOf, Listed, Home, w
  <2> QED
    BY <1>2, <2>2, <2>4 DEF LocatedOf, Listed, Leaving, w
<1>5. CASE AddPID(p)
  <2> DEFINE new == GetGIDByPos(pos[p])
  <2>1. /\ pc[w] = "list" /\ grids' = [grids EXCEPT ![new] = @ \cup {p}]
        /\ (\E a : Enter(w, "leaving", a)) /\ UNCHANGED <<pos, oldGID>>
    BY <1>5 DEF AddPID
  <2> HIDE DEF h, w, new
  <2>2. pc'[w] = "loop"
    BY <1>1, <2>1, EnterAt
  <2>3. \A g \in GIDs : p \in grids'[g] => p \in grids[g] \/ g = new
    BY <2>1 DEF Types
  <2>4. \A g \in GIDs : p \in grids'[g] => g = new
    BY <2>1, <2>3 DEF LocatedOf, w
  <2>5. {p} \notin met' => ~Leaving(p)'
    BY <1>2, <2>1
  <2> QED
    BY <2>1, <2>2, <2>4, <2>5 DEF LocatedOf, Leaving, Home, w, new
<1>6. CASE MovePanics(p)
  <2>1. /\ Panic(w)
        /\ \/ pc[w] = "unlist" /\ oldGID[p] \notin GIDs
           \/ pc[w] = "list"
    BY <1>6 DEF MovePanics
  <2>2. Leave(w, "idle") /\ UNCHANGED grids
    BY <1>1, <2>1 DEF Panic, worldVars
  <2> HIDE DEF h, w
  <2>3. pc'[w] = "idle"
    BY <1>1, <2>2, LeavesTo
  <2>4. ~Listed(p)'
    BY <2>1, <2>2 DEF LocatedOf, Listed, Home, w
  <2> QED
    BY <2>3, <2>4 DEF LocatedOf, Listed, w
<1>7. ASSUME NEW xy \in Targets, UpdatePos(p, xy) PROVE LocatedOf(p)'
  <2> DEFINE old == GetGIDByPos(pos[p])  new == GetGIDByPos(xy)
  <2>1. /\ pc[w] = "update" /\ UNCHANGED grids /\ pos' = [pos EXCEPT ![p] = xy]
        /\ \/ old = new /\ Enter(w, "moved", Surround(new))
           \/ /\ pc' = [pc EXCEPT ![w] = "unlist"]
              /\ oldGID' = [oldGID EXCEPT ![p] = old]
    BY <1>7 DEF UpdatePos
  <2>2. pos'[p] = xy
    BY <2>1 DEF Types
  <2>3. \/ old = new /\ pc'[w] = "loop"
        \/ pc'[w] = "unlist" /\ oldGID'[p] = old
    <3> HIDE DEF h, w, old, new
    <3>1. CASE old = new /\ Enter(w, "moved", Surround(new))
      BY <1>1, <3>1, EnterAt
    <3>2. CASE pc' = [pc EXCEPT ![w] = "unlist"] /\ oldGID' = [oldGID EXCEPT ![p] = old]
      BY <1>1, <3>2 DEF Types, LocalTypes
    <3> QED
      BY <2>1, <3>1, <3>2
  <2>4. \A g \in GIDs : p \in grids'[g] => g = old
    BY <2>1 DEF LocatedOf, Home
  <2>5. {p} \notin met' => ~Leaving(p)'
    BY <1>2, <2>1
  <2>6. Home(p)' = old /\ pc'[w] # "list"
    BY <2>2, <2>3 DEF Home
  <2> HIDE DEF h, w, old, new
  <2> QED
    BY <2>4, <2>5, <2>6 DEF LocatedOf, Leaving, w
<1> QED
  BY <1>3, <1>4, <1>5, <1>6, <1>7

\* Where the loops lead.
LEMMA LoopEnds ==
  ASSUME Types, Phases, NEW t \in Threads, pc[t] = "loop",
         SendPanics(t) \/ LoopDone(t)
  PROVE  LET p == t[2] IN
         /\ UNCHANGED <<grids, pos, met>>
         /\ t = Hook(p) => /\ UNCHANGED oldGID
                           /\ \/ pc'[t] \in {"dead", "stuck", "online"}
                              \/ op[t] = "lost" /\ pc'[t] = "leavegrid"
                           /\ op'[t] = "none"
         /\ t = Work(p) => pc'[t] \in {"idle", "loop"}
<1>0. LocalTypes /\ t[2] \in PIDs
  BY ThreadFacts DEF Types
<1>1. CASE SendPanics(t)
  <2>1. /\ Leave(t, IF t[1] = "work" THEN "idle" ELSE IF op[t] = "sync" THEN "dead" ELSE "stuck")
        /\ UNCHANGED <<grids, pos, met>> /\ (t[1] # "work" => UNCHANGED oldGID)
    BY <1>1 DEF SendPanics, Panic, worldVars
  <2>2. /\ pc'[t] = (IF t[1] = "work" THEN "idle" ELSE IF op[t] = "sync" THEN "dead" ELSE "stuck")
        /\ op'[t] = "none"
    BY <1>0, <2>1, LeavesTo
  <2> QED
    BY <1>0, <2>1, <2>2, ThreadFacts
<1>2. CASE LoopDone(t)
  <2>0. /\ UNCHANGED <<grids, pos, met>>
        /\ oldGID' = IF op[t] = "entering" THEN [oldGID EXCEPT ![t[2]] = 0] ELSE oldGID
    BY <1>2 DEF LoopDone, worldVars, pastVars
  <2>1. CASE op[t] \in {"leaving", "entering"}
    <3>1. \E o, a : Enter(t, o, a)
      BY <1>2, <2>1 DEF LoopDone
    <3>2. pc'[t] = "loop"
      BY <1>0, <3>1, EnterAt
    <3> QED
      BY <2>0, <2>1, <3>2, LoopOf, ThreadFacts
  <2>2. CASE op[t] = "moved"
    <3>1. Leave(t, "idle")
      BY <1>2, <2>2 DEF LoopDone
    <3>2. pc'[t] = "idle"
      BY <1>0, <3>1, LeaveAt
    <3> QED
      BY <2>0, <2>2, <3>2, LoopOf, ThreadFacts
  <2>3. CASE op[t] \in {"lost", "sync"}
    <3>1. Leave(t, IF op[t] = "lost" THEN "leavegrid" ELSE "online")
      BY <1>2, <2>3 DEF LoopDone
    <3>2. pc'[t] = (IF op[t] = "lost" THEN "leavegrid" ELSE "online") /\ op'[t] = "none"
      BY <1>0, <3>1, LeaveAt
    <3> QED
      BY <2>0, <2>3, <3>2, LoopOf, ThreadFacts
  <2> QED
    BY <2>1, <2>2, <2>3, LoopOf
<1> QED
  BY <1>1, <1>2

LEMMA LoopLocated ==
  ASSUME Types, Phases, NEW t \in Threads, NEW p \in PIDs, p = t[2], LocatedOf(p),
         OthersKept(t), Loop(t)
  PROVE  LocatedOf(p)'
<1>0. Hook(p) \in Threads /\ Work(p) \in Threads /\ Hook(p) # Work(p) /\ (t = Hook(p) \/ t = Work(p))
  BY ThreadFacts
<1>1. CASE Scan(t) \/ Lookup(t) \/ Send(t) \/ SendBack(t)
  <2>1. UNCHANGED <<grids, pos, oldGID, pc, op, met>>
    BY <1>1, LoopMoves
  <2> QED
    BY <2>1 DEF LocatedOf, Leaving, Home, Listed
<1>2. CASE SendPanics(t) \/ LoopDone(t)
  <2>1. pc[t] = "loop"
    BY <1>2 DEF SendPanics, LoopDone, Sends
  <2>2. UNCHANGED <<grids, pos, met>>
    BY <1>2, <2>1, LoopEnds
  <2>3. CASE t = Hook(p)
    <3>1. /\ UNCHANGED oldGID /\ pc'[Work(p)] = pc[Work(p)] /\ op'[t] = "none"
          /\ \/ pc'[t] \in {"dead", "stuck", "online"}
             \/ op[t] = "lost" /\ pc'[t] = "leavegrid"
      BY <1>0, <1>2, <2>1, <2>3, LoopEnds DEF OthersKept
    <3> QED
      BY <2>1, <2>2, <2>3, <3>1 DEF LocatedOf, Leaving, Home, Listed
  <2>4. CASE t = Work(p)
    <3>1. /\ pc'[Hook(p)] = pc[Hook(p)] /\ op'[Hook(p)] = op[Hook(p)] /\ pc'[t] \in {"idle", "loop"}
      BY <1>0, <1>2, <2>1, <2>4, LoopEnds DEF OthersKept
    <3> QED
      BY <2>1, <2>2, <2>4, <3>1 DEF LocatedOf, Leaving, Home, Listed
  <2> QED
    BY <1>0, <2>3, <2>4
<1> QED
  BY <1>1, <1>2 DEF Loop

LEMMA OtherLocated ==
  ASSUME NEW t \in Threads, OthersKept(t), NEW q \in PIDs, q # t[2], LocatedOf(q)
  PROVE  LocatedOf(q)'
<1>1. Hook(q) \in Threads \ {t} /\ Work(q) \in Threads \ {t}
  BY ThreadFacts
<1>2. /\ pc'[Hook(q)] = pc[Hook(q)] /\ op'[Hook(q)] = op[Hook(q)] /\ pc'[Work(q)] = pc[Work(q)]
  BY <1>1 DEF OthersKept
<1>3. /\ pos'[q] = pos[q] /\ oldGID'[q] = oldGID[q] /\ met \subseteq met'
      /\ \A g \in GIDs : q \in grids'[g] <=> q \in grids[g]
  <2>1. met \subseteq met'
    BY DEF OthersKept
  <2>2. \A r \in PIDs \ {t[2]} : /\ pos'[r] = pos[r] /\ oldGID'[r] = oldGID[r]
          /\ \A g \in GIDs : r \in grids'[g] <=> r \in grids[g]
    BY DEF OthersKept
  <2> QED
    BY <2>1, <2>2
<1> QED
  BY <1>2, <1>3 DEF LocatedOf, Leaving, Home, Listed

\* Every step keeps players in their areas.
LEMMA LocatedStep == Types /\ Phases /\ Known /\ Located /\ [Next]_vars => Located'
<1> SUFFICES ASSUME Types, Phases, Known, Located, [Next]_vars PROVE Located'
  OBVIOUS
<1>1. CASE UNCHANGED vars
  BY <1>1 DEF vars, Locals, worldVars, pastVars, Located, LocatedOf, Listed, Leaving, Home
<1>2. CASE Next
  <2>1. PICK t \in Threads : Steps(t)
    BY <1>2, EveryStep
  <2>2. OthersKept(t)
    BY <2>1, StepKeeps
  <2>3. LocatedOf(t[2])'
    BY <2>1, <2>2, StepCases, HookLocated, WorkLocated, LoopLocated DEF Located
  <2> QED
    BY <2>2, <2>3, OtherLocated DEF Located
<1> QED
  BY <1>1, <1>2

Present(p) == pc[Hook(p)] = "online" \/ op[Hook(p)] = "sync"

\* A player that never panicked stands on an area and is listed there while
\* it is present, but for the moment between its two areas.
PlacedOf(p) ==
  p \notin strayed /\ pc[Hook(p)] # "off" =>
    /\ pc[Work(p)] \notin {"unlist", "list"} => GetGIDByPos(pos[p]) \in GIDs
    /\ pc[Work(p)] \in {"unlist", "list"} \/ ByArea(Work(p)) => oldGID[p] \in GIDs
    /\ Present(p) /\ pc[Work(p)] # "list" => p \in grids[Home(p)]
Placed == \A p \in PIDs : PlacedOf(p)

\* The same for being listed at all.
LEMMA HookPlaced ==
  ASSUME Types, Phases, NEW p \in PIDs, PlacedOf(p), OthersKept(Hook(p)),
         \/ NewPlayer /\ p = pidGen + 1
         \/ AddToMap(p) \/ AddToGrid(p) \/ ConnectionLost(p) \/ LeaveGrid(p)
         \/ LeaveGridPanics(p) \/ LeaveMap(p)
  PROVE  PlacedOf(p)'
<1> DEFINE h == Hook(p)  w == Work(p)
<1>1. pc'[w] = pc[w] /\ op'[w] = op[w] /\ strayed \subseteq strayed' /\ h \in Threads /\ w \in Threads
      /\ h # w /\ h[1] = "hook" /\ h[2] = p /\ w[2] = p /\ LocalTypes
  BY ThreadFacts DEF OthersKept, Types
<1>2. CASE NewPlayer /\ p = pidGen + 1
  <2>1. Go(h, "off", "addmap") /\ UNCHANGED <<grids, op, oldGID>> /\ \E s \in Spawns : pos' = [pos EXCEPT ![p] = s]
    BY <1>2 DEF NewPlayer, Locals
  <2> HIDE DEF h, w
  <2>2. pc[h] = "off" /\ pc'[h] = "addmap" /\ op'[h] = "none"
    BY <1>1, <2>1, GoAt DEF Phases
  <2>3. pc[w] = "idle" /\ op[w] = "none"
    BY <1>1, <2>2 DEF Phases, Early, h, w
  <2>4. pos'[p] \in Spawns
    BY <2>1 DEF Types
  <2>5. GetGIDByPos(pos'[p]) \in GIDs
    BY <2>4, CoveredInside, WorldAssumption
  <2> QED
    BY <1>1, <2>2, <2>3, <2>5 DEF PlacedOf, Present, ByArea, h, w
<1>3. CASE AddToMap(p) \/ LeaveGrid(p) \/ LeaveMap(p)
  <2>1. /\ \E from, to \in {"addmap", "addgrid", "leavegrid", "leavemap", "gone"} : Go(h, from, to)
        /\ UNCHANGED <<op, pos, oldGID>>
    BY <1>3 DEF AddToMap, LeaveGrid, LeaveMap, Locals
  <2> HIDE DEF h, w
  <2>2. pc[h] # "off" /\ pc[h] # "loop" /\ pc'[h] # "online"
    BY <1>1, <2>1, GoAt
  <2>3. op'[h] = "none"
    BY <1>1, <2>1, <2>2 DEF Phases
  <2> QED
    BY <1>1, <2>1, <2>2, <2>3 DEF PlacedOf, Present, ByArea, h, w
<1>4. CASE AddToGrid(p)
  <2> DEFINE new == GetGIDByPos(pos[p])
  <2>1. /\ pc[h] = "addgrid" /\ grids' = [grids EXCEPT ![new] = @ \cup {p}]
        /\ UNCHANGED <<pos, oldGID>>
    BY <1>4 DEF AddToGrid
  <2> HIDE DEF h, w, new
  <2>2. pc[w] = "idle" /\ op[w] = "none"
    BY <1>1, <2>1 DEF Phases, Early, h, w
  <2>3. new \in GIDs => p \in grids'[new]
    BY <2>1 DEF Types
  <2> QED
    BY <1>1, <2>1, <2>2, <2>3 DEF PlacedOf, ByArea, Home, h, w, new
<1>5. CASE ConnectionLost(p)
  <2>1. /\ pc[h] = "online" /\ UNCHANGED <<grids, pos, oldGID>> /\ \E a : Enter(h, "lost", a)
    BY <1>5 DEF ConnectionLost, worldVars
  <2> HIDE DEF h, w
  <2>2. pc'[h] = "loop" /\ op'[h] = "lost"
    BY <1>1, <2>1, EnterAt
  <2> QED
    BY <1>1, <2>1, <2>2 DEF PlacedOf, Present, ByArea, h, w
<1>6. CASE LeaveGridPanics(p)
  <2>1. p \in strayed'
    BY <1>1, <1>6 DEF LeaveGridPanics, Panic
  <2> QED
    BY <2>1 DEF PlacedOf
<1> QED
  BY <1>2, <1>3, <1>4, <1>5, <1>6

LEMMA WorkPlaced ==
  ASSUME Types, Phases, NEW p \in PIDs, PlacedOf(p), OthersKept(Work(p)),
         \/ Move(p) \/ RemovePID(p) \/ AddPID(p) \/ MovePanics(p)
         \/ \E xy \in Targets : UpdatePos(p, xy)
  PROVE  PlacedOf(p)'
<1> DEFINE h == Hook(p)  w == Work(p)
<1>1. pc'[h] = pc[h] /\ op'[h] = op[h] /\ strayed \subseteq strayed' /\ h \in Threads /\ w \in Threads
      /\ h # w /\ w[1] = "work" /\ h[2] = p /\ w[2] = p /\ LocalTypes
  BY ThreadFacts DEF OthersKept, Types
<1>2. CASE Move(p)
  <2>1. /\ Go(w, "idle", "update") /\ UNCHANGED <<grids, pos, oldGID, op>>
    BY <1>2 DEF Move, worldVars, Locals
  <2> HIDE DEF h, w
  <2>2. pc[w] = "idle" /\ pc'[w] = "update" /\ op'[w] = "none"
    BY <1>1, <2>1, GoAt DEF Phases
  <2> QED
    BY <1>1, <2>1, <2>2 DEF PlacedOf, Present, ByArea, Home, h, w
<1>3. CASE RemovePID(p)
  <2>1. /\ Go(w, "unlist", "list") /\ UNCHANGED <<pos, oldGID, op>>
    BY <1>3 DEF RemovePID, Locals
  <2> HIDE DEF h, w
  <2>2. pc[w] = "unlist" /\ pc'[w] = "list"
    BY <1>1, <2>1, GoAt
  <2> QED
    BY <1>1, <2>1, <2>2 DEF PlacedOf, Present, ByArea, h, w
<1>4. CASE AddPID(p)
  <2> DEFINE new == GetGIDByPos(pos[p])
  <2>1. /\ pc[w] = "list" /\ new \in GIDs /\ grids' = [grids EXCEPT ![new] = @ \cup {p}]
        /\ (\E a : Enter(w, "leaving", a)) /\ UNCHANGED <<pos, oldGID>>
    BY <1>4 DEF AddPID
  <2> HIDE DEF h, w, new
  <2>2. pc'[w] = "loop"
    BY <1>1, <2>1, EnterAt
  <2>3. p \in grids'[new]
    BY <2>1 DEF Types
  <2> QED
    BY <1>1, <2>1, <2>2, <2>3 DEF PlacedOf, Home, h, w, new
<1>5. CASE MovePanics(p)
  <2>1. p \in strayed'
    BY <1>1, <1>5 DEF MovePanics, Panic
  <2> QED
    BY <2>1 DEF PlacedOf
<1>6. ASSUME NEW xy \in Targets, UpdatePos(p, xy) PROVE PlacedOf(p)'
  <2> DEFINE old == GetGIDByPos(pos[p])  new == GetGIDByPos(xy)
  <2>1. /\ pc[w] = "update" /\ UNCHANGED grids /\ pos' = [pos EXCEPT ![p] = xy]
        /\ \/ old = new /\ Enter(w, "moved", Surround(new))
           \/ /\ pc' = [pc EXCEPT ![w] = "unlist"]
              /\ oldGID' = [oldGID EXCEPT ![p] = old]
    BY <1>6 DEF UpdatePos
  <2>2. pos'[p] = xy
    BY <2>1 DEF Types
  <2>3. \/ old = new /\ pc'[w] = "loop" /\ op'[w] = "moved"
        \/ pc'[w] = "unlist" /\ oldGID'[p] = old
    <3> HIDE DEF h, w, old, new
    <3>1. CASE old = new /\ Enter(w, "moved", Surround(new))
      BY <1>1, <3>1, EnterAt
    <3>2. CASE pc' = [pc EXCEPT ![w] = "unlist"] /\ oldGID' = [oldGID EXCEPT ![p] = old]
      BY <1>1, <3>2 DEF Types, LocalTypes
    <3> QED
      BY <2>1, <3>1, <3>2
  <2>4. Home(p) = old /\ Home(p)' = old
    BY <2>1, <2>2, <2>3 DEF Home
  <2>5. p \notin strayed' /\ pc'[h] # "off" => old \in GIDs
    BY <1>1, <2>1 DEF PlacedOf
  <2>6. p \notin strayed' /\ pc'[h] # "off" /\ Present(p)' => p \in grids'[old]
    BY <1>1, <2>1, <2>4 DEF PlacedOf, Present
  <2>7. \/ GetGIDByPos(pos[p])' = old /\ ~ByArea(w)' /\ pc'[w] \notin {"unlist", "list"}
        \/ pc'[w] = "unlist" /\ oldGID'[p] = old
    BY <2>2, <2>3 DEF ByArea
  <2> HIDE DEF h, w, old, new
  <2> QED
    BY <2>4, <2>5, <2>6, <2>7 DEF PlacedOf, h, w
<1> QED
  BY <1>2, <1>3, <1>4, <1>5, <1>6

LEMMA LoopPlaced ==
  ASSUME Types, Phases, NEW t \in Threads, NEW p \in PIDs, p = t[2], PlacedOf(p),
         OthersKept(t), Loop(t)
  PROVE  PlacedOf(p)'
<1>0. /\ Hook(p) \in Threads /\ Work(p) \in Threads /\ Hook(p) # Work(p)
      /\ (t = Hook(p) \/ t = Work(p)) /\ LocalTypes /\ strayed \subseteq strayed'
  BY ThreadFacts DEF Types, OthersKept
<1>1. CASE Scan(t) \/ Lookup(t) \/ Send(t) \/ SendBack(t)
  <2>1. UNCHANGED <<grids, pos, oldGID, pc, op, strayed>>
    BY <1>1, LoopMoves
  <2> QED
    BY <2>1 DEF PlacedOf, Present, Home, ByArea
<1>2. CASE SendPanics(t)
  <2>1. p \in strayed'
    BY <1>2 DEF SendPanics, Panic
  <2> QED
    BY <2>1 DEF PlacedOf
<1>3. CASE LoopDone(t)
  <2>1. pc[t] = "loop" /\ UNCHANGED <<grids, pos>>
    BY <1>3 DEF LoopDone, Sends, worldVars
  <2>2. CASE t = Hook(p)
    <3>1. op[t] \in {"sync", "lost"}
      BY <1>0, <2>1, <2>2 DEF Phases
    <3>2. Leave(t, IF op[t] = "lost" THEN "leavegrid" ELSE "online") /\ UNCHANGED oldGID
      BY <1>3, <3>1 DEF LoopDone
    <3>3. pc'[t] = (IF op[t] = "lost" THEN "leavegrid" ELSE "online") /\ op'[t] = "none"
      BY <1>0, <3>2, LeavesTo
    <3>4. pc'[Work(p)] = pc[Work(p)] /\ op'[Work(p)] = op[Work(p)]
      BY <1>0, <2>2 DEF OthersKept
    <3>5. Present(p)' => Present(p)
      BY <2>2, <3>1, <3>3 DEF Present
    <3> QED
      BY <1>0, <2>1, <2>2, <3>2, <3>4, <3>5 DEF PlacedOf, Home, ByArea
  <2>3. CASE t = Work(p)
    <3>1. pc'[Hook(p)] = pc[Hook(p)] /\ op'[Hook(p)] = op[Hook(p)]
      BY <1>0, <2>3 DEF OthersKept
    <3>2. op[t] \in {"leaving", "entering", "moved"}
      BY <1>0, <2>1, <2>3 DEF Phases
    <3>3. \/ op[t] = "leaving" /\ (\E a : Enter(t, "entering", a)) /\ UNCHANGED oldGID
          \/ op[t] = "entering" /\ \E a : Enter(t, "moved", a)
          \/ op[t] = "moved" /\ Leave(t, "idle") /\ UNCHANGED oldGID
      BY <1>3, <3>2 DEF LoopDone
    <3>4. \/ op[t] = "leaving" /\ pc'[t] = "loop" /\ UNCHANGED oldGID
          \/ pc'[t] = "loop" /\ op'[t] = "moved"
          \/ pc'[t] = "idle" /\ op'[t] = "none"
      <4>1. CASE op[t] = "leaving" /\ (\E a : Enter(t, "entering", a)) /\ UNCHANGED oldGID
        BY <1>0, <4>1, EnterAt
      <4>2. CASE \E a : Enter(t, "moved", a)
        BY <1>0, <4>2, EnterAt
      <4>3. CASE Leave(t, "idle")
        BY <1>0, <4>3, LeavesTo
      <4> QED
        BY <3>3, <4>1, <4>2, <4>3
    <3>5. Home(p)' = Home(p)
      BY <2>1, <2>3, <3>4 DEF Home
    <3> QED
      BY <1>0, <2>1, <2>3, <3>1, <3>4, <3>5 DEF PlacedOf, Present, ByArea
  <2> QED
    BY <1>0, <2>2, <2>3
<1> QED
  BY <1>1, <1>2, <1>3 DEF Loop

LEMMA OtherPlaced ==
  ASSUME NEW t \in Threads, OthersKept(t), NEW q \in PIDs, q # t[2], PlacedOf(q)

  PROVE  PlacedOf(q)'
<1>1. Hook(q) \in Threads \ {t} /\ Work(q) \in Threads \ {t}
  BY ThreadFacts
<1>2. /\ pc'[Hook(q)] = pc[Hook(q)] /\ op'[Hook(q)] = op[Hook(q)]
      /\ pc'[Work(q)] = pc[Work(q)] /\ op'[Work(q)] = op[Work(q)]
  BY <1>1 DEF OthersKept
<1>3. /\ pos'[q] = pos[q] /\ oldGID'[q] = oldGID[q] /\ strayed \subseteq strayed'
      /\ \A g \in GIDs : q \in grids'[g] <=> q \in grids[g]
  BY DEF OthersKept
<1>4. Home(q)' = Home(q) /\ Present(q)' = Present(q) /\ ByArea(Work(q))' = ByArea(Work(q))
  BY <1>2, <1>3 DEF Home, Present, ByArea
<1>5. q \notin strayed /\ pc[Hook(q)] # "off" /\ Present(q) /\ pc[Work(q)] # "list" => Home(q) \in GIDs
  BY DEF PlacedOf, Home
<1> QED
  BY <1>2, <1>3, <1>4, <1>5 DEF PlacedOf

\* Every step keeps present players listed.
LEMMA PlacedStep == Types /\ Phases /\ Placed /\ [Next]_vars => Placed'
<1> SUFFICES ASSUME Types, Phases, Placed, [Next]_vars PROVE Placed'
  OBVIOUS
<1>1. CASE UNCHANGED vars
  BY <1>1 DEF vars, Locals, worldVars, pastVars, Placed, PlacedOf, Present, Home, ByArea
<1>2. CASE Next
  <2>1. PICK t \in Threads : Steps(t)
    BY <1>2, EveryStep
  <2>2. OthersKept(t)
    BY <2>1, StepKeeps
  <2>3. PlacedOf(t[2])'
    BY <2>1, <2>2, StepCases, HookPlaced, WorkPlaced, LoopPlaced DEF Placed
  <2> QED
    BY <2>2, <2>3, OtherPlaced DEF Placed
<1> QED
  BY <1>1, <1>2

-----------------------------------------------------------------------------
(* Operations that overlap, and players that are gone                       *)

Active(p) == pc[Hook(p)] \notin Idle \/ pc[Work(p)] \notin Idle
Apart == \A p, q \in PIDs : p # q /\ Active(p) /\ Active(q) => {p, q} \in met

\* Who becomes active begins an operation.
LEMMA Starts ==
  ASSUME Types, NEW t \in Threads, Steps(t), NEW p, p = t[2], ~Active(p)
  PROVE  p \in PIDs /\ (Active(p)' => Begins(p))
<1>1. CASE t = Hook(p) /\ NewPlayer /\ p = pidGen + 1
  <2>1. Begins(pidGen')/\ pidGen' = pidGen + 1
    BY <1>1 DEF NewPlayer
  <2> QED
    BY <1>1, <2>1, StepCases
<1>2. p \in PIDs /\ (t = Hook(p) \/ t = Work(p))
  BY ThreadFacts
<1>3. CASE AddToMap(p) \/ AddToGrid(p) \/ LeaveGrid(p) \/ LeaveGridPanics(p) \/ LeaveMap(p)
  <2>1. pc[Hook(p)] \notin Idle
    BY <1>3 DEF AddToMap, AddToGrid, LeaveGrid, LeaveGridPanics, LeaveMap, Go, Idle
  <2> QED
    BY <2>1 DEF Active
<1>4. CASE RemovePID(p) \/ AddPID(p) \/ MovePanics(p) \/ \E xy \in Targets : UpdatePos(p, xy)
  <2>1. pc[Work(p)] \notin Idle
    BY <1>4 DEF RemovePID, AddPID, MovePanics, UpdatePos, Go, Idle
  <2> QED
    BY <2>1 DEF Active
<1>5. CASE ConnectionLost(p) \/ Move(p)
  BY <1>2, <1>5 DEF ConnectionLost, Move
<1>6. CASE Loop(t)
  <2>1. pc[t] = "loop"
    BY <1>6 DEF Loop, Scan, Reads, Lookup, Looks, Send, Sends, SendBack, SendPanics, LoopDone
  <2> QED
    BY <1>2, <2>1 DEF Active, Idle
<1> QED
  BY <1>1, <1>2, <1>3, <1>4, <1>5, <1>6, StepCases

\* Two players that are active at once have met.
LEMMA ApartStep == Types /\ Phases /\ Apart /\ [Next]_vars => Apart'
<1> SUFFICES ASSUME Types, Phases, Apart, [Next]_vars PROVE Apart'
  OBVIOUS
<1>1. CASE UNCHANGED vars
  BY <1>1 DEF vars, pastVars, Apart, Active
<1>2. CASE Next
  <2>1. PICK t \in Threads : Steps(t)
    BY <1>2, EveryStep
  <2>2. OthersKept(t)
    BY <2>1, StepKeeps
  <2>3. \A q \in PIDs : q # t[2] => Active(q)' = Active(q)
    <3>1. \A q \in PIDs : q # t[2] => Hook(q) \in Threads \ {t} /\ Work(q) \in Threads \ {t}
      BY ThreadFacts
    <3>2. \A u \in Threads \ {t} : pc'[u] = pc[u]
      BY <2>2 DEF OthersKept
    <3> QED
      BY <3>1, <3>2 DEF Active
  <2>4. ASSUME NEW p \in PIDs, NEW q \in PIDs, p # q, p = t[2], Active(p)', Active(q)'
        PROVE  {p, q} \in met'
    <3>1. Active(q)
      BY <2>3, <2>4
    <3>2. CASE Active(p)
      BY <2>2, <2>4, <3>1, <3>2 DEF Apart, OthersKept
    <3>3. CASE ~Active(p)
      <4>1. Begins(p)
        BY <2>1, <2>4, <3>3, Starts
      <4>2. \E u \in Threads : pc[u] \notin Idle /\ u[2] = q
        BY <3>1, ThreadFacts DEF Active
      <4> QED
        BY <4>1, <4>2 DEF Begins
    <3> QED
      BY <3>2, <3>3
  <2>5. ASSUME NEW p \in PIDs, NEW q \in PIDs, p # q, Active(p)', Active(q)'
        PROVE  {p, q} \in met'
    <3>1. CASE p = t[2]
      BY <2>4, <2>5, <3>1
    <3>2. CASE q = t[2]
      <4>1. {q, p} \in met'
        BY <2>4, <2>5, <3>2
      <4>2. {q, p} = {p, q}
        OBVIOUS
      <4> QED
        BY <4>1, <4>2
    <3>3. CASE p # t[2] /\ q # t[2]
      BY <2>2, <2>3, <2>5, <3>3 DEF Apart, OthersKept
    <3> QED
      BY <3>1, <3>2, <3>3
  <2> QED
    BY <2>5 DEF Apart
<1> QED
  BY <1>1, <1>2

\* Who is gone stays gone.
LEMMA GoneStays ==
  ASSUME Types, Phases, NEW t \in Threads, Steps(t), NEW q \in PIDs, pc[Hook(q)] = "gone"
  PROVE  pc'[Hook(q)] = "gone"
<1>1. t # Hook(q)
  <2>1. SUFFICES ASSUME t = Hook(q) PROVE FALSE
    OBVIOUS
  <2>2. q = t[2] /\ t # Work(q)
    BY <2>1, ThreadFacts
  <2>3. CASE NewPlayer /\ q = pidGen + 1
    BY <2>3 DEF NewPlayer, Go
  <2>4. CASE AddToMap(q) \/ AddToGrid(q) \/ ConnectionLost(q) \/ LeaveGrid(q)
             \/ LeaveGridPanics(q) \/ LeaveMap(q)
    BY <2>4, HookMoves
  <2>5. CASE Loop(t)
    BY <2>1, <2>5 DEF Loop, Scan, Reads, Lookup, Looks, Send, Sends, SendBack, SendPanics, LoopDone
  <2> QED
    BY <2>2, <2>3, <2>4, <2>5, StepCases
<1>2. OthersKept(t) /\ Hook(q) \in Threads
  BY StepKeeps, ThreadFacts
<1> QED
  BY <1>1, <1>2 DEF OthersKept

\* A hook finds a nil player only when another player is gone.
LEMMA HarmStep == Types /\ Phases /\ Known /\ ArrivalsAlone /\ [Next]_vars => ArrivalsAlone'
<1> SUFFICES ASSUME Types, Phases, Known, ArrivalsAlone, [Next]_vars, NEW p \in PIDs,
                    pc'[Hook(p)] = "dead"
             PROVE  \E q \in PIDs \ {p} : pc'[Hook(q)] = "gone"
  BY DEF ArrivalsAlone
<1>1. CASE UNCHANGED vars
  BY <1>1 DEF vars, ArrivalsAlone
<1>2. CASE Next
  <2>1. PICK t \in Threads : Steps(t)
    BY <1>2, EveryStep
  <2>2. OthersKept(t) /\ Hook(p) \in Threads /\ Hook(p)[2] = p /\ Hook(p) # Work(p)
    BY <2>1, StepKeeps, ThreadFacts
  <2>3. SUFFICES \E q \in PIDs \ {p} : pc[Hook(q)] = "gone"
    BY <2>1, GoneStays
  <2>4. CASE pc[Hook(p)] = "dead"
    BY <2>4 DEF ArrivalsAlone
  <2>5. CASE pc[Hook(p)] # "dead"
    <3>1. t = Hook(p)
      BY <2>2, <2>5 DEF OthersKept
    <3>2. ~(NewPlayer /\ p = pidGen + 1)
      <4>1. SUFFICES ASSUME NewPlayer, p = pidGen + 1 PROVE FALSE
        OBVIOUS
      <4>2. Go(Hook(p), "off", "addmap")
        BY <4>1 DEF NewPlayer
      <4> QED
        BY <2>2, <4>2, GoAt DEF Types
    <3>3. ~(AddToMap(p) \/ AddToGrid(p) \/ ConnectionLost(p) \/ LeaveGrid(p)
             \/ LeaveGridPanics(p) \/ LeaveMap(p))
      BY HookMoves
    <3>4. Loop(t)
      BY <2>1, <2>2, <3>1, <3>2, <3>3, StepCases
    <3>5. CASE Scan(t) \/ Lookup(t) \/ Send(t) \/ SendBack(t)
      BY <2>5, <3>5, LoopMoves
    <3>6. CASE LoopDone(t)
      <4>1. op[t] \in {"sync", "lost"}
        BY <2>2, <3>1, <3>6 DEF LoopDone, Sends, Phases
      <4>2. Leave(t, IF op[t] = "lost" THEN "leavegrid" ELSE "online")
        BY <3>6, <4>1 DEF LoopDone
      <4>3. pc'[t] # "dead"
        BY <4>2, LeavesTo DEF Types
      <4> QED
        BY <3>1, <4>3
    <3>7. CASE SendPanics(t)
      <4>1. hasNil[t] /\ pc[t] = "loop"
        BY <3>7 DEF SendPanics, Sends
      <4>2. PICK q \in PIDs : pc[Hook(q)] = "gone"
        BY <4>1 DEF Known
      <4> QED
        BY <3>1, <4>1, <4>2
    <3> QED
      BY <3>4, <3>5, <3>6, <3>7 DEF Loop
  <2> QED
    BY <2>4, <2>5
<1> QED
  BY <1>1, <1>2

-----------------------------------------------------------------------------
(* What two players show of each other                                      *)

GID(p) == GetGIDByPos(pos[p])
Nearby(p, q)  == GID(q) \in Areas(GID(p))
WasNear(p, q) == GID(q) \in Areas(oldGID[p])

\* The thread will still come to q: it will read q's area, look q up or send
\* to q.
Pending(t, q) == Elem(todo[t], GID(q)) \/ q \in ids[t] \/ q \in unsent[t]

Shows(p, q, yes) == (q \in view[p] <=> yes) /\ (p \in view[q] <=> yes)

\* In a loop over areas: those players it must tell show the change once it
\* told them, and the others it never comes to.
Halfway(t, p, q, must, after) ==
  IF must
    THEN /\ ~Pending(t, q) /\ q \notin sent[t] => Shows(p, q, after)
         /\ q \in sent[t] => (p \in view[q] <=> after)
    ELSE ~Pending(t, q) /\ q \notin sent[t]

NewPair(p, q) ==
  /\ pc[Hook(p)] \in {"off", "addmap", "addgrid"} => Shows(p, q, FALSE)
  /\ op[Hook(p)] = "sync" =>
       /\ q \notin view[p] /\ (p \in view[q] <=> q \in sent[Hook(p)])
       /\ Nearby(p, q) <=> Pending(Hook(p), q) \/ q \in sent[Hook(p)]

StillPair(p, q) ==
  /\ pc[Work(p)] \in {"idle", "update"} \/ op[Work(p)] = "moved" => Shows(p, q, Nearby(p, q))
  /\ pc[Work(p)] \in {"unlist", "list"} => Shows(p, q, WasNear(p, q))

MovingPair(p, q) ==
  LET w == Work(p)  near == Nearby(p, q)  was == WasNear(p, q) IN
  /\ op[w] = "leaving" =>
       /\ Halfway(w, p, q, was /\ ~near, FALSE)
       /\ ~(was /\ ~near) => Shows(p, q, was)
  /\ op[w] = "entering" =>
       /\ Halfway(w, p, q, near /\ ~was, TRUE)
       /\ ~(near /\ ~was) => Shows(p, q, near)

\* What two players show of each other while q is quiet, the operations of p
\* did not overlap with any of q's, and no message between the two was lost.
Facing(p, q) == /\ p # q /\ {p, q} \notin met /\ {p, q} \notin missed
                /\ strayed \cap {p, q} = {} /\ Quiet(q)
Pair(p, q) ==
  NewPair(p, q) /\ (pc[Hook(p)] = "online" => StillPair(p, q) /\ MovingPair(p, q))
Pairs == \A p, q \in PIDs : Facing(p, q) => Pair(p, q)

\* A step of a third player.
LEMMA OtherPair ==
  ASSUME NEW t \in Threads, OthersKept(t), NEW p \in PIDs, NEW q \in PIDs,
         p # t[2], q # t[2], Facing(p, q)', Pairs
  PROVE  Pair(p, q)'
<1> DEFINE h == Hook(p)  w == Work(p)
<1>1. {Hook(p), Hook(q), Work(p), Work(q)} \subseteq Threads \ {t}
  BY ThreadFacts
<1>2. \A u \in {Hook(p), Hook(q), Work(p), Work(q)} :
        /\ pc'[u] = pc[u] /\ op'[u] = op[u] /\ todo'[u] = todo[u] /\ ids'[u] = ids[u]
        /\ unsent'[u] = unsent[u] /\ sent'[u] = sent[u]
  BY <1>1 DEF OthersKept
<1>3. /\ pos'[p] = pos[p] /\ pos'[q] = pos[q] /\ oldGID'[p] = oldGID[p]
      /\ strayed \subseteq strayed' /\ met \subseteq met' /\ missed \subseteq missed'
  BY DEF OthersKept
<1>4. (q \in view'[p] <=> q \in view[p]) /\ (p \in view'[q] <=> p \in view[q])
  BY DEF OthersKept
<1>5. Pair(p, q)
  BY <1>2, <1>3 DEF Pairs, Facing, Quiet
<1>6. Nearby(p, q)' = Nearby(p, q) /\ WasNear(p, q)' = WasNear(p, q)
      /\ Pending(h, q)' = Pending(h, q) /\ Pending(w, q)' = Pending(w, q)
  BY <1>2, <1>3 DEF Nearby, WasNear, Pending, GID
<1>7. NewPair(p, q)'
  BY <1>2, <1>4, <1>5, <1>6 DEF Pair, NewPair, Shows
<1>8. StillPair(p, q) => StillPair(p, q)'
  BY <1>2, <1>4, <1>6 DEF StillPair, Shows
<1>9. MovingPair(p, q) => MovingPair(p, q)'
  BY <1>2, <1>4, <1>6 DEF MovingPair, Halfway, Shows
<1> QED
  BY <1>2, <1>5, <1>7, <1>8, <1>9 DEF Pair

\* The step that makes q quiet is the end of its last loop.
LEMMA QuietEnds ==
  ASSUME Types, Phases, NEW t \in Threads, Steps(t), NEW q \in PIDs, q = t[2], q \notin strayed',
         Quiet(q)'
  PROVE  LoopDone(t) /\ ((t = Hook(q) /\ op[t] = "sync") \/ (t = Work(q) /\ op[t] = "moved"))
<1> DEFINE h == Hook(q)  w == Work(q)
<1>1. h \in Threads /\ w \in Threads /\ h # w /\ LocalTypes /\ OthersKept(t) /\ (t = h \/ t = w)
  BY StepKeeps, ThreadFacts DEF Types
<1>2. ~(t = h /\ NewPlayer /\ q = pidGen + 1)
  <2>1. SUFFICES ASSUME NewPlayer, q = pidGen + 1 PROVE FALSE
    OBVIOUS
  <2>2. Go(h, "off", "addmap")
    BY <2>1 DEF NewPlayer
  <2> QED
    BY <1>1, <2>2, GoAt DEF Quiet
<1>3. ~(AddToMap(q) \/ LeaveGrid(q) \/ LeaveMap(q))
  <2>1. SUFFICES ASSUME AddToMap(q) \/ LeaveGrid(q) \/ LeaveMap(q) PROVE FALSE
    OBVIOUS
  <2>2. \E from, to : Go(h, from, to) /\ to # "online"
    BY <2>1 DEF AddToMap, LeaveGrid, LeaveMap
  <2> QED
    BY <1>1, <2>2, GoAt DEF Quiet
<1>4. ~(AddToGrid(q) \/ ConnectionLost(q))
  <2>1. SUFFICES ASSUME AddToGrid(q) \/ ConnectionLost(q) PROVE FALSE
    OBVIOUS
  <2>2. \E o, a : Enter(h, o, a)
    BY <2>1 DEF AddToGrid, ConnectionLost
  <2> QED
    BY <1>1, <2>2, EnterAt DEF Quiet
<1>5. ~(LeaveGridPanics(q) \/ MovePanics(q) \/ SendPanics(t))
  BY ThreadFacts DEF LeaveGridPanics, MovePanics, SendPanics, Panic
<1>6. ~(Move(q) \/ RemovePID(q))
  <2>1. SUFFICES ASSUME Move(q) \/ RemovePID(q) PROVE FALSE
    OBVIOUS
  <2>2. \E from, to : Go(w, from, to) /\ to # "idle"
    BY <2>1 DEF Move, RemovePID
  <2> QED
    BY <1>1, <2>2, GoAt DEF Quiet
<1>7. ~AddPID(q)
  <2>1. SUFFICES ASSUME AddPID(q) PROVE FALSE
    OBVIOUS
  <2>2. \E o, a : Enter(w, o, a)
    BY <2>1 DEF AddPID
  <2> QED
    BY <1>1, <2>2, EnterAt DEF Quiet
<1>8. ~(\E xy \in Targets : UpdatePos(q, xy))
  <2>1. SUFFICES ASSUME NEW xy \in Targets, UpdatePos(q, xy) PROVE FALSE
    OBVIOUS
  <2>2. (\E o, a : Enter(w, o, a)) \/ pc' = [pc EXCEPT ![w] = "unlist"]
    BY <2>1 DEF UpdatePos
  <2>3. CASE \E o, a : Enter(w, o, a)
    BY <1>1, <2>3, EnterAt DEF Quiet
  <2>4. CASE pc' = [pc EXCEPT ![w] = "unlist"]
    BY <1>1, <2>4 DEF Quiet, LocalTypes
  <2> QED
    BY <2>2, <2>3, <2>4
<1>9. ~(Scan(t) \/ Lookup(t) \/ Send(t) \/ SendBack(t))
  <2>1. SUFFICES ASSUME Scan(t) \/ Lookup(t) \/ Send(t) \/ SendBack(t) PROVE FALSE
    OBVIOUS
  <2>2. pc'[t] = "loop"
    BY <2>1, LoopMoves
  <2> QED
    BY <1>1, <2>2 DEF Quiet
<1>10. LoopDone(t)
  BY <1>2, <1>3, <1>4, <1>5, <1>6, <1>7, <1>8, <1>9, StepCases DEF Loop
<1>11. pc[t] = "loop" /\ pc'[t] \in {"online", "idle"}
  BY <1>1, <1>10 DEF LoopDone, Sends, Quiet
<1>12. CASE t = h
  <2>1. op[t] \in {"sync", "lost"}
    BY <1>11, <1>12, LoopOf, ThreadFacts DEF Phases
  <2>2. op[t] = "lost" => Leave(t, "leavegrid")
    BY <1>10 DEF LoopDone
  <2>3. op[t] # "lost"
    BY <1>1, <1>11, <2>2, LeavesTo
  <2> QED
    BY <1>10, <1>12, <2>1, <2>3
<1>13. CASE t = w
  <2>1. op[t] \in {"leaving", "entering", "moved"}
    BY <1>11, <1>13 DEF Phases
  <2>2. op[t] \in {"leaving", "entering"} => \E o, a : Enter(t, o, a)
    BY <1>10 DEF LoopDone
  <2>3. op[t] \notin {"leaving", "entering"}
    BY <1>1, <1>11, <2>2, EnterAt
  <2> QED
    BY <1>10, <1>13, <2>1, <2>3
<1> QED
  BY <1>1, <1>12, <1>13

\* Nothing is left to do at the end of a loop.
LEMMA DoneNothing ==
  ASSUME Types, NEW t \in Threads, LoopDone(t), NEW q
  PROVE  /\ ~Pending(t, q) /\ pc[t] = "loop"
         /\ ByArea(t) => sent[t] = {}
         /\ UNCHANGED <<pidGen, worldVars, moves, met, strayed>>
<1>1. pc[t] = "loop" /\ ids[t] = {} /\ unsent[t] = {} /\ todo[t] = <<>> /\ ~Owes(t)
  BY DEF LoopDone, Sends
<1>2. UNCHANGED <<pidGen, worldVars, moves, met, strayed>>
  BY DEF LoopDone
<1> QED
  BY <1>1, <1>2 DEF Owes, Pending, Elem

\* Being near is mutual.
LEMMA Symmetry ==
  ASSUME NEW p \in PIDs, NEW q \in PIDs, Placed, strayed \cap {p, q} = {},
         pc[Hook(p)] # "off", pc[Hook(q)] # "off", pc[Work(p)] = "idle", pc[Work(q)] \in {"idle", "loop"}
  PROVE  Nearby(p, q) <=> Nearby(q, p)
<1>1. GID(p) \in GIDs /\ GID(q) \in GIDs
  BY DEF Placed, PlacedOf, GID
<1> QED
  BY <1>1, AreasAround DEF Nearby

\* q ends its last loop while p is not doing anything.
LEMMA QuietPair ==
  ASSUME Types, Phases, Known, Known', Phases', Placed, Apart, Pairs,
         NEW t \in Threads, Steps(t), NEW p \in PIDs, NEW q \in PIDs, q = t[2], Facing(p, q)'
  PROVE  Pair(p, q)'
<1> DEFINE h == Hook(q)  w == Work(q)
<1>0. /\ h \in Threads /\ w \in Threads /\ h # w /\ LocalTypes /\ OthersKept(t)
      /\ Hook(p) \in Threads \ {t} /\ Work(p) \in Threads \ {t} /\ p # q
  BY StepKeeps, ThreadFacts DEF Types, Facing
<1>1. /\ pc'[Hook(p)] = pc[Hook(p)] /\ op'[Hook(p)] = op[Hook(p)]
      /\ pc'[Work(p)] = pc[Work(p)] /\ op'[Work(p)] = op[Work(p)]
      /\ {p, q} \notin met /\ {p, q} \notin missed' /\ {p, q} \notin missed
      /\ strayed \cap {p, q} = {} /\ Quiet(q)'
  BY <1>0 DEF OthersKept, Facing
<1>2. LoopDone(t) /\ ((t = h /\ op[t] = "sync") \/ (t = w /\ op[t] = "moved"))
  BY <1>1, QuietEnds DEF Facing
<1>3. pc[t] = "loop" /\ UNCHANGED <<pidGen, worldVars, moves, met, strayed>> /\ ~Pending(t, p)
  BY <1>2, DoneNothing
<1>4. ~Active(p)
  <2>1. Active(q)
    BY <1>2, <1>3 DEF Active, Idle
  <2> QED
    BY <1>0, <1>1, <2>1 DEF Apart
<1>5. pc[Work(p)] = "idle" /\ pc[Hook(p)] \in {"off", "online", "gone", "dead", "stuck"}
  BY <1>4 DEF Active, Phases, HookAt, WorkAt, Idle
<1>6. op[Hook(p)] = "none" /\ op[Work(p)] = "none"
  BY <1>0, <1>5 DEF Phases
<1>7. CASE pc[Hook(p)] = "off"
  <2>1. Shows(p, q, FALSE)'
    BY <1>0, <1>1, <1>7 DEF Known, Shows
  <2> QED
    BY <1>1, <1>6, <1>7, <2>1 DEF Pair, NewPair
<1>8. CASE pc[Hook(p)] \in {"gone", "dead", "stuck"}
  BY <1>1, <1>6, <1>8 DEF Pair, NewPair
<1>9. CASE pc[Hook(p)] = "online"
  <2>1. Facing(q, p)
    <3>1. {q, p} = {p, q}
      OBVIOUS
    <3> QED
      BY <1>0, <1>1, <1>5, <1>9, <3>1 DEF Facing, Quiet
  <2>2. Pair(q, p)
    BY <2>1 DEF Pairs
  <2>3. pc[h] # "off" /\ pc[w] \in {"idle", "loop"}
    <3>1. CASE t = h
      BY <1>2, <1>3, <3>1 DEF Phases, Early
    <3>2. CASE t = w
      BY <1>3, <3>2 DEF Phases, Early
    <3> QED
      BY <1>2, <3>1, <3>2
  <2>4. Nearby(p, q) <=> Nearby(q, p)
    BY <1>1, <1>5, <1>9, <2>3, Symmetry
  <2>5. Nearby(p, q)' = Nearby(p, q)
    BY <1>3 DEF Nearby, GID, worldVars
  <2>6. Shows(p, q, Nearby(p, q))'
    <3>1. CASE t = h /\ op[t] = "sync"
      <4>1. p \notin view[q] /\ (q \in view[p] <=> p \in sent[h]) /\ (Nearby(q, p) <=> p \in sent[h])
        BY <1>3, <2>2, <3>1 DEF Pair, NewPair
      <4>2. SendMsg(q, "sync", sent[h])
        BY <1>2, <3>1, ThreadFacts DEF LoopDone
      <4>3. Shown("sync", q, sent[h]) = view[q] \cup sent[h]
        BY <1>3, <3>1 DEF Shown
      <4>4. (p \in view'[q] <=> p \in view[q] \cup sent[h]) /\ view'[p] = view[p]
        BY <1>0, <1>1, <4>2, <4>3, Delivery DEF Types
      <4> QED
        BY <2>4, <2>5, <4>1, <4>4 DEF Shows
    <3>2. CASE t = w /\ op[t] = "moved"
      <4>1. pc'[h] = pc[h]
        BY <1>0, <3>2 DEF OthersKept
      <4>2. Shows(q, p, Nearby(q, p))
        BY <1>1, <2>2, <3>2, <4>1 DEF Pair, StillPair, Quiet
      <4>3. UNCHANGED view
        BY <1>2, <3>2 DEF LoopDone
      <4> QED
        BY <2>4, <2>5, <4>2, <4>3 DEF Shows
    <3> QED
      BY <1>2, <3>1, <3>2
  <2>7. NewPair(p, q)' /\ MovingPair(p, q)'
    BY <1>1, <1>6, <1>9 DEF NewPair, MovingPair
  <2>8. StillPair(p, q)'
    BY <1>1, <1>5, <2>6 DEF StillPair
  <2> QED
    BY <2>7, <2>8 DEF Pair
<1> QED
  BY <1>5, <1>7, <1>8, <1>9

\* A step of p itself; q does nothing.
LEMMA OwnStep ==
  ASSUME Types, NEW t \in Threads, OthersKept(t), NEW p \in PIDs, p = t[2],
         NEW q \in PIDs, Facing(p, q)', Pairs
  PROVE  Facing(p, q) /\ Pair(p, q) /\ pos'[q] = pos[q] /\ p \notin strayed' /\ q # p
<1>1. Hook(q) \in Threads \ {t} /\ Work(q) \in Threads \ {t} /\ q # p
  BY ThreadFacts DEF Facing
<1>2. pc'[Hook(q)] = pc[Hook(q)] /\ pc'[Work(q)] = pc[Work(q)]
  BY <1>1 DEF OthersKept
<1>3. Facing(p, q)
  BY <1>2 DEF Facing, OthersKept, Quiet
<1>4. pos'[q] = pos[q]
  BY <1>1 DEF OthersKept
<1> QED
  BY <1>1, <1>3, <1>4 DEF Pairs, Facing

\* p arrives, or its connection is lost.
LEMMA HookPair ==
  ASSUME Types, Phases, Phases', Known', NEW p \in PIDs, NEW q \in PIDs, Facing(p, q)', Pair(p, q),
         q # p, pos'[q] = pos[q], p \notin strayed',
         \/ NewPlayer /\ p = pidGen + 1
         \/ AddToMap(p) \/ AddToGrid(p) \/ ConnectionLost(p) \/ LeaveGrid(p)
         \/ LeaveGridPanics(p) \/ LeaveMap(p)
  PROVE  Pair(p, q)'
<1> DEFINE h == Hook(p)  w == Work(p)
<1>1. h \in Threads /\ w \in Threads /\ h # w /\ h[2] = p /\ LocalTypes
  BY ThreadFacts DEF Types
<1>2. CASE NewPlayer /\ p = pidGen + 1
  <2>1. Go(h, "off", "addmap")
    BY <1>2 DEF NewPlayer
  <2>2. pc'[h] = "addmap"
    BY <1>1, <2>1, GoAt
  <2>3. op'[h] = "none"
    BY <1>1, <2>2 DEF Phases
  <2>4. Shows(p, q, FALSE)'
    BY <2>2 DEF Known, Shows
  <2> QED
    BY <2>2, <2>3, <2>4 DEF Pair, NewPair
<1>3. CASE AddToMap(p)
  <2>1. Go(h, "addmap", "addgrid") /\ UNCHANGED view
    BY <1>3 DEF AddToMap
  <2>2. pc[h] = "addmap" /\ pc'[h] = "addgrid"
    BY <1>1, <2>1, GoAt
  <2>3. op'[h] = "none"
    BY <1>1, <2>2 DEF Phases
  <2>4. Shows(p, q, FALSE)'
    BY <2>1, <2>2 DEF Pair, NewPair, Shows
  <2> QED
    BY <2>2, <2>3, <2>4 DEF Pair, NewPair
<1>4. CASE AddToGrid(p)
  <2>1. /\ pc[h] = "addgrid" /\ Enter(h, "sync", Surround(GID(p))) /\ UNCHANGED <<pos, view>>
    BY <1>4 DEF AddToGrid, GID
  <2>2. /\ pc'[h] = "loop" /\ op'[h] = "sync" /\ todo'[h] = Surround(GID(p))
        /\ UNCHANGED <<ids, unsent, sent>>
    BY <1>1, <2>1, EnterAt
  <2>3. ids[h] = {} /\ unsent[h] = {} /\ sent[h] = {}
    BY <1>1, <2>1 DEF Phases
  <2>4. Elem(todo'[h], GID(q)) <=> Nearby(p, q)
    <3>1. Elem(Surround(GID(p)), GID(q)) <=> GID(q) \in Areas(GID(p))
      BY Walks
    <3> QED
      BY <2>2, <3>1 DEF Nearby
  <2>5. Pending(h, q)' = Nearby(p, q)'
    BY <2>1, <2>2, <2>3, <2>4 DEF Pending, Nearby, GID
  <2>6. Shows(p, q, FALSE)
    BY <2>1 DEF Pair, NewPair
  <2> QED
    BY <2>1, <2>2, <2>3, <2>5, <2>6 DEF Pair, NewPair, Shows
<1>5. CASE ConnectionLost(p)
  <2>1. \E a : Enter(h, "lost", a)
    BY <1>5 DEF ConnectionLost
  <2>2. pc'[h] = "loop" /\ op'[h] = "lost"
    BY <1>1, <2>1, EnterAt
  <2> QED
    BY <2>2 DEF Pair, NewPair
<1>6. CASE LeaveGrid(p) \/ LeaveMap(p)
  <2>1. \E from, to : Go(h, from, to) /\ to \in {"leavemap", "gone"}
    BY <1>6 DEF LeaveGrid, LeaveMap
  <2>2. pc'[h] \in {"leavemap", "gone"}
    BY <1>1, <2>1, GoAt
  <2>3. op'[h] = "none"
    BY <1>1, <2>2 DEF Phases
  <2> QED
    BY <2>2, <2>3 DEF Pair, NewPair
<1>7. CASE LeaveGridPanics(p)
  BY <1>1, <1>7 DEF LeaveGridPanics, Panic
<1> QED
  BY <1>2, <1>3, <1>4, <1>5, <1>6, <1>7

\* p moves, outside its loops.
LEMMA WorkPair ==
  ASSUME Types, Phases, Phases', NEW p \in PIDs, NEW q \in PIDs, Pair(p, q), OthersKept(Work(p)),
         q # p, pos'[q] = pos[q], p \notin strayed',
         \/ Move(p) \/ RemovePID(p) \/ AddPID(p) \/ MovePanics(p)
         \/ \E xy \in Targets : UpdatePos(p, xy)
  PROVE  Pair(p, q)'
<1> DEFINE h == Hook(p)  w == Work(p)
<1>1. h \in Threads /\ w \in Threads /\ h # w /\ h[2] = p /\ w[2] = p /\ LocalTypes
      /\ pc'[h] = pc[h] /\ op'[h] = op[h]
  BY ThreadFacts DEF Types, OthersKept
<1>2. UNCHANGED view
  BY WorkerMoves
<1>3. pc'[w] # "idle" => NewPair(p, q)'
  <2>1. pc'[w] # "idle" => ~Early(p)'
    BY DEF Phases
  <2> QED
    BY <2>1 DEF NewPair, Early
<1>4. SUFFICES ASSUME ~MovePanics(p)
               PROVE pc'[w] # "idle" /\ (pc[h] = "online" => StillPair(p, q)' /\ MovingPair(p, q)')
  <2>1. MovePanics(p) => p \in strayed'
    BY <1>1 DEF MovePanics, Panic
  <2> QED
    BY <1>1, <1>3, <2>1 DEF Pair
<1>5. CASE Move(p)
  <2>1. Go(w, "idle", "update") /\ UNCHANGED <<pos, op>>
    BY <1>5 DEF Move, worldVars, Locals
  <2>2. pc[w] = "idle" /\ pc'[w] = "update"
    BY <1>1, <2>1, GoAt
  <2>3. op'[w] = "none"
    BY <1>1, <2>2 DEF Phases
  <2>4. pc[h] = "online" => Shows(p, q, Nearby(p, q))
    BY <2>2 DEF Pair, StillPair
  <2>5. Nearby(p, q)' = Nearby(p, q)
    BY <2>1 DEF Nearby, GID
  <2> QED
    BY <1>2, <2>2, <2>3, <2>4, <2>5 DEF StillPair, MovingPair, Shows
<1>6. CASE RemovePID(p)
  <2>1. Go(w, "unlist", "list") /\ UNCHANGED <<pos, oldGID>>
    BY <1>6 DEF RemovePID
  <2>2. pc[w] = "unlist" /\ pc'[w] = "list"
    BY <1>1, <2>1, GoAt
  <2>3. op'[w] = "none"
    BY <1>1, <2>2 DEF Phases
  <2>4. pc[h] = "online" => Shows(p, q, WasNear(p, q))
    BY <2>2 DEF Pair, StillPair
  <2>5. WasNear(p, q)' = WasNear(p, q)
    BY <2>1 DEF WasNear, GID
  <2> QED
    BY <1>2, <2>2, <2>3, <2>4, <2>5 DEF StillPair, MovingPair, Shows
<1>7. CASE AddPID(p)
  <2>1. /\ pc[w] = "list" /\ Enter(w, "leaving", NotAround(oldGID[p], GID(p)))
        /\ UNCHANGED <<pos, oldGID>>
    BY <1>7 DEF AddPID, GID
  <2>2. /\ pc'[w] = "loop" /\ op'[w] = "leaving" /\ todo'[w] = NotAround(oldGID[p], GID(p))
        /\ UNCHANGED <<ids, unsent, sent>>
    BY <1>1, <2>1, EnterAt
  <2>3. ids[w] = {} /\ unsent[w] = {} /\ sent[w] = {}
    BY <1>1, <2>1 DEF Phases
  <2>4. Elem(todo'[w], GID(q)) <=> WasNear(p, q) /\ ~Nearby(p, q)
    BY <2>2, Walks DEF Nearby, WasNear
  <2>5. Nearby(p, q)' = Nearby(p, q) /\ WasNear(p, q)' = WasNear(p, q)
    BY <2>1 DEF Nearby, WasNear, GID
  <2>6. Pending(w, q)' <=> WasNear(p, q) /\ ~Nearby(p, q)
    BY <2>1, <2>2, <2>3, <2>4 DEF Pending, GID
  <2>7. pc[h] = "online" => Shows(p, q, WasNear(p, q))
    BY <2>1 DEF Pair, StillPair
  <2> QED
    BY <1>2, <2>2, <2>3, <2>5, <2>6, <2>7 DEF StillPair, MovingPair, Halfway, Shows
<1>8. ASSUME NEW xy \in Targets, UpdatePos(p, xy)
      PROVE pc'[w] # "idle" /\ (pc[h] = "online" => StillPair(p, q)' /\ MovingPair(p, q)')
  <2> DEFINE old == GetGIDByPos(pos[p])  new == GetGIDByPos(xy)
  <2>1. /\ pc[w] = "update" /\ pos' = [pos EXCEPT ![p] = xy]
        /\ \/ old = new /\ Enter(w, "moved", Surround(new))
           \/ /\ pc' = [pc EXCEPT ![w] = "unlist"]
              /\ oldGID' = [oldGID EXCEPT ![p] = old]
    BY <1>8 DEF UpdatePos
  <2>2. pos'[p] = xy
    BY <2>1 DEF Types
  <2>3. pc[h] = "online" => Shows(p, q, Nearby(p, q))
    BY <2>1 DEF Pair, StillPair
  <2>4. CASE old = new /\ Enter(w, "moved", Surround(new))
    <3>1. pc'[w] = "loop" /\ op'[w] = "moved"
      <4> HIDE DEF old, new
      <4> QED
        BY <1>1, <2>4, EnterAt
    <3>2. Nearby(p, q)' = Nearby(p, q)
      BY <2>2, <2>4 DEF Nearby, GID
    <3> QED
      BY <1>2, <2>3, <3>1, <3>2 DEF StillPair, MovingPair, Shows
  <2>5. CASE pc' = [pc EXCEPT ![w] = "unlist"] /\ oldGID' = [oldGID EXCEPT ![p] = old]
    <3>1. pc'[w] = "unlist" /\ oldGID'[p] = old
      <4> HIDE DEF h, w, old, new
      <4> QED
        BY <1>1, <2>5 DEF Types, LocalTypes
    <3>2. op'[w] = "none"
      BY <1>1, <3>1 DEF Phases
    <3>3. WasNear(p, q)' = Nearby(p, q)
      BY <3>1 DEF Nearby, WasNear, GID
    <3> QED
      BY <1>2, <2>3, <3>1, <3>2, <3>3 DEF StillPair, MovingPair, Shows
  <2> QED
    BY <2>1, <2>4, <2>5
<1> QED
  BY <1>4, <1>5, <1>6, <1>7, <1>8

\* A quiet player is found in its area and in the map.
LEMMA QuietFound ==
  ASSUME Known, Located, Placed, NEW q \in PIDs, Quiet(q), q \notin strayed
  PROVE  q \in players /\ \A g \in GIDs : q \in grids[g] <=> g = GID(q)
<1>1. q \in players
  BY DEF Known, Quiet
<1>2. Home(q) = GID(q) /\ Present(q) /\ pc[Work(q)] = "idle" /\ pc[Hook(q)] = "online"
  BY DEF Home, GID, Present, Quiet
<1>3. q \in grids[GID(q)]
  BY <1>2 DEF Placed, PlacedOf
<1>4. \A g \in GIDs : q \in grids[g] => g = GID(q)
  BY <1>2 DEF Located, LocatedOf
<1> QED
  BY <1>1, <1>3, <1>4

\* Reading an area and looking players up does not lose q.
LEMMA ScanPending ==
  ASSUME Types, Known, Located, Placed, NEW t \in Threads, Scan(t) \/ Lookup(t),
         NEW q \in PIDs, Quiet(q), q \notin strayed
  PROVE  Pending(t, q)' = Pending(t, q) /\ UNCHANGED <<pc, op, sent, view, pos, oldGID>>
<1>1. UNCHANGED <<pc, op, sent, view, pos, oldGID>>
  BY DEF Scan, Lookup, Same, worldVars
<1>2. q \in players /\ \A g \in GIDs : q \in grids[g] <=> g = GID(q)
  BY QuietFound
<1>3. CASE Scan(t)
  <2>1. todo[t] \in Seq(GIDs) /\ todo[t] # <<>>
    BY <1>3 DEF Scan, Reads, Types, LocalTypes
  <2>2. Head(todo[t]) \in GIDs /\ Tail(todo[t]) \in Seq(GIDs)
        /\ Len(todo[t]) \in Nat \ {0} /\ Len(Tail(todo[t])) = Len(todo[t]) - 1
        /\ DOMAIN todo[t] = 1..Len(todo[t]) /\ DOMAIN Tail(todo[t]) = 1..Len(Tail(todo[t]))
        /\ Head(todo[t]) = todo[t][1]
        /\ \A i \in 1..Len(Tail(todo[t])) : Tail(todo[t])[i] = todo[t][i + 1]
    BY <2>1
  <2>3. \A a : Elem(todo[t], a) <=> a = Head(todo[t]) \/ Elem(Tail(todo[t]), a)
    <3>1. ASSUME NEW a, Elem(todo[t], a) PROVE a = Head(todo[t]) \/ Elem(Tail(todo[t]), a)
      <4>1. PICK i \in 1..Len(todo[t]) : todo[t][i] = a
        BY <2>2, <3>1 DEF Elem
      <4>2. CASE i = 1
        BY <2>2, <4>1, <4>2
      <4>3. CASE i # 1
        <5>1. i - 1 \in 1..Len(Tail(todo[t])) /\ (i - 1) + 1 = i
          BY <2>2, <4>1, <4>3
        <5>2. Tail(todo[t])[i - 1] = a
          BY <2>2, <4>1, <5>1
        <5> QED
          BY <2>2, <5>1, <5>2 DEF Elem
      <4> QED
        BY <4>2, <4>3
    <3>2. ASSUME NEW a, a = Head(todo[t]) PROVE Elem(todo[t], a)
      BY <2>2, <3>2 DEF Elem
    <3>3. ASSUME NEW a, Elem(Tail(todo[t]), a) PROVE Elem(todo[t], a)
      <4>1. PICK i \in 1..Len(Tail(todo[t])) : Tail(todo[t])[i] = a
        BY <2>2, <3>3 DEF Elem
      <4>2. i + 1 \in 1..Len(todo[t]) /\ todo[t][i + 1] = a
        BY <2>2, <4>1
      <4> QED
        BY <2>2, <4>2 DEF Elem
    <3> QED
      BY <3>1, <3>2, <3>3
  <2>4. /\ ids'[t] = ids[t] \cup grids[Head(todo[t])] /\ todo'[t] = Tail(todo[t])
        /\ unsent' = unsent
    BY <1>3 DEF Scan, Types, LocalTypes
  <2>5. q \in grids[Head(todo[t])] <=> GID(q) = Head(todo[t])
    BY <1>2, <2>2
  <2>6. GID(q)' = GID(q)
    BY <1>1 DEF GID
  <2> QED
    BY <1>1, <2>3, <2>4, <2>5, <2>6 DEF Pending
<1>4. CASE Lookup(t)
  <2>0. \A some \in IF ByArea(t) THEN {ids[t]} ELSE {{r} : r \in ids[t]} : some \in SUBSET ids[t]
    OBVIOUS
  <2>1. PICK some \in SUBSET ids[t] :
          /\ ids' = [ids EXCEPT ![t] = @ \ some]
          /\ unsent' = [unsent EXCEPT ![t] = @ \cup (some \cap players)]
    BY <1>4, <2>0 DEF Lookup
  <2>2. ids'[t] = ids[t] \ some /\ unsent'[t] = unsent[t] \cup (some \cap players) /\ todo' = todo
    BY <1>4, <2>1 DEF Lookup, Types, LocalTypes
  <2>3. GID(q)' = GID(q)
    BY <1>1 DEF GID
  <2> QED
    BY <1>1, <1>2, <2>1, <2>2, <2>3 DEF Pending
<1> QED
  BY <1>1, <1>3, <1>4

\* What a message to r changes.
SendTo(t, r) ==
  /\ unsent' = [unsent EXCEPT ![t] = @ \ {r}]
  /\ SendMsg(r, op[t], {t[2]})
  /\ sent' = IF op[t] \in {"moved", "lost"} THEN sent ELSE [sent EXCEPT ![t] = @ \cup {r}]

\* A message to another player than q.
LEMMA SendOther ==
  ASSUME Types, NEW t \in Threads, Send(t), NEW p \in PIDs, p = t[2], NEW q \in PIDs, q # p,
         NEW r \in unsent[t], r # q, SendTo(t, r)
  PROVE  /\ Pending(t, q)' = Pending(t, q) /\ (q \in sent'[t] <=> q \in sent[t])
         /\ (q \in view'[p] <=> q \in view[p]) /\ (p \in view'[q] <=> p \in view[q])
<1>1. todo' = todo /\ ids' = ids /\ pos' = pos
  BY DEF Send, Same, worldVars
<1>2. unsent'[t] = unsent[t] \ {r} /\ sent'[t] \in {sent[t], sent[t] \cup {r}}
  BY DEF SendTo, Types, LocalTypes
<1>3. /\ \A u \in PIDs \ {r} : view'[u] = view[u]
      /\ view'[r] \in {view[r], Shown(op[t], r, {p})} /\ r \in PIDs
  BY Delivery DEF SendTo, Types, LocalTypes
<1>4. q \in view'[p] <=> q \in view[p]
  BY <1>3 DEF Shown
<1>5. view'[q] = view[q]
  BY <1>3
<1> QED
  BY <1>1, <1>2, <1>4, <1>5 DEF Pending, GID

\* A message to q, which has a connection, and which is not lost.
LEMMA SendHim ==
  ASSUME Types, NEW t \in Threads, Send(t), NEW p \in PIDs, p = t[2], NEW q \in PIDs, q # p,
         Quiet(q), q \in unsent[t], SendTo(t, q), {p, q} \notin missed'
  PROVE  /\ view'[p] = view[p]
         /\ op[t] \in {"sync", "entering"} => p \in view'[q] /\ q \in sent'[t]
         /\ op[t] = "leaving" => p \notin view'[q] /\ q \in sent'[t]
         /\ op[t] = "moved" => view'[q] = view[q]
<1>1. /\ view'[p] = view[p] /\ view'[q] \in {view[q], Shown(op[t], q, {p})}
      /\ p \in view'[q] <=> p \in Shown(op[t], q, {p})
  BY Delivery DEF SendTo, Types
<1>2. op[t] \in {"sync", "entering", "leaving"} => q \in sent'[t]
  BY DEF SendTo, Types, LocalTypes
<1> QED
  BY <1>1, <1>2 DEF Shown, Quiet

\* SyncSurrounding.
LEMMA SyncPair ==
  ASSUME Types, Phases, Phases', Known, Located, Placed, NEW p \in PIDs, NEW t \in Threads, t = Hook(p),
         NEW q \in PIDs, q # p, Quiet(q), q \notin strayed, Pair(p, q), pos'[q] = pos[q],
         p \notin strayed', {p, q} \notin missed', OthersKept(t), Loop(t)
  PROVE  Pair(p, q)'
<1> DEFINE w == Work(p)
<1>0. w \in Threads /\ w # t /\ LocalTypes /\ pc'[w] = pc[w] /\ op'[w] = op[w] /\ p = t[2] /\ t[1] = "hook"
  BY ThreadFacts DEF Types, OthersKept
<1>1. pc[t] = "loop" /\ op[t] \in {"sync", "lost"} /\ ~ByArea(t)
  <2>1. pc[t] = "loop"
    BY DEF Loop, Scan, Reads, Lookup, Looks, Send, Sends, SendBack, SendPanics, LoopDone
  <2>2. op[t] \in {"sync", "lost"}
    BY <2>1 DEF Phases
  <2> QED
    BY <2>1, <2>2 DEF ByArea
<1>2. ~SendBack(t) /\ ~SendPanics(t)
  BY <1>0, <1>1 DEF SendBack, Owes, SendPanics, Panic
<1>3. CASE op[t] = "lost"
  <2>1. CASE Scan(t) \/ Lookup(t) \/ Send(t)
    <3>1. UNCHANGED <<pc, op>>
      BY <2>1, LoopMoves
    <3> QED
      BY <1>1, <1>3, <3>1 DEF Pair, NewPair
  <2>2. CASE LoopDone(t)
    <3>1. Leave(t, "leavegrid")
      BY <1>3, <2>2 DEF LoopDone
    <3>2. pc'[t] = "leavegrid" /\ op'[t] = "none"
      BY <1>0, <3>1, LeavesTo
    <3> QED
      BY <3>2 DEF Pair, NewPair
  <2> QED
    BY <1>2, <2>1, <2>2 DEF Loop
<1>4. CASE op[t] = "sync"
  <2>1. /\ q \notin view[p] /\ (p \in view[q] <=> q \in sent[t])
        /\ Nearby(p, q) <=> Pending(t, q) \/ q \in sent[t]
    BY <1>4 DEF Pair, NewPair
  <2>2. CASE Scan(t) \/ Lookup(t)
    <3>1. Pending(t, q)' = Pending(t, q) /\ UNCHANGED <<pc, op, sent, view, pos, oldGID>>
      BY <2>2, ScanPending
    <3>2. Nearby(p, q)' = Nearby(p, q)
      BY <3>1 DEF Nearby, GID
    <3> QED
      BY <1>1, <1>4, <2>1, <3>1, <3>2 DEF Pair, NewPair
  <2>3. CASE Send(t)
    <3>1. PICK r \in unsent[t] : SendTo(t, r)
      BY <2>3 DEF Send, SendTo
    <3>2. UNCHANGED <<pos, pc, op>>
      BY <2>3, LoopMoves
    <3>3. Nearby(p, q)' = Nearby(p, q)
      BY <3>2 DEF Nearby, GID
    <3>4. CASE r # q
      <4>1. /\ Pending(t, q)' = Pending(t, q) /\ (q \in sent'[t] <=> q \in sent[t])
            /\ (q \in view'[p] <=> q \in view[p]) /\ (p \in view'[q] <=> p \in view[q])
        BY <1>0, <2>3, <3>1, <3>4, SendOther
      <4> QED
        BY <1>1, <1>4, <2>1, <3>2, <3>3, <4>1 DEF Pair, NewPair
    <3>5. CASE r = q
      <4>1. view'[p] = view[p] /\ p \in view'[q] /\ q \in sent'[t]
        BY <1>0, <1>4, <2>3, <3>1, <3>5, SendHim
      <4>2. Pending(t, q)
        BY <3>5 DEF Pending
      <4> QED
        BY <1>1, <1>4, <2>1, <3>2, <3>3, <4>1, <4>2 DEF Pair, NewPair
    <3> QED
      BY <3>4, <3>5
  <2>4. CASE LoopDone(t)
    <3>1. /\ Leave(t, "online") /\ SendMsg(p, "sync", sent[t])
      BY <1>0, <1>4, <2>4 DEF LoopDone
    <3>2. pc'[t] = "online" /\ op'[t] = "none"
      BY <1>0, <3>1, LeavesTo
    <3>3. ~Pending(t, q) /\ UNCHANGED pos
      BY <2>4, DoneNothing DEF worldVars
    <3>4. (q \in view'[p] <=> q \in view[p] \cup sent[t]) /\ view'[q] = view[q]
      <4>1. Shown("sync", p, sent[t]) = view[p] \cup sent[t]
        BY <1>1 DEF Shown
      <4>2. {q, p} = {p, q}
        OBVIOUS
      <4> QED
        BY <3>1, <4>1, <4>2, Delivery DEF Types
    <3>5. Nearby(p, q)' = Nearby(p, q)
      BY <3>3 DEF Nearby, GID
    <3>6. Shows(p, q, Nearby(p, q))'
      BY <2>1, <3>3, <3>4, <3>5 DEF Shows
    <3>7. pc[w] = "idle" /\ op[w] = "none"
      <4>1. pc[w] = "idle"
        BY <1>4 DEF Phases, Early
      <4> QED
        BY <1>0, <4>1 DEF Phases
    <3> QED
      BY <1>0, <3>2, <3>6, <3>7 DEF Pair, NewPair, StillPair, MovingPair
  <2> QED
    BY <1>2, <2>2, <2>3, <2>4 DEF Loop
<1> QED
  BY <1>1, <1>3, <1>4

\* The loops of UpdatePos and OnExchangeAoiGrID.
LEMMA MovePair ==
  ASSUME Types, Phases, Phases', Known, Located, Placed, NEW p \in PIDs, NEW t \in Threads, t = Work(p),
         NEW q \in PIDs, q # p, Quiet(q), q \notin strayed, Pair(p, q), pos'[q] = pos[q],
         p \notin strayed', {p, q} \notin missed', OthersKept(t), Loop(t)
  PROVE  Pair(p, q)'
<1> DEFINE h == Hook(p)
<1>0. h \in Threads /\ h # t /\ LocalTypes /\ pc'[h] = pc[h] /\ op'[h] = op[h] /\ p = t[2] /\ t[1] = "work"
  BY ThreadFacts DEF Types, OthersKept
<1>1. pc[t] = "loop" /\ op[t] \in {"leaving", "entering", "moved"} /\ ~Early(p)
  <2>1. pc[t] = "loop"
    BY DEF Loop, Scan, Reads, Lookup, Looks, Send, Sends, SendBack, SendPanics, LoopDone
  <2> QED
    BY <2>1 DEF Phases
<1>2. NewPair(p, q)' /\ ~SendPanics(t)
  BY <1>0, <1>1 DEF NewPair, Early, SendPanics, Panic
<1>3. SUFFICES ASSUME pc[h] = "online" PROVE StillPair(p, q)' /\ MovingPair(p, q)'
  BY <1>0, <1>2 DEF Pair
<1> DEFINE near == Nearby(p, q)  was == WasNear(p, q)
<1>4. /\ op[t] = "moved" => Shows(p, q, near)
      /\ op[t] = "leaving" => /\ Halfway(t, p, q, was /\ ~near, FALSE)
                              /\ ~(was /\ ~near) => Shows(p, q, was)
      /\ op[t] = "entering" => /\ Halfway(t, p, q, near /\ ~was, TRUE)
                               /\ ~(near /\ ~was) => Shows(p, q, near)
  BY <1>3 DEF Pair, StillPair, MovingPair
<1>5. CASE Scan(t) \/ Lookup(t)
  <2>1. Pending(t, q)' = Pending(t, q) /\ UNCHANGED <<pc, op, sent, view, pos, oldGID>>
    BY <1>5, ScanPending
  <2>2. Nearby(p, q)' = near /\ WasNear(p, q)' = was
    BY <2>1 DEF Nearby, WasNear, GID
  <2> QED
    BY <1>1, <1>4, <2>1, <2>2 DEF StillPair, MovingPair, Halfway, Shows
<1>6. CASE Send(t)
  <2>1. PICK r \in unsent[t] : SendTo(t, r)
    BY <1>6 DEF Send, SendTo
  <2>2. UNCHANGED <<pos, oldGID, pc, op>> /\ ~Owes(t)
    BY <1>6, LoopMoves DEF Send, Sends
  <2>3. Nearby(p, q)' = near /\ WasNear(p, q)' = was
    BY <2>2 DEF Nearby, WasNear, GID
  <2>4. CASE r # q
    <3>1. /\ Pending(t, q)' = Pending(t, q) /\ (q \in sent'[t] <=> q \in sent[t])
          /\ (q \in view'[p] <=> q \in view[p]) /\ (p \in view'[q] <=> p \in view[q])
      BY <1>0, <1>6, <2>1, <2>4, SendOther
    <3> QED
      BY <1>1, <1>4, <2>2, <2>3, <3>1 DEF StillPair, MovingPair, Halfway, Shows
  <2>5. CASE r = q
    <3>1. Pending(t, q)
      BY <2>5 DEF Pending
    <3>2. CASE op[t] = "moved"
      <4>1. view'[p] = view[p] /\ view'[q] = view[q]
        BY <1>0, <1>6, <2>1, <2>5, <3>2, SendHim
      <4> QED
        BY <1>1, <1>4, <2>2, <2>3, <3>2, <4>1 DEF StillPair, MovingPair, Shows
    <3>3. CASE op[t] = "leaving"
      <4>1. p \notin view'[q] /\ q \in sent'[t]
        BY <1>0, <1>6, <2>1, <2>5, <3>3, SendHim
      <4>2. was /\ ~near
        BY <1>4, <3>1, <3>3 DEF Halfway
      <4> QED
        BY <1>1, <2>2, <2>3, <3>3, <4>1, <4>2 DEF StillPair, MovingPair, Halfway
    <3>4. CASE op[t] = "entering"
      <4>1. p \in view'[q] /\ q \in sent'[t]
        BY <1>0, <1>6, <2>1, <2>5, <3>4, SendHim
      <4>2. near /\ ~was
        BY <1>4, <3>1, <3>4 DEF Halfway
      <4> QED
        BY <1>1, <2>2, <2>3, <3>4, <4>1, <4>2 DEF StillPair, MovingPair, Halfway
    <3> QED
      BY <1>1, <3>2, <3>3, <3>4
  <2> QED
    BY <2>4, <2>5
<1>7. CASE SendBack(t)
  <2>1. PICK r \in sent[t] : SendMsg(p, op[t], {r})
    BY <1>0, <1>7 DEF SendBack
  <2>2. op[t] \in {"leaving", "entering"} /\ \A x, y \in sent[t] : x = y
    BY <1>7 DEF SendBack, Owes, ByArea, Phases
  <2>3. /\ sent'[t] = {} /\ UNCHANGED <<pos, oldGID, pc, op, todo, ids, unsent>>
    BY <1>7, LoopMoves DEF SendBack, Types, LocalTypes
  <2>4. /\ view'[q] = view[q] /\ view'[p] \in {view[p], Shown(op[t], p, {r})}
        /\ q \in view'[p] <=> q \in Shown(op[t], p, {r})
    <3>1. {q, p} = {p, q}
      OBVIOUS
    <3> QED
      BY <2>1, <3>1, Delivery DEF Types
  <2>5. /\ op[t] = "leaving"  => Shown(op[t], p, {r}) = view[p] \ {r}
        /\ op[t] = "entering" => Shown(op[t], p, {r}) = view[p] \cup {r}
    BY <1>3 DEF Shown
  <2>6. Nearby(p, q)' = near /\ WasNear(p, q)' = was /\ Pending(t, q)' = Pending(t, q)
    BY <2>3 DEF Nearby, WasNear, GID, Pending
  <2>7. CASE r # q
    <3>1. q \notin sent[t]
      BY <2>1, <2>2, <2>7
    <3>2. (q \in view'[p] <=> q \in view[p]) /\ (p \in view'[q] <=> p \in view[q])
      BY <2>2, <2>4, <2>5, <2>7
    <3> QED
      BY <1>1, <1>4, <2>2, <2>3, <2>6, <3>1, <3>2 DEF StillPair, MovingPair, Halfway, Shows
  <2>8. CASE r = q
    <3>1. q \in sent[t]
      BY <2>1, <2>8
    <3>2. CASE op[t] = "leaving"
      <4>1. was /\ ~near /\ p \notin view[q]
        BY <1>4, <3>1, <3>2 DEF Halfway
      <4>2. q \notin view'[p] /\ p \notin view'[q]
        BY <2>4, <2>5, <2>8, <3>2, <4>1
      <4> QED
        BY <1>1, <2>3, <2>6, <3>2, <4>1, <4>2 DEF StillPair, MovingPair, Halfway, Shows
    <3>3. CASE op[t] = "entering"
      <4>1. near /\ ~was /\ p \in view[q]
        BY <1>4, <3>1, <3>3 DEF Halfway
      <4>2. q \in view'[p] /\ p \in view'[q]
        BY <2>4, <2>5, <2>8, <3>3, <4>1
      <4> QED
        BY <1>1, <2>3, <2>6, <3>3, <4>1, <4>2 DEF StillPair, MovingPair, Halfway, Shows
    <3> QED
      BY <2>2, <3>2, <3>3
  <2> QED
    BY <2>7, <2>8
<1>8. CASE LoopDone(t)
  <2>1. /\ ~Pending(t, q) /\ (ByArea(t) => sent[t] = {}) /\ UNCHANGED <<pos, view>>
    BY <1>1, <1>8, DoneNothing DEF worldVars, LoopDone
  <2>2. Nearby(p, q)' = near
    BY <2>1 DEF Nearby, GID
  <2>3. CASE op[t] = "leaving"
    <3>1. Enter(t, "entering", NotAround(GID(p), oldGID[p])) /\ UNCHANGED oldGID
      BY <1>0, <1>8, <2>3 DEF LoopDone, GID
    <3>2. /\ pc'[t] = "loop" /\ op'[t] = "entering" /\ todo'[t] = NotAround(GID(p), oldGID[p])
          /\ UNCHANGED <<ids, unsent, sent>>
      BY <1>0, <3>1, EnterAt
    <3>3. Elem(todo'[t], GID(q)) <=> near /\ ~was
      <4>1. Elem(NotAround(GID(p), oldGID[p]), GID(q)) <=> GID(q) \in Areas(GID(p)) \ Areas(oldGID[p])
        BY Walks
      <4> QED
        BY <3>2, <4>1 DEF Nearby, WasNear
    <3>4. q \notin ids[t] /\ q \notin unsent[t] /\ q \notin sent[t]
      BY <2>1, <2>3 DEF Pending, ByArea
    <3>5. WasNear(p, q)' = was /\ GID(q)' = GID(q)
      BY <2>1, <3>1 DEF WasNear, GID
    <3>6. Pending(t, q)' <=> near /\ ~was
      BY <3>2, <3>3, <3>4, <3>5 DEF Pending
    <3>7. ~(near /\ ~was) => Shows(p, q, near)
      BY <1>4, <2>1, <2>3, <3>4 DEF Halfway, Shows
    <3> QED
      BY <2>1, <2>2, <3>2, <3>4, <3>5, <3>6, <3>7 DEF StillPair, MovingPair, Halfway, Shows
  <2>4. CASE op[t] = "entering"
    <3>1. Enter(t, "moved", Surround(GID(p)))
      BY <1>0, <1>8, <2>4 DEF LoopDone, GID
    <3>2. pc'[t] = "loop" /\ op'[t] = "moved"
      BY <1>0, <3>1, EnterAt
    <3>3. Shows(p, q, near)
      BY <1>4, <2>1, <2>4 DEF Halfway, Shows, ByArea
    <3> QED
      BY <2>1, <2>2, <3>2, <3>3 DEF StillPair, MovingPair, Shows
  <2>5. CASE op[t] = "moved"
    <3>1. Leave(t, "idle")
      BY <1>8, <2>5 DEF LoopDone
    <3>2. pc'[t] = "idle" /\ op'[t] = "none"
      BY <1>0, <3>1, LeavesTo
    <3> QED
      BY <1>4, <2>1, <2>2, <2>5, <3>2 DEF StillPair, MovingPair, Shows
  <2> QED
    BY <1>1, <2>3, <2>4, <2>5
<1> QED
  BY <1>2, <1>5, <1>6, <1>7, <1>8 DEF Loop

\* Every step keeps what two players show of each other.
LEMMA PairsStep ==
  Types /\ Phases /\ Phases' /\ Known /\ Known' /\ Located /\ Placed /\ Apart /\ Pairs /\ [Next]_vars
  => Pairs'
<1> SUFFICES ASSUME Types, Phases, Phases', Known, Known', Located, Placed, Apart, Pairs, [Next]_vars,
                    NEW p \in PIDs, NEW q \in PIDs, Facing(p, q)'
             PROVE  Pair(p, q)'
  BY DEF Pairs
<1>1. CASE UNCHANGED vars
  <2>1. Pair(p, q)
    BY <1>1 DEF vars, worldVars, Locals, pastVars, Facing, Quiet, Pairs
  <2> QED
    BY <1>1, <2>1 DEF vars, worldVars, Locals, pastVars, Pair, NewPair, StillPair, MovingPair, Shows,
          Halfway, Pending, Nearby, WasNear, GID
<1>2. CASE Next
  <2>1. PICK t \in Threads : Steps(t)
    BY <1>2, EveryStep
  <2>2. OthersKept(t)
    BY <2>1, StepKeeps
  <2>3. CASE p # t[2] /\ q # t[2]
    BY <2>2, <2>3, OtherPair
  <2>4. CASE q = t[2]
    BY <2>1, <2>4, QuietPair
  <2>5. CASE p = t[2]
    <3>1. /\ Facing(p, q) /\ Pair(p, q) /\ pos'[q] = pos[q] /\ p \notin strayed' /\ q # p
          /\ {p, q} \notin missed'
      BY <2>2, <2>5, OwnStep DEF Facing
    <3>2. Quiet(q) /\ q \notin strayed
      BY <3>1 DEF Facing
    <3>3. t = Hook(p) \/ t = Work(p)
      BY <2>5, ThreadFacts
    <3>4. CASE Loop(t)
      BY <2>2, <3>1, <3>2, <3>3, <3>4, SyncPair, MovePair
    <3> QED
      BY <2>1, <2>2, <2>5, <3>1, <3>4, StepCases, HookPair, WorkPair
  <2> QED
    BY <2>3, <2>4, <2>5
<1> QED
  BY <1>1, <1>2

-----------------------------------------------------------------------------
(* The inductive invariant                                                  *)

WorldInv ==
  Types /\ Phases /\ Known /\ Located /\ Placed /\ Apart /\ Pairs /\ ArrivalsAlone

\* It holds at first and every step keeps it.
LEMMA InitInv == Init => WorldInv
<1> SUFFICES ASSUME Init PROVE WorldInv
  OBVIOUS
<1> USE DEF Init
<1>1. PIDs \subseteq Nat \ {0} /\ MaxPlayers \in Nat /\ 0 \in 0..MaxPlayers
  BY WorldAssumption DEF PIDs
<1>2. \A p \in PIDs : /\ pc[Hook(p)] = "off" /\ pc[Work(p)] = "idle"
                      /\ op[Hook(p)] = "none" /\ op[Work(p)] = "none"
  BY ThreadFacts
<1>3. \A t \in Threads : /\ pc[t] \in {"off", "idle"} /\ op[t] = "none" /\ todo[t] = <<>>
                         /\ ids[t] = {} /\ unsent[t] = {} /\ sent[t] = {} /\ hasNil[t] = FALSE
  OBVIOUS
<1>4. Types
  <2>1. (CHOOSE s \in Spawns : TRUE) \in Int \X Int
    BY WorldAssumption
  <2>2. LocalTypes
    <3>1. <<>> \in Seq(GIDs) /\ {} \in SUBSET PIDs
      OBVIOUS
    <3> QED
      BY <3>1 DEF LocalTypes, HookAt, WorkAt, Ops
  <2>3. /\ pidGen \in 0..MaxPlayers /\ players \in SUBSET PIDs /\ grids \in [GIDs -> SUBSET PIDs]
        /\ oldGID \in [PIDs -> Int] /\ view \in [PIDs -> SUBSET PIDs]
    BY <1>1
  <2>4. pos \in [PIDs -> Int \X Int]
    <3>1. pos = [p \in PIDs |-> CHOOSE s \in Spawns : TRUE]
      OBVIOUS
    <3> QED
      BY <2>1, <3>1, Zenon
  <2> QED
    BY <2>2, <2>3, <2>4 DEF Types
<1>5. Phases
  <2>1. \A p \in PIDs : p > pidGen
    BY <1>1
  <2> QED
    BY <1>2, <1>3, <2>1 DEF Phases, HookAt, WorkAt, ByArea, Early
<1>6. \A p \in PIDs : ~Listed(p) /\ view[p] = {}
  BY DEF Listed
<1>7. Known
  BY <1>2, <1>3, <1>6 DEF Known, Mentioned
<1>8. Located
  BY <1>2, <1>6 DEF Located, LocatedOf, Leaving, Listed
<1>9. Placed /\ Apart /\ Pairs /\ ArrivalsAlone
  BY <1>2 DEF Placed, PlacedOf, Apart, Active, Idle, Pairs, Facing, Quiet, ArrivalsAlone
<1> QED
  BY <1>4, <1>5, <1>7, <1>8, <1>9 DEF WorldInv

LEMMA NextInv == WorldInv /\ [Next]_vars => WorldInv'
BY TypesStep, PhasesStep, KnownStep, LocatedStep, PlacedStep, ApartStep, PairsStep, HarmStep
   DEF WorldInv

\* The inductive invariant holds in every behaviour.
THEOREM WorldInvariance == Spec => []WorldInv
BY InitInv, NextInv, PTL DEF Spec

-----------------------------------------------------------------------------

\* No player is ever listed in two areas: UpdatePos takes it out of the old area
\* before it puts it into the new one, and only its own threads do.
THEOREM AreasDisjoint == Spec => []OneArea
<1>1. WorldInv => OneArea
  BY DEF WorldInv, Types, Located, LocatedOf, OneArea
<1> QED
  BY <1>1, WorldInvariance, PTL

\* Who finds an id in an area finds its player in the map, unless that player
\* moved while its connection was lost (AddPlayer, LostConnection).
THEOREM ListedKnown == Spec => []ListedIsKnown
<1>1. WorldInv => ListedIsKnown
  <2> SUFFICES ASSUME WorldInv, NEW p \in PIDs, Listed(p) PROVE p \in players \/ Overlapped(p, p)
    BY DEF ListedIsKnown, Listed
  <2>1. pc[Hook(p)] \notin {"off", "addmap"}
    BY DEF WorldInv, Known
  <2>2. CASE pc[Hook(p)] # "gone"
    BY <2>1, <2>2 DEF WorldInv, Known
  <2>3. CASE pc[Hook(p)] = "gone"
    <3>1. {p} \in met
      BY <2>3 DEF WorldInv, Located, LocatedOf
    <3>2. {p, p} = {p}
      OBVIOUS
    <3> QED
      BY <3>1, <3>2 DEF Overlapped
  <2> QED
    BY <2>2, <2>3
<1> QED
  BY <1>1, WorldInvariance, PTL

\* A quiet player that never panicked is listed in the area of its position, and
\* the rectangle of that area contains it if the areas cover it at all.
THEOREM FoundInArea == Spec => []InItsArea
<1>1. WorldInv => InItsArea
  <2> SUFFICES ASSUME WorldInv, NEW p \in PIDs, Quiet(p), p \notin strayed
               PROVE  \E g \in GIDs : p \in grids[g] /\ g = GetGIDByPos(pos[p])
                                      /\ (Covered(pos[p]) => Inside(pos[p], g))
    BY DEF InItsArea
  <2>1. GetGIDByPos(pos[p]) \in GIDs
    BY DEF WorldInv, Placed, PlacedOf, Quiet
  <2>2. p \in grids[GetGIDByPos(pos[p])]
    BY <2>1, QuietFound DEF WorldInv, GID
  <2>3. Covered(pos[p]) => Inside(pos[p], GetGIDByPos(pos[p]))
    BY CoveredInside
  <2> QED
    BY <2>1, <2>2, <2>3
<1> QED
  BY <1>1, WorldInvariance, PTL

\* Two quiet players show each other exactly when they are near, unless their
\* operations overlapped or panicked or a message between them was lost on a full
\* channel (SyncSurrounding, OnExchangeAoiGrID, SendMsg).
THEOREM ViewsMatch == Spec => []ViewsAgree
<1>1. WorldInv => ViewsAgree
  <2> SUFFICES ASSUME WorldInv, NEW p \in PIDs, NEW q \in PIDs, p # q, Quiet(p), Quiet(q),
                      ~Overlapped(p, q), ~Missed(p, q), strayed \cap {p, q} = {}
               PROVE  q \in view[p] <=> Near(pos[p], pos[q])
    BY DEF ViewsAgree
  <2>1. {q, p} = {p, q}
    OBVIOUS
  <2>2. Pair(q, p)
    BY <2>1 DEF WorldInv, Pairs, Facing, Overlapped, Missed
  <2>3. Shows(q, p, Nearby(q, p))
    BY <2>2 DEF Pair, StillPair, Quiet
  <2> QED
    BY <2>3 DEF Shows, Nearby, GID, Near
<1> QED
  BY <1>1, WorldInvariance, PTL

\* OnConnectionAdd is broken off by a nil player only after the connection of
\* another player was lost.
THEOREM ArrivalsUnharmed == Spec => []ArrivalsAlone
BY WorldInvariance, PTL DEF WorldInv
=============================================================================
