-------------------------------- MODULE World --------------------------------
(***************************************************************************)
(* The world of the MMO demo: areas of interest (core/aoi.go, grid.go),    *)
(* the world manager (core/world_manager.go), players (core/player.go) and *)
(* what drives them: the connection hooks of appDemo/Server/server.go and  *)
(* the handlers of appDemo/Api_MMO_GAME/api.                               *)
(*                                                                         *)
(* Two goroutines work for a player: the hook goroutine of its connection  *)
(* (OnConnectionAdd, later OnConnectionLost) and the worker that runs its  *)
(* Move requests one after the other.  Each is a thread <<role, player>>.  *)
(* view[p] is what the messages sent to p's client make it show; messages  *)
(* to one client arrive in the order they were sent.                       *)
(*                                                                         *)
(* A definition named X_Word is X with one mistake in it; no action uses   *)
(* it.  Each one shows that a property of the run can fail.                *)
(***************************************************************************)
EXTENDS Integers, Sequences, FiniteSets

CONSTANTS
  MinX, MaxX, CntsX, MinY, MaxY, CntsY,  \* the map (AOI_MIN_X, ...)
  Spawns,      \* positions NewPlayer may draw
  Targets,     \* positions clients ask for: Handle checks none of them
  MaxPlayers,  \* bound: connections that arrive
  MaxMoves     \* bound: Move requests handled

\* grIDWIDth and grIDLength divide integers and lose the remainder.
Width  == (MaxX - MinX) \div CntsX
Length == (MaxY - MinY) \div CntsY
GIDs   == 0..(CntsX * CntsY - 1)
PIDs   == 1..MaxPlayers

\* Go's integer division truncates toward zero.
Quot(a, b) == IF a < 0 THEN -((-a) \div b) ELSE a \div b

GetGIDByPos_OffByOne(xy) ==
  Quot(xy[2] - MinY, Length) * CntsX + Quot(xy[1] - MinX + 1, Width)

GetGIDByPos(xy) ==
  Quot(xy[2] - MinY, Length) * CntsX + Quot(xy[1] - MinX, Width)

\* NewAOIManager: the rectangle of each area.
Inside(xy, g) ==
  LET x == g % CntsX  y == g \div CntsX IN
    /\ MinX + x * Width <= xy[1] /\ xy[1] < MinX + (x + 1) * Width
    /\ MinY + y * Length <= xy[2] /\ xy[2] < MinY + (y + 1) * Length

\* What the areas cover: less than the map when the division has a remainder.
Covered(xy) == /\ xy[1] \in MinX..(MinX + CntsX * Width - 1)
               /\ xy[2] \in MinY..(MinY + CntsY * Length - 1)

ASSUME WorldAssumption ==
  /\ \A n \in {MinX, MaxX, MinY, MaxY} : n \in Int
  /\ CntsX \in Nat \ {0} /\ CntsY \in Nat \ {0}
  /\ MaxX - MinX >= CntsX /\ MaxY - MinY >= CntsY
  /\ Targets \subseteq Int \X Int
  /\ Spawns \subseteq Int \X Int /\ Spawns # {} /\ \A s \in Spawns : Covered(s)
  /\ MaxPlayers \in Nat /\ MaxMoves \in Nat

\* The area itself and the eight directions of GetSurroundGrIDsByGID.
Directions == << <<0, 0>>, <<-1, -1>>, <<-1, 0>>, <<-1, 1>>, <<0, -1>>,
                 <<0, 1>>, <<1, -1>>, <<1, 0>>, <<1, 1>> >>

\* The area next to g in direction d, if there is one and it is among those
\* that are wanted.
Neighbour(g, d, wanted) ==
  LET x == (g % CntsX) + d[1]  y == (g \div CntsX) + d[2]
      OnMap == x \in 0..(CntsX - 1) /\ y \in 0..(CntsY - 1)
  IN IF OnMap /\ y * CntsX + x \in wanted THEN <<y * CntsX + x>> ELSE <<>>

Around(g, wanted) ==
  LET N(i) == Neighbour(g, Directions[i], wanted) IN
    IF g \notin GIDs THEN <<>>
    ELSE N(1) \o N(2) \o N(3) \o N(4) \o N(5) \o N(6) \o N(7) \o N(8) \o N(9)

\* GetSurroundGrIDsByGID.
Surround(g) == Around(g, GIDs)

Areas(g) == {Surround(g)[i] : i \in DOMAIN Surround(g)}

\* The areas around g that are not around h (OnExchangeAoiGrID).
NotAround(g, h) == Around(g, GIDs \ Areas(h))

Near(xy, uv) == GetGIDByPos(xy) \in Areas(GetGIDByPos(uv))

VARIABLES
  pidGen,    \* PIDGen, minus one: players made so far
  players,   \* WorldManager.Players: the ids in the map
  grids,     \* per area: playerIDs
  pos,       \* per player: X and Z
  moves,     \* Move requests taken so far
  oldGID,    \* per player: local of its UpdatePos
  pc, op,    \* per thread: where it is, the procedure that sends
  todo,      \* per thread: areas it still has to read
  ids,       \* per thread: ids it read and has not looked up yet
  unsent,    \* per thread: players it found and has not sent to yet
  sent,      \* per thread: players sent to that are needed again
  hasNil,    \* per thread: an id was looked up in vain
  view,      \* per player: the players its client shows
  met,       \* history: {p, q} when operations of p and q overlapped
  strayed,   \* history: players one of whose operations panicked
  missed     \* history: {p, q} when a message about one to the other got lost

worldVars  == <<players, grids, pos>>
Locals == <<op, todo, ids, unsent, sent, hasNil>>
pastVars   == <<met, strayed, missed>>
vars == <<pidGen, worldVars, moves, oldGID, pc, Locals, view, pastVars>>

Hook(p) == <<"hook", p>>
Work(p) == <<"work", p>>
Threads == {"hook", "work"} \X PIDs

Idle == {"off", "online", "gone", "dead", "stuck", "idle"}

Init ==
  /\ pidGen = 0 /\ players = {} /\ grids = [g \in GIDs |-> {}]
  /\ pos = [p \in PIDs |-> CHOOSE s \in Spawns : TRUE]
  /\ moves = 0 /\ oldGID = [p \in PIDs |-> 0]
  /\ pc = [t \in Threads |-> IF t[1] = "hook" THEN "off" ELSE "idle"]
  /\ op = [t \in Threads |-> "none"] /\ todo = [t \in Threads |-> <<>>]
  /\ ids = [t \in Threads |-> {}] /\ unsent = [t \in Threads |-> {}]
  /\ sent = [t \in Threads |-> {}] /\ hasNil = [t \in Threads |-> FALSE] /\ view = [p \in PIDs |-> {}]
  /\ met = {} /\ strayed = {} /\ missed = {}

-----------------------------------------------------------------------------
(* Threads                                                                  *)

Go(t, from, to) == pc[t] = from /\ pc' = [pc EXCEPT ![t] = to]

\* An operation of p begins: it overlaps the operations under way.
Begins(p) == met' = met \cup {{p, t[2]} : t \in {u \in Threads : pc[u] \notin Idle}}

\* The thread enters one of the loops that read areas and send to players.
Enter(t, o, areas) ==
  /\ pc' = [pc EXCEPT ![t] = "loop"] /\ op' = [op EXCEPT ![t] = o]
  /\ todo' = [todo EXCEPT ![t] = areas]
  /\ UNCHANGED <<ids, unsent, sent, hasNil>>

\* The thread's operation is over and its local variables are gone.
Leave(t, to) ==
  /\ pc' = [pc EXCEPT ![t] = to] /\ op' = [op EXCEPT ![t] = "none"]
  /\ todo' = [todo EXCEPT ![t] = <<>>] /\ ids' = [ids EXCEPT ![t] = {}]
  /\ unsent' = [unsent EXCEPT ![t] = {}]
  /\ sent' = [sent EXCEPT ![t] = {}]
  /\ hasNil' = [hasNil EXCEPT ![t] = FALSE]

\* A nil player or area was used.  In a hook the panic ends Start in its
\* recover: "dead" before the reader runs, "stuck" before the finalizer does
\* its work.  In a handler doMsgHandle recovers and the worker goes on.
Panic(t) ==
  /\ Leave(t, IF t[1] = "work" THEN "idle"
              ELSE IF op[t] = "sync" THEN "dead" ELSE "stuck")
  /\ oldGID' = IF t[1] = "work" THEN [oldGID EXCEPT ![t[2]] = 0] ELSE oldGID
  /\ strayed' = strayed \cup {t[2]}
  /\ UNCHANGED <<pidGen, worldVars, moves, view, met, missed>>

-----------------------------------------------------------------------------
(* OnConnectionAdd                                                          *)

\* NewPlayer, SyncPID and BroadCastStartPosition, whose two messages are the
\* first ones of the connection: the channel is empty.
NewPlayer ==
  /\ pidGen < MaxPlayers /\ pidGen' = pidGen + 1
  /\ \E s \in Spawns : pos' = [pos EXCEPT ![pidGen'] = s]
  /\ Go(Hook(pidGen'), "off", "addmap") /\ Begins(pidGen')
  /\ view' = [view EXCEPT ![pidGen'] = {pidGen'}]
  /\ UNCHANGED <<players, grids, moves, oldGID, Locals, strayed, missed>>

AddToMap_Forgotten(p) ==
  /\ Go(Hook(p), "addmap", "addgrid")
  /\ UNCHANGED <<pidGen, worldVars, moves, oldGID, Locals, view, pastVars>>

\* AddPlayer puts the player in the map, then into its area; the connection
\* gets the property pID.
AddToMap(p) ==
  /\ Go(Hook(p), "addmap", "addgrid")
  /\ players' = players \cup {p}
  /\ UNCHANGED <<pidGen, grids, pos, moves, oldGID, Locals, view, pastVars>>

AddToGrid(p) ==
  /\ pc[Hook(p)] = "addgrid"
  /\ grids' = [grids EXCEPT ![GetGIDByPos(pos[p])] = @ \cup {p}]
  /\ Enter(Hook(p), "sync", Surround(GetGIDByPos(pos[p])))
  /\ UNCHANGED <<pidGen, players, pos, moves, oldGID, view, pastVars>>

-----------------------------------------------------------------------------
(* OnConnectionLost, LostConnection                                         *)

ConnectionLost(p) ==
  /\ pc[Hook(p)] = "online" /\ Begins(p)
  /\ Enter(Hook(p), "lost", Surround(GetGIDByPos(pos[p])))
  /\ UNCHANGED <<pidGen, worldVars, moves, oldGID, view, strayed, missed>>

LeaveGrid_Kept(p) ==
  /\ Go(Hook(p), "leavegrid", "leavemap") /\ GetGIDByPos(pos[p]) \in GIDs
  /\ UNCHANGED <<pidGen, worldVars, moves, oldGID, Locals, view, pastVars>>

LeaveGrid(p) ==
  /\ Go(Hook(p), "leavegrid", "leavemap") /\ GetGIDByPos(pos[p]) \in GIDs
  /\ grids' = [grids EXCEPT ![GetGIDByPos(pos[p])] = @ \ {p}]
  /\ UNCHANGED <<pidGen, players, pos, moves, oldGID, Locals, view, pastVars>>

LeaveGridPanics(p) ==
  /\ pc[Hook(p)] = "leavegrid" /\ GetGIDByPos(pos[p]) \notin GIDs
  /\ Panic(Hook(p))

LeaveMap(p) ==
  /\ Go(Hook(p), "leavemap", "gone")
  /\ players' = players \ {p}
  /\ view' = [view EXCEPT ![p] = {}]
  /\ UNCHANGED <<pidGen, grids, pos, moves, oldGID, Locals, pastVars>>

-----------------------------------------------------------------------------
(* MoveApi.Handle, UpdatePos, OnExchangeAoiGrID                             *)

\* The request was read after OnConnectionAdd; it may be handled after
\* OnConnectionLost.  A player that is not in the map any more is nil, and
\* the handler panics without an effect.
Move(p) ==
  /\ pc[Hook(p)] \notin {"off", "addmap", "addgrid", "dead"} /\ op[Hook(p)] # "sync"
  /\ moves < MaxMoves /\ moves' = moves + 1
  /\ p \in players /\ Begins(p)
  /\ Go(Work(p), "idle", "update")
  /\ UNCHANGED <<pidGen, worldVars, oldGID, Locals, view, strayed, missed>>

UpdatePos(p, xy) ==
  /\ pc[Work(p)] = "update"
  /\ LET old == GetGIDByPos(pos[p])  new == GetGIDByPos(xy) IN
       IF old = new
         THEN Enter(Work(p), "moved", Surround(new)) /\ UNCHANGED oldGID
         ELSE /\ pc' = [pc EXCEPT ![Work(p)] = "unlist"] /\ UNCHANGED Locals
              /\ oldGID' = [oldGID EXCEPT ![p] = old]
  /\ pos' = [pos EXCEPT ![p] = xy]
  /\ UNCHANGED <<pidGen, players, grids, moves, view, pastVars>>

RemovePID_Kept(p) ==
  /\ Go(Work(p), "unlist", "list") /\ oldGID[p] \in GIDs
  /\ UNCHANGED <<pidGen, worldVars, moves, oldGID, Locals, view, pastVars>>

RemovePID(p) ==
  /\ Go(Work(p), "unlist", "list") /\ oldGID[p] \in GIDs
  /\ grids' = [grids EXCEPT ![oldGID[p]] = @ \ {p}]
  /\ UNCHANGED <<pidGen, players, pos, moves, oldGID, Locals, view, pastVars>>

\* The position is the one this UpdatePos stored: only it writes X and Z.
AddPID(p) ==
  LET new == GetGIDByPos(pos[p]) IN
    /\ pc[Work(p)] = "list" /\ new \in GIDs
    /\ grids' = [grids EXCEPT ![new] = @ \cup {p}]
    /\ Enter(Work(p), "leaving", NotAround(oldGID[p], new))
    /\ UNCHANGED <<pidGen, players, pos, moves, oldGID, view, pastVars>>

\* The position is on no area: the method of a nil *GrID panics.
MovePanics(p) ==
  /\ \/ pc[Work(p)] = "unlist" /\ oldGID[p] \notin GIDs
     \/ pc[Work(p)] = "list" /\ GetGIDByPos(pos[p]) \notin GIDs
  /\ Panic(Work(p))

-----------------------------------------------------------------------------
(* The loops that read areas, look players up and send to them              *)

\* GetPlayersByGID treats one area, the others collect all nine first.
ByArea(t) == op[t] \in {"leaving", "entering"}

Same == <<pidGen, worldVars, moves, oldGID, met, strayed>>

\* Where a thread is in its loop: areas to read, ids to look up, players to
\* send to, a player of an area that was told and not yet shown.
Owes(t)    == ByArea(t) /\ sent[t] # {}
Reads(t)   == /\ pc[t] = "loop" /\ todo[t] # <<>>
              /\ ByArea(t) => ids[t] \cup unsent[t] \cup sent[t] = {} /\ ~hasNil[t]
Looks(t)   == pc[t] = "loop" /\ ~Reads(t) /\ ids[t] # {}
Sends(t)   == pc[t] = "loop" /\ ~Reads(t) /\ ids[t] = {} /\ ~Owes(t)

\* GetPlyerIDs copies the ids of one area under its lock.
Scan(t) ==
  /\ Reads(t)
  /\ ids' = [ids EXCEPT ![t] = @ \cup grids[Head(todo[t])]]
  /\ todo' = [todo EXCEPT ![t] = Tail(@)]
  /\ UNCHANGED <<Same, pc, op, unsent, sent, hasNil, view, missed>>

\* GetPlayersByGID holds the map's lock for all ids, GetPlayerByPID for one.
Lookup(t) ==
  /\ Looks(t)
  /\ \E some \in IF ByArea(t) THEN {ids[t]} ELSE {{q} : q \in ids[t]} :
       /\ ids' = [ids EXCEPT ![t] = @ \ some]
       /\ unsent' = [unsent EXCEPT ![t] = @ \cup (some \cap players)]
       /\ hasNil' = [hasNil EXCEPT ![t] = @ \/ ~(some \subseteq players)]
  /\ UNCHANGED <<Same, pc, op, todo, sent, view, missed>>

\* What the client of q shows after a message about some players; a connection
\* that is closed takes none.
Shown(o, q, about) ==
  CASE pc[Hook(q)] = "gone" -> view[q]
    [] o \in {"sync", "entering"} -> view[q] \cup about
    [] o \in {"lost", "leaving"}  -> view[q] \ about
    [] OTHER -> view[q]

\* A message to q's client.  SendBuffMsg gives up when the channel stays full
\* for 5 ms; SendMsg only logs the error and the caller goes on.
SendMsg(q, o, about) ==
  \/ view' = [view EXCEPT ![q] = Shown(o, q, about)] /\ UNCHANGED missed
  \/ /\ Shown(o, q, about) # view[q]
     /\ missed' = missed \cup {{q, p} : p \in about \ {q}}
     /\ UNCHANGED view

Send_OneWay(t) ==
  /\ Sends(t)
  /\ \E q \in unsent[t] :
       /\ unsent' = [unsent EXCEPT ![t] = @ \ {q}]
       /\ SendMsg(q, op[t], {t[2]})
       /\ sent' = IF op[t] = "sync" THEN [sent EXCEPT ![t] = @ \cup {q}] ELSE sent
  /\ UNCHANGED <<Same, pc, op, todo, ids, hasNil>>

\* q is told of the player; a new player, or one that changes areas, will be
\* told of q.
Send(t) ==
  /\ Sends(t)
  /\ \E q \in unsent[t] :
       /\ unsent' = [unsent EXCEPT ![t] = @ \ {q}]
       /\ SendMsg(q, op[t], {t[2]})
       /\ sent' = IF op[t] \in {"moved", "lost"} THEN sent
                  ELSE [sent EXCEPT ![t] = @ \cup {q}]
  /\ UNCHANGED <<Same, pc, op, todo, ids, hasNil>>

SendBack(t) ==
  /\ pc[t] = "loop" /\ Owes(t)
  /\ \E q \in sent[t] : SendMsg(t[2], op[t], {q})
  /\ sent' = [sent EXCEPT ![t] = {}]
  /\ UNCHANGED <<Same, pc, op, todo, ids, unsent, hasNil>>

\* One of the players is nil: the loop reaches it at any time.
SendPanics(t) == Sends(t) /\ hasNil[t] /\ Panic(t)

\* The loop is over.  SyncSurrounding sends the players it told of itself to
\* the new one (message 202), a move goes on to its next loop.
LoopDone(t) ==
  /\ Sends(t) /\ todo[t] = <<>> /\ unsent[t] = {} /\ ~hasNil[t]
  /\ LET new == GetGIDByPos(pos[t[2]])  old == oldGID[t[2]] IN
       CASE op[t] = "leaving"  -> Enter(t, "entering", NotAround(new, old))
         [] op[t] = "entering" -> Enter(t, "moved", Surround(new))
         [] op[t] = "moved" -> Leave(t, "idle")
         [] op[t] = "lost"  -> Leave(t, "leavegrid")
         [] op[t] = "sync"  -> Leave(t, "online")
  /\ oldGID' = IF op[t] = "entering" THEN [oldGID EXCEPT ![t[2]] = 0] ELSE oldGID
  /\ IF op[t] = "sync" THEN SendMsg(t[2], "sync", sent[t])
                      ELSE UNCHANGED <<view, missed>>
  /\ UNCHANGED <<pidGen, worldVars, moves, met, strayed>>

Loop(t) == \/ Scan(t) \/ Lookup(t) \/ Send(t) \/ SendBack(t)
           \/ SendPanics(t) \/ LoopDone(t)

-----------------------------------------------------------------------------
Next ==
  \/ NewPlayer
  \/ \E p \in PIDs :
       \/ AddToMap(p) \/ AddToGrid(p)
       \/ ConnectionLost(p) \/ LeaveGrid(p) \/ LeaveGridPanics(p) \/ LeaveMap(p)
       \/ Move(p) \/ (\E xy \in Targets : UpdatePos(p, xy))
       \/ RemovePID(p) \/ AddPID(p) \/ MovePanics(p)
  \/ \E t \in Threads : Loop(t)

Spec == Init /\ [][Next]_vars

-----------------------------------------------------------------------------
(* Properties                                                               *)

Overlapped(p, q) == {p, q} \in met
Missed(p, q) == {p, q} \in missed
Quiet(p) == pc[Hook(p)] = "online" /\ pc[Work(p)] = "idle"

\* However moves, arrivals and departures interleave, no player is listed in
\* two areas at once (UpdatePos leaves the old area before it enters the new).
OneArea ==
  \A g, h \in GIDs : g # h => grids[g] \cap grids[h] = {}

\* Who finds an id in an area finds its player in the map, unless that player
\* moved while its connection was lost: AddPlayer fills the map first,
\* LostConnection empties it last.
ListedIsKnown ==
  \A p \in PIDs : (\E g \in GIDs : p \in grids[g])
                 => p \in players \/ Overlapped(p, p)

\* A player between two moves is listed in the area of its position, and that
\* area's rectangle contains the position if any does; only a player that once
\* walked off the areas may be missing (UpdatePos, GetGIDByPos).
InItsArea ==
  \A p \in PIDs : Quiet(p) /\ p \notin strayed =>
    \E g \in GIDs : p \in grids[g] /\ g = GetGIDByPos(pos[p])
                   /\ (Covered(pos[p]) => Inside(pos[p], g))

\* Two players show each other exactly when they are near, unless operations of
\* the two overlapped, one of theirs panicked, or a message to one about the
\* other was lost on a full channel: with none of these, sequences of arrivals,
\* moves and departures keep the clients right (SyncSurrounding,
\* OnExchangeAoiGrID, SendMsg).
ViewsAgree ==
  \A p, q \in PIDs :
    /\ p # q /\ Quiet(p) /\ Quiet(q)
    /\ ~Overlapped(p, q) /\ ~Missed(p, q) /\ strayed \cap {p, q} = {}
    => (q \in view[p] <=> Near(pos[p], pos[q]))

\* OnConnectionAdd is broken off by a nil player only after another player's
\* connection was lost: arrivals and moves alone never harm it, because what an
\* area lists the map has (SyncSurrounding).
ArrivalsAlone ==
  \A p \in PIDs : pc[Hook(p)] = "dead" =>
    \E q \in PIDs \ {p} : pc[Hook(q)] = "gone"
=============================================================================
