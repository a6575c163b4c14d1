------------------------------- MODULE MCWorld -------------------------------
(* Model checking of World: a column of three areas, two units wide and one  *)
(* unit long.  A client asks for the area at the other end, for a position   *)
(* right of the map, which GetGIDByPos takes for one of the next row, for    *)
(* one left of it, which truncation puts into the area beside it, and for    *)
(* one below it, which is on no area.                                        *)
EXTENDS World

MCSpawns  == {<<1, 0>>}
MCTargets == {<<1, 2>>, <<2, 0>>, <<-1, 0>>, <<1, 3>>}

\* The state without what neither a property nor a step can tell apart any more:
\* what two players show of each other once the pair is exempt, and which of the
\* two exemptions it is.
Exempt == met \cup missed
MCView ==
  <<pidGen, worldVars, moves, oldGID, pc, Locals, strayed, Exempt,
    [p \in PIDs |-> {q \in view[p] \ {p} : {p, q} \notin Exempt}]>>
=============================================================================
