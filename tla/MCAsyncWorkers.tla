---------------------------- MODULE MCAsyncWorkers ----------------------------
(* Model checking of AsyncWorkers: the ids of the instance.                 *)
EXTENDS AsyncWorkers

\* One smallest int, and two ids with the same absolute value.
MCOpIds == {-4, -1, 1}
MCMinInt == -4
=============================================================================
