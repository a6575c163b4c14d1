---------------------------- MODULE OnceCallback ----------------------------
(***************************************************************************)
(* What an asynchronous result promises: after both a value and a callback *)
(* have been given, in any order and however often, the callback runs, and *)
(* it runs once.  A callback is announced first and seen later.  Whoever   *)
(* announced it may look for the value in between and miss it, and then    *)
(* nobody is obliged to run the callback.                                  *)
(***************************************************************************)
EXTENDS Sequences

CONSTANTS Callbacks, Nil

VARIABLES
  given, hasValue,   \* a callback was announced, a value was given
  callback,          \* the callback everybody sees
  runs,              \* the callbacks that ran
  missed             \* the value was looked for too early

vars == <<given, hasValue, callback, runs, missed>>

Init ==
  /\ given = FALSE /\ hasValue = FALSE /\ missed = FALSE
  /\ callback = Nil /\ runs = <<>>

Give     == hasValue' = TRUE /\ UNCHANGED <<given, callback, runs, missed>>
Announce == given' = TRUE /\ UNCHANGED <<hasValue, callback, runs, missed>>
Miss == /\ given /\ ~hasValue /\ callback = Nil /\ missed' = TRUE
        /\ UNCHANGED <<given, hasValue, callback, runs>>
Register(f) == /\ given /\ callback = Nil /\ callback' = f
               /\ UNCHANGED <<given, hasValue, runs, missed>>
Run == /\ hasValue /\ callback # Nil
       /\ runs = <<>> /\ runs' = <<callback>>
       /\ UNCHANGED <<given, hasValue, callback, missed>>

Next == Give \/ Announce \/ Miss \/ Run \/ \E f \in Callbacks : Register(f)

Spec     == Init /\ [][Next]_vars
FairSpec ==
  /\ Spec
  /\ WF_vars(~missed /\ Run)
  /\ WF_vars(\E f \in Callbacks : Register(f))
=============================================================================
