---------------------------- MODULE MCDispatcher ----------------------------
(***************************************************************************)
(* An inline and an ordinary workflow that every change of the record      *)
(* triggers, also the changes they make themselves.                        *)
(***************************************************************************)
EXTENDS Dispatcher

Both == {Workflows}

\* The inline workflow may write a record; the other one acts, and waits at a
\* delay that leads back to the action unless its condition has become false.
Walks ==
  [inline |-> {[steps |-> 1, status |-> "ended", emits |-> TRUE],
               [steps |-> 1, status |-> "ended", emits |-> FALSE]},
   later |-> {[steps |-> 1, status |-> "waiting", emits |-> FALSE],
              [steps |-> 0, status |-> "ended", emits |-> FALSE]}]

============================================================================
