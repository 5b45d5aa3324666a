------------------------------ MODULE Delivery ------------------------------
(***************************************************************************)
(* What the job queue promises: a message is run by one worker at a time,  *)
(* as often as it takes; it is archived only after a run that succeeded    *)
(* and given up only after one that failed; either way it stays there.     *)
(***************************************************************************)
CONSTANT Messages

VARIABLE state    \* message -> where it is

Moves ==
  { <<"unsent", "waiting">>,                                 \* sent
    <<"waiting", "running">>,                                \* read, and its turn has come
    <<"running", "succeeded">>, <<"running", "faulted">>,    \* the job has run
    <<"succeeded", "archived">>, <<"faulted", "failed">>,    \* its outcome is recorded
    \* it will be run again: a retry, or a run that was not recorded
    <<"running", "waiting">>, <<"succeeded", "waiting">>, <<"faulted", "waiting">> }

Init == state = [m \in Messages |-> "unsent"]
Next == \A m \in Messages : state'[m] # state[m] => <<state[m], state'[m]>> \in Moves
Spec == Init /\ [][Next]_state
=============================================================================
