---------------------------- MODULE TaskLifecycle ----------------------------
(***************************************************************************)
(* What the task table promises, whoever writes it: the state column only  *)
(* follows the edges of ALLOWED_TRANSITIONS.  Each committed write takes   *)
(* one edge, or the pair running -> interrupted -> scheduled.  The one way *)
(* around the table is a requested rerun, which uses its request up.       *)
(* Several rows may move in one commit (recovery sweeps the whole queue).  *)
(***************************************************************************)
EXTENDS TaskStates

CONSTANT Task

VARIABLES state, refresh

Init ==
  /\ state \in [Task -> {"pending", "scheduled"}]
  /\ refresh = [t \in Task |-> FALSE]

Moves(t) ==
  \/ state'[t] = state[t]
  \/ CanMove(state[t], state'[t])
  \/ CanMoveVia(state[t], "interrupted", state'[t])
  \/ refresh[t] /\ ~refresh'[t] /\ state'[t] = "scheduled"

Next ==
  /\ state' \in [Task -> TaskState] /\ refresh' \in [Task -> BOOLEAN]
  /\ \A t \in Task : Moves(t)

Spec == Init /\ [][Next]_<<state, refresh>>
===============================================================================
