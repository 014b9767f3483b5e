----------------------------- MODULE MCTaskQueue -----------------------------
(* Instances of TaskQueue for TLC.                                          *)
EXTENDS TaskQueue, TLC

OnePriority == {2}
TwoPriorities == {1, 2}
Quiet == {}
Recalculations == {"refresh"}
LateClears == {"lateclear"}
Operators == {"decide", "retry", "clear", "lateclear"}
SlotSymmetry == Permutations(Worker) \cup Permutations(Task)
===============================================================================
