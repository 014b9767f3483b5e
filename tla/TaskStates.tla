------------------------------ MODULE TaskStates ------------------------------
(***************************************************************************)
(* The workflow-task state machine of app/workflows/task.py, shared by     *)
(* every module that writes a row of workflow_tasks.                       *)
(***************************************************************************)

\* What the claim query of SqlTaskRepository looks for.
Claimable == {"scheduled", "retry_scheduled"}

\* Nothing runs and nothing is queued: the task ended or waits for an outside answer.
Settled == {"completed", "failed", "cancelled",
            "waiting_for_user", "waiting_for_external_system"}

TaskState == Claimable \cup Settled \cup {"pending", "running", "interrupted"}

\* ALLOWED_TRANSITIONS, as the set of its pairs.
ALLOWED_TRANSITIONS ==
       {"pending"} \X {"scheduled", "cancelled"}
  \cup {"scheduled"} \X {"running", "completed", "cancelled"}
  \cup {"running"} \X {"completed", "failed", "interrupted", "retry_scheduled",
                       "waiting_for_external_system", "waiting_for_user"}
  \cup {"waiting_for_user"} \X {"scheduled", "completed", "cancelled"}
  \cup {"waiting_for_external_system"} \X {"scheduled", "retry_scheduled", "cancelled"}
  \cup {"retry_scheduled"} \X {"running", "cancelled"}
  \cup {"interrupted"} \X {"scheduled", "cancelled"}
  \cup {"failed", "cancelled"} \X {"scheduled"}

\* WorkflowTask.transition raises InvalidTaskTransition exactly when this is FALSE.
CanMove(from, to) == <<from, to>> \in ALLOWED_TRANSITIONS

\* Two transitions recorded in one commit: a running task goes through
\* "interrupted" back to "scheduled" (recovery and lease conflicts).
CanMoveVia(from, mid, to) == CanMove(from, mid) /\ CanMove(mid, to)
===============================================================================
