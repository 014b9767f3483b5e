------------------------------- MODULE ResumeSync -------------------------------
(***************************************************************************)
(* One resume and its copy in the RAG service: the person confirms its      *)
(* profile, which schedules a durable task; a slot of the dispatcher reads  *)
(* the resume as it is by then and sends it; searches refresh the copy      *)
(* directly; deleting the resume removes the row, the tasks and the copy in *)
(* three steps.  A resume's content is the number of its confirmation.      *)
(***************************************************************************)
EXTENDS Integers, Sequences, FiniteSets

CONSTANTS Slot,        \* slots of the dispatcher
          MaxConfirms, \* bound: confirmations
          MaxTasks,    \* bound: tasks ever scheduled
          MaxTries     \* worker_max_attempts

VARIABLES
  resume,  \* confirmations of the cv_files row; 0: uploaded, Gone: deleted
  tasks,   \* the rag-resume-sync rows, oldest first
  sync,    \* what each slot does
  direct,  \* content a search or a backfill is sending
  copy,    \* the document of the collection "resumes"; 0: there is none
  removal, \* how far the deletion has got
  served   \* history: the newest content the service has stored

vars == <<resume, tasks, sync, direct, copy, removal, served>>

Gone      == -1
Claimable == {"scheduled", "retry_scheduled"}
Active    == Claimable \cup {"pending", "running"}
Idle      == [pc |-> "idle", task |-> 0, content |-> 0]

TypeOK ==
  /\ resume \in -1..MaxConfirms
  /\ tasks \in Seq([version : 0..MaxConfirms, tries : 0..MaxTries,
                    state : Active \cup {"completed", "failed", "deleted"}])
  /\ Len(tasks) <= MaxTasks
  /\ sync \in [Slot -> [pc : {"idle", "sending", "stored", "refused"},
                       task : 0..MaxTasks, content : 0..MaxConfirms]]
  /\ {direct, copy, served} \subseteq 0..MaxConfirms
  /\ removal \in {"none", "row", "tasks", "done"}

Init ==
  /\ resume = 0 /\ tasks = <<>> /\ sync = [s \in Slot |-> Idle]
  /\ direct = 0 /\ copy = 0 /\ removal = "none" /\ served = 0

HasActive == \E i \in 1..Len(tasks) : tasks[i].state \in Active

\* get_or_create and save: the row is made and scheduled, or stays pending when the
\* process stops between the two.
Appended(version) ==
  /\ Len(tasks) < MaxTasks
  /\ \E state \in {"scheduled", "pending"} :
       tasks' = Append(tasks, [version |-> version, tries |-> 0, state |-> state])

\* A forced request that gets a task of its own whatever is under way.
ScheduledAnyway(version) == Appended(version)

\* schedule: an active task is the answer, whatever content it was made for.
Scheduled(version) == IF HasActive THEN UNCHANGED tasks ELSE Appended(version)

(* confirm_resume_profile: the reviewed profile is saved and scheduled.     *)
Confirm ==
  /\ resume # Gone /\ resume < MaxConfirms
  /\ resume' = resume + 1 /\ Scheduled(resume + 1)
  /\ UNCHANGED <<sync, direct, copy, removal, served>>

(* sync_resume_to_rag: "Send to RAG" of a confirmed resume.                 *)
SendToRag ==
  /\ resume > 0 /\ Scheduled(resume)
  /\ UNCHANGED <<resume, sync, direct, copy, removal, served>>

-------------------------------------------------------------------------------
(* The dispatcher                                                           *)

(* The claim, and the handler's read of the row, which may be gone.         *)
Claim(s, i) ==
  /\ sync[s].pc = "idle" /\ i \in 1..Len(tasks) /\ tasks[i].state \in Claimable
  /\ IF resume = Gone
       THEN tasks' = [tasks EXCEPT ![i].state = "failed"] /\ UNCHANGED sync
       ELSE /\ tasks' = [tasks EXCEPT ![i].state = "running", ![i].tries = @ + 1]
            /\ sync' = [sync EXCEPT ![s] = [pc |-> "sending", task |-> i, content |-> resume]]
  /\ UNCHANGED <<resume, direct, copy, removal, served>>

\* ingest_document stores a content: a lock conflict is answered with the same one.
Stores(content) == /\ copy' = content
                   /\ served' = IF content > served THEN content ELSE served

Store(s) ==
  /\ sync[s].pc = "sending" /\ Stores(sync[s].content)
  /\ sync' = [sync EXCEPT ![s].pc = "stored"]
  /\ UNCHANGED <<resume, tasks, direct, removal>>

(* The service fails; the handler asks for a retry.                         *)
Refuse(s) ==
  /\ sync[s].pc = "sending"
  /\ sync' = [sync EXCEPT ![s].pc = "refused"]
  /\ UNCHANGED <<resume, tasks, direct, copy, removal, served>>

\* An outcome that takes a sending that failed for one that was skipped.
OutcomeSkipped(s) == "completed"

\* One that is tried again for ever.
OutcomeForever(s) == IF sync[s].pc = "stored" THEN "completed" ELSE "retry_scheduled"

\* The handler's outcome, a retry within the bound on attempts.
Outcome(s) ==
  IF sync[s].pc = "stored" THEN "completed"
  ELSE IF tasks[sync[s].task].tries < MaxTries THEN "retry_scheduled" ELSE "failed"

(* The outcome is written, unless the row has been deleted meanwhile.       *)
Finish(s) ==
  /\ sync[s].pc \in {"stored", "refused"}
  /\ tasks' = IF tasks[sync[s].task].state = "running"
              THEN [tasks EXCEPT ![sync[s].task].state = Outcome(s)] ELSE tasks
  /\ sync' = [sync EXCEPT ![s] = Idle]
  /\ UNCHANGED <<resume, direct, copy, removal, served>>

(* The process stops; its row is found stale and queued again, or failed.   *)
CrashAndRecover(s) ==
  /\ sync[s].pc # "idle" /\ sync' = [sync EXCEPT ![s] = Idle]
  /\ tasks' = IF tasks[sync[s].task].state = "running"
              THEN [tasks EXCEPT ![sync[s].task].state =
                      IF @ = "running" /\ tasks[sync[s].task].tries < MaxTries
                        THEN "scheduled" ELSE "failed"]
              ELSE tasks
  /\ UNCHANGED <<resume, direct, copy, removal, served>>

-------------------------------------------------------------------------------
(* Direct synchronization and deletion                                      *)

(* A search or a backfill reads the row and sends it itself.                *)
DirectRead ==
  /\ direct = 0 /\ resume > 0 /\ direct' = resume
  /\ UNCHANGED <<resume, tasks, sync, copy, removal, served>>

DirectStore ==
  /\ direct # 0 /\ direct' = 0 /\ Stores(direct)
  /\ UNCHANGED <<resume, tasks, sync, removal>>

DirectFails ==
  /\ direct # 0 /\ direct' = 0
  /\ UNCHANGED <<resume, tasks, sync, copy, removal, served>>

(* delete_cv_file: the row, the tasks, then the copy, failing open.         *)
DeleteRow ==
  /\ removal = "none" /\ removal' = "row" /\ resume' = Gone
  /\ UNCHANGED <<tasks, sync, direct, copy, served>>

DeleteTasks ==
  /\ removal = "row" /\ removal' = "tasks"
  /\ tasks' = [i \in 1..Len(tasks) |-> [tasks[i] EXCEPT !.state = "deleted"]]
  /\ UNCHANGED <<resume, sync, direct, copy, served>>

DeleteCopy ==
  /\ removal = "tasks" /\ removal' = "done"
  /\ copy' \in {0, copy}
  /\ UNCHANGED <<resume, tasks, sync, direct, served>>

Next ==
  \/ Confirm \/ SendToRag \/ DirectRead \/ DirectStore \/ DirectFails
  \/ DeleteRow \/ DeleteTasks \/ DeleteCopy
  \/ \E s \in Slot : \/ \E i \in 1..MaxTasks : Claim(s, i)
                     \/ Store(s) \/ Refuse(s) \/ Finish(s) \/ CrashAndRecover(s)

Spec == Init /\ [][Next]_vars

-------------------------------------------------------------------------------
(* Properties                                                               *)

(* "Send to RAG ... does not duplicate an active task" (README.md): through *)
(* confirmations, forced requests, retries and recoveries, one resume has   *)
(* at most one task under way.                                              *)
OneActiveTask ==
  Cardinality({i \in 1..Len(tasks) : tasks[i].state \in Active}) <= 1

(* The "successful synchronization time" a resume shows: a completed task   *)
(* has got a content as new as the one it was scheduled for stored, through *)
(* failed sendings, retries, crashes and rows read late.                    *)
CompletedWasStored ==
  \A i \in 1..Len(tasks) : tasks[i].state = "completed" => tasks[i].version <= served

(* Together: the state of the tasks tells the person the truth.             *)
TasksTellTheTruth == OneActiveTask /\ CompletedWasStored
===============================================================================
