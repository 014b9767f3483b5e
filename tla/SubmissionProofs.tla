--------------------------- MODULE SubmissionProofs ---------------------------
(***************************************************************************)
(* Theorems about Submission, for any number of submission rows, attempts, *)
(* checkpoints and crashes, and any statuses the person may set.           *)
(*                                                                         *)
(* Nothing in the code keeps the other writers of the ledger away from a   *)
(* row that its worker is working on (InFlight), and the site may ask for  *)
(* a CAPTCHA after it took the application (CaptchaAfterSubmit).  Each     *)
(* theorem therefore names, as its hypothesis, the interference it cannot  *)
(* stand; what it does not name may happen.                                *)
(***************************************************************************)
EXTENDS Submission, FiniteSetTheorems, TLAPS

\* Whoever confirms or settles a row waits for the worker that has it.
LedgerLeftAlone == InFlight \cap {"manual", "resolve", "sync"} = {}

\* A CAPTCHA comes before the click, and nobody settles an attempt under way as failed.
AttemptsKnown == ~CaptchaAfterSubmit /\ "resolve" \notin InFlight

\* From the look at the ledger to the settling of the row, the worker has a row.
HasRow == run.at \in {"known", "probing", "applying", "clicked", "resolving"} => run.row \in Row

\* Only a task with room for a checkpoint is put in motion; the queue's two workers
\* never have the task at once, and the one that has it finds it running or decided.
TaskInv ==
  /\ state \in {"scheduled", "retry_scheduled", "running"} => asked < MaxAsked
  /\ reviewing => queue = "dispatcher" /\ state \in {"running", "completed"}
  /\ run.at # "idle" => queue = "browser" /\ state \in {"running", "completed"}
  /\ state = "waiting_for_user" /\ queue = "browser" => asked > 0

TypeInv == TypeOK /\ HasRow /\ TaskInv

-------------------------------------------------------------------------------
(* Types, and the task with its checkpoints                                 *)

\* What the lifecycle never does.
LEMMA WithdrawnHasNoWayOut ==
  ASSUME NEW target \in Status, NEW actor \in {"human", "system"}
  PROVE  check_transition("withdrawn", target, actor) # "moves"
BY DEF check_transition, TRANSITIONS, PRE_SUBMISSION, EXITS, TRACKING

LEMMA SubmittedIsNotWithdrawn ==
  ASSUME NEW actor \in {"human", "system"}
  PROVE  check_transition("withdrawn", "submitted", actor) = "illegal"
BY DEF check_transition, TRANSITIONS, PRE_SUBMISSION, EXITS, TRACKING

LEMMA StatusTyped == "submitted" \in Status /\ {"approved", "rejected", "skipped"} \subseteq Status
BY DEF Status, PRE_SUBMISSION, POST_SUBMISSION, SUBMISSION_IMPLIED

\* The table, where the workers use it.
LEMMA MovesOf ==
  /\ CanMove("running", "completed") /\ CanMove("running", "failed")
  /\ CanMove("running", "waiting_for_user") /\ CanMove("running", "retry_scheduled")
  /\ \A to \in TaskState : ~CanMove("completed", to)
BY DEF CanMove, ALLOWED_TRANSITIONS, TaskState, Claimable, Settled

\* A row of the ledger changes, and stays a row.
LEMMA RecordsTyped ==
  ASSUME ledger \in [Row -> RowState], NEW r \in Row, NEW new \in RowState, Records(r, new)
  PROVE  ledger' \in [Row -> RowState]
BY DEF Records

LEMMA RemembersTyped ==
  ASSUME ledger \in [Row -> RowState], Remembers
  PROVE  ledger' \in [Row -> RowState]
BY RecordsTyped DEF Remembers, OpenRows, Unused, RowState

LEMMA AtRestTyped ==
  /\ AtRest \in [at: Place, row: Row \cup {NoRow}, verdict: Verdict, outcome: Outcome]
  /\ AtRest.at = "idle"
BY DEF AtRest, Place, Verdict, Outcome

LEMMA TypeInit == Init => TypeInv
<1> SUFFICES ASSUME Init PROVE TypeInv
  OBVIOUS
<1>1. ledger \in [Row -> RowState] /\ state \in TaskState /\ status \in Status
  BY DEF Init, RowState, TaskState, Claimable, Status, PRE_SUBMISSION
<1>2. attempt \in 0 .. MaxAttempts /\ asked \in 0 .. MaxAsked /\ asked < MaxAsked
      /\ crashes \in 0 .. MaxCrashes
  BY SubmissionAssumption DEF Init
<1>3. /\ run \in [at: Place, row: Row \cup {NoRow}, verdict: Verdict, outcome: Outcome]
      /\ run.at = "idle"
  BY AtRestTyped DEF Init
<1> QED BY <1>1, <1>2, <1>3 DEF Init, TypeInv, TypeOK, HasRow, TaskInv

\* The browser worker.
LEMMA TypeWorker ==
  ASSUME TypeInv, WorkerStep \/ Crash
  PROVE  TypeInv'
<1> USE SubmissionAssumption, StatusTyped
    DEF TypeInv, TypeOK, HasRow, TaskInv, taskVars, siteVars, Place, Verdict, Outcome, Goes, Ends, Will
<1>1. CASE Claim
  <2>1. /\ state \in {"scheduled", "retry_scheduled"} /\ state' = "running"
        /\ attempt' \in 0 .. MaxAttempts
    BY <1>1 DEF Claim, TakesTask, More, Claimable
  <2>2. ~reviewing BY <2>1
  <2>3. state' \in TaskState BY <2>1 DEF TaskState
  <2> QED BY <1>1, <2>1, <2>2, <2>3 DEF Claim
<1>2. CASE Load
  <2>1. \E outcome \in Outcome : Goes("ready") \/ Ends(outcome)
    BY <1>2 DEF Load
  <2>2. /\ run' \in [at: Place, row: Row \cup {NoRow}, verdict: Verdict, outcome: Outcome]
        /\ run'.at \in {"ready", "finish"}
    BY <2>1
  <2> QED BY <1>2, <2>2 DEF Load
<1>3. CASE Begin
  <2>1. \E r \in Row, place \in {"applying", "known", "probing"} :
          /\ run' = [run EXCEPT !.at = place, !.row = r]
          /\ UNCHANGED ledger \/ Records(r, "attempting")
    BY <1>3 DEF Begin, Unused, OpenRows
  <2>2. ledger' \in [Row -> RowState]
    BY <2>1, RecordsTyped DEF RowState
  <2> QED BY <1>3, <2>1, <2>2 DEF Begin
<1>4. CASE MarkSubmitted
  BY <1>4 DEF MarkSubmitted
<1>5. CASE Probe \/ StopsBeforeClick \/ AfterClick \/ Raises
  <2>1. /\ run' \in [at: Place, row: Row \cup {NoRow}, verdict: Verdict, outcome: Outcome]
        /\ run'.row = run.row /\ run.at # "idle"
        /\ run'.at \in {"known", "probing", "applying", "clicked", "resolving"} => run.row \in Row
    <3>1. CASE Probe BY <3>1 DEF Probe
    <3>2. CASE StopsBeforeClick BY <3>2 DEF StopsBeforeClick
    <3>3. CASE AfterClick BY <3>3 DEF AfterClick
    <3>4. CASE Raises BY <3>4 DEF Raises
    <3> QED BY <1>5, <3>1, <3>2, <3>3, <3>4
  <2>2. UNCHANGED <<status, ledger, taskVars, reviewing, snap, siteVars, crashes>>
    BY <1>5 DEF Probe, StopsBeforeClick, AfterClick, Raises
  <2> QED BY <2>1, <2>2
<1>6. CASE Click
  BY <1>6 DEF Click
<1>7. CASE Resolve
  <2>1. ledger' \in [Row -> RowState] /\ status' \in Status
    BY <1>7, RecordsTyped DEF Resolve, RowState
  <2>2. /\ \E place \in {"error", "finish"} : run' = [run EXCEPT !.at = place]
        /\ UNCHANGED <<taskVars, reviewing, snap, siteVars, crashes>>
    BY <1>7 DEF Resolve
  <2>3. run.at # "idle" /\ run'.at \in {"error", "finish"}
    BY <1>7, <2>2 DEF Resolve
  <2> QED BY <2>1, <2>2, <2>3
<1>8. CASE Finish
  <2>1. run' = AtRest /\ UNCHANGED <<status, ledger, attempt, queue, reviewing, snap, siteVars, crashes>>
    BY <1>8 DEF Finish
  <2>2. queue = "browser" /\ state \in {"running", "completed"} /\ ~reviewing
    BY <1>8 DEF Finish
  <2>3. CASE state = "running"
    <3>1. state' = run.outcome
      BY <1>8, <2>3, MovesOf DEF Finish, TryMove
    <3>2. asked' = IF run.outcome = "waiting_for_user" THEN asked + 1 ELSE asked
      BY <1>8, <2>3, MovesOf DEF Finish
    <3> QED BY <2>1, <2>2, <2>3, <3>1, <3>2 DEF AtRest, TaskState, Settled
  <2>4. CASE state = "completed"
    <3>1. UNCHANGED <<state, asked>>
      BY <1>8, <2>4, MovesOf DEF Finish, TryMove, TaskState, Settled
    <3> QED BY <2>1, <2>2, <2>4, <3>1 DEF AtRest
  <2> QED BY <2>2, <2>3, <2>4
<1>9. CASE Retry
  <2>1. run' = AtRest /\ UNCHANGED <<status, ledger, attempt, queue, asked, reviewing, snap, siteVars, crashes>>
    BY <1>9 DEF Retry
  <2>2. queue = "browser" /\ state \in {"running", "completed"} /\ ~reviewing
    BY <1>9 DEF Retry
  <2>3. state' \in {state, "retry_scheduled", "failed"} /\ (state = "completed" => state' = state)
    BY <1>9, MovesOf DEF Retry, TryMove, TaskState, Settled, Claimable
  <2> QED BY <2>1, <2>2, <2>3 DEF AtRest, TaskState, Settled, Claimable
<1>10. CASE Crash
  BY <1>10 DEF Crash, AtRest
<1> QED BY <1>1, <1>2, <1>3, <1>4, <1>5, <1>6, <1>7, <1>8, <1>9, <1>10 DEF WorkerStep

\* The dispatcher, the person and the synchronisation.
LEMMA TypeOthers ==
  ASSUME TypeInv, DispatcherStep \/ PersonStep \/ SyncStep
  PROVE  TypeInv'
<1> USE SubmissionAssumption, StatusTyped
    DEF TypeInv, TypeOK, HasRow, TaskInv, taskVars, siteVars, Claimable, Settled, TaskState
<1>1. CASE Review
  BY <1>1 DEF Review, TakesTask, More
<1>2. CASE ReviewEnds
  BY <1>2, MovesOf DEF ReviewEnds, TryMove
<1>3. CASE ReviewLost
  <2>1. /\ state' \in {state, "failed", "scheduled"}
        /\ state = "completed" => state' = state
    BY <1>3, Zenon DEF ReviewLost
  <2>2. reviewing' = FALSE /\ crashes' \in 0 .. MaxCrashes
        /\ UNCHANGED <<status, ledger, attempt, queue, asked, run, snap, siteVars>>
    BY <1>3 DEF ReviewLost
  <2>3. queue = "dispatcher" /\ state \in {"running", "completed"} /\ run.at = "idle"
    BY <1>3 DEF ReviewLost
  <2> QED BY <2>1, <2>2, <2>3
<1>4. CASE ScheduleApply \/ RetryTask \/ Resume
  <2>1. state \notin {"running", "completed"} /\ ~reviewing /\ run.at = "idle"
    BY <1>4 DEF ScheduleApply, RetryTask, Resume
  <2>2. state' = "scheduled" /\ asked' < MaxAsked /\ asked' \in 0 .. MaxAsked
    BY <1>4 DEF ScheduleApply, RetryTask, Resume
  <2>3. /\ UNCHANGED <<status, ledger, attempt, run, reviewing, snap, siteVars, crashes>>
        /\ queue' \in {queue, "browser"}
    BY <1>4 DEF ScheduleApply, RetryTask, Resume
  <2> QED BY <2>1, <2>2, <2>3
<1>5. CASE ApplyByHand
  BY <1>5 DEF ApplyByHand
<1>6. CASE SyncReads \/ SyncFindsNothing
  <2>1. snap' \in Status \cup {"none"}
        /\ UNCHANGED <<status, ledger, taskVars, run, reviewing, siteVars, crashes>>
    BY <1>6 DEF SyncReads, SyncFindsNothing
  <2> QED BY <2>1
<1>7. CASE ResolveSubmission
  <2>1. ledger' \in [Row -> RowState] /\ status' \in Status
    BY <1>7, RecordsTyped DEF ResolveSubmission, OpenRows, RowState
  <2> QED BY <1>7, <2>1 DEF ResolveSubmission
<1>8. ASSUME NEW decision \in {"approved", "rejected", "skipped"}, Decide(decision)
      PROVE  TypeInv'
  BY <1>8 DEF Decide
<1>9. ASSUME NEW new \in Targets, UpdateStatus(new)
      PROVE  TypeInv'
  <2>1. ledger' \in [Row -> RowState] /\ status' \in Status
    BY <1>9, RemembersTyped DEF UpdateStatus
  <2> QED BY <1>9, <2>1 DEF UpdateStatus
<1>10. CASE SyncWrites
  <2>1. ledger' \in [Row -> RowState] /\ status' \in Status
    BY <1>10, RemembersTyped DEF SyncWrites
  <2> QED BY <1>10, <2>1 DEF SyncWrites
<1> QED BY <1>1, <1>2, <1>3, <1>4, <1>5, <1>6, <1>7, <1>8, <1>9, <1>10
        DEF DispatcherStep, PersonStep, SyncStep

LEMMA TypeAlways == Spec => []TypeInv
<1>1. TypeInv /\ [Next]_vars => TypeInv'
  <2>1. CASE UNCHANGED vars
    BY <2>1 DEF vars, taskVars, siteVars, TypeInv, TypeOK, HasRow, TaskInv
  <2> QED BY <2>1, TypeWorker, TypeOthers DEF Next
<1> QED BY <1>1, TypeInit, PTL DEF Spec

\* Rows, task, checkpoints and worker keep their types, whoever writes the ledger.
THEOREM TypeCorrect == Spec => []TypeOK
<1>1. TypeInv => TypeOK
  BY DEF TypeInv
<1> QED BY <1>1, TypeAlways, PTL

\* A waiting browser task has a checkpoint, and a checkpoint is only written together
\* with the move to waiting: whatever is decided, retried, lost or resumed meanwhile.
THEOREM QuestionsHaveTheirTask == Spec => QuestionsMatchTheTask
<1>1. TypeInv => (state = "waiting_for_user" /\ queue = "browser" => asked > 0)
  BY DEF TypeInv, TaskInv
<1>2. TypeInv /\ [Next]_vars => [asked' > asked => state' = "waiting_for_user"]_vars
  <2>1. SUFFICES ASSUME TypeInv, Next, asked' > asked
                 PROVE  state' = "waiting_for_user"
    OBVIOUS
  <2>2. asked \in Int
    BY <2>1, SubmissionAssumption DEF TypeInv, TypeOK
  <2>3. Finish
    <3>1. ~Resume /\ \A decision \in {"approved", "rejected", "skipped"} : ~Decide(decision)
      BY <2>1, <2>2, SubmissionAssumption DEF Resume, Decide, TypeInv, TypeOK
    <3>2. asked' # asked
      BY <2>1, <2>2
    <3> QED
      BY <2>1, <3>1, <3>2
      DEF Next, WorkerStep, DispatcherStep, PersonStep, SyncStep, Claim, Load, Begin, MarkSubmitted,
          Probe, StopsBeforeClick, Click, AfterClick, Raises, Resolve, Retry, Crash, Review,
          ReviewEnds, ReviewLost, ScheduleApply, RetryTask, UpdateStatus, ResolveSubmission,
          ApplyByHand, SyncReads, SyncWrites, SyncFindsNothing, taskVars
  <2>4. run.outcome = "waiting_for_user" /\ CanMove(state, run.outcome)
    BY <2>1, <2>2, <2>3 DEF Finish
  <2> QED BY <2>3, <2>4 DEF Finish, TryMove
<1> QED BY <1>1, <1>2, TypeAlways, PTL DEF Spec, QuestionsMatchTheTask

-------------------------------------------------------------------------------
(* The status                                                               *)

\* Only the synchronisation acts on a status it read earlier.
THEOREM WithdrawnStays ==
  ASSUME "stale" \notin InFlight
  PROVE  Spec => WithdrawnIsFinal
<1>1. TypeInv /\ [Next]_vars => [status = "withdrawn" => status' = "withdrawn"]_vars
  <2>1. SUFFICES ASSUME TypeInv, Next, status = "withdrawn"
                 PROVE  status' = status
    OBVIOUS
  <2>2. CASE MarkSubmitted \/ Resolve \/ ResolveSubmission
    BY <2>1, <2>2, SubmittedIsNotWithdrawn DEF MarkSubmitted, Resolve, ResolveSubmission
  <2>3. CASE SyncWrites
    BY <2>1, <2>3, SubmittedIsNotWithdrawn DEF SyncWrites
  <2>4. ASSUME NEW new \in Targets, UpdateStatus(new)
        PROVE  FALSE
    BY <2>1, <2>4, WithdrawnHasNoWayOut, SubmissionAssumption DEF UpdateStatus
  <2>5. \A decision \in {"approved", "rejected", "skipped"} : ~Decide(decision)
    BY <2>1 DEF Decide
  <2> QED
    BY <2>1, <2>2, <2>3, <2>4, <2>5
    DEF Next, WorkerStep, DispatcherStep, PersonStep, SyncStep, Claim, Load, Begin,
        Probe, StopsBeforeClick, Click, AfterClick, Raises, Finish, Retry, Crash, Review,
        ReviewEnds, ReviewLost, ScheduleApply, RetryTask, Resume, ApplyByHand, SyncReads,
        SyncFindsNothing
<1> QED BY <1>1, TypeAlways, PTL DEF Spec, WithdrawnIsFinal

-------------------------------------------------------------------------------
(* What a row says of what was sent                                         *)

\* A row is sent while its worker has it, and the worker calls it failed only before.
SentInv ==
  /\ \A r \in sent : ledger[r] \notin {"none", "failed"}
  /\ run.at = "applying" => run.row \notin sent
  /\ run.at \in {"applying", "clicked"} => ledger[run.row] \notin {"none", "failed"}
  /\ run.at = "resolving" /\ run.verdict = "failed" => run.row \notin sent

\* The writers beside the worker and the answer "not submitted" only confirm.
LEMMA RemembersConfirms ==
  ASSUME TypeInv, Remembers
  PROVE  /\ \A r \in Row : ledger'[r] \in {ledger[r], "confirmed"}
         /\ \E r \in Row : ledger'[r] = "confirmed"
BY DEF Remembers, Records, OpenRows, Unused, TypeInv, TypeOK

\* Confirming rows does not disturb SentInv.
LEMMA SentConfirm ==
  ASSUME SentInv, TypeInv, UNCHANGED <<run, sent>>,
         \A r \in Row : ledger'[r] \in {ledger[r], "confirmed"}
  PROVE  SentInv'
<1>1. \A r \in sent : r \in Row
  BY DEF TypeInv, TypeOK
<1>2. run.at \in {"applying", "clicked"} => run.row \in Row
  BY DEF TypeInv, HasRow
<1> QED BY <1>1, <1>2 DEF SentInv

LEMMA SentWorker ==
  ASSUME AttemptsKnown, TypeInv, SentInv, WorkerStep \/ Crash
  PROVE  SentInv'
<1>0. /\ ledger \in [Row -> RowState] /\ sent \subseteq Row
      /\ run \in [at: Place, row: Row \cup {NoRow}, verdict: Verdict, outcome: Outcome]
  BY DEF TypeInv, TypeOK
<1>1. CASE Begin
  <2>1. PICK r \in Row : \/ /\ ledger[r] = "none" /\ Records(r, "attempting")
                            /\ run' = [run EXCEPT !.at = "applying", !.row = r]
                         \/ /\ UNCHANGED ledger /\ run'.at \in {"known", "probing"}
    BY <1>0, <1>1 DEF Begin, Unused, OpenRows
  <2>2. UNCHANGED sent
    BY <1>1 DEF Begin, siteVars
  <2>3. CASE UNCHANGED ledger /\ run'.at \in {"known", "probing"}
    BY <2>2, <2>3 DEF SentInv
  <2>4. CASE /\ ledger[r] = "none" /\ Records(r, "attempting")
             /\ run' = [run EXCEPT !.at = "applying", !.row = r]
    <3>1. run'.at = "applying" /\ run'.row = r /\ r \notin sent
      BY <1>0, <2>4 DEF SentInv
    <3>2. \A q \in Row : ledger'[q] = IF q = r THEN "attempting" ELSE ledger[q]
      BY <1>0, <2>4 DEF Records
    <3> QED BY <1>0, <2>2, <3>1, <3>2 DEF SentInv
  <2> QED BY <2>1, <2>3, <2>4
<1>2. CASE Click
  BY <1>0, <1>2 DEF Click, Goes, SentInv
<1>3. CASE Resolve
  <2>1. run'.at \in {"error", "finish"} /\ UNCHANGED sent
    BY <1>0, <1>3 DEF Resolve, Goes, siteVars
  <2>2. CASE UNCHANGED ledger
    BY <2>1, <2>2 DEF SentInv
  <2>3. CASE Records(run.row, run.verdict)
    <3>1. \A r \in Row : ledger'[r] = IF r = run.row THEN run.verdict ELSE ledger[r]
      BY <1>0, <2>3 DEF Records
    <3>2. run.verdict \in {"confirmed", "unknown"} \/ run.row \notin sent
      BY <1>0, <1>3 DEF Resolve, SentInv, Verdict
    <3> QED BY <1>0, <2>1, <3>1, <3>2 DEF SentInv
  <2> QED BY <1>3, <2>2, <2>3 DEF Resolve
<1>4. CASE StopsBeforeClick
  BY <1>0, <1>4 DEF StopsBeforeClick, Will, SentInv, siteVars
<1>5. CASE AfterClick
  BY <1>0, <1>5 DEF AfterClick, Will, SentInv, siteVars, AttemptsKnown
<1>6. CASE Claim \/ Load \/ MarkSubmitted \/ Probe \/ Raises \/ Finish \/ Retry \/ Crash
  <2>1. UNCHANGED <<ledger, sent>>
    BY <1>6 DEF Claim, Load, MarkSubmitted, Probe, Raises, Finish, Retry, Crash, siteVars
  <2>2. /\ run'.at \notin {"applying", "clicked"}
        /\ run'.at = "resolving" => run'.verdict = "confirmed"
    <3>1. CASE Claim \/ Load \/ MarkSubmitted \/ Raises
      BY <1>0, <3>1 DEF Claim, Load, MarkSubmitted, Raises, Goes, Ends
    <3>2. CASE Probe
      BY <1>0, <3>2 DEF Probe, Ends, Will
    <3>3. CASE Finish \/ Retry \/ Crash
      BY <3>3, AtRestTyped DEF Finish, Retry, Crash
    <3> QED BY <1>6, <3>1, <3>2, <3>3
  <2> QED BY <2>1, <2>2 DEF SentInv
<1> QED BY <1>1, <1>2, <1>3, <1>4, <1>5, <1>6 DEF WorkerStep

LEMMA SentOthers ==
  ASSUME AttemptsKnown, TypeInv, SentInv, DispatcherStep \/ PersonStep \/ SyncStep
  PROVE  SentInv'
<1>0. ledger \in [Row -> RowState] /\ sent \subseteq Row
  BY DEF TypeInv, TypeOK
<1>1. UNCHANGED <<run, sent>>
  BY DEF DispatcherStep, PersonStep, SyncStep, Review, ReviewEnds, ReviewLost, ScheduleApply,
         RetryTask, Resume, ResolveSubmission, ApplyByHand, Decide, UpdateStatus, SyncReads,
         SyncWrites, SyncFindsNothing, siteVars
<1>2. CASE ResolveSubmission
  <2>1. run.at \notin {"applying", "clicked", "resolving"}
    BY <1>2 DEF ResolveSubmission, MayWrite, Writing, AttemptsKnown
  <2>2. PICK r \in Row : \/ Records(r, "confirmed")
                         \/ sent = {} /\ Records(r, "failed")
    BY <1>2 DEF ResolveSubmission, OpenRows
  <2>3. CASE Records(r, "confirmed")
    BY <1>0, <1>1, <2>3, SentConfirm DEF Records
  <2>4. CASE sent = {} /\ Records(r, "failed")
    BY <1>1, <2>1, <2>4 DEF SentInv
  <2> QED BY <2>2, <2>3, <2>4
<1>3. CASE ~ResolveSubmission
  <2>1. UNCHANGED ledger \/ Remembers
    BY <1>3 DEF DispatcherStep, PersonStep, SyncStep, Review, ReviewEnds, ReviewLost,
                ScheduleApply, RetryTask, Resume, ApplyByHand, Decide, UpdateStatus, SyncReads,
                SyncWrites, SyncFindsNothing
  <2> QED BY <1>1, <2>1, SentConfirm, RemembersConfirms
<1> QED BY <1>2, <1>3

LEMMA SentAlways ==
  ASSUME AttemptsKnown
  PROVE  Spec => []SentInv
<1>1. Init => SentInv
  BY DEF Init, SentInv, AtRest
<1>2. TypeInv /\ SentInv /\ [Next]_vars => SentInv'
  <2>1. CASE UNCHANGED vars
    BY <2>1 DEF vars, siteVars, SentInv
  <2> QED BY <2>1, SentWorker, SentOthers DEF Next
<1> QED BY <1>1, <1>2, TypeAlways, PTL DEF Spec

\* A row that frees the application for a retry is never that of an attempt that went
\* through, even while the person and the synchronisation confirm rows at any moment.
THEOREM FailedWasNotSent ==
  ASSUME AttemptsKnown
  PROVE  Spec => []FailedNeverSent
<1>1. SentInv => FailedNeverSent
  BY DEF SentInv, FailedNeverSent
<1> QED BY <1>1, SentAlways, PTL

-------------------------------------------------------------------------------
(* What a status says of the ledger                                         *)

OneOpenRow == \A r, s \in OpenRows : r = s

\* At most one row is open, the worker's is as it left it, and the status is on record.
LedgerInv ==
  /\ OneOpenRow
  /\ SubmittedIsOnRecord
  /\ run.at = "known" => ledger[run.row] = "confirmed"
  /\ run.at \in {"applying", "clicked"} => ledger[run.row] = "attempting"
  /\ run.at = "resolving" /\ run.verdict # "confirmed" => ledger[run.row] = "attempting"

\* Only statuses that imply a submission lead to such statuses without a new row.
LEMMA ImpliedComesFromImplied ==
  ASSUME NEW s \in POST_SUBMISSION, NEW new \in Status, check_transition(s, new, "human") = "moves"
  PROVE  s \in SUBMISSION_IMPLIED
<1>1. s # "withdrawn"
  BY WithdrawnHasNoWayOut
<1> QED BY <1>1 DEF POST_SUBMISSION

LEMMA SubmittedIsImplied ==
  /\ "submitted" \in SUBMISSION_IMPLIED
  /\ {"awaiting_review", "approved", "rejected", "skipped"} \cap SUBMISSION_IMPLIED = {}
BY DEF SUBMISSION_IMPLIED, TRACKING

\* Remembers keeps one row open, and confirms it.
LEMMA RemembersOneOpen ==
  ASSUME TypeInv, OneOpenRow, Remembers
  PROVE  OneOpenRow'
<1>0. ledger \in [Row -> RowState]
  BY DEF TypeInv, TypeOK
<1>1. PICK r \in Row : /\ \A q \in OpenRows : q = r
                       /\ ledger' = [ledger EXCEPT ![r] = "confirmed"]
  <2>1. CASE OpenRows = {}
    BY <2>1 DEF Remembers, Records, Unused
  <2>2. CASE OpenRows # {}
    <3>1. PICK r \in OpenRows : ledger' = [ledger EXCEPT ![r] = "confirmed"]
      BY <2>2 DEF Remembers, Records
    <3>2. r \in Row
      BY DEF OpenRows
    <3> QED BY <3>1, <3>2 DEF OneOpenRow
  <2> QED BY <2>1, <2>2
<1>2. \A q \in Row : q # r => ledger'[q] = ledger[q]
  BY <1>0, <1>1
<1> QED BY <1>1, <1>2 DEF OneOpenRow, OpenRows

\* A commit beside the worker, which has no attempt under way: it may confirm a row, and
\* it does when the status comes to imply a submission.
LEMMA LedgerConfirm ==
  ASSUME TypeInv, LedgerInv, UNCHANGED run, ~Writing, Remembers
  PROVE  LedgerInv'
<1>1. OneOpenRow'
  BY RemembersOneOpen DEF LedgerInv
<1>2. SubmittedIsOnRecord'
  BY RemembersConfirms DEF SubmittedIsOnRecord
<1>3. run.at = "known" => ledger'[run.row] = "confirmed"
  BY RemembersConfirms DEF LedgerInv, TypeInv, HasRow
<1> QED BY <1>1, <1>2, <1>3 DEF LedgerInv, Writing

LEMMA LedgerWorker ==
  ASSUME TypeInv, LedgerInv, WorkerStep \/ Crash
  PROVE  LedgerInv'
<1>0. /\ ledger \in [Row -> RowState]
      /\ run \in [at: Place, row: Row \cup {NoRow}, verdict: Verdict, outcome: Outcome]
  BY DEF TypeInv, TypeOK
<1>1. CASE Begin
  <2>1. UNCHANGED status
    BY <1>1 DEF Begin
  <2>2. CASE /\ OpenRows = {}
             /\ \E r \in Unused : /\ Records(r, "attempting")
                                  /\ run' = [run EXCEPT !.at = "applying", !.row = r]
    <3>1. PICK r \in Unused : /\ Records(r, "attempting")
                              /\ run' = [run EXCEPT !.at = "applying", !.row = r]
      BY <2>2
    <3>2. r \in Row /\ ledger[r] = "none"
      BY DEF Unused
    <3>3. \A q \in Row : ledger'[q] = IF q = r THEN "attempting" ELSE ledger[q]
      BY <1>0, <3>1, <3>2 DEF Records
    <3>4. run'.at = "applying" /\ run'.row = r
      BY <1>0, <3>1
    <3>5. OneOpenRow'
      BY <2>2, <3>2, <3>3 DEF OneOpenRow, OpenRows
    <3>6. SubmittedIsOnRecord'
      BY <2>1, <3>2, <3>3 DEF LedgerInv, SubmittedIsOnRecord
    <3> QED BY <3>2, <3>3, <3>4, <3>5, <3>6 DEF LedgerInv
  <2>3. CASE \E r \in OpenRows :
               /\ run' = [run EXCEPT !.at = IF ledger[r] = "confirmed" THEN "known" ELSE "probing",
                                     !.row = r]
               /\ UNCHANGED ledger
    <3>1. run'.at \in {"known", "probing"} /\ (run'.at = "known" => ledger[run'.row] = "confirmed")
          /\ UNCHANGED ledger
      BY <1>0, <2>3
    <3> QED BY <2>1, <3>1 DEF LedgerInv, OneOpenRow, OpenRows, SubmittedIsOnRecord
  <2> QED BY <1>1, <2>2, <2>3 DEF Begin
<1>2. CASE MarkSubmitted
  <2>1. run.row \in Row /\ ledger[run.row] = "confirmed"
    BY <1>2 DEF MarkSubmitted, TypeInv, HasRow, LedgerInv
  <2>2. UNCHANGED ledger /\ run'.at \in {"error", "finish"}
    BY <1>0, <1>2 DEF MarkSubmitted, Goes, Ends
  <2> QED BY <2>1, <2>2 DEF LedgerInv, OneOpenRow, OpenRows, SubmittedIsOnRecord
<1>3. CASE Resolve
  <2>1. run'.at \in {"error", "finish"}
    BY <1>0, <1>3 DEF Resolve, Goes
  <2>2. CASE UNCHANGED <<status, ledger>>
    BY <2>1, <2>2 DEF LedgerInv, OneOpenRow, OpenRows, SubmittedIsOnRecord
  <2>3. CASE /\ Records(run.row, run.verdict)
             /\ status' = IF run.verdict = "confirmed" THEN "submitted" ELSE status
             /\ run.verdict \in OPEN_STATES => OpenRows \ {run.row} = {}
    <3>1. run.row \in Row /\ (run.verdict = "confirmed" \/ ledger[run.row] = "attempting")
      BY <1>3 DEF Resolve, TypeInv, HasRow, LedgerInv
    <3>2. \A r \in Row : ledger'[r] = IF r = run.row THEN run.verdict ELSE ledger[r]
      BY <1>0, <2>3, <3>1 DEF Records
    <3>3. OneOpenRow'
      BY <2>3, <3>1, <3>2 DEF LedgerInv, OneOpenRow, OpenRows
    <3>4. SubmittedIsOnRecord'
      BY <2>3, <3>1, <3>2 DEF LedgerInv, SubmittedIsOnRecord
    <3> QED BY <2>1, <3>3, <3>4 DEF LedgerInv
  <2> QED BY <1>3, <2>2, <2>3 DEF Resolve
<1>4. CASE Probe \/ StopsBeforeClick \/ Click \/ AfterClick
  <2>1. UNCHANGED <<status, ledger>>
    BY <1>4 DEF Probe, StopsBeforeClick, Click, AfterClick
  <2>2. /\ run'.row = run.row
        /\ \/ run'.at = "finish"
           \/ run'.at = "resolving" /\ run'.verdict = "confirmed"
           \/ run.at \in {"applying", "clicked"} /\ run'.at \in {"clicked", "resolving"}
    <3>1. CASE Probe BY <1>0, <3>1 DEF Probe, Ends, Will
    <3>2. CASE StopsBeforeClick BY <1>0, <3>2 DEF StopsBeforeClick, Will
    <3>3. CASE Click BY <1>0, <3>3 DEF Click, Goes
    <3>4. CASE AfterClick BY <1>0, <3>4 DEF AfterClick, Will
    <3> QED BY <1>4, <3>1, <3>2, <3>3, <3>4
  <2> QED BY <2>1, <2>2 DEF LedgerInv, OneOpenRow, OpenRows, SubmittedIsOnRecord
<1>5. CASE Claim \/ Load \/ Raises \/ Finish \/ Retry \/ Crash
  <2>1. UNCHANGED <<status, ledger>>
    BY <1>5 DEF Claim, Load, Raises, Finish, Retry, Crash
  <2>2. run'.at \notin {"known", "applying", "clicked", "resolving"}
    <3>1. CASE Claim \/ Load \/ Raises
      BY <1>0, <3>1 DEF Claim, Load, Raises, Goes, Ends
    <3>2. CASE Finish \/ Retry \/ Crash
      BY <3>2, AtRestTyped DEF Finish, Retry, Crash
    <3> QED BY <1>5, <3>1, <3>2
  <2> QED BY <2>1, <2>2 DEF LedgerInv, OneOpenRow, OpenRows, SubmittedIsOnRecord
<1> QED BY <1>1, <1>2, <1>3, <1>4, <1>5 DEF WorkerStep

LEMMA LedgerOthers ==
  ASSUME LedgerLeftAlone, TypeInv, LedgerInv, DispatcherStep \/ PersonStep \/ SyncStep
  PROVE  LedgerInv'
<1>0. ledger \in [Row -> RowState] /\ status \in Status /\ Targets \subseteq Status
  BY SubmissionAssumption DEF TypeInv, TypeOK
<1>1. UNCHANGED run
  BY DEF DispatcherStep, PersonStep, SyncStep, Review, ReviewEnds, ReviewLost, ScheduleApply,
         RetryTask, Resume, ResolveSubmission, ApplyByHand, Decide, UpdateStatus, SyncReads,
         SyncWrites, SyncFindsNothing
<1>2. CASE ResolveSubmission
  <2>1. ~Writing
    BY <1>2 DEF ResolveSubmission, MayWrite, LedgerLeftAlone
  <2>2. PICK r \in OpenRows :
          /\ ledger[r] # "confirmed"
          /\ \/ Records(r, "confirmed") /\ status' = "submitted"
             \/ Records(r, "failed") /\ UNCHANGED status
    BY <1>2 DEF ResolveSubmission
  <2>3. r \in Row
    BY DEF OpenRows
  <2>4. PICK new \in {"confirmed", "failed"} :
          /\ \A q \in Row : ledger'[q] = IF q = r THEN new ELSE ledger[q]
          /\ new = "confirmed" \/ UNCHANGED status
    BY <1>0, <2>2, <2>3 DEF Records
  <2>5. OneOpenRow'
    BY <2>2, <2>4 DEF LedgerInv, OneOpenRow, OpenRows
  <2>6. SubmittedIsOnRecord'
    BY <2>2, <2>3, <2>4 DEF LedgerInv, SubmittedIsOnRecord
  <2>7. run.at = "known" => ledger'[run.row] = "confirmed"
    BY <2>2, <2>4 DEF LedgerInv, TypeInv, HasRow
  <2> QED BY <1>1, <2>1, <2>5, <2>6, <2>7 DEF LedgerInv, Writing
<1>3. CASE Remembers /\ ~ResolveSubmission /\ ledger' # ledger
  <2>1. ~Writing
    BY <1>3 DEF DispatcherStep, PersonStep, SyncStep, Review, ReviewEnds, ReviewLost,
                ScheduleApply, RetryTask, Resume, ApplyByHand, Decide, UpdateStatus, SyncReads,
                SyncWrites, SyncFindsNothing, MayWrite, LedgerLeftAlone
  <2> QED BY <1>1, <1>3, <2>1, LedgerConfirm
<1>4. CASE UNCHANGED ledger
  <2>1. status' \in SUBMISSION_IMPLIED => SubmittedIsOnRecord' \/ status \in SUBMISSION_IMPLIED
    <3>1. CASE Remembers
      BY <3>1, RemembersConfirms DEF SubmittedIsOnRecord
    <3>2. CASE ~Remembers /\ ~ResolveSubmission
      <4>1. CASE UNCHANGED status
        BY <4>1
      <4>2. ASSUME NEW decision \in {"approved", "rejected", "skipped"}, Decide(decision)
            PROVE  status' \notin SUBMISSION_IMPLIED
        BY <4>2, SubmittedIsImplied DEF Decide
      <4>3. ASSUME NEW new \in Targets, UpdateStatus(new), new \in SUBMISSION_IMPLIED
            PROVE  status \in SUBMISSION_IMPLIED
        BY <1>0, <3>2, <4>3, ImpliedComesFromImplied DEF UpdateStatus
      <4>4. ASSUME NEW new \in Targets, UpdateStatus(new)
            PROVE  status' = new
        BY <4>4 DEF UpdateStatus
      <4> QED
        BY <3>2, <4>1, <4>2, <4>3, <4>4
        DEF DispatcherStep, PersonStep, SyncStep, Review, ReviewEnds, ReviewLost, ScheduleApply,
            RetryTask, Resume, ApplyByHand, SyncReads, SyncWrites, SyncFindsNothing
    <3>3. CASE ResolveSubmission
      BY <1>0, <1>4, <3>3 DEF ResolveSubmission, Records, OpenRows
    <3> QED BY <3>1, <3>2, <3>3
  <2> QED BY <1>1, <1>4, <2>1 DEF LedgerInv, OneOpenRow, OpenRows, SubmittedIsOnRecord
<1>5. UNCHANGED ledger \/ Remembers \/ ResolveSubmission
  BY DEF DispatcherStep, PersonStep, SyncStep, Review, ReviewEnds, ReviewLost,
         ScheduleApply, RetryTask, Resume, ApplyByHand, Decide, UpdateStatus, SyncReads,
         SyncWrites, SyncFindsNothing
<1> QED BY <1>2, <1>3, <1>4, <1>5

LEMMA LedgerAlways ==
  ASSUME LedgerLeftAlone
  PROVE  Spec => []LedgerInv
<1>1. Init => LedgerInv
  BY SubmittedIsImplied
  DEF Init, LedgerInv, OneOpenRow, OpenRows, OPEN_STATES, SubmittedIsOnRecord, AtRest
<1>2. TypeInv /\ LedgerInv /\ [Next]_vars => LedgerInv'
  <2>1. CASE UNCHANGED vars
    BY <2>1 DEF vars, LedgerInv, OneOpenRow, OpenRows, SubmittedIsOnRecord
  <2> QED BY <2>1, LedgerWorker, LedgerOthers DEF Next
<1> QED BY <1>1, <1>2, TypeAlways, PTL DEF Spec

\* Whichever way an application came to a status that implies its submission, a confirmed
\* row says so.
THEOREM SubmissionsAreOnRecord ==
  ASSUME LedgerLeftAlone
  PROVE  Spec => []SubmittedIsOnRecord
<1>1. LedgerInv => SubmittedIsOnRecord
  BY DEF LedgerInv
<1> QED BY <1>1, LedgerAlways, PTL

\* Once the application is known as submitted, nothing is clicked any more: an attempt
\* under way is the only open row.
THEOREM ConfirmedIsNotSentAgain ==
  ASSUME LedgerLeftAlone
  PROVE  Spec => ConfirmedNeverSentAgain
<1>1. TypeInv /\ LedgerInv /\ [Next]_vars
        => [(\E r \in Row : ledger[r] = "confirmed") => sent' = sent]_vars
  <2>1. SUFFICES ASSUME TypeInv, LedgerInv, Next, NEW r \in Row, ledger[r] = "confirmed"
                 PROVE  UNCHANGED sent
    OBVIOUS
  <2>2. ~Click
    <3>1. SUFFICES ASSUME Click PROVE FALSE
      OBVIOUS
    <3>2. run.row \in Row /\ ledger[run.row] = "attempting"
      BY <2>1, <3>1 DEF Click, TypeInv, HasRow, LedgerInv
    <3>3. r = run.row
      BY <2>1, <3>2 DEF LedgerInv, OneOpenRow, OpenRows, OPEN_STATES
    <3> QED BY <2>1, <3>2, <3>3
  <2> QED
    BY <2>1, <2>2
    DEF Next, WorkerStep, DispatcherStep, PersonStep, SyncStep, Claim, Load, Begin, MarkSubmitted,
        Probe, StopsBeforeClick, AfterClick, Raises, Resolve, Finish, Retry, Crash, Review,
        ReviewEnds, ReviewLost, ScheduleApply, RetryTask, Resume, UpdateStatus, ResolveSubmission,
        ApplyByHand, Decide, SyncReads, SyncWrites, SyncFindsNothing, siteVars
<1> QED BY <1>1, TypeAlways, LedgerAlways, PTL DEF Spec, ConfirmedNeverSentAgain

-------------------------------------------------------------------------------
(* Refinement of SubmitOnce                                                 *)

\* The row opened, confirmed, left unsettled or found failed.
Opens(r)    == OpenRows = {} /\ ledger[r] = "none" /\ Records(r, "attempting")
Confirms(r) == OpenRows \subseteq {r} /\ Records(r, "confirmed")
Doubts(r)   == ledger[r] = "attempting" /\ Records(r, "unknown")
Frees(r)    == r \in OpenRows \ sent /\ ledger[r] # "confirmed" /\ Records(r, "failed")

\* A step sends the row of its attempt, or writes one row in one of four ways.
LEMMA LedgerSteps ==
  ASSUME AttemptsKnown, LedgerLeftAlone, TypeInv, SentInv, LedgerInv, Next
  PROVE  \/ UNCHANGED <<ledger, sent>>
         \/ /\ UNCHANGED ledger
            /\ run.at = "applying" /\ sent' = sent \cup {run.row}
         \/ /\ UNCHANGED sent
            /\ \E r \in Row : Opens(r) \/ Confirms(r) \/ Doubts(r) \/ Frees(r)
<1>0. /\ ledger \in [Row -> RowState] /\ sent \subseteq Row
      /\ run \in [at: Place, row: Row \cup {NoRow}, verdict: Verdict, outcome: Outcome]
  BY DEF TypeInv, TypeOK
<1>1. CASE Begin
  BY <1>1 DEF Begin, Unused, Opens, siteVars
<1>2. CASE Click
  BY <1>2 DEF Click
<1>3. CASE Resolve
  <2>1. UNCHANGED sent /\ run.row \in Row
    BY <1>3 DEF Resolve, siteVars, TypeInv, HasRow
  <2>2. CASE /\ Records(run.row, run.verdict)
             /\ run.verdict \in OPEN_STATES => OpenRows \ {run.row} = {}
    <3>1. CASE run.verdict = "confirmed"
      BY <2>1, <2>2, <3>1 DEF Confirms, OPEN_STATES
    <3>2. CASE run.verdict = "unknown"
      BY <1>3, <2>1, <2>2, <3>2 DEF Resolve, LedgerInv, Doubts
    <3>3. CASE run.verdict = "failed"
      BY <1>3, <2>1, <2>2, <3>3 DEF Resolve, LedgerInv, SentInv, Frees, OpenRows, OPEN_STATES
    <3> QED BY <1>0, <3>1, <3>2, <3>3 DEF Verdict
  <2> QED BY <1>3, <2>1, <2>2 DEF Resolve
<1>4. CASE ResolveSubmission
  <2>1. UNCHANGED sent
    BY <1>4 DEF ResolveSubmission, siteVars
  <2>2. PICK r \in OpenRows :
          /\ ledger[r] # "confirmed"
          /\ Records(r, "confirmed") \/ (sent = {} /\ Records(r, "failed"))
    BY <1>4 DEF ResolveSubmission
  <2>3. r \in Row /\ OpenRows \subseteq {r}
    BY DEF OpenRows, LedgerInv, OneOpenRow
  <2> QED BY <2>1, <2>2, <2>3 DEF Confirms, Frees
<1>5. CASE Remembers /\ UNCHANGED sent
  <2>1. \E r \in Row : OpenRows \subseteq {r} /\ Records(r, "confirmed")
    BY <1>5 DEF Remembers, Unused, OpenRows, LedgerInv, OneOpenRow
  <2> QED BY <1>5, <2>1 DEF Confirms
<1>6. ASSUME ~Begin, ~Click, ~Resolve, ~ResolveSubmission
      PROVE  UNCHANGED sent /\ (UNCHANGED ledger \/ Remembers)
  BY <1>6
  DEF Next, WorkerStep, DispatcherStep, PersonStep, SyncStep, Claim, Load, MarkSubmitted,
      Probe, StopsBeforeClick, AfterClick, Raises, Finish, Retry, Crash, Review,
      ReviewEnds, ReviewLost, ScheduleApply, RetryTask, Resume, UpdateStatus, ApplyByHand,
      Decide, SyncReads, SyncWrites, SyncFindsNothing, siteVars
<1> QED BY <1>1, <1>2, <1>3, <1>4, <1>5, <1>6

\* The books, as SubmitOnce sees them.
Book == IF \E r \in Row : ledger[r] = "confirmed" THEN "closed"
        ELSE IF OpenRows # {} THEN "open" ELSE "clear"

\* What is sent is on the books, so at most one row is.
LEMMA SentIsOpen ==
  ASSUME TypeInv, SentInv, LedgerInv
  PROVE  /\ sent \subseteq OpenRows
         /\ \A r \in OpenRows : sent \subseteq {r}
BY DEF TypeInv, TypeOK, RowState, SentInv, LedgerInv, OneOpenRow, OpenRows, OPEN_STATES

LEMMA RefinementStep ==
  ASSUME AttemptsKnown, LedgerLeftAlone, TypeInv, SentInv, LedgerInv, [Next]_vars
  PROVE  [Once!Next]_<<Book, Cardinality(sent)>>
<1> USE DEF OPEN_STATES
<1>0. ledger \in [Row -> RowState] /\ sent \subseteq Row
  BY DEF TypeInv, TypeOK
<1>1. CASE UNCHANGED <<ledger, sent>>
  BY <1>1 DEF Book, OpenRows
<1>2. CASE UNCHANGED ledger /\ run.at = "applying" /\ sent' = sent \cup {run.row}
  <2>1. run.row \in OpenRows /\ ledger[run.row] = "attempting" /\ run.row \notin sent
    BY <1>2 DEF TypeInv, HasRow, LedgerInv, SentInv, OpenRows
  <2>2. Book = "open" /\ Book' = "open"
    BY <1>2, <2>1 DEF Book, OpenRows, LedgerInv, OneOpenRow
  <2>3. sent = {} /\ sent' = {run.row}
    BY <1>2, <2>1, SentIsOpen
  <2>4. Cardinality(sent) = 0 /\ Cardinality(sent') = 1
    BY <2>3, FS_EmptySet, FS_Singleton
  <2> QED BY <2>2, <2>4 DEF Once!Next, Once!Send, Book, OpenRows
<1>3. ASSUME UNCHANGED sent, NEW r \in Row, Opens(r) \/ Confirms(r) \/ Doubts(r) \/ Frees(r)
      PROVE  Once!Next \/ UNCHANGED <<Book, Cardinality(sent)>>
  <2>1. \A q \in Row : q # r => ledger'[q] = ledger[q]
    BY <1>0, <1>3 DEF Opens, Confirms, Doubts, Frees, Records
  <2>2. UNCHANGED Cardinality(sent)
    BY <1>3
  <2>3. CASE Opens(r)
    <3>1. ledger'[r] = "attempting"
      BY <1>0, <2>3 DEF Opens, Records
    <3>2. Book = "clear" /\ Book' = "open"
      BY <2>1, <2>3, <3>1 DEF Opens, Book, OpenRows
    <3> QED BY <2>2, <3>2 DEF Once!Next, Once!Open, Book, OpenRows
  <2>4. CASE Confirms(r)
    <3>1. ledger'[r] = "confirmed"
      BY <1>0, <2>4 DEF Confirms, Records
    <3>2. Book' = "closed"
      BY <3>1 DEF Book
    <3> QED BY <2>2, <3>2 DEF Once!Next, Once!Close, Book, OpenRows
  <2>5. CASE Doubts(r)
    <3>1. ledger'[r] = "unknown" /\ r \in OpenRows
      BY <1>0, <2>5 DEF Doubts, Records, OpenRows
    <3>2. Book = "open" /\ Book' = "open"
      BY <2>1, <2>5, <3>1 DEF Doubts, Book, OpenRows, LedgerInv, OneOpenRow
    <3> QED BY <2>2, <3>2 DEF Book, OpenRows
  <2>6. CASE Frees(r)
    <3>1. ledger'[r] = "failed"
      BY <1>0, <2>6 DEF Frees, Records
    <3>2. Book = "open" /\ Book' = "clear"
      BY <2>1, <2>6, <3>1 DEF Frees, Book, OpenRows, LedgerInv, OneOpenRow
    <3>3. Cardinality(sent) = 0
      BY <2>6, SentIsOpen, FS_EmptySet DEF Frees
    <3> QED BY <2>2, <3>2, <3>3 DEF Once!Next, Once!Clear, Book, OpenRows
  <2> QED BY <1>3, <2>3, <2>4, <2>5, <2>6
<1>4. CASE UNCHANGED vars
  BY <1>1, <1>4 DEF vars, siteVars
<1> QED BY <1>1, <1>2, <1>3, <1>4, LedgerSteps

\* The program sends an application at most once, only with an attempt on the books, and
\* clears the books for another attempt only if nothing was sent: whatever crashes,
\* raises, is retried, decided or synchronised meanwhile.
THEOREM LedgerImplementsSubmitOnce ==
  ASSUME AttemptsKnown, LedgerLeftAlone
  PROVE  Spec => SubmitsOnce
<1>1. Init => Once!Init
  BY FS_EmptySet DEF Init, Once!Init, OpenRows, OPEN_STATES
<1>2. TypeInv /\ SentInv /\ LedgerInv /\ [Next]_vars
        => [Once!Next]_<<IF \E r \in Row : ledger[r] = "confirmed" THEN "closed"
                        ELSE IF OpenRows # {} THEN "open" ELSE "clear", Cardinality(sent)>>
  BY RefinementStep DEF Book
<1> QED BY <1>1, <1>2, TypeAlways, SentAlways, LedgerAlways, PTL DEF Spec, SubmitsOnce, Once!Spec
===============================================================================
