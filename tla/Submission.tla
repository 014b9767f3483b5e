------------------------------ MODULE Submission ------------------------------
(***************************************************************************)
(* The real submission of one hh.ru or LinkedIn application: its status,   *)
(* its ledger of attempts (app/services/application_lifecycle.py), its one *)
(* durable task (app/services/recruitment.py), the browser worker that     *)
(* sends it (app/workers/browser_tasks.py), the person, and the status     *)
(* synchronisation (app/services/application_sync.py).                     *)
(*                                                                         *)
(* The job site is the environment: it accepts a click or not, and shows   *)
(* an application as submitted only if it has one.                         *)
(***************************************************************************)
EXTENDS Integers, FiniteSets, TaskStates, ApplicationLifecycle

CONSTANTS
  Row,          \* rows of application_submissions this application may get
  NoRow,
  MaxAttempts,  \* worker_max_attempts
  Targets,      \* statuses the person may set by hand
  InFlight,     \* which writers may act on the ledger while the worker holds its row:
                \* "manual", "resolve", "sync"; "stale": sync may act on an outdated status
  CaptchaAfterSubmit, \* the site may ask for a CAPTCHA after it accepted the click
  MaxAsked,     \* bound: waiting checkpoints of the task
  MaxCrashes    \* bound: worker crashes

ASSUME SubmissionAssumption ==
  /\ IsFiniteSet(Row) /\ NoRow \notin Row
  /\ MaxAttempts \in Nat \ {0} /\ MaxAsked \in Nat \ {0} /\ MaxCrashes \in Nat
  /\ Targets \subseteq Status
  /\ InFlight \subseteq {"manual", "resolve", "sync", "stale"}
  /\ CaptchaAfterSubmit \in BOOLEAN

VARIABLES
  status,   \* of the application
  ledger,   \* state of each submission row, "none" before it is written
  state, attempt, queue, \* the durable task; attempt_number saturates at MaxAttempts
  asked,    \* waiting human-action checkpoints of the task
  run,      \* the browser worker: where it is, its ledger row, what it will record
  reviewing, \* the dispatcher executes the review checkpoint of the task
  snap,     \* the status the synchronisation read, "none" when it does not run
  sent,     \* history: rows whose submit click the site accepted
  byHand,   \* the person applied on the site
  crashes

taskVars == <<state, attempt, queue, asked>>
siteVars == <<sent, byHand>>
vars == <<status, ledger, taskVars, run, reviewing, snap, siteVars, crashes>>

RowState == {"none", "attempting", "unknown", "confirmed", "failed"}
\* A guard that knows unsettled attempts only would submit a confirmed application again.
UNSETTLED_STATES == {"attempting", "unknown"}
OPEN_STATES == {"attempting", "unknown", "confirmed"}
Verdict == {"confirmed", "unknown", "failed"}
Outcome == {"completed", "failed", "waiting_for_user"}

\* Where the worker is between two commits, or between the site and a commit.
Place == {"idle", "claimed", "ready", "known", "probing", "applying", "clicked",
          "resolving", "finish", "error"}

TypeOK ==
  /\ status \in Status /\ ledger \in [Row -> RowState]
  /\ state \in TaskState /\ attempt \in 0 .. MaxAttempts
  /\ queue \in {"dispatcher", "browser"} /\ asked \in 0 .. MaxAsked
  /\ run \in [at: Place, row: Row \cup {NoRow}, verdict: Verdict, outcome: Outcome]
  /\ reviewing \in BOOLEAN /\ snap \in Status \cup {"none"}
  /\ sent \subseteq Row /\ byHand \in BOOLEAN /\ crashes \in 0 .. MaxCrashes

AtRest == [at |-> "idle", row |-> NoRow, verdict |-> "unknown", outcome |-> "failed"]

(* prepare_application: awaiting review, its task queued for the dispatcher. *)
Init ==
  /\ status = "awaiting_review" /\ ledger = [r \in Row |-> "none"]
  /\ state = "scheduled" /\ attempt = 0 /\ queue = "dispatcher" /\ asked = 0
  /\ run = AtRest /\ reviewing = FALSE /\ snap = "none"
  /\ sent = {} /\ byHand = FALSE /\ crashes = 0

-------------------------------------------------------------------------------
(* Ledger                                                                   *)

\* SubmissionLedger.open_row: the partial unique index keeps this to one row.
OpenRows == {r \in Row : ledger[r] \in OPEN_STATES}
Unused == {r \in Row : ledger[r] = "none"}

\* A new row only for a new attempt: the state of r becomes new.
Records(r, new) == ledger' = [ledger EXCEPT ![r] = new]

\* record_manual_submission, record_implied_submission and the end of
\* mark_submitted_from_site: confirm the open row, or add a confirmed one.
Remembers ==
  IF OpenRows = {} THEN \E r \in Unused : Records(r, "confirmed")
                   ELSE \E r \in OpenRows : Records(r, "confirmed")

\* The worker's row is between the commit that opened it and the one that settles it.
Writing == run.at \in {"applying", "clicked", "resolving"}
MayWrite(writer) == Writing => writer \in InFlight

\* The site shows the application as submitted.
Applied == sent # {} \/ byHand

-------------------------------------------------------------------------------
(* The task row                                                             *)

More(n) == IF n = MaxAttempts THEN n ELSE n + 1

\* A worker takes the task from its queue.
TakesTask ==
  /\ state \in Claimable
  /\ state' = "running" /\ attempt' = More(attempt)

\* finish_claim and retry_claim: an illegal transition is logged, nothing is written.
TryMove(new) == state' = IF CanMove(state, new) THEN new ELSE state

-------------------------------------------------------------------------------
(* The browser worker                                                       *)

Goes(place) == run' = [run EXCEPT !.at = place]
Ends(outcome) == run' = [run EXCEPT !.at = "finish", !.outcome = outcome]
Will(verdict, outcome) ==
  run' = [run EXCEPT !.at = "resolving", !.verdict = verdict, !.outcome = outcome]

Claim ==
  /\ run.at = "idle" /\ queue = "browser" /\ TakesTask
  /\ Goes("claimed")
  /\ UNCHANGED <<status, ledger, queue, asked, reviewing, snap, siteVars, crashes>>

(* _load_apply_inputs and _restore_browser_session.                         *)
Load ==
  /\ run.at = "claimed"
  /\ \/ Ends("failed")   \* not awaiting review any more, or applying is switched off
     \/ /\ status = "awaiting_review"
        /\ Goes("ready") \/ Ends("waiting_for_user") \* no usable browser session
  /\ UNCHANGED <<status, ledger, taskVars, reviewing, snap, siteVars, crashes>>

\* begin that never looks at earlier attempts.
BeginBlindly ==
  /\ run.at = "ready"
  /\ \E r \in Unused : Records(r, "attempting") /\ run' = [run EXCEPT !.at = "applying", !.row = r]
  /\ UNCHANGED <<status, taskVars, reviewing, snap, siteVars, crashes>>

(* _submission_begin: a fresh row is committed before the site is touched.  *)
Begin ==
  /\ run.at = "ready"
  /\ \/ /\ OpenRows = {}
        /\ \E r \in Unused :
             Records(r, "attempting") /\ run' = [run EXCEPT !.at = "applying", !.row = r]
     \/ \E r \in OpenRows :
          /\ run' = [run EXCEPT !.at = IF ledger[r] = "confirmed" THEN "known" ELSE "probing",
                                !.row = r]
          /\ UNCHANGED ledger
  /\ UNCHANGED <<status, taskVars, reviewing, snap, siteVars, crashes>>

(* _mark_application_submitted for an attempt that was confirmed earlier.   *)
MarkSubmitted ==
  /\ run.at = "known"
  /\ IF check_transition(status, "submitted", "system") = "illegal"
       THEN Goes("error") /\ UNCHANGED status
       ELSE Ends("completed") /\ status' = "submitted"
  /\ UNCHANGED <<ledger, taskVars, reviewing, snap, siteVars, crashes>>

(* _handle_open_submission probes the site; a failed probe counts as "no".  *)
Probe ==
  /\ run.at = "probing"
  /\ (Applied /\ Will("confirmed", "completed")) \/ Ends("waiting_for_user")
  /\ UNCHANGED <<status, ledger, taskVars, reviewing, snap, siteVars, crashes>>

(* adapter.apply before the submit click: a login page or a CAPTCHA, a form *)
(* it cannot fill in, or a page that shows an earlier application.          *)
StopsBeforeClick ==
  /\ run.at = "applying"
  /\ \/ Will("failed", "waiting_for_user")
     \/ Will("unknown", "failed")
     \/ Applied /\ Will("confirmed", "completed")
  /\ UNCHANGED <<status, ledger, taskVars, reviewing, snap, siteVars, crashes>>

(* The submit click: the site takes the application or not.                 *)
Click ==
  /\ run.at = "applying"
  /\ Goes("clicked")
  /\ sent' \in {sent, sent \cup {run.row}}
  /\ UNCHANGED <<status, ledger, taskVars, reviewing, snap, byHand, crashes>>

\* An unconfirmed click taken for a failure would free the application for a retry.
AfterClickGivesUp ==
  /\ run.at = "clicked"
  /\ (Applied /\ Will("confirmed", "completed")) \/ Will("failed", "failed")
  /\ UNCHANGED <<status, ledger, taskVars, reviewing, snap, siteVars, crashes>>

(* adapter.apply after the click: confirmed, not visibly confirmed, or a    *)
(* CAPTCHA, which is reported like one before the click.                    *)
AfterClick ==
  /\ run.at = "clicked"
  /\ \/ Applied /\ Will("confirmed", "completed")
     \/ Will("unknown", "failed")
     \/ /\ CaptchaAfterSubmit \/ run.row \notin sent
        /\ Will("failed", "waiting_for_user")
  /\ UNCHANGED <<status, ledger, taskVars, reviewing, snap, siteVars, crashes>>

\* Anything else that raises; what it did to the ledger stays.
Raises ==
  /\ run.at \in {"claimed", "ready", "applying", "clicked", "finish"}
  /\ Goes("error")
  /\ UNCHANGED <<status, ledger, taskVars, reviewing, snap, siteVars, crashes>>

(* _submission_resolve: one commit for the row and the status.  It raises   *)
(* when the lifecycle refuses "submitted" or another row is open.           *)
Resolve ==
  /\ run.at = "resolving"
  /\ LET isConfirmed == run.verdict = "confirmed"
         isRefused ==
           \/ isConfirmed /\ check_transition(status, "submitted", "system") = "illegal"
           \/ run.verdict \in OPEN_STATES /\ OpenRows \ {run.row} # {}
     IN IF isRefused
          THEN Goes("error") /\ UNCHANGED <<status, ledger>>
          ELSE /\ Records(run.row, run.verdict)
               /\ status' = IF isConfirmed THEN "submitted" ELSE status
               /\ Goes("finish")
  /\ UNCHANGED <<taskVars, reviewing, snap, siteVars, crashes>>

\* The checkpoint is written although the task could not move.
FinishHalf ==
  /\ run.at = "finish"
  /\ TryMove(run.outcome)
  /\ asked' = IF run.outcome = "waiting_for_user" THEN asked + 1 ELSE asked
  /\ run' = AtRest
  /\ UNCHANGED <<status, ledger, attempt, queue, reviewing, snap, siteVars, crashes>>

(* finish_claim, with the checkpoint of a waiting outcome in one commit.    *)
Finish ==
  /\ run.at = "finish"
  /\ TryMove(run.outcome)
  /\ asked' = IF run.outcome = "waiting_for_user" /\ CanMove(state, run.outcome)
                THEN asked + 1 ELSE asked
  /\ run' = AtRest
  /\ UNCHANGED <<status, ledger, attempt, queue, reviewing, snap, siteVars, crashes>>

(* run_once after an exception: a bounded retry.                            *)
Retry ==
  /\ run.at = "error"
  /\ TryMove(IF attempt < MaxAttempts THEN "retry_scheduled" ELSE "failed")
  /\ run' = AtRest
  /\ UNCHANGED <<status, ledger, attempt, queue, asked, reviewing, snap, siteVars, crashes>>

(* The worker dies and starts again.  The browser queue has no recovery     *)
(* pass, so the row of the task stays as it was.                            *)
Crash ==
  /\ run.at # "idle" /\ crashes < MaxCrashes
  /\ run' = AtRest /\ crashes' = crashes + 1
  /\ UNCHANGED <<status, ledger, taskVars, reviewing, snap, siteVars>>

-------------------------------------------------------------------------------
(* The dispatcher                                                           *)

Review ==
  /\ ~reviewing /\ queue = "dispatcher" /\ TakesTask
  /\ reviewing' = TRUE
  /\ UNCHANGED <<status, ledger, queue, asked, run, snap, siteVars, crashes>>

(* ApplicationReviewCheckpointHandler asks for no checkpoint of its own.    *)
ReviewEnds ==
  /\ reviewing /\ reviewing' = FALSE
  /\ TryMove(IF status = "awaiting_review" THEN "waiting_for_user" ELSE "completed")
  /\ UNCHANGED <<status, ledger, attempt, queue, asked, run, snap, siteVars, crashes>>

(* The dispatcher dies, and its next start recovers the task.               *)
ReviewLost ==
  /\ reviewing /\ crashes < MaxCrashes
  /\ reviewing' = FALSE /\ crashes' = crashes + 1
  /\ state' = CASE state # "running"       -> state
                [] state = "running" /\ attempt = MaxAttempts -> "failed"
                [] OTHER                   -> "scheduled"
  /\ UNCHANGED <<status, ledger, attempt, queue, asked, run, snap, siteVars>>

-------------------------------------------------------------------------------
(* The person                                                               *)

(* schedule_real_submission_apply                                           *)
ScheduleApply ==
  /\ status = "awaiting_review" /\ OpenRows = {}
  /\ state \in {"scheduled", "waiting_for_user", "failed"}
  /\ asked < MaxAsked
  /\ state' = "scheduled" /\ queue' = "browser"
  /\ UNCHANGED <<status, ledger, attempt, asked, run, reviewing, snap, siteVars, crashes>>

(* retry_application_task                                                   *)
RetryTask ==
  /\ state \in {"failed", "interrupted", "cancelled", "waiting_for_external_system"}
  /\ asked < MaxAsked
  /\ state' = "scheduled"
  /\ UNCHANGED <<status, ledger, attempt, queue, asked, run, reviewing, snap, siteVars, crashes>>

\* Resuming without a waiting checkpoint.
ResumeAnyway ==
  /\ state = "waiting_for_user"
  /\ state' = "scheduled" /\ asked' = asked - 1
  /\ UNCHANGED <<status, ledger, attempt, queue, run, reviewing, snap, siteVars, crashes>>

(* resume_human_action resolves the newest checkpoint only.                 *)
Resume ==
  /\ state = "waiting_for_user" /\ asked > 0
  /\ state' = "scheduled" /\ asked' = asked - 1
  /\ UNCHANGED <<status, ledger, attempt, queue, run, reviewing, snap, siteVars, crashes>>

(* decide_application: the task is completed whatever its worker is doing.  *)
Decide(decision) ==
  /\ status = "awaiting_review"
  /\ status' = decision
  /\ IF state \in {"scheduled", "running", "waiting_for_user"}
       THEN state' = "completed" /\ asked' = 0
       ELSE UNCHANGED <<state, asked>>
  /\ UNCHANGED <<ledger, attempt, queue, run, reviewing, snap, siteVars, crashes>>

\* update_application_status that trusts the person to have recorded the submission.
UpdateStatusOnly(new) ==
  /\ new \in Targets /\ check_transition(status, new, "human") = "moves"
  /\ status' = new
  /\ UNCHANGED <<ledger, taskVars, run, reviewing, snap, siteVars, crashes>>

(* update_application_status                                                *)
UpdateStatus(new) ==
  /\ new \in Targets /\ check_transition(status, new, "human") = "moves"
  /\ status' = new
  /\ IF new \in SUBMISSION_IMPLIED /\ status \notin POST_SUBMISSION
       THEN MayWrite("manual") /\ Remembers
       ELSE UNCHANGED ledger
  /\ UNCHANGED <<taskVars, run, reviewing, snap, siteVars, crashes>>

(* The submission/resolve endpoint; the person looked at the site.          *)
ResolveSubmission ==
  /\ MayWrite("resolve")
  /\ \E r \in OpenRows :
       /\ ledger[r] # "confirmed"
       /\ \/ /\ Applied /\ check_transition(status, "submitted", "human") # "illegal"
             /\ Records(r, "confirmed") /\ status' = "submitted"
          \/ /\ sent = {}
             /\ Records(r, "failed") /\ UNCHANGED status
  /\ UNCHANGED <<taskVars, run, reviewing, snap, siteVars, crashes>>

ApplyByHand ==
  /\ ~byHand /\ byHand' = TRUE
  /\ UNCHANGED <<status, ledger, taskVars, run, reviewing, snap, sent, crashes>>

-------------------------------------------------------------------------------
(* Status synchronisation                                                   *)

(* synchronize reads every application, then probes one site after another. *)
SyncReads ==
  /\ snap = "none"
  /\ status \notin {"submitted", "interview", "rejected", "employer_rejected"}
  /\ snap' = status
  /\ UNCHANGED <<status, ledger, taskVars, run, reviewing, siteVars, crashes>>

\* The site's word taken without asking the lifecycle.
SyncWritesAnyway ==
  /\ snap # "none" /\ snap' = "none"
  /\ Applied /\ snap = status /\ MayWrite("sync")
  /\ status' = "submitted" /\ Remembers
  /\ UNCHANGED <<taskVars, run, reviewing, siteVars, crashes>>

(* mark_submitted_from_site, on the status read before the probe.           *)
SyncWrites ==
  /\ snap # "none" /\ snap' = "none"
  /\ IF Applied /\ check_transition(snap, "submitted", "system") # "illegal"
       THEN /\ snap = status \/ "stale" \in InFlight
            /\ MayWrite("sync")
            /\ status' = "submitted" /\ Remembers
       ELSE UNCHANGED <<status, ledger>>
  /\ UNCHANGED <<taskVars, run, reviewing, siteVars, crashes>>

SyncFindsNothing ==
  /\ snap # "none" /\ snap' = "none"
  /\ UNCHANGED <<status, ledger, taskVars, run, reviewing, siteVars, crashes>>

-------------------------------------------------------------------------------
WorkerStep ==
  \/ Claim \/ Load \/ Begin \/ MarkSubmitted \/ Probe \/ StopsBeforeClick \/ Click
  \/ AfterClick \/ Raises \/ Resolve \/ Finish \/ Retry

DispatcherStep == Review \/ ReviewEnds \/ ReviewLost

PersonStep ==
  \/ ScheduleApply \/ RetryTask \/ Resume \/ ResolveSubmission \/ ApplyByHand
  \/ \E decision \in {"approved", "rejected", "skipped"} : Decide(decision)
  \/ \E new \in Targets : UpdateStatus(new)

SyncStep == SyncReads \/ SyncWrites \/ SyncFindsNothing

Next == WorkerStep \/ Crash \/ DispatcherStep \/ PersonStep \/ SyncStep

Spec == Init /\ [][Next]_vars

\* The worker keeps polling, and each of its external calls has a timeout.
FairSpec == Spec /\ WF_vars(WorkerStep)

-------------------------------------------------------------------------------
(* Properties                                                               *)

(* Whatever crashes, raises or is decided meanwhile, the program sends the  *)
(* application at most once, only with an attempt on the books, and frees   *)
(* the books for another attempt only if nothing was sent                   *)
(* (application_lifecycle.py:167-236, browser_tasks.py:351-456).            *)
Once == INSTANCE SubmitOnce WITH
  sent <- Cardinality(sent),
  book <- IF \E r \in Row : ledger[r] = "confirmed" THEN "closed"
          ELSE IF OpenRows # {} THEN "open" ELSE "clear"
SubmitsOnce == Once!Spec

(* A row that says "failed" frees the application for a retry, so it is     *)
(* never the row of an attempt that went through (tables.py:642-650).       *)
FailedNeverSent == \A r \in sent : ledger[r] # "failed"

(* A confirmed submission is never sent again (docs/browser-automation.md). *)
ConfirmedNeverSentAgain ==
  [][(\E r \in Row : ledger[r] = "confirmed") => sent' = sent]_vars

(* A status that implies the application was sent is backed by a confirmed  *)
(* row, which is what stops another submission                              *)
(* (application_lifecycle.py:64-120, recruitment.py:858-862).               *)
SubmittedIsOnRecord ==
  status \in SUBMISSION_IMPLIED => \E r \in Row : ledger[r] = "confirmed"

(* A browser task that waits for the person always has a checkpoint it can  *)
(* be resumed by, and no checkpoint is written for a task that a decision   *)
(* took from the worker meanwhile: the two are committed together or not at *)
(* all (dispatcher.py:234-275, recruitment.py:708-755, 814-836).            *)
QuestionsMatchTheTask ==
  /\ [](state = "waiting_for_user" /\ queue = "browser" => asked > 0)
  /\ [][asked' > asked => state' = "waiting_for_user"]_vars

(* "withdrawn" is final (domain/application_lifecycle.py:11).               *)
WithdrawnIsFinal == [][status = "withdrawn" => status' = "withdrawn"]_vars

(* A worker that dies in the middle of an attempt leaves its row attempting *)
(* and its task running; the task gets back in motion, so that the next run *)
(* can verify the attempt (services/application_lifecycle.py:6-8).          *)
CrashedAttemptIsResumed ==
  (run.at = "idle" /\ state = "running" /\ \E r \in Row : ledger[r] = "attempting")
     ~> state # "running"
===============================================================================
