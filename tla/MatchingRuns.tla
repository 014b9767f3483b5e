----------------------------- MODULE MatchingRuns -----------------------------
(***************************************************************************)
(* What a matching calculation does to the database: the requests          *)
(* (app/matching/jobs.py, backfill.py), the operator's clear               *)
(* (queue_admin.py), and the run itself (runtime.py, pipeline.py) in the   *)
(* commits it is made of.  The queue's own protocol is in TaskQueue; here  *)
(* a slot claims, works and writes the row back.                           *)
(*                                                                         *)
(* All applications are for one vacancy.  A content version is the pair of *)
(* the vacancy's (its text, skills and the models) and the CV's.           *)
(***************************************************************************)
EXTENDS Integers, FiniteSets, TaskStates

CONSTANTS
  App,          \* applications for the vacancy
  Worker,       \* slots of the matching worker
  Fallback,     \* matching_v2_fallback_enabled
  MaxAttempts,  \* worker_max_attempts
  MaxChanges,   \* bound: changes of the vacancy's or of a CV's content
  MaxRequests,  \* bound: recalculations asked for
  Upsets        \* of {"clear", "early", "crash"}: what may go wrong, once in a behaviour

ASSUME MatchingAssumption ==
  /\ App # {} /\ Fallback \in BOOLEAN
  /\ MaxAttempts \in Nat \ {0} /\ {MaxChanges, MaxRequests} \subseteq Nat
  /\ Upsets \subseteq {"clear", "early", "crash"}

VARIABLES
  vac, cv,   \* the content the vacancy and each application's CV have now
  rows,      \* workflow_tasks by idempotency key
  reqs,      \* vacancy contents whose vacancy_requirements rows exist
  evid,      \* <<application, CV content>> whose candidate_evidence rows exist
  matches,   \* requirement_matches of an application: the requirement rows they refer to
  result,    \* application_match_results of an application
  run,       \* a slot and the identity map of its session
  stripped,  \* history: applications whose matches another's forced request deleted
  upset,     \* history: the member of Upsets that has happened, or "none"
  changes, asked

vars == <<vac, cv, rows, reqs, evid, matches, result, run, stripped, upset, changes, asked>>

Version == 1..(MaxChanges + 1)
Content == Version \X Version
Key     == App \X Content
NoRow   == [state |-> "absent", tries |-> 0, refresh |-> FALSE]

\* A request that takes a running row for a terminal one.
NotYetRun == {"pending", "scheduled", "retry_scheduled"}

\* _ACTIVE_TASK_STATES.
Active  == {"pending", "scheduled", "retry_scheduled", "running"}

Transient == {"pending", "extracting", "indexing"}
Working   == {"claimed", "begun", "extracted", "stored", "scored", "broken"}

\* The identity map is that of a session with expire_on_commit=False: what was read
\* stays as it was.  gone: a requirement row it holds was deleted; orphan: so was
\* the task row.
NoRun == [pc |-> "idle", key |-> CHOOSE k \in Key : TRUE, content |-> <<1, 1>>,
          newReqs |-> FALSE, newEvid |-> FALSE, gone |-> FALSE, orphan |-> FALSE]

TypeOK ==
  /\ vac \in Version /\ cv \in [App -> Version]
  /\ rows \in [Key -> [state : TaskState \cup {"absent"},
                       tries : 0..(MaxAttempts + MaxRequests), refresh : BOOLEAN]]
  /\ reqs \subseteq Version /\ evid \subseteq App \X Version
  /\ matches \in [App -> SUBSET Version]
  /\ result \in [App -> [status : Transient \cup {"none", "scored", "degraded", "failed"},
                         of : Content \cup {<<0, 0>>}, rejected : BOOLEAN]]
  /\ run \in [Worker -> [pc : Working \cup {"idle", "dead"}, key : Key, content : Content,
                         newReqs : BOOLEAN, newEvid : BOOLEAN, gone : BOOLEAN, orphan : BOOLEAN]]
  /\ stripped \subseteq App
  /\ changes \in 0..MaxChanges /\ asked \in 0..MaxRequests
  /\ upset \in Upsets \cup {"none"}

Init ==
  /\ vac = 1 /\ cv = [a \in App |-> 1]
  /\ rows = [k \in Key |-> NoRow]
  /\ reqs = {} /\ evid = {} /\ matches = [a \in App |-> {}]
  /\ result = [a \in App |-> [status |-> "none", of |-> <<0, 0>>, rejected |-> FALSE]]
  /\ run = [w \in Worker |-> NoRun] /\ changes = 0 /\ asked = 0
  /\ stripped = {} /\ upset = "none"

CurrentKey(a) == <<a, <<vac, cv[a]>>>>
Upset(u)      == upset = "none" /\ u \in Upsets /\ upset' = u
Status(a, s)  == result' = [result EXCEPT ![a].status = s]
Move(w, pc)   == run' = [run EXCEPT ![w].pc = pc]

-------------------------------------------------------------------------------
(* Requests                                                                 *)

\* _clear_extraction_cache: every requirement row of the vacancy, and with them the
\* matches of every application for it, of other users too.  Runs that hold those
\* rows lose them.
ClearExtraction(a) ==
  /\ reqs' = {}
  /\ matches' = [b \in App |-> {}]
  /\ stripped' = stripped \cup (App \ {a})

Holds(w) == run[w].pc \in {"extracted", "stored"}

\* What the slots are left with: key is the row that was deleted, wiped the cache.
Losing(deleted, wiped) ==
  run' = [w \in Worker |->
            [run[w] EXCEPT !.orphan = @ \/ (run[w].pc \in Working /\ run[w].key \in deleted),
                           !.gone = @ \/ (wiped /\ Holds(w) /\ ~run[w].newReqs)]]

\* The cache is cleared and the rerun forgotten.
RefreshUnflagged(a) ==
  /\ asked < MaxRequests /\ asked' = asked + 1
  /\ rows[CurrentKey(a)].state \in Active
  /\ ClearExtraction(a) /\ Losing({}, TRUE)
  /\ UNCHANGED <<upset, changes, vac, cv, rows, evid, result>>

(* schedule(force=True) of a row that is active: it is coalesced.           *)
Refresh(a) ==
  LET k == CurrentKey(a)
  IN  /\ asked < MaxRequests /\ asked' = asked + 1
      /\ rows[k].state \in Active
      /\ rows' = [rows EXCEPT ![k].refresh = TRUE]
      /\ ClearExtraction(a) /\ Losing({}, TRUE)
      /\ UNCHANGED <<upset, changes, vac, cv, evid, result>>

\* The deletion of a row that is not active, and the row that takes its place.
Replace(a, force, state) ==
  LET k == CurrentKey(a)
  IN  /\ asked < MaxRequests /\ asked' = asked + 1
      /\ rows[k].state \notin Active
      /\ force \/ rows[k].state # "completed"
      /\ rows' = [rows EXCEPT ![k] = [NoRow EXCEPT !.state = state]]
      /\ IF force /\ rows[k] # NoRow
           THEN ClearExtraction(a) /\ Losing({k}, TRUE)
           ELSE Losing({k}, FALSE) /\ UNCHANGED <<reqs, matches, stripped>>
      /\ UNCHANGED <<changes, vac, cv, evid>>

\* The new row is never saved as scheduled.
ScheduleUnsaved(a, force) ==
  Replace(a, force, "pending") /\ Status(a, "pending") /\ UNCHANGED upset

(* schedule of a row that is not: unless it completed and the request is    *)
(* not forced, it is deleted, created anew and the result becomes pending.  *)
Schedule(a, force) ==
  Replace(a, force, "scheduled") /\ Status(a, "pending") /\ UNCHANGED upset

(* get_or_create commits the pending row; the process dies before save.     *)
ScheduleCrashes(a, force) ==
  /\ Upset("crash")
  /\ Replace(a, force, "pending") /\ UNCHANGED result

(* schedule_stale_owner_results: results that are stale or failed, forced.  *)
(* No result becomes stale here: _invalidate_matching is never committed.   *)
Backfill(a) ==
  /\ result[a].status \in {"stale", "failed"}
  /\ Schedule(a, TRUE) \/ Refresh(a)

(* clear_matching_queue.                                                    *)
ClearQueue ==
  /\ Upset("clear")
  /\ \E k \in Key : rows[k].state \in Active
  /\ rows' = [k \in Key |->
       [rows[k] EXCEPT !.state = IF @ = "running" THEN "interrupted"
                                 ELSE IF @ \in Active THEN "cancelled" ELSE @]]
  /\ result' = [a \in App |->
       IF /\ result[a].status = "pending"
          /\ \E k \in Key : k[1] = a /\ rows[k].state \in Active \ {"running"}
       THEN [result[a] EXCEPT !.status = "failed"] ELSE result[a]]
  /\ UNCHANGED <<changes, vac, cv, reqs, evid, matches, stripped, run, asked>>

-------------------------------------------------------------------------------
(* The contents                                                             *)

(* The vacancy is fetched again, or the models of a stage are switched.     *)
ChangeVacancy ==
  /\ changes < MaxChanges /\ changes' = changes + 1
  /\ vac' = vac + 1
  /\ UNCHANGED <<upset, cv, rows, reqs, evid, matches, stripped, result, run, asked>>

(* The CV is analysed again.                                                *)
ChangeCv(a) ==
  /\ changes < MaxChanges /\ changes' = changes + 1
  /\ cv' = [cv EXCEPT ![a] = @ + 1]
  /\ UNCHANGED <<upset, vac, rows, reqs, evid, matches, stripped, result, run, asked>>

-------------------------------------------------------------------------------
(* One run on a slot                                                        *)

Claim(w, k) ==
  /\ run[w].pc = "idle"
  /\ rows[k].state \in Claimable
  /\ rows' = [rows EXCEPT ![k].state = "running", ![k].tries = @ + 1]
  /\ run' = [run EXCEPT ![w] = [NoRun EXCEPT !.pc = "claimed", !.key = k]]
  /\ UNCHANGED <<upset, changes, vac, cv, reqs, evid, matches, stripped, result, asked>>

(* run reads the file, resolves the models or ensure_index raises before    *)
(* the pipeline has begun.                                                  *)
FailEarly(w) ==
  /\ Upset("early")
  /\ run[w].pc = "claimed" /\ Move(w, "broken")
  /\ UNCHANGED <<changes, vac, cv, rows, reqs, evid, matches, stripped, result, asked>>

(* _start_run: the content is the one of now, not the one of the payload.   *)
Begin(w) ==
  LET a == run[w].key[1]
  IN  /\ run[w].pc = "claimed"
      /\ run' = [run EXCEPT ![w].pc = "begun", ![w].content = <<vac, cv[a]>>]
      /\ Status(a, "pending")
      /\ UNCHANGED <<upset, changes, vac, cv, rows, reqs, evid, matches, stripped, asked>>

(* The rows of an earlier extraction are taken as they are; without any the *)
(* models are asked.                                                        *)
Extract(w) ==
  LET a == run[w].key[1]
      c == run[w].content
  IN  /\ run[w].pc = "begun"
      /\ run' = [run EXCEPT ![w].pc = "extracted", ![w].newReqs = c[1] \notin reqs,
                            ![w].newEvid = <<a, c[2]>> \notin evid]
      /\ Status(a, "extracting")
      /\ UNCHANGED <<upset, changes, vac, cv, rows, reqs, evid, matches, stripped, asked>>

\* Another run has inserted the rows this one is about to insert: the unique
\* constraints of vacancy_requirements and candidate_evidence.
InsertClash(w) ==
  LET c == run[w].content
  IN  \/ run[w].newReqs /\ c[1] \in reqs
      \/ run[w].newEvid /\ <<run[w].key[1], c[2]>> \in evid

\* The commit of what was extracted and of the deletion of the old matches.
StoreExtraction(w) ==
  LET a == run[w].key[1]
      c == run[w].content
  IN  /\ run[w].pc = "extracted" /\ ~InsertClash(w)
      /\ reqs' = IF run[w].newReqs THEN reqs \cup {c[1]} ELSE reqs
      /\ evid' = evid \cup {<<a, c[2]>>}
      /\ matches' = [matches EXCEPT ![a] = {}]
      /\ UNCHANGED <<stripped, upset, changes, vac, cv, rows, asked>>

Store(w) ==
  /\ StoreExtraction(w)
  /\ run' = [run EXCEPT ![w].pc = "stored", ![w].newReqs = FALSE]
  /\ Status(run[w].key[1], "indexing")

Result(w, rejected) ==
  result' = [result EXCEPT ![run[w].key[1]] =
               [status |-> "scored", of |-> run[w].content, rejected |-> rejected]]

(* The hard relevance gate rejects: scored at once, without matches.        *)
Reject(w) ==
  /\ StoreExtraction(w) /\ Move(w, "scored")
  /\ Result(w, TRUE)

\* A requirement row is gone, or has a match of this application already.
MatchClash(w) == run[w].gone \/ run[w].content[1] \in matches[run[w].key[1]]

(* The matches are flushed and committed with the score.                    *)
Score(w) ==
  /\ run[w].pc = "stored" /\ ~MatchClash(w)
  /\ matches' = [matches EXCEPT ![run[w].key[1]] = @ \cup {run[w].content[1]}]
  /\ stripped' = stripped \ {run[w].key[1]}
  /\ Result(w, FALSE) /\ Move(w, "scored")
  /\ UNCHANGED <<upset, changes, vac, cv, rows, reqs, evid, asked>>

(* A model, a service or a constraint fails the run: rollback, and the      *)
(* result says so.                                                          *)
Break(w) ==
  /\ run[w].pc \in {"begun", "extracted", "stored"} /\ Move(w, "broken")
  /\ Status(run[w].key[1], IF Fallback THEN "degraded" ELSE "failed")
  /\ UNCHANGED <<upset, changes, vac, cv, rows, reqs, evid, matches, stripped, asked>>

\* A write of the row by the slot: its LookupError on a deleted row leaves run_once
\* and ends the slot; a transition the table refuses is logged and dropped.
WriteBack(w, to) ==
  LET k == run[w].key
  IN  IF run[w].orphan
        THEN run' = [run EXCEPT ![w] = [NoRun EXCEPT !.pc = "dead"]] /\ UNCHANGED rows
        ELSE /\ run' = [run EXCEPT ![w] = NoRun]
             /\ rows' = [rows EXCEPT ![k].state = IF CanMove(@, to) THEN to ELSE @]

(* finish_claim and the hook _handle_refresh_requested.                     *)
Complete(w) ==
  /\ run[w].pc = "scored"
  /\ IF ~run[w].orphan /\ rows[run[w].key].refresh
       THEN /\ rows' = [rows EXCEPT ![run[w].key].state = "scheduled",
                                    ![run[w].key].refresh = FALSE]
            /\ run' = [run EXCEPT ![w] = NoRun]
       ELSE WriteBack(w, "completed")
  /\ UNCHANGED <<upset, changes, vac, cv, reqs, evid, matches, stripped, result, asked>>

\* A retry whatever the attempts.
RetryForever(w) ==
  /\ run[w].pc = "broken" /\ WriteBack(w, "retry_scheduled")
  /\ UNCHANGED <<upset, changes, vac, cv, reqs, evid, matches, stripped, result, asked>>

(* The except path: retry_claim while attempts are left.                    *)
Retry(w) ==
  /\ run[w].pc = "broken" /\ rows[run[w].key].tries < MaxAttempts
  /\ WriteBack(w, "retry_scheduled")
  /\ UNCHANGED <<upset, changes, vac, cv, reqs, evid, matches, stripped, result, asked>>

(* ... and failed otherwise, or when the models refuse for good.  The hook  *)
(* is not called: a requested refresh stays on the row.                     *)
Exhaust(w) ==
  /\ run[w].pc = "broken"
  /\ WriteBack(w, "failed")
  /\ UNCHANGED <<upset, changes, vac, cv, reqs, evid, matches, stripped, result, asked>>

RunStep(w) ==
  \/ \E k \in Key : Claim(w, k)
  \/ Begin(w) \/ Extract(w) \/ Store(w) \/ Reject(w) \/ Score(w)
  \/ Complete(w) \/ Retry(w) \/ Exhaust(w)

Request(a) ==
  \/ Refresh(a) \/ Backfill(a)
  \/ \E force \in BOOLEAN : Schedule(a, force) \/ ScheduleCrashes(a, force)

Next ==
  \/ \E w \in Worker : RunStep(w) \/ Break(w) \/ FailEarly(w)
  \/ \E a \in App : Request(a) \/ ChangeCv(a)
  \/ ChangeVacancy \/ ClearQueue

\* The slots poll without end and every await of a run has a timeout, so a run that
\* cannot go on is failed.
Fairness == \A w \in Worker : WF_vars(RunStep(w) \/ Break(w))

Spec == Init /\ [][Next]_vars /\ Fairness

-------------------------------------------------------------------------------
(* Properties                                                               *)

(* A slot that works on a row owns it: nothing a request, a crash of the    *)
(* API or another run does deletes the row, gives it to another slot or     *)
(* takes it out of "running" until the slot writes it back ("a second click *)
(* cannot delete a claim that a worker is currently executing", jobs.py).   *)
(* Only a clear of the queue breaks it.                                     *)
RunOwnsItsRow ==
  upset # "clear" =>
  \A w \in Worker : run[w].pc \in Working =>
    /\ ~run[w].orphan /\ rows[run[w].key].state = "running"
    /\ \A x \in Worker \ {w} : run[x].pc \in Working => run[x].key # run[w].key

Quiet(a) ==
  /\ \A k \in Key : k[1] = a => rows[k].state \notin Active
  /\ \A w \in Worker : run[w].pc \in Working => run[w].key[1] # a

\* A forced request that no run will honour: its row ended by the except path.
RefreshLost(a) == \E k \in Key : k[1] = a /\ rows[k].refresh

(* Once nothing runs or waits for an application, a scored result that the  *)
(* gate did not reject is explained by match rows of the requirements it    *)
(* was computed from, whatever was cleared under the run and whatever runs  *)
(* of older contents overlapped, unless a forced request was lost: with a   *)
(* run that failed for good or before its pipeline began, or in a clear;    *)
(* or another user's forced request for the vacancy took the rows away.     *)
ScoreIsExplained ==
  \A a \in App :
    (/\ Quiet(a) /\ ~RefreshLost(a) /\ a \notin stripped /\ upset \notin {"early", "clear"}
     /\ result[a].status = "scored" /\ ~result[a].rejected)
       => result[a].of[1] \in matches[a] \cap reqs

(* A result that promises work is settled in the end (scored, degraded or   *)
(* failed): no interleaving of requests, content changes, conflicting runs, *)
(* failures of the pipeline and a crash between the creation of a task and  *)
(* its scheduling leaves it "in progress".  A failure before the pipeline   *)
(* began and a clear may.                                                   *)
EveryResultSettles ==
  \A a \in App :
    (result[a].status \in Transient /\ upset \in {"none", "crash"})
      ~> (result[a].status \notin Transient \/ upset \notin {"none", "crash"})
===============================================================================
