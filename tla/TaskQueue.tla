------------------------------ MODULE TaskQueue ------------------------------
(***************************************************************************)
(* One durable queue (app/storage/task_repository.py) served by one worker *)
(* process of several slots (app/workers/dispatcher.py,                    *)
(* app/workers/matching_worker.py) that take a Redis lease per task        *)
(* (app/workers/coordination.py).                                          *)
(*                                                                         *)
(* Time is counted in ticks of one heartbeat interval (30 s).  Three ages  *)
(* matter: how long ago a row was written (updated_at), how long a lease   *)
(* still lives (its Redis TTL) and how long a slot has been silent.        *)
(***************************************************************************)
EXTENDS Integers, TaskStates

CONSTANTS
  Task,          \* rows of workflow_tasks with this queue_name
  Worker,        \* slots of the worker process
  Nobody,        \* no slot, no task
  MaxAttempts,   \* worker_max_attempts
  LeaseTicks,    \* worker_lease_seconds in ticks; the periodic sweep uses the same value
  BeatTicks,     \* the heartbeat interval in ticks
  Priority,      \* priorities a row may be created with
  RetryPriority, \* the priority a retried row falls to
  Sweeps,        \* the process runs _periodic_recovery (only the matching worker does)
  TimelyBeats,   \* the event loop is never blocked for longer than a heartbeat
  BeatsMayFail,  \* a Redis call of a heartbeat may raise
  Outside,       \* the other writers that are enabled, of Writers
  MaxCrashes,    \* bound: process crashes
  MaxFaults,     \* bound: Redis calls that raise
  MaxClaims      \* bound: attempt_number a claim may reach

StartupCutoff == 2 * LeaseTicks

\* "lateclear" is a clear whose SELECT and UPDATE others may write between.
Writers == {"decide", "retry", "refresh", "clear", "lateclear"}

ASSUME QueueAssumption ==
  /\ MaxAttempts \in Nat \ {0} /\ MaxCrashes \in Nat /\ MaxFaults \in Nat
  /\ MaxClaims \in Nat
  /\ BeatTicks \in Nat \ {0} /\ LeaseTicks \in Nat /\ 2 * BeatTicks <= LeaseTicks
  /\ Priority \subseteq Nat /\ RetryPriority \in Nat
  /\ Sweeps \in BOOLEAN /\ TimelyBeats \in BOOLEAN /\ BeatsMayFail \in BOOLEAN
  /\ Outside \subseteq Writers
  /\ Nobody \notin Task /\ Nobody \notin Worker

VARIABLES
  state, attempt, priority, \* columns of the row
  wait,     \* ticks until scheduled_for
  age,      \* ticks since updated_at, saturating above StartupCutoff
  runs,     \* history: handler executions begun for the row, less the reruns granted
  refresh,  \* column refresh_requested
  listed,   \* the states a clear has read and not yet written back
  asked,    \* a forced recalculation has seen the row active and has not committed yet
  owner,    \* holder of the Redis lease of the task, Nobody when there is none
  ttl,      \* ticks the lease still lives
  pc, job, claim, \* a slot: where it is, its ClaimedTask and that claim's attempt_number
  heart,    \* the slot's _maintain_claim loop: "on", "off" or "raised" an exception
  silent,   \* ticks since the slot last claimed or touched
  up,       \* the worker process runs
  crashes, faults

rowVars   == <<state, attempt, priority, wait, age, runs>>
reqVars   == <<refresh, asked, listed>>
leaseVars == <<owner, ttl>>
slotVars  == <<pc, job, claim, heart, silent>>
envVars   == <<up, crashes, faults>>
vars      == <<rowVars, reqVars, leaseVars, slotVars, envVars>>

\* What the queue operator and MatchingJobService.schedule take for work in progress.
Active == Claimable \cup {"pending", "running"}

Ages == 0 .. (StartupCutoff + 1)

TypeOK ==
  /\ state \in [Task -> TaskState]
  /\ attempt \in [Task -> Nat] /\ runs \in [Task -> Int]
  /\ refresh \in [Task -> BOOLEAN] /\ asked \in [Task -> BOOLEAN]
  /\ listed \in [Task -> Active \cup {"none"}]
  /\ priority \in [Task -> Nat]
  /\ wait \in [Task -> Nat] /\ age \in [Task -> Ages]
  /\ owner \in [Task -> Worker \cup {Nobody}] /\ ttl \in [Task -> 0 .. LeaseTicks]
  /\ pc \in [Worker -> {"idle", "claimed", "executing", "finished", "releasing", "dead"}]
  /\ job \in [Worker -> Task \cup {Nobody}] /\ claim \in [Worker -> Nat]
  /\ heart \in [Worker -> {"off", "on", "raised"}] /\ silent \in [Worker -> 0 .. BeatTicks]
  /\ up \in BOOLEAN /\ crashes \in 0 .. MaxCrashes /\ faults \in 0 .. MaxFaults

Init ==
  /\ state = [t \in Task |-> "scheduled"]
  /\ attempt = [t \in Task |-> 0] /\ runs = [t \in Task |-> 0]
  /\ refresh = [t \in Task |-> FALSE] /\ asked = [t \in Task |-> FALSE]
  /\ listed = [t \in Task |-> "none"]
  /\ priority \in [Task -> Priority]
  /\ wait = [t \in Task |-> 0] /\ age = [t \in Task |-> 0]
  /\ owner = [t \in Task |-> Nobody] /\ ttl = [t \in Task |-> 0]
  /\ pc = [w \in Worker |-> "idle"] /\ job = [w \in Worker |-> Nobody]
  /\ claim = [w \in Worker |-> 0]
  /\ heart = [w \in Worker |-> "off"] /\ silent = [w \in Worker |-> 0]
  /\ up = TRUE /\ crashes = 0 /\ faults = 0

-------------------------------------------------------------------------------
(* Rows and slots                                                           *)

\* Every UPDATE of a row refreshes updated_at (onupdate of the column).
Write(t, new) ==
  /\ state' = [state EXCEPT ![t] = new]
  /\ age' = [age EXCEPT ![t] = 0]

\* min(worker_retry_seconds * 2 ** (attempt - 1), 300) with the default 30 s.
RetryDelay(n) == CASE n <= 1 -> 1 [] n = 2 -> 2 [] n = 3 -> 4 [] n = 4 -> 8 [] OTHER -> 10

\* The finally block has run, or the claim ended before it: the slot polls again.
Idle(w) ==
  /\ pc' = [pc EXCEPT ![w] = "idle"]
  /\ job' = [job EXCEPT ![w] = Nobody]
  /\ heart' = [heart EXCEPT ![w] = "off"]

\* An exception leaves run_once: the asyncio task of the slot ends, nothing restarts it.
Dies(w) ==
  /\ pc' = [pc EXCEPT ![w] = "dead"]
  /\ job' = [job EXCEPT ![w] = Nobody]
  /\ heart' = [heart EXCEPT ![w] = "off"]

Due(t) == state[t] \in Claimable /\ wait[t] = 0

(* claim_next: the due row of the highest priority, ties in any order.      *)
Claim(w) ==
  /\ up /\ pc[w] = "idle"
  /\ \E t \in Task :
       /\ Due(t) /\ attempt[t] < MaxClaims
       /\ \A u \in Task : Due(u) => priority[u] <= priority[t]
       /\ Write(t, "running")
       /\ attempt' = [attempt EXCEPT ![t] = @ + 1]
       /\ job' = [job EXCEPT ![w] = t]
       /\ claim' = [claim EXCEPT ![w] = attempt[t] + 1]
  /\ pc' = [pc EXCEPT ![w] = "claimed"]
  /\ silent' = [silent EXCEPT ![w] = 0]
  /\ UNCHANGED <<reqVars, priority, wait, runs, leaseVars, heart, envVars>>

(* acquire_lease answers: SET NX succeeded.                                 *)
Acquire(w) ==
  /\ up /\ pc[w] = "claimed" /\ owner[job[w]] = Nobody
  /\ owner' = [owner EXCEPT ![job[w]] = w]
  /\ ttl' = [ttl EXCEPT ![job[w]] = LeaseTicks]
  /\ runs' = [runs EXCEPT ![job[w]] = @ + 1]
  /\ pc' = [pc EXCEPT ![w] = "executing"]
  /\ heart' = [heart EXCEPT ![w] = "on"]
  /\ silent' = [silent EXCEPT ![w] = 0]
  /\ UNCHANGED <<reqVars, state, attempt, priority, wait, age, job, claim, envVars>>

(* acquire_lease answers: another execution holds it, so reschedule_claim   *)
(* gives the row back.  If the row left "running" meanwhile that raises.    *)
LeaseConflict(w) ==
  /\ up /\ pc[w] = "claimed" /\ owner[job[w]] # Nobody
  /\ IF CanMoveVia(state[job[w]], "interrupted", "scheduled")
       THEN /\ Write(job[w], "scheduled")
            /\ wait' = [wait EXCEPT ![job[w]] = 1]
            /\ Idle(w)
       ELSE Dies(w) /\ UNCHANGED <<state, age, wait>>
  /\ UNCHANGED <<reqVars, attempt, priority, runs, leaseVars, claim, silent, envVars>>

(* _maintain_claim wakes up: touch_claim, then renew_lease, which changes   *)
(* nothing when the lease is no longer this slot's.                         *)
Beat(w) ==
  /\ up /\ pc[w] = "executing" /\ heart[w] = "on" /\ silent[w] = BeatTicks
  /\ IF state[job[w]] = "running"
       THEN /\ age' = [age EXCEPT ![job[w]] = 0]
            /\ ttl' = IF owner[job[w]] = w
                        THEN [ttl EXCEPT ![job[w]] = LeaseTicks] ELSE ttl
            /\ heart' = heart
       ELSE heart' = [heart EXCEPT ![w] = "off"] /\ UNCHANGED <<age, ttl>>
  /\ silent' = [silent EXCEPT ![w] = 0]
  /\ UNCHANGED <<reqVars, state, attempt, priority, wait, runs, owner, pc, job, claim, envVars>>

\* The same write without the check of WorkflowTask.transition.
WriteAnyway(t, new) == Write(t, new)

\* finish_claim and retry_claim: an illegal transition is logged and changes nothing.
TryWrite(t, new) ==
  IF CanMove(state[t], new) THEN Write(t, new) ELSE UNCHANGED <<state, age>>

(* The handler returned an outcome other than retry: finish_claim, then,    *)
(* after completed or failed, the hook of _handle_refresh_requested.        *)
Finish(w, outcome) ==
  /\ up /\ pc[w] = "executing"
  /\ TryWrite(job[w], outcome)
  /\ pc' = [pc EXCEPT ![w] = IF outcome \in {"completed", "failed"}
                               THEN "finished" ELSE "releasing"]
  /\ UNCHANGED <<reqVars, attempt, priority, wait, runs, leaseVars, job, claim, heart, silent, envVars>>

(* _handle_refresh_requested, in a transaction of its own: it writes        *)
(* "scheduled" whatever the row's state is by then, and whether or not      *)
(* finish_claim was refused.                                                *)
Rerun(w) ==
  /\ up /\ pc[w] = "finished"
  /\ IF refresh[job[w]]
       THEN /\ Write(job[w], "scheduled")
            /\ refresh' = [refresh EXCEPT ![job[w]] = FALSE]
            /\ wait' = [wait EXCEPT ![job[w]] = 0]
            /\ runs' = [runs EXCEPT ![job[w]] = @ - 1]
       ELSE UNCHANGED <<state, age, refresh, wait, runs>>
  /\ pc' = [pc EXCEPT ![w] = "releasing"]
  /\ UNCHANGED <<asked, listed, attempt, priority, leaseVars, job, claim, heart, silent, envVars>>

(* The handler asked for a retry or raised: retry_claim while attempts are  *)
(* left, finish_claim as failed otherwise.                                  *)
Retry(w) ==
  /\ up /\ pc[w] = "executing"
  /\ LET t     == job[w]
         again == claim[w] < MaxAttempts
     IN  /\ TryWrite(t, IF again THEN "retry_scheduled" ELSE "failed")
         /\ IF again /\ CanMove(state[t], "retry_scheduled")
              THEN /\ wait' = [wait EXCEPT ![t] = RetryDelay(claim[w])]
                   /\ priority' = [priority EXCEPT ![t] = RetryPriority]
              ELSE UNCHANGED <<wait, priority>>
  /\ pc' = [pc EXCEPT ![w] = "releasing"]
  /\ UNCHANGED <<reqVars, attempt, runs, leaseVars, job, claim, heart, silent, envVars>>

(* renew_lease raises after touch_claim: the heartbeat is over, the handler  *)
(* goes on without it.                                                      *)
BeatFault(w) ==
  /\ BeatsMayFail /\ faults < MaxFaults
  /\ up /\ pc[w] = "executing" /\ heart[w] = "on" /\ silent[w] = BeatTicks
  /\ state[job[w]] = "running"
  /\ age' = [age EXCEPT ![job[w]] = 0]
  /\ heart' = [heart EXCEPT ![w] = "raised"]
  /\ faults' = faults + 1
  /\ UNCHANGED <<reqVars, state, attempt, priority, wait, runs, leaseVars, pc, job, claim, silent,
                 up, crashes>>

(* The finally block awaits a heartbeat that raised: its exception leaves   *)
(* run_once before release_lease, and the lease stays until it expires.     *)
ReleaseFails(w) ==
  /\ up /\ pc[w] = "releasing" /\ heart[w] = "raised"
  /\ Dies(w)
  /\ UNCHANGED <<reqVars, rowVars, leaseVars, claim, silent, envVars>>

(* release_lease: deletes the key only if it still holds this slot's token. *)
Release(w) ==
  /\ up /\ pc[w] = "releasing" /\ heart[w] # "raised"
  /\ owner' = [owner EXCEPT ![job[w]] = IF @ = w THEN Nobody ELSE @]
  /\ ttl' = IF owner[job[w]] = w THEN [ttl EXCEPT ![job[w]] = 0] ELSE ttl
  /\ Idle(w)
  /\ UNCHANGED <<reqVars, rowVars, claim, silent, envVars>>

(* A Redis call of run_once raises (pause check, acquire, release).         *)
RedisFault(w) ==
  /\ up /\ pc[w] \in {"idle", "claimed", "releasing"} /\ faults < MaxFaults
  /\ faults' = faults + 1
  /\ Dies(w)
  /\ UNCHANGED <<reqVars, rowVars, leaseVars, claim, silent, up, crashes>>

-------------------------------------------------------------------------------
(* Recovery                                                                 *)

\* Recovery that ignores the age of the row would take tasks from live slots.
StaleAtAnyAge(t, cutoff) == state[t] = "running"

\* Recovery that only takes rows whose lease is still held would never find an orphan.
StaleWhileLeased(t, cutoff) == state[t] = "running" /\ age[t] > cutoff /\ owner[t] # Nobody

\* recover_stale_running_tasks selects by the state and the age of the row alone.
Stale(t, cutoff) == state[t] = "running" /\ age[t] > cutoff

\* Recovery that forgets the bound on attempts.
RecoveredForever(t) == "scheduled"

\* Recovery that stops half way, as interrupt_stale_running_tasks does.
RecoveredHalfWay(t) == IF attempt[t] >= MaxAttempts THEN "failed" ELSE "interrupted"

\* One row of recover_stale_running_tasks.
Recovered(t) == IF attempt[t] >= MaxAttempts THEN "failed" ELSE "scheduled"

RecoverStale(cutoff) ==
  LET stale == {t \in Task : Stale(t, cutoff)}
  IN  /\ state' = [t \in Task |-> IF t \in stale THEN Recovered(t) ELSE state[t]]
      /\ age' = [t \in Task |-> IF t \in stale THEN 0 ELSE age[t]]
      /\ wait' = [t \in Task |-> IF t \in stale THEN 0 ELSE wait[t]]

(* _periodic_recovery of the matching worker.                               *)
Sweep ==
  /\ up /\ Sweeps
  /\ \E t \in Task : Stale(t, LeaseTicks)
  /\ RecoverStale(LeaseTicks)
  /\ UNCHANGED <<reqVars, attempt, priority, runs, leaseVars, slotVars, envVars>>

(* The process dies between any two steps; its leases stay in Redis.        *)
Crash ==
  /\ up /\ crashes < MaxCrashes
  /\ crashes' = crashes + 1
  /\ up' = FALSE
  /\ pc' = [w \in Worker |-> "dead"]
  /\ job' = [w \in Worker |-> Nobody]
  /\ heart' = [w \in Worker |-> "off"]
  /\ UNCHANGED <<reqVars, rowVars, leaseVars, claim, silent, faults>>

(* SIGTERM: the slots are cancelled, their finally blocks release the leases *)
(* and their rows stay as they are.                                         *)
Stop ==
  /\ up /\ crashes < MaxCrashes
  /\ crashes' = crashes + 1
  /\ up' = FALSE
  /\ LET freed == {t \in Task : \E w \in Worker :
                     /\ pc[w] \in {"executing", "releasing"} /\ heart[w] # "raised"
                     /\ job[w] = t /\ owner[t] = w}
     IN  /\ owner' = [t \in Task |-> IF t \in freed THEN Nobody ELSE owner[t]]
         /\ ttl' = [t \in Task |-> IF t \in freed THEN 0 ELSE ttl[t]]
  /\ pc' = [w \in Worker |-> "dead"]
  /\ job' = [w \in Worker |-> Nobody]
  /\ heart' = [w \in Worker |-> "off"]
  /\ UNCHANGED <<reqVars, rowVars, claim, silent, faults>>

(* run_worker starts: one recovery pass, then the slots poll.               *)
Restart ==
  /\ ~up
  /\ up' = TRUE
  /\ RecoverStale(StartupCutoff)
  /\ pc' = [w \in Worker |-> "idle"]
  /\ UNCHANGED <<reqVars, attempt, priority, runs, leaseVars, job, claim, heart, silent,
                 crashes, faults>>

-------------------------------------------------------------------------------
(* Other writers of the rows: the API and the queue operator                *)

(* decide_application completes the task of a decided application.          *)
Decide(t) ==
  /\ "decide" \in Outside
  /\ state[t] \in {"scheduled", "running", "waiting_for_user"}
  /\ Write(t, "completed")
  /\ UNCHANGED <<reqVars, attempt, priority, wait, runs, leaseVars, slotVars, envVars>>

(* retry_application_task: the attempt counter is kept.                     *)
RetryByHand(t) ==
  /\ "retry" \in Outside
  /\ state[t] \in {"failed", "interrupted", "cancelled", "waiting_for_external_system"}
  /\ Write(t, "scheduled")
  /\ wait' = [wait EXCEPT ![t] = 0]
  /\ UNCHANGED <<reqVars, attempt, priority, runs, leaseVars, slotVars, envVars>>

\* clear_matching_queue: the states of the rows it selects, and what becomes of one.
Listing == [t \in Task |-> IF state[t] \in Active THEN state[t] ELSE "none"]
Cleared(s) == IF s = "running" THEN "interrupted" ELSE "cancelled"

Clear(listing) ==
  /\ \E t \in Task : listing[t] # "none"
  /\ state' = [t \in Task |-> IF listing[t] # "none" THEN Cleared(listing[t]) ELSE state[t]]
  /\ age' = [t \in Task |-> IF listing[t] # "none" THEN 0 ELSE age[t]]

(* clear_matching_queue with nothing written between its SELECT and UPDATE. *)
ClearQueue ==
  /\ "clear" \in Outside
  /\ Clear(Listing)
  /\ UNCHANGED <<reqVars, attempt, priority, wait, runs, leaseVars, slotVars, envVars>>

(* The same handler in two steps.  Its check of the transition reads the    *)
(* state that the SELECT loaded, not the row as it is when it is written.   *)
ListQueue ==
  /\ "lateclear" \in Outside /\ \A t \in Task : listed[t] = "none"
  /\ listed' = Listing
  /\ UNCHANGED <<rowVars, refresh, asked, leaseVars, slotVars, envVars>>

ClearListed ==
  /\ Clear(listed)
  /\ listed' = [t \in Task |-> "none"]
  /\ UNCHANGED <<refresh, asked, attempt, priority, wait, runs, leaseVars, slotVars, envVars>>

(* A forced recalculation finds the row active ...                          *)
AskRefresh(t) ==
  /\ "refresh" \in Outside
  /\ state[t] \in Active /\ ~refresh[t] /\ ~asked[t]
  /\ asked' = [asked EXCEPT ![t] = TRUE]
  /\ UNCHANGED <<rowVars, refresh, listed, leaseVars, slotVars, envVars>>

\* An interactive request lifts the row to its own priority, never lowers it.
Raise(t) == \E p \in Priority : priority' = [priority EXCEPT ![t] = IF p > @ THEN p ELSE @]

(* ... and commits the flag, whatever became of the row in between.         *)
FlagRefresh(t) ==
  /\ asked[t]
  /\ asked' = [asked EXCEPT ![t] = FALSE]
  /\ refresh' = [refresh EXCEPT ![t] = TRUE]
  /\ age' = [age EXCEPT ![t] = 0]
  /\ Raise(t)
  /\ UNCHANGED <<state, attempt, wait, runs, listed, leaseVars, slotVars, envVars>>

-------------------------------------------------------------------------------
(* Time.  With TimelyBeats a slot that holds a claim is never silent for    *)
(* longer than a beat: it waits for Redis or touches the row before then.   *)

MustActFirst(w) ==
  \/ pc[w] \in {"claimed", "finished", "releasing"} /\ silent[w] = BeatTicks
  \/ pc[w] = "executing" /\ heart[w] = "on" /\ silent[w] = BeatTicks

Older(n) == IF n = StartupCutoff + 1 THEN n ELSE n + 1
LessThanZero(n) == n - 1
Less(n)  == IF n = 0 THEN 0 ELSE n - 1

Tick ==
  /\ TimelyBeats => \A w \in Worker : ~MustActFirst(w)
  /\ age' = [t \in Task |-> Older(age[t])]
  /\ wait' = [t \in Task |-> Less(wait[t])]
  /\ ttl' = [t \in Task |-> Less(ttl[t])]
  /\ owner' = [t \in Task |-> IF ttl[t] <= 1 THEN Nobody ELSE owner[t]]
  /\ silent' = [w \in Worker |-> IF silent[w] = BeatTicks THEN BeatTicks ELSE silent[w] + 1]
  /\ UNCHANGED <<reqVars, state, attempt, priority, runs, pc, job, claim, heart, envVars>>

Outcome == {"completed", "failed", "waiting_for_user"}

SlotStep(w) ==
  \/ Claim(w) \/ Acquire(w) \/ LeaseConflict(w) \/ Beat(w)
  \/ \E outcome \in Outcome : Finish(w, outcome)
  \/ Rerun(w) \/ Retry(w) \/ Release(w) \/ RedisFault(w) \/ BeatFault(w) \/ ReleaseFails(w)

OutsideStep ==
  \/ ClearQueue \/ ListQueue \/ ClearListed
  \/ \E t \in Task : Decide(t) \/ RetryByHand(t) \/ AskRefresh(t) \/ FlagRefresh(t)

Next ==
  \/ \E w \in Worker : SlotStep(w)
  \/ Sweep \/ Crash \/ Stop \/ Restart \/ OutsideStep \/ Tick

Spec == Init /\ [][Next]_vars

(* The process is restarted by its container, its loops keep running while  *)
(* it is up, handlers end (their external calls have timeouts), time passes. *)
\* Crashes, faults, operators and the choice of an outcome are not fair.
Fairness ==
  /\ WF_vars(Tick) /\ WF_vars(Restart) /\ WF_vars(Sweep)
  /\ \A w \in Worker :
       /\ WF_vars(Claim(w)) /\ WF_vars(Acquire(w)) /\ WF_vars(LeaseConflict(w))
       /\ WF_vars(Beat(w)) /\ WF_vars(Rerun(w)) /\ WF_vars(Release(w) \/ ReleaseFails(w))
       /\ WF_vars(Retry(w) \/ \E outcome \in Outcome : Finish(w, outcome))

FairSpec == Spec /\ Fairness
-------------------------------------------------------------------------------
(* Properties                                                               *)

Busy(w) == pc[w] \in {"claimed", "executing"}

(* A running handler is alone on its task, and the claim it acts on is      *)
(* still the current one: nobody recovered, re-claimed or rewrote the row   *)
(* under it.  finish_claim and retry_claim rely on this, they check neither *)
(* the owner nor the attempt (task_repository.py:195-226, 264-301).         *)
ClaimIsFenced ==
  \A w \in Worker : Busy(w) =>
    /\ state[job[w]] = "running"
    /\ attempt[job[w]] = claim[w]
    /\ \A v \in Worker : Busy(v) /\ job[v] = job[w] => v = w

(* Retries are bounded: a handler is never started more than                *)
(* worker_max_attempts times for one row, requested reruns aside, although  *)
(* lease conflicts also consume attempt numbers and are themselves not      *)
(* bounded (dispatcher.py:181-189, 205, 289).                               *)
RunsBounded == \A t \in Task : runs[t] <= MaxAttempts

(* A task left running by a dead slot or process gets back in motion.       *)
OrphanRecovered ==
  \A t \in Task :
    (state[t] = "running" /\ \A w \in Worker : job[w] # t) ~> state[t] # "running"

(* Every queued task eventually ends or waits for a person.                 *)
EverySettles == \A t \in Task : <>(state[t] \in Settled)

(* A forced recalculation that was accepted while the task was active is    *)
(* not forgotten: a completed row does not keep the flag                    *)
(* (matching_worker.py:25-39, jobs.py:125-134).                             *)
RefreshHonoured == \A t \in Task : (state[t] = "completed" /\ refresh[t]) ~> ~refresh[t]

(* The table only ever follows the edges of ALLOWED_TRANSITIONS, or a rerun *)
(* that was asked for, whoever writes and however late a slot acts on a     *)
(* claim it lost.                                                           *)
Lifecycle == INSTANCE TaskLifecycle
FollowsLifecycle == Lifecycle!Spec
===============================================================================
