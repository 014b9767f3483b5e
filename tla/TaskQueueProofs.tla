--------------------------- MODULE TaskQueueProofs ---------------------------
(***************************************************************************)
(* Theorems about TaskQueue for every number of tasks, slots, attempts and *)
(* ticks: the rows keep their types, the queue implements TaskLifecycle    *)
(* whoever writes, and, while heartbeats are timely and nobody else writes *)
(* the rows, a claim is exclusive and handler executions are bounded.      *)
(***************************************************************************)
EXTENDS TaskQueue, TLAPS

\* A slot past its claim holds a row.
HasJob ==
  \A w \in Worker : pc[w] \in {"claimed", "executing", "finished", "releasing"} => job[w] \in Task

TypeInv == TypeOK /\ HasJob

-------------------------------------------------------------------------------
(* Types                                                                    *)

\* Recovery of any subset of the rows keeps the columns typed.
LEMMA RecoveryTyped ==
  ASSUME TypeOK, NEW cutoff, RecoverStale(cutoff)
  PROVE  /\ state' \in [Task -> TaskState]
         /\ age' \in [Task -> Ages]
         /\ wait' \in [Task -> Nat]
BY QueueAssumption, SMTT(30)
DEF TypeOK, RecoverStale, Recovered, Ages, StartupCutoff, TaskState, Claimable, Settled

\* TryWrite leaves the two columns it may touch typed.
LEMMA TryWriteTyped ==
  ASSUME TypeOK, NEW t \in Task, NEW new \in TaskState, TryWrite(t, new)
  PROVE  state' \in [Task -> TaskState] /\ age' \in [Task -> Ages]
BY QueueAssumption, SMTT(30) DEF TypeOK, TryWrite, Write, Ages, StartupCutoff

\* A clear keeps the two columns it writes typed, whatever listing it works from.
LEMMA ClearTyped ==
  ASSUME TypeOK, NEW listing, Clear(listing)
  PROVE  state' \in [Task -> TaskState] /\ age' \in [Task -> Ages]
BY QueueAssumption DEF TypeOK, Clear, Cleared, Ages, StartupCutoff, TaskState, Settled

LEMMA DelayTyped == \A n \in Nat : RetryDelay(n) \in Nat
BY DEF RetryDelay

\* The initial state is typed.
LEMMA TypeInit == Init => TypeInv
<1> SUFFICES ASSUME Init PROVE TypeInv
  OBVIOUS
<1> USE QueueAssumption DEF Init
<1>1. state \in [Task -> TaskState] /\ age \in [Task -> Ages]
  BY DEF Ages, StartupCutoff, TaskState, Claimable
<1>2. priority \in [Task -> Nat] /\ wait \in [Task -> Nat] /\ attempt \in [Task -> Nat]
  OBVIOUS
<1>3. owner \in [Task -> Worker \cup {Nobody}] /\ ttl \in [Task -> 0 .. LeaseTicks]
  OBVIOUS
<1>4. /\ pc \in [Worker -> {"idle", "claimed", "executing", "finished", "releasing", "dead"}]
      /\ job \in [Worker -> Task \cup {Nobody}] /\ claim \in [Worker -> Nat]
      /\ heart \in [Worker -> {"off", "on", "raised"}] /\ silent \in [Worker -> 0 .. BeatTicks]
  OBVIOUS
<1>5. runs \in [Task -> Int] /\ up \in BOOLEAN /\ crashes \in 0 .. MaxCrashes
      /\ faults \in 0 .. MaxFaults
  OBVIOUS
<1>6. HasJob BY DEF HasJob
<1>7. refresh \in [Task -> BOOLEAN] /\ asked \in [Task -> BOOLEAN]
      /\ listed \in [Task -> Active \cup {"none"}]
  OBVIOUS
<1>8. QED BY <1>1, <1>2, <1>3, <1>4, <1>5, <1>6, <1>7 DEF TypeInv, TypeOK

\* Every step of a slot keeps the types.
LEMMA TypeSlot ==
  ASSUME TypeInv, NEW w \in Worker, SlotStep(w)
  PROVE  TypeInv'
<1> USE QueueAssumption DEF TypeInv, TypeOK, HasJob, reqVars, rowVars, leaseVars, slotVars, envVars
<1>1. CASE Claim(w)
  <2>1. PICK t \in Task : /\ Write(t, "running")
                          /\ attempt' = [attempt EXCEPT ![t] = @ + 1]
                          /\ job' = [job EXCEPT ![w] = t]
                          /\ claim' = [claim EXCEPT ![w] = attempt[t] + 1]
    BY <1>1 DEF Claim
  <2>2. state' \in [Task -> TaskState] /\ age' \in [Task -> Ages]
    BY <2>1 DEF Write, Ages, StartupCutoff, TaskState
  <2>3. /\ attempt' \in [Task -> Nat] /\ claim' \in [Worker -> Nat]
        /\ job' \in [Worker -> Task \cup {Nobody}] /\ job'[w] \in Task
        /\ \A v \in Worker : v # w => job'[v] = job[v] /\ pc'[v] = pc[v]
    BY <1>1, <2>1 DEF Claim
  <2>4. /\ pc' \in [Worker -> {"idle", "claimed", "executing", "finished", "releasing", "dead"}]
        /\ silent' \in [Worker -> 0 .. BeatTicks]
    BY <1>1 DEF Claim
  <2>5. UNCHANGED <<reqVars, priority, wait, runs, leaseVars, heart, envVars>>
    BY <1>1 DEF Claim
  <2>6. QED BY <2>2, <2>3, <2>4, <2>5
<1>2. CASE Acquire(w)
  <2>1. job[w] \in Task BY <1>2 DEF Acquire
  <2>2. QED BY <1>2, <2>1, SMTT(30) DEF Acquire, Ages, StartupCutoff
<1>3. CASE LeaseConflict(w)
  <2>1. job[w] \in Task BY <1>3 DEF LeaseConflict
  <2>2. /\ state' \in [Task -> TaskState] /\ age' \in [Task -> Ages]
        /\ wait' \in [Task -> Nat]
    BY <1>3, <2>1 DEF LeaseConflict, Write, Ages, StartupCutoff, TaskState, Claimable
  <2>3. QED BY <1>3, <2>1, <2>2, SMTT(30) DEF LeaseConflict, Idle, Dies
<1>4. CASE Beat(w)
  <2>1. job[w] \in Task BY <1>4 DEF Beat
  <2>2. age' \in [Task -> Ages] /\ ttl' \in [Task -> 0 .. LeaseTicks]
    BY <1>4, <2>1 DEF Beat, Ages, StartupCutoff
  <2>3. QED BY <1>4, <2>1, <2>2, SMTT(30) DEF Beat
<1>5. ASSUME NEW outcome \in Outcome, Finish(w, outcome) PROVE TypeInv'
  <2>1. job[w] \in Task BY <1>5 DEF Finish
  <2>2. state' \in [Task -> TaskState] /\ age' \in [Task -> Ages]
    BY <1>5, <2>1, TryWriteTyped DEF Finish, Outcome, TaskState, Settled
  <2>3. QED BY <1>5, <2>1, <2>2, SMTT(30) DEF Finish
<1>6. CASE Retry(w)
  <2>1. job[w] \in Task BY <1>6 DEF Retry
  <2>2. state' \in [Task -> TaskState] /\ age' \in [Task -> Ages]
    BY <1>6, <2>1, TryWriteTyped DEF Retry, TaskState, Claimable, Settled
  <2>3. wait' \in [Task -> Nat] /\ priority' \in [Task -> Nat]
    BY <1>6, <2>1, DelayTyped DEF Retry
  <2>4. QED BY <1>6, <2>1, <2>2, <2>3, SMTT(30) DEF Retry
<1>7. CASE Release(w)
  <2>1. job[w] \in Task BY <1>7 DEF Release
  <2>2. QED BY <1>7, <2>1, SMTT(30) DEF Release, Idle
<1>8. CASE RedisFault(w)
  BY <1>8, SMTT(30) DEF RedisFault, Dies
<1>9. CASE BeatFault(w)
  <2>1. job[w] \in Task BY <1>9 DEF BeatFault
  <2>2. age' \in [Task -> Ages] BY <1>9, <2>1 DEF BeatFault, Ages, StartupCutoff
  <2>3. QED BY <1>9, <2>1, <2>2, SMTT(30) DEF BeatFault
<1>10. CASE ReleaseFails(w)
  BY <1>10, SMTT(30) DEF ReleaseFails, Dies
<1>11. CASE Rerun(w)
  <2>1. job[w] \in Task BY <1>11 DEF Rerun
  <2>2. state' \in [Task -> TaskState] /\ age' \in [Task -> Ages]
    BY <1>11, <2>1 DEF Rerun, Write, Ages, StartupCutoff, TaskState, Claimable
  <2>3. refresh' \in [Task -> BOOLEAN]
    BY <1>11, <2>1, Zenon DEF Rerun
  <2>4. wait' \in [Task -> Nat] /\ runs' \in [Task -> Int]
    BY <1>11, <2>1 DEF Rerun
  <2>5. pc' \in [Worker -> {"idle", "claimed", "executing", "finished", "releasing", "dead"}]
        /\ HasJob'
    BY <1>11, <2>1 DEF Rerun
  <2>6. UNCHANGED <<asked, listed, attempt, priority, leaseVars, job, claim, heart, silent,
                    envVars>>
    BY <1>11 DEF Rerun
  <2>7. QED BY <2>2, <2>3, <2>4, <2>5, <2>6
<1>12. QED BY <1>1, <1>2, <1>3, <1>4, <1>5, <1>6, <1>7, <1>8, <1>9, <1>10, <1>11
  DEF SlotStep

\* Recovery, crashes, outside writers and time keep the types.
LEMMA TypeRest ==
  ASSUME TypeInv, Sweep \/ Crash \/ Stop \/ Restart \/ OutsideStep \/ Tick
  PROVE  TypeInv'
<1> USE QueueAssumption DEF TypeInv, TypeOK, HasJob, reqVars, rowVars, leaseVars, slotVars, envVars
<1>1. CASE Sweep BY <1>1, RecoveryTyped DEF Sweep
<1>2. CASE Crash
  <2>1. /\ pc' \in [Worker -> {"idle", "claimed", "executing", "finished", "releasing", "dead"}]
        /\ \A w \in Worker : pc'[w] = "dead"
        /\ job' \in [Worker -> Task \cup {Nobody}]
        /\ heart' \in [Worker -> {"off", "on", "raised"}]
    BY <1>2 DEF Crash
  <2>2. crashes' \in 0 .. MaxCrashes
    BY <1>2 DEF Crash
  <2>3. up' \in BOOLEAN
    BY <1>2, Zenon DEF Crash
  <2>4. UNCHANGED <<reqVars, rowVars, leaseVars, claim, silent, faults>>
    BY <1>2 DEF Crash
  <2>5. QED BY <2>1, <2>2, <2>3, <2>4
<1>3. CASE Restart BY <1>3, RecoveryTyped DEF Restart
<1>4. CASE ClearQueue \/ ListQueue \/ ClearListed
  <2>1. CASE ClearQueue BY <1>4, <2>1, ClearTyped DEF ClearQueue
  <2>2. CASE ListQueue BY <1>4, <2>2 DEF ListQueue, Listing
  <2>3. CASE ClearListed BY <1>4, <2>3, ClearTyped DEF ClearListed
  <2>4. QED BY <1>4, <2>1, <2>2, <2>3
<1>5. ASSUME NEW t \in Task, Decide(t) PROVE TypeInv'
  BY <1>5 DEF Decide, Write, Ages, StartupCutoff, TaskState, Settled
<1>6. ASSUME NEW t \in Task, RetryByHand(t) PROVE TypeInv'
  BY <1>6 DEF RetryByHand, Write, Ages, StartupCutoff, TaskState, Claimable
<1>7. CASE Tick
  <2>1. \A n \in Ages : Older(n) \in Ages
    BY DEF Older, Ages, StartupCutoff
  <2>2. age' \in [Task -> Ages]
    BY <1>7, <2>1, Zenon DEF Tick
  <2>3. /\ \A n \in Nat : Less(n) \in Nat
        /\ \A n \in 0 .. LeaseTicks : Less(n) \in 0 .. LeaseTicks
    BY DEF Less
  <2>4. wait' \in [Task -> Nat] /\ ttl' \in [Task -> 0 .. LeaseTicks]
    BY <1>7, <2>3, Zenon DEF Tick
  <2>5. owner' \in [Task -> Worker \cup {Nobody}]
    BY <1>7 DEF Tick
  <2>6. silent' \in [Worker -> 0 .. BeatTicks]
    <3>1. silent \in [Worker -> 0 .. BeatTicks] /\ BeatTicks \in Nat
      OBVIOUS
    <3>2. silent' = [w \in Worker |-> IF silent[w] = BeatTicks THEN BeatTicks ELSE silent[w] + 1]
      BY <1>7 DEF Tick
    <3>3. QED BY ONLY <3>1, <3>2
  <2>7. UNCHANGED <<reqVars, state, attempt, priority, runs, pc, job, claim, heart, envVars>>
    BY <1>7 DEF Tick
  <2>8. QED BY <2>2, <2>4, <2>5, <2>6, <2>7
<1>8. CASE Stop
  <2>1. /\ pc' \in [Worker -> {"idle", "claimed", "executing", "finished", "releasing", "dead"}]
        /\ \A w \in Worker : pc'[w] = "dead"
        /\ job' \in [Worker -> Task \cup {Nobody}]
        /\ heart' \in [Worker -> {"off", "on", "raised"}]
    BY <1>8 DEF Stop
  <2>2. PICK freed \in SUBSET Task :
          /\ owner' = [t \in Task |-> IF t \in freed THEN Nobody ELSE owner[t]]
          /\ ttl' = [t \in Task |-> IF t \in freed THEN 0 ELSE ttl[t]]
    BY <1>8 DEF Stop
  <2>3. owner' \in [Task -> Worker \cup {Nobody}] /\ ttl' \in [Task -> 0 .. LeaseTicks]
    BY <2>2
  <2>4. crashes' \in 0 .. MaxCrashes BY <1>8 DEF Stop
  <2>5. up' \in BOOLEAN BY <1>8, Zenon DEF Stop
  <2>6. UNCHANGED <<reqVars, rowVars, claim, silent, faults>> BY <1>8 DEF Stop
  <2>7. QED BY <2>1, <2>3, <2>4, <2>5, <2>6
<1>9. ASSUME NEW t \in Task, AskRefresh(t) PROVE TypeInv'
  <2>1. asked' \in [Task -> BOOLEAN] BY <1>9, Zenon DEF AskRefresh
  <2>2. QED BY <1>9, <2>1 DEF AskRefresh
<1>10. ASSUME NEW t \in Task, FlagRefresh(t) PROVE TypeInv'
  <2>1. asked' \in [Task -> BOOLEAN] /\ refresh' \in [Task -> BOOLEAN]
    BY <1>10, Zenon DEF FlagRefresh
  <2>2. age' \in [Task -> Ages] BY <1>10 DEF FlagRefresh, Ages, StartupCutoff
  <2>3. priority' \in [Task -> Nat] BY <1>10 DEF FlagRefresh, Raise
  <2>4. UNCHANGED <<state, attempt, wait, runs, listed, leaseVars, slotVars, envVars>>
    BY <1>10 DEF FlagRefresh
  <2>5. QED BY <2>1, <2>2, <2>3, <2>4
<1>11. QED BY <1>1, <1>2, <1>3, <1>4, <1>5, <1>6, <1>7, <1>8, <1>9, <1>10 DEF OutsideStep

LEMMA TypeStep == TypeInv /\ [Next]_vars => TypeInv'
<1> SUFFICES ASSUME TypeInv, [Next]_vars PROVE TypeInv'
  OBVIOUS
<1>1. CASE UNCHANGED vars
  BY <1>1 DEF TypeInv, TypeOK, HasJob, vars, reqVars, rowVars, leaseVars, slotVars, envVars
<1>2. QED BY <1>1, TypeSlot, TypeRest DEF Next

LEMMA TypeAlways == Spec => []TypeInv
BY TypeInit, TypeStep, PTL DEF Spec

\* The type invariant of the queue, its slots and its clocks holds for every
\* value of the constants.
THEOREM TypeCorrect == Spec => []TypeOK
<1>1. TypeInv => TypeOK BY DEF TypeInv
<1>2. QED BY <1>1, TypeAlways, PTL
-------------------------------------------------------------------------------
(* Refinement: every step of the queue moves rows along the allowed edges   *)

\* The instance reads the same transition table.
LEMMA SameTable ==
  ASSUME NEW a, NEW b
  PROVE  /\ CanMove(a, b) => Lifecycle!CanMove(a, b)
         /\ CanMoveVia(a, "interrupted", b) => Lifecycle!CanMoveVia(a, "interrupted", b)
BY DEF CanMove, CanMoveVia, ALLOWED_TRANSITIONS, Claimable,
       Lifecycle!CanMove, Lifecycle!CanMoveVia, Lifecycle!ALLOWED_TRANSITIONS,
       Lifecycle!Claimable

\* Typed columns whose rows each stay, follow an edge or are rerun on request
\* make a step of the lifecycle.
LEMMA MovesAreSteps ==
  ASSUME TypeOK',
         \A t \in Task : \/ state'[t] = state[t]
                         \/ CanMove(state[t], state'[t])
                         \/ CanMoveVia(state[t], "interrupted", state'[t])
                         \/ refresh[t] /\ ~refresh'[t] /\ state'[t] = "scheduled"
  PROVE  Lifecycle!Next
<1>1. state' \in [Task -> Lifecycle!TaskState] /\ refresh' \in [Task -> BOOLEAN]
  BY DEF TypeOK, Lifecycle!TaskState, Lifecycle!Claimable, Lifecycle!Settled,
         TaskState, Claimable, Settled
<1>2. \A t \in Task : Lifecycle!Moves(t) BY SameTable DEF Lifecycle!Moves
<1>3. QED BY <1>1, <1>2 DEF Lifecycle!Next

\* One row rewritten along an edge is a step of the lifecycle.
LEMMA OneRowMoves ==
  ASSUME TypeOK, TypeOK', NEW t \in Task, NEW new, Write(t, new),
         CanMove(state[t], new) \/ CanMoveVia(state[t], "interrupted", new)
  PROVE  Lifecycle!Next
BY MovesAreSteps DEF TypeOK, Write

\* A finish or a retry either follows an edge or leaves the rows alone.
LEMMA TryWriteMoves ==
  ASSUME TypeOK, TypeOK', NEW t \in Task, NEW new, TryWrite(t, new)
  PROVE  Lifecycle!Next
BY OneRowMoves, MovesAreSteps DEF TryWrite

\* So is a sweep that recovers any set of stale rows.
LEMMA RecoveryMoves ==
  ASSUME TypeOK, TypeOK', NEW cutoff, RecoverStale(cutoff)
  PROVE  Lifecycle!Next
<1>1. ASSUME NEW t \in Task
      PROVE  \/ state'[t] = state[t]
             \/ CanMove(state[t], state'[t])
             \/ CanMoveVia(state[t], "interrupted", state'[t])
  <2>1. \/ state'[t] = state[t]
        \/ state[t] = "running" /\ state'[t] = Recovered(t)
    BY DEF RecoverStale, Stale
  <2>2. state[t] = "running" => CanMove(state[t], "failed")
                             /\ CanMoveVia(state[t], "interrupted", "scheduled")
    BY DEF CanMove, CanMoveVia, ALLOWED_TRANSITIONS
  <2>3. QED BY <2>1, <2>2 DEF Recovered
<1>2. QED BY <1>1, MovesAreSteps

\* And so is a clear that writes back the states the rows still have.
LEMMA ClearMoves ==
  ASSUME TypeOK, TypeOK', Clear(Listing)
  PROVE  Lifecycle!Next
<1>1. ASSUME NEW t \in Task PROVE state'[t] = state[t] \/ CanMove(state[t], state'[t])
  <2>1. CASE state[t] \in Active
    BY <2>1 DEF Clear, Listing, Cleared, Active, CanMove, ALLOWED_TRANSITIONS, Claimable
  <2>2. CASE state[t] \notin Active
    BY <2>2 DEF Clear, Listing
  <2>3. QED BY <2>1, <2>2
<1>2. QED BY <1>1, MovesAreSteps

\* Without late clears nothing is ever listed.
Unlisted == \A t \in Task : listed[t] = "none"

PromptClears == "lateclear" \notin Outside

LEMMA UnlistedStep ==
  ASSUME PromptClears, Unlisted, [Next]_vars
  PROVE  Unlisted' /\ ~ListQueue /\ ~ClearListed
<1>1. ~ListQueue /\ ~ClearListed
  BY DEF PromptClears, Unlisted, ListQueue, ClearListed, Clear
<1>2. ASSUME NEW w \in Worker, SlotStep(w) PROVE UNCHANGED listed
  BY <1>2 DEF SlotStep, Claim, Acquire, LeaseConflict, Beat, Finish, Rerun, Retry, Release,
              RedisFault, BeatFault, ReleaseFails, reqVars
<1>3. ASSUME Sweep \/ Crash \/ Stop \/ Restart \/ Tick \/ ClearQueue PROVE UNCHANGED listed
  BY <1>3 DEF Sweep, Crash, Stop, Restart, Tick, ClearQueue, reqVars
<1>4. ASSUME NEW t \in Task, Decide(t) \/ RetryByHand(t) \/ AskRefresh(t) \/ FlagRefresh(t)
      PROVE  UNCHANGED listed
  BY <1>4 DEF Decide, RetryByHand, AskRefresh, FlagRefresh, reqVars
<1>5. UNCHANGED listed
  <2>1. CASE UNCHANGED vars BY <2>1 DEF vars, reqVars
  <2>2. CASE Next BY <2>2, <1>1, <1>2, <1>3, <1>4 DEF Next, OutsideStep
  <2>3. QED BY <2>1, <2>2
<1>6. QED BY <1>1, <1>5 DEF Unlisted

LEMMA UnlistedAlways ==
  ASSUME PromptClears
  PROVE  Spec => []Unlisted
<1>1. Init => Unlisted BY DEF Init, Unlisted
<1>2. Unlisted /\ [Next]_vars => Unlisted' BY UnlistedStep
<1>3. QED BY <1>1, <1>2, PTL DEF Spec

LEMMA StepMoves ==
  ASSUME PromptClears, Unlisted, TypeInv, TypeInv', [Next]_vars
  PROVE  Lifecycle!Next
<1> USE DEF TypeInv
<1>1. ASSUME NEW w \in Worker, SlotStep(w) PROVE Lifecycle!Next
  <2>1. CASE Claim(w)
    <3>1. PICK t \in Task : Due(t) /\ Write(t, "running") BY <2>1 DEF Claim
    <3>2. CanMove(state[t], "running")
      BY <3>1 DEF Due, Claimable, CanMove, ALLOWED_TRANSITIONS
    <3>3. QED BY <3>1, <3>2, OneRowMoves
  <2>2. CASE LeaseConflict(w)
    <3>1. job[w] \in Task BY <2>2 DEF LeaseConflict, HasJob
    <3>2. CASE CanMoveVia(state[job[w]], "interrupted", "scheduled")
      BY <2>2, <3>1, <3>2, OneRowMoves DEF LeaseConflict
    <3>3. CASE ~CanMoveVia(state[job[w]], "interrupted", "scheduled")
      BY <2>2, <3>3, MovesAreSteps DEF LeaseConflict
    <3>4. QED BY <3>2, <3>3
  <2>3. ASSUME NEW outcome \in Outcome, Finish(w, outcome) PROVE Lifecycle!Next
    <3>1. job[w] \in Task BY <2>3 DEF Finish, HasJob
    <3>2. QED BY <2>3, <3>1, TryWriteMoves DEF Finish
  <2>4. CASE Retry(w)
    <3>1. job[w] \in Task BY <2>4 DEF Retry, HasJob
    <3>2. QED BY <2>4, <3>1, TryWriteMoves DEF Retry
  <2>5. CASE Rerun(w)
    <3>1. job[w] \in Task BY <2>5 DEF Rerun, HasJob
    <3>2. CASE refresh[job[w]]
      <4>1. /\ state' = [state EXCEPT ![job[w]] = "scheduled"]
            /\ refresh' = [refresh EXCEPT ![job[w]] = FALSE]
        BY <2>5, <3>2 DEF Rerun, Write
      <4>2. refresh'[job[w]] = FALSE /\ state'[job[w]] = "scheduled"
            /\ \A t \in Task : t # job[w] => state'[t] = state[t]
        BY <3>1, <4>1 DEF TypeOK
      <4>3. QED BY <3>2, <4>2, MovesAreSteps
    <3>3. CASE ~refresh[job[w]]
      BY <2>5, <3>3, MovesAreSteps DEF Rerun
    <3>4. QED BY <3>2, <3>3
  <2>6. CASE Acquire(w) \/ Beat(w) \/ Release(w) \/ RedisFault(w) \/ BeatFault(w)
             \/ ReleaseFails(w)
    <3>1. UNCHANGED state
      BY <2>6 DEF Acquire, Beat, Release, RedisFault, BeatFault, ReleaseFails, rowVars
    <3>2. QED BY <3>1, MovesAreSteps
  <2>7. QED BY <1>1, <2>1, <2>2, <2>3, <2>4, <2>5, <2>6 DEF SlotStep
<1>2. CASE Sweep \/ Restart
  BY <1>2, RecoveryMoves DEF Sweep, Restart
<1>3. CASE ClearQueue
  BY <1>3, ClearMoves DEF ClearQueue
<1>4. ASSUME NEW t \in Task, Decide(t) PROVE Lifecycle!Next
  <2>1. CanMove(state[t], "completed")
    BY <1>4 DEF Decide, CanMove, ALLOWED_TRANSITIONS
  <2>2. QED BY <1>4, <2>1, OneRowMoves DEF Decide
<1>5. ASSUME NEW t \in Task, RetryByHand(t) PROVE Lifecycle!Next
  <2>1. CanMove(state[t], "scheduled")
    BY <1>5 DEF RetryByHand, CanMove, ALLOWED_TRANSITIONS
  <2>2. QED BY <1>5, <2>1, OneRowMoves DEF RetryByHand
<1>6. ASSUME NEW t \in Task, AskRefresh(t) \/ FlagRefresh(t) PROVE Lifecycle!Next
  <2>1. UNCHANGED state BY <1>6 DEF AskRefresh, FlagRefresh, rowVars
  <2>2. QED BY <2>1, MovesAreSteps
<1>7. CASE Crash \/ Stop \/ Tick \/ UNCHANGED vars
  <2>1. UNCHANGED state BY <1>7 DEF Crash, Stop, Tick, vars, rowVars
  <2>2. QED BY <2>1, MovesAreSteps
<1>8. QED BY <1>1, <1>2, <1>3, <1>4, <1>5, <1>6, <1>7, UnlistedStep DEF Next, OutsideStep

\* Whoever writes, however late a slot acts on a claim it lost and however often
\* the process crashes, the state column only follows ALLOWED_TRANSITIONS or a
\* rerun that was asked for.  The one writer left out is a clear that works from
\* states it read before another writer's commit.
THEOREM QueueImplementsLifecycle ==
  ASSUME PromptClears
  PROVE  Spec => FollowsLifecycle
<1>1. Init => Lifecycle!Init BY DEF Init, Lifecycle!Init
<1>2. Unlisted /\ TypeInv /\ TypeInv' /\ [Next]_vars => [Lifecycle!Next]_<<state, refresh>>
  BY StepMoves
<1>3. QED BY <1>1, <1>2, TypeAlways, UnlistedAlways, PTL
  DEF Spec, FollowsLifecycle, Lifecycle!Spec

-------------------------------------------------------------------------------
(* Exclusion.  While heartbeats are timely and nobody else writes the rows, *)
(* a busy slot keeps its row young enough for every recovery pass.          *)

QuietEnvironment == TimelyBeats /\ ~BeatsMayFail /\ Outside \subseteq {"refresh"}

\* The claim of slot w is the current one, and the row is at most a beat older
\* than the slot has been silent: it was written at the claim and at each beat.
Fenced(w) ==
  /\ up
  /\ state[job[w]] = "running"
  /\ attempt[job[w]] = claim[w]
  /\ age[job[w]] <= silent[w] + (IF pc[w] = "executing" THEN BeatTicks ELSE 0)
  /\ pc[w] = "executing" => heart[w] = "on"

\* Between finish_claim and the refresh hook the row keeps the outcome.
Ended(w) == state[job[w]] \in {"completed", "failed"}

Holds(w) == Busy(w) \/ pc[w] = "finished"

Sound(w) == (Busy(w) => Fenced(w)) /\ (pc[w] = "finished" => Ended(w))

Alone == \A v, w \in Worker : Holds(v) /\ Holds(w) /\ job[v] = job[w] => v = w

FenceInv == Alone /\ \A w \in Worker : Sound(w)

\* No recovery pass selects the row of a busy slot.
LEMMA FencedIsFresh ==
  ASSUME TypeInv, FenceInv, NEW w \in Worker, Busy(w)
  PROVE  /\ job[w] \in Task
         /\ ~Stale(job[w], LeaseTicks) /\ ~Stale(job[w], StartupCutoff)
<1>1. job[w] \in Task BY DEF Busy, TypeInv, HasJob
<1>2. age[job[w]] <= silent[w] + BeatTicks /\ silent[w] <= BeatTicks
  <2>1. silent[w] \in 0 .. BeatTicks /\ BeatTicks \in Nat /\ age[job[w]] \in Nat
    BY <1>1, QueueAssumption DEF TypeInv, TypeOK, Ages, StartupCutoff
  <2>2. age[job[w]] <= silent[w] + (IF pc[w] = "executing" THEN BeatTicks ELSE 0)
    BY DEF FenceInv, Sound, Fenced
  <2>3. QED BY <2>1, <2>2
<1>3. age[job[w]] \in Nat /\ silent[w] \in Nat /\ LeaseTicks \in Nat /\ BeatTicks \in Nat
  BY <1>1, QueueAssumption DEF TypeInv, TypeOK, Ages, StartupCutoff
<1>4. 2 * BeatTicks <= LeaseTicks BY QueueAssumption
<1>5. age[job[w]] <= LeaseTicks /\ age[job[w]] <= StartupCutoff
  BY <1>2, <1>3, <1>4 DEF StartupCutoff
<1>6. QED BY <1>1, <1>3, <1>5 DEF Stale, StartupCutoff

LEMMA FenceInit == Init => FenceInv
BY DEF Init, FenceInv, Alone, Sound, Holds, Busy

\* A slot that holds a row has one, and it is not queued.
LEMMA HeldIsNotQueued ==
  ASSUME TypeInv, FenceInv, NEW w \in Worker, Holds(w)
  PROVE  job[w] \in Task /\ state[job[w]] \notin Claimable
BY DEF TypeInv, HasJob, FenceInv, Sound, Fenced, Ended, Holds, Busy, Claimable

\* A step of slot w leaves the rows that other slots hold alone.
LEMMA OthersFenced ==
  ASSUME TypeInv, FenceInv, NEW w \in Worker,
         UNCHANGED up,
         \A v \in Worker \ {w} : /\ pc'[v] = pc[v] /\ job'[v] = job[v] /\ claim'[v] = claim[v]
                                 /\ heart'[v] = heart[v] /\ silent'[v] = silent[v],
         \A v \in Worker \ {w} : Holds(v) =>
            /\ state'[job[v]] = state[job[v]] /\ attempt'[job[v]] = attempt[job[v]]
            /\ age'[job[v]] = age[job[v]],
         Holds(w)' => /\ Sound(w)'
                      /\ \A v \in Worker \ {w} : Holds(v) => job[v] # job'[w]
  PROVE  FenceInv'
<1>1. ASSUME NEW v \in Worker, Holds(v)', v # w PROVE Holds(v) /\ Sound(v)'
  <2>1. Holds(v) BY <1>1 DEF Holds, Busy
  <2>2. Sound(v) BY DEF FenceInv
  <2>3. QED BY <1>1, <2>1, <2>2 DEF Sound, Fenced, Ended, Holds, Busy
<1>2. Alone'
  BY <1>1 DEF FenceInv, Alone, Holds, Busy
<1>3. \A v \in Worker : Sound(v)'
  BY <1>1 DEF Sound, Holds
<1>4. QED BY <1>2, <1>3 DEF FenceInv

LEMMA FenceSlot ==
  ASSUME QuietEnvironment, TypeInv, FenceInv, NEW w \in Worker, SlotStep(w)
  PROVE  FenceInv'
<1> USE QueueAssumption DEF envVars, leaseVars
<1>0. pc \in [Worker -> {"idle", "claimed", "executing", "finished", "releasing", "dead"}]
      /\ job \in [Worker -> Task \cup {Nobody}] /\ claim \in [Worker -> Nat]
      /\ heart \in [Worker -> {"off", "on", "raised"}] /\ silent \in [Worker -> 0 .. BeatTicks]
      /\ state \in [Task -> TaskState] /\ attempt \in [Task -> Nat] /\ age \in [Task -> Ages]
  BY DEF TypeInv, TypeOK
<1>a. Holds(w) => \A v \in Worker \ {w} : Holds(v) => job[v] # job[w]
  BY DEF FenceInv, Alone
<1>b. Busy(w) => Fenced(w) /\ Holds(w)
  BY DEF FenceInv, Sound, Holds
<1>1. CASE Claim(w)
  <2>1. PICK t \in Task : /\ Due(t) /\ Write(t, "running")
                          /\ attempt' = [attempt EXCEPT ![t] = @ + 1]
                          /\ job' = [job EXCEPT ![w] = t]
                          /\ claim' = [claim EXCEPT ![w] = attempt[t] + 1]
    BY <1>1 DEF Claim
  <2>2. \A v \in Worker : Holds(v) => job[v] # t
    BY <2>1, HeldIsNotQueued DEF Due
  <2>3. Sound(w)'
    BY <1>0, <1>1, <2>1 DEF Claim, Sound, Fenced, Busy, Write
  <2>4. QED BY <1>0, <1>1, <2>1, <2>2, <2>3, OthersFenced DEF Claim, Write
<1>2. CASE Acquire(w)
  <2>1. Busy(w) BY <1>2 DEF Acquire, Busy
  <2>2. Fenced(w)'
    <3>1. age[job[w]] <= silent[w] /\ Fenced(w)
      BY <1>2, <1>b, <2>1, <1>0, FencedIsFresh DEF Acquire, Fenced, Ages, StartupCutoff
    <3>2. silent[w] <= BeatTicks /\ age[job[w]] \in Nat /\ silent[w] \in Nat
      BY <1>0, <2>1, FencedIsFresh DEF Ages, StartupCutoff
    <3>3. age[job[w]] <= 0 + BeatTicks BY <3>1, <3>2
    <3>4. QED BY <1>0, <1>2, <3>1, <3>3 DEF Acquire, Fenced
  <2>3. pc'[w] = "executing" /\ job'[w] = job[w] BY <1>0, <1>2 DEF Acquire
  <2>4. Sound(w)' BY <2>2, <2>3 DEF Sound
  <2>5. QED BY <1>0, <1>2, <1>a, <1>b, <2>1, <2>3, <2>4, OthersFenced DEF Acquire
<1>3. CASE LeaseConflict(w)
  <2>1. Busy(w) BY <1>3 DEF LeaseConflict, Busy
  <2>2. \A v \in Worker \ {w} : Holds(v) => job[v] # job[w] /\ job[v] \in Task
    BY <1>a, <1>b, <2>1, HeldIsNotQueued
  <2>3. ~Holds(w)'
    BY <1>0, <1>3 DEF LeaseConflict, Idle, Dies, Busy, Holds
  <2>4. \A v \in Worker \ {w} : /\ pc'[v] = pc[v] /\ job'[v] = job[v]
                                /\ claim'[v] = claim[v] /\ heart'[v] = heart[v]
                                /\ silent'[v] = silent[v]
    BY <1>0, <1>3 DEF LeaseConflict, Idle, Dies
  <2>5. \A u \in Task : u # job[w] => state'[u] = state[u] /\ age'[u] = age[u]
    BY <1>0, <1>3 DEF LeaseConflict, Write
  <2>6. UNCHANGED <<up, attempt>> BY <1>3 DEF LeaseConflict
  <2>7. QED BY <2>2, <2>3, <2>4, <2>5, <2>6, OthersFenced
<1>4. CASE Beat(w)
  <2>1. Busy(w) /\ Fenced(w) /\ job[w] \in Task /\ pc[w] = "executing"
    BY <1>4, <1>b, FencedIsFresh DEF Beat, Busy
  <2>2. /\ age' = [age EXCEPT ![job[w]] = 0] /\ heart' = heart
        /\ silent' = [silent EXCEPT ![w] = 0]
        /\ UNCHANGED <<up, state, attempt, pc, job, claim>>
    BY <1>4, <2>1 DEF Beat, Fenced
  <2>3. Sound(w)'
    BY <1>0, <2>1, <2>2 DEF Sound, Fenced
  <2>4. \A v \in Worker \ {w} : Holds(v) => job[v] # job[w] /\ job[v] \in Task
    BY <1>a, <1>b, <2>1, HeldIsNotQueued
  <2>5. QED BY <1>0, <2>2, <2>3, <2>4, OthersFenced
<1>5. ASSUME NEW outcome \in Outcome, Finish(w, outcome) PROVE FenceInv'
  <2>1. Busy(w) /\ Fenced(w) /\ job[w] \in Task
    BY <1>5, <1>b, FencedIsFresh DEF Finish, Busy
  <2>2. \A v \in Worker \ {w} : Holds(v) => job[v] # job[w] /\ job[v] \in Task
    BY <1>a, <1>b, <2>1, HeldIsNotQueued
  <2>3. state' = [state EXCEPT ![job[w]] = outcome] /\ age' = [age EXCEPT ![job[w]] = 0]
    BY <1>5, <2>1 DEF Finish, TryWrite, Write, Fenced, Outcome, CanMove, ALLOWED_TRANSITIONS
  <2>4. /\ pc' = [pc EXCEPT ![w] = IF outcome \in {"completed", "failed"}
                                    THEN "finished" ELSE "releasing"]
        /\ UNCHANGED <<up, attempt, job, claim, heart, silent>>
    BY <1>5 DEF Finish
  <2>5. Sound(w)'
    BY <1>0, <2>1, <2>3, <2>4 DEF Sound, Busy, Ended
  <2>6. QED BY <1>0, <2>2, <2>3, <2>4, <2>5, OthersFenced
<1>6. CASE Retry(w)
  <2>1. Busy(w) BY <1>6 DEF Retry, Busy
  <2>2. \A v \in Worker \ {w} : Holds(v) => job[v] # job[w] /\ job[v] \in Task
    BY <1>a, <1>b, <2>1, HeldIsNotQueued
  <2>3. ~Holds(w)' BY <1>0, <1>6 DEF Retry, Holds, Busy
  <2>4. \A u \in Task : u # job[w] => state'[u] = state[u] /\ age'[u] = age[u]
    BY <1>0, <1>6 DEF Retry, TryWrite, Write
  <2>5. pc' = [pc EXCEPT ![w] = "releasing"]
        /\ UNCHANGED <<up, attempt, job, claim, heart, silent>>
    BY <1>6 DEF Retry
  <2>6. QED BY <1>0, <2>2, <2>3, <2>4, <2>5, OthersFenced
<1>7. CASE Rerun(w)
  <2>1. Holds(w) BY <1>7 DEF Rerun, Holds
  <2>2. \A v \in Worker \ {w} : Holds(v) => job[v] # job[w] /\ job[v] \in Task
    BY <1>a, <2>1, HeldIsNotQueued
  <2>3. ~Holds(w)' BY <1>0, <1>7 DEF Rerun, Holds, Busy
  <2>4. \A u \in Task : u # job[w] => state'[u] = state[u] /\ age'[u] = age[u]
    BY <1>0, <1>7 DEF Rerun, Write
  <2>5. pc' = [pc EXCEPT ![w] = "releasing"]
        /\ UNCHANGED <<up, attempt, job, claim, heart, silent>>
    BY <1>7 DEF Rerun
  <2>6. QED BY <1>0, <2>2, <2>3, <2>4, <2>5, OthersFenced
<1>8. CASE Release(w) \/ RedisFault(w) \/ ReleaseFails(w)
  <2>1. ~Holds(w)'
    BY <1>0, <1>8 DEF Release, RedisFault, ReleaseFails, Idle, Dies, Busy, Holds
  <2>2. UNCHANGED <<up, state, attempt, age, claim, silent>>
    BY <1>8 DEF Release, RedisFault, ReleaseFails, rowVars
  <2>3. \A v \in Worker \ {w} : pc'[v] = pc[v] /\ job'[v] = job[v] /\ heart'[v] = heart[v]
    BY <1>0, <1>8 DEF Release, RedisFault, ReleaseFails, Idle, Dies
  <2>4. QED BY <2>1, <2>2, <2>3, OthersFenced
<1>9. CASE BeatFault(w)
  BY <1>9 DEF BeatFault, QuietEnvironment
<1>10. QED BY <1>1, <1>2, <1>3, <1>4, <1>5, <1>6, <1>7, <1>8, <1>9 DEF SlotStep

\* Recovery leaves every slot the row it holds.
LEMMA FenceRecovery ==
  ASSUME TypeInv, FenceInv, NEW cutoff \in {LeaseTicks, StartupCutoff}, RecoverStale(cutoff),
         UNCHANGED <<attempt, pc, job, claim, heart, silent, up>>
  PROVE  FenceInv'
<1>1. ASSUME NEW w \in Worker, Busy(w)
      PROVE  state'[job[w]] = state[job[w]] /\ age'[job[w]] = age[job[w]]
  BY <1>1, FencedIsFresh DEF RecoverStale
<1>2. ASSUME NEW w \in Worker, pc[w] = "finished"
      PROVE  state'[job[w]] = state[job[w]]
  <2>1. job[w] \in Task /\ state[job[w]] # "running"
    BY <1>2 DEF TypeInv, HasJob, FenceInv, Sound, Ended
  <2>2. QED BY <2>1 DEF RecoverStale, Stale
<1>3. \A w \in Worker : (Busy(w)' <=> Busy(w)) /\ (Holds(w)' <=> Holds(w))
  BY DEF Busy, Holds
<1>4. QED BY <1>1, <1>2, <1>3 DEF FenceInv, Alone, Sound, Fenced, Ended

\* Time passes only while every busy slot is due no beat.
LEMMA FenceTick ==
  ASSUME QuietEnvironment, TypeInv, FenceInv, Tick
  PROVE  FenceInv'
<1>1. \A w \in Worker : (Busy(w)' <=> Busy(w)) /\ (Holds(w)' <=> Holds(w))
  BY DEF Tick, Busy, Holds
<1>2. ASSUME NEW w \in Worker, Busy(w) PROVE Fenced(w)'
  <2>1. job[w] \in Task /\ Fenced(w) BY <1>2, FencedIsFresh DEF FenceInv, Sound
  <2>2. silent[w] # BeatTicks
    BY <1>2, <2>1 DEF Tick, MustActFirst, Busy, Fenced, QuietEnvironment
  <2>3. silent'[w] = silent[w] + 1 BY <2>2 DEF Tick
  <2>4. age'[job[w]] = Older(age[job[w]]) BY <2>1 DEF Tick
  <2>5. age[job[w]] \in Ages /\ silent[w] \in 0 .. BeatTicks /\ BeatTicks \in Nat
    BY <2>1, QueueAssumption DEF TypeInv, TypeOK
  <2>6. age'[job[w]] <= age[job[w]] + 1
    BY <2>4, <2>5, QueueAssumption DEF Older, Ages, StartupCutoff
  <2>7. age'[job[w]] \in Nat /\ age[job[w]] \in Nat
    BY <2>4, <2>5, QueueAssumption DEF Older, Ages, StartupCutoff
  <2>8. UNCHANGED <<up, state, attempt, pc, job, claim, heart>> BY DEF Tick, envVars
  <2>9. age'[job'[w]] <= silent'[w] + (IF pc'[w] = "executing" THEN BeatTicks ELSE 0)
    BY <2>1, <2>3, <2>5, <2>6, <2>7, <2>8 DEF Fenced
  <2>10. QED BY <2>1, <2>8, <2>9 DEF Fenced
<1>3. Alone' BY <1>1 DEF FenceInv, Alone, Tick
<1>4. ASSUME NEW w \in Worker, pc[w] = "finished" PROVE Ended(w)'
  BY <1>4 DEF FenceInv, Sound, Ended, Tick
<1>5. \A w \in Worker : Sound(w)'
  <2>1. UNCHANGED pc BY DEF Tick
  <2>2. QED BY <1>1, <1>2, <1>4, <2>1 DEF Sound
<1>6. QED BY <1>3, <1>5 DEF FenceInv

\* A refresh request touches the age of one row, and makes it younger.
LEMMA FenceRequest ==
  ASSUME TypeInv, FenceInv, NEW t \in Task, AskRefresh(t) \/ FlagRefresh(t)
  PROVE  FenceInv'
<1>1. UNCHANGED <<up, state, attempt, pc, job, claim, heart, silent>>
  BY DEF AskRefresh, FlagRefresh, rowVars, slotVars, envVars
<1>2. ASSUME NEW u \in Task PROVE age'[u] <= age[u] /\ age'[u] \in Nat /\ age[u] \in Nat
  BY QueueAssumption
  DEF AskRefresh, FlagRefresh, rowVars, TypeInv, TypeOK, Ages, StartupCutoff
<1>3. \A w \in Worker : (Busy(w)' <=> Busy(w)) /\ (Holds(w)' <=> Holds(w))
  BY <1>1 DEF Busy, Holds
<1>4. ASSUME NEW w \in Worker, Busy(w) PROVE Fenced(w)'
  <2>1. job[w] \in Task /\ Fenced(w) BY <1>4, FencedIsFresh DEF FenceInv, Sound
  <2>2. silent[w] \in Nat /\ BeatTicks \in Nat
    BY QueueAssumption DEF TypeInv, TypeOK
  <2>3. age'[job[w]] <= silent[w] + (IF pc[w] = "executing" THEN BeatTicks ELSE 0)
    BY <1>2, <2>1, <2>2 DEF Fenced
  <2>4. QED BY <1>1, <2>1, <2>3 DEF Fenced
<1>5. \A w \in Worker : Sound(w)'
  BY <1>1, <1>3, <1>4 DEF FenceInv, Sound, Ended
<1>6. Alone' BY <1>1, <1>3 DEF FenceInv, Alone
<1>7. QED BY <1>5, <1>6 DEF FenceInv

LEMMA FenceStep ==
  ASSUME QuietEnvironment, Unlisted, TypeInv, FenceInv, [Next]_vars
  PROVE  FenceInv'
<1>1. CASE Sweep
  BY <1>1, FenceRecovery DEF Sweep, slotVars, envVars
<1>2. CASE Crash \/ Stop
  BY <1>2 DEF Crash, Stop, FenceInv, Alone, Sound, Holds, Busy
<1>3. CASE Restart
  BY <1>3 DEF Restart, FenceInv, Alone, Sound, Holds, Busy
<1>4. CASE OutsideStep
  <2>1. ~ClearQueue /\ \A t \in Task : ~Decide(t) /\ ~RetryByHand(t)
    BY DEF ClearQueue, Decide, RetryByHand, QuietEnvironment
  <2>2. ~ListQueue /\ ~ClearListed
    BY UnlistedStep DEF QuietEnvironment, PromptClears
  <2>3. QED BY <1>4, <2>1, <2>2, FenceRequest DEF OutsideStep
<1>5. CASE UNCHANGED vars
  BY <1>5 DEF FenceInv, Alone, Sound, Fenced, Ended, Holds, Busy, vars, rowVars, slotVars, envVars
<1>6. QED BY <1>1, <1>2, <1>3, <1>4, <1>5, FenceSlot, FenceTick DEF Next

LEMMA FenceAlways ==
  ASSUME QuietEnvironment
  PROVE  Spec => [](TypeInv /\ FenceInv /\ Unlisted)
<1>1. Unlisted /\ TypeInv /\ FenceInv /\ [Next]_vars => FenceInv'
  BY FenceStep
<1>2. PromptClears BY DEF QuietEnvironment, PromptClears
<1>3. Spec => []Unlisted BY <1>2, UnlistedAlways
<1>4. QED BY <1>1, <1>3, FenceInit, TypeAlways, PTL DEF Spec

\* While heartbeats are timely and nobody but the refresh requests writes the rows
\* from outside, a running handler
\* is alone on its task and acts on the current claim, for every number of slots,
\* tasks, crashes and lease lengths of at least two beats.
THEOREM ClaimsAreFenced ==
  ASSUME QuietEnvironment
  PROVE  Spec => []ClaimIsFenced
<1>1. FenceInv => ClaimIsFenced
  BY DEF FenceInv, Sound, Fenced, Alone, Holds, ClaimIsFenced
<1>2. QED BY <1>1, FenceAlways, PTL

-------------------------------------------------------------------------------
(* Bounded executions                                                       *)

\* A queued row always has an execution left, and so has the row of a slot that
\* has claimed it and not yet started: the claim number then exceeds the runs.
\* A requested rerun gives one execution back, so it keeps all three facts.
RunInv ==
  /\ \A t \in Task : /\ runs[t] <= attempt[t] /\ runs[t] <= MaxAttempts
                     /\ state[t] \in Claimable => runs[t] < MaxAttempts
  /\ \A w \in Worker : pc[w] = "claimed" =>
        runs[job[w]] < MaxAttempts /\ runs[job[w]] < claim[w]

LEMMA RunInit == Init => RunInv
BY QueueAssumption DEF Init, RunInv

LEMMA RunSlot ==
  ASSUME TypeInv, FenceInv, RunInv, NEW w \in Worker, SlotStep(w)
  PROVE  RunInv'
<1> USE QueueAssumption DEF envVars, leaseVars
<1>0. pc \in [Worker -> {"idle", "claimed", "executing", "finished", "releasing", "dead"}]
      /\ job \in [Worker -> Task \cup {Nobody}] /\ claim \in [Worker -> Nat]
      /\ state \in [Task -> TaskState] /\ attempt \in [Task -> Nat] /\ runs \in [Task -> Int]
  BY DEF TypeInv, TypeOK
<1>1. CASE Claim(w)
  <2>1. PICK t \in Task : /\ Due(t) /\ Write(t, "running")
                          /\ attempt' = [attempt EXCEPT ![t] = @ + 1]
                          /\ job' = [job EXCEPT ![w] = t]
                          /\ claim' = [claim EXCEPT ![w] = attempt[t] + 1]
    BY <1>1 DEF Claim
  <2>2. UNCHANGED runs /\ pc' = [pc EXCEPT ![w] = "claimed"] BY <1>1 DEF Claim
  <2>3. runs[t] < MaxAttempts /\ runs[t] < attempt[t] + 1
    BY <1>0, <2>1 DEF Due, RunInv
  <2>4. \A u \in Task : /\ runs'[u] <= attempt'[u] /\ runs'[u] <= MaxAttempts
                        /\ state'[u] \in Claimable => runs'[u] < MaxAttempts
    BY <1>0, <2>1, <2>2 DEF RunInv, Write, Claimable
  <2>5. ASSUME NEW v \in Worker, pc'[v] = "claimed"
        PROVE  runs'[job'[v]] < MaxAttempts /\ runs'[job'[v]] < claim'[v]
    BY <1>0, <2>1, <2>2, <2>3, <2>5 DEF RunInv
  <2>6. QED BY <2>4, <2>5 DEF RunInv
<1>2. CASE Acquire(w)
  <2>1. Busy(w) /\ Fenced(w) /\ job[w] \in Task
    BY <1>2, FencedIsFresh DEF Acquire, Busy, FenceInv, Sound
  <2>2. runs[job[w]] < MaxAttempts /\ runs[job[w]] < attempt[job[w]]
    BY <1>2, <2>1 DEF Acquire, RunInv, Fenced
  <2>3. state[job[w]] \notin Claimable BY <2>1 DEF Fenced, Claimable
  <2>4. \A v \in Worker \ {w} : pc[v] = "claimed" => job[v] # job[w]
    BY <2>1 DEF FenceInv, Alone, Holds, Busy
  <2>5. /\ runs' = [runs EXCEPT ![job[w]] = @ + 1] /\ pc' = [pc EXCEPT ![w] = "executing"]
        /\ UNCHANGED <<state, attempt, job, claim>>
    BY <1>2 DEF Acquire
  <2>6. \A u \in Task : /\ runs'[u] <= attempt'[u] /\ runs'[u] <= MaxAttempts
                        /\ state'[u] \in Claimable => runs'[u] < MaxAttempts
    BY <1>0, <2>1, <2>2, <2>3, <2>5 DEF RunInv
  <2>7. ASSUME NEW v \in Worker, pc'[v] = "claimed"
        PROVE  runs'[job'[v]] < MaxAttempts /\ runs'[job'[v]] < claim'[v]
    BY <1>0, <2>4, <2>5, <2>7 DEF RunInv
  <2>8. QED BY <2>6, <2>7 DEF RunInv
<1>3. CASE LeaseConflict(w)
  <2>1. Busy(w) /\ job[w] \in Task BY <1>3, FencedIsFresh DEF LeaseConflict, Busy
  <2>2. runs[job[w]] < MaxAttempts BY <1>3 DEF LeaseConflict, RunInv
  <2>3. UNCHANGED <<attempt, runs, claim>> BY <1>3 DEF LeaseConflict
  <2>4. \A v \in Worker : pc'[v] = "claimed" => pc[v] = "claimed" /\ job'[v] = job[v]
    BY <1>0, <1>3 DEF LeaseConflict, Idle, Dies
  <2>5. \A u \in Task : u = job[w] \/ state'[u] = state[u]
    BY <1>0, <1>3 DEF LeaseConflict, Write
  <2>6. QED BY <2>2, <2>3, <2>4, <2>5 DEF RunInv
<1>4. CASE Retry(w) \/ \E outcome \in Outcome : Finish(w, outcome)
  <2>1. Busy(w) /\ Fenced(w) /\ job[w] \in Task
    BY <1>4, FencedIsFresh DEF Retry, Finish, Busy, FenceInv, Sound
  <2>2. UNCHANGED <<attempt, runs, job, claim>> /\ \E s \in {"finished", "releasing"} :
                                                       pc' = [pc EXCEPT ![w] = s]
    BY <1>4 DEF Retry, Finish
  <2>3. \A u \in Task : u = job[w] \/ state'[u] = state[u]
    BY <1>0, <1>4 DEF Retry, Finish, TryWrite, Write
  <2>4. state'[job[w]] \in Claimable => runs[job[w]] < MaxAttempts
    <3>1. CASE Retry(w)
      <4>1. claim[w] = attempt[job[w]] /\ runs[job[w]] <= attempt[job[w]]
        BY <2>1 DEF Fenced, RunInv
      <4>2. state'[job[w]] \in Claimable => claim[w] < MaxAttempts
        BY <1>0, <2>1, <3>1 DEF Retry, TryWrite, Write, Fenced, Claimable
      <4>3. QED BY <1>0, <2>1, <4>1, <4>2
    <3>2. CASE \E outcome \in Outcome : Finish(w, outcome)
      BY <1>0, <2>1, <3>2 DEF Finish, TryWrite, Write, Fenced, Claimable, Outcome
    <3>3. QED BY <1>4, <3>1, <3>2
  <2>5. \A v \in Worker : pc'[v] = "claimed" => pc[v] = "claimed"
    BY <1>0, <2>2
  <2>6. QED BY <2>2, <2>3, <2>4, <2>5 DEF RunInv
<1>5. CASE Beat(w) \/ Release(w) \/ RedisFault(w) \/ BeatFault(w) \/ ReleaseFails(w)
  <2>1. UNCHANGED <<state, attempt, runs, claim>>
    BY <1>5 DEF Beat, Release, RedisFault, BeatFault, ReleaseFails, rowVars
  <2>2. \A v \in Worker : pc'[v] = "claimed" => pc[v] = "claimed" /\ job'[v] = job[v]
    BY <1>0, <1>5 DEF Beat, Release, RedisFault, BeatFault, ReleaseFails, Idle, Dies
  <2>3. QED BY <2>1, <2>2 DEF RunInv
<1>6. CASE Rerun(w)
  <2>1. Holds(w) /\ job[w] \in Task
    BY <1>6, HeldIsNotQueued DEF Rerun, Holds
  <2>2. \A v \in Worker : pc'[v] = "claimed" => pc[v] = "claimed" /\ job'[v] = job[v]
    BY <1>0, <1>6 DEF Rerun
  <2>3. \A v \in Worker : pc[v] = "claimed" => job[v] # job[w]
    BY <1>6, <2>1 DEF Rerun, FenceInv, Alone, Holds, Busy
  <2>4. UNCHANGED <<attempt, claim>> BY <1>6 DEF Rerun
  <2>5. CASE refresh[job[w]]
    <3>1. /\ runs' = [runs EXCEPT ![job[w]] = @ - 1]
          /\ state' = [state EXCEPT ![job[w]] = "scheduled"]
      BY <1>6, <2>5 DEF Rerun, Write
    <3>2. \A u \in Task : /\ runs'[u] <= attempt'[u] /\ runs'[u] <= MaxAttempts
                          /\ state'[u] \in Claimable => runs'[u] < MaxAttempts
      BY <1>0, <2>1, <2>4, <3>1 DEF RunInv
    <3>3. \A v \in Worker : pc[v] = "claimed" => runs'[job[v]] = runs[job[v]]
      BY <1>0, <2>3, <3>1
    <3>4. QED BY <2>2, <2>4, <3>2, <3>3 DEF RunInv
  <2>6. CASE ~refresh[job[w]]
    <3>1. UNCHANGED <<state, runs>> BY <1>6, <2>6 DEF Rerun
    <3>2. QED BY <2>2, <2>4, <3>1 DEF RunInv
  <2>7. QED BY <2>5, <2>6
<1>7. QED BY <1>1, <1>2, <1>3, <1>4, <1>5, <1>6 DEF SlotStep

LEMMA RunStep ==
  ASSUME QuietEnvironment, Unlisted, TypeInv, FenceInv, RunInv, [Next]_vars
  PROVE  RunInv'
<1>1. CASE Sweep \/ Restart
  <2>1. ASSUME NEW t \in Task PROVE state'[t] \in Claimable => runs[t] < MaxAttempts
    <3>1. \/ state'[t] = state[t]
          \/ state'[t] = Recovered(t)
      BY <1>1 DEF Sweep, Restart, RecoverStale
    <3>2. Recovered(t) \in Claimable => attempt[t] < MaxAttempts
      BY QueueAssumption DEF Recovered, Claimable, TypeInv, TypeOK
    <3>3. runs[t] <= attempt[t] /\ runs[t] \in Int /\ attempt[t] \in Nat /\ MaxAttempts \in Nat
      BY QueueAssumption DEF RunInv, TypeInv, TypeOK
    <3>4. QED BY <3>1, <3>2, <3>3 DEF RunInv
  <2>2. UNCHANGED <<attempt, runs, job, claim>> BY <1>1 DEF Sweep, Restart, slotVars
  <2>3. \A v \in Worker : pc'[v] = "claimed" => pc[v] = "claimed"
    BY <1>1 DEF Sweep, Restart, slotVars
  <2>4. QED BY <2>1, <2>2, <2>3 DEF RunInv
<1>2. CASE Crash \/ Stop
  BY <1>2 DEF Crash, Stop, RunInv, rowVars
<1>3. CASE OutsideStep
  <2>1. ~ClearQueue /\ \A t \in Task : ~Decide(t) /\ ~RetryByHand(t)
    BY DEF ClearQueue, Decide, RetryByHand, QuietEnvironment
  <2>2. ~ListQueue /\ ~ClearListed
    BY UnlistedStep DEF QuietEnvironment, PromptClears
  <2>3. ASSUME NEW t \in Task, AskRefresh(t) \/ FlagRefresh(t) PROVE RunInv'
    BY <2>3 DEF AskRefresh, FlagRefresh, RunInv, rowVars, slotVars
  <2>4. QED BY <1>3, <2>1, <2>2, <2>3 DEF OutsideStep
<1>4. CASE Tick
  BY <1>4 DEF Tick, RunInv
<1>5. CASE UNCHANGED vars
  BY <1>5 DEF RunInv, vars, rowVars, slotVars
<1>6. QED BY <1>1, <1>2, <1>3, <1>4, <1>5, RunSlot DEF Next

\* In the same environment no row's handler is started more often than
\* worker_max_attempts allows (one more for each requested rerun), however many
\* claims end in lease conflicts.
THEOREM ExecutionsAreBounded ==
  ASSUME QuietEnvironment
  PROVE  Spec => []RunsBounded
<1>1. Unlisted /\ TypeInv /\ FenceInv /\ RunInv /\ [Next]_vars => RunInv' BY RunStep
<1>2. RunInv => RunsBounded BY DEF RunInv, RunsBounded
<1>3. QED BY <1>1, <1>2, RunInit, FenceAlways, PTL DEF Spec
===============================================================================
