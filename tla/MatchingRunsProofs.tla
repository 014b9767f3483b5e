-------------------------- MODULE MatchingRunsProofs --------------------------
(***************************************************************************)
(* Theorems about MatchingRuns, for any number of applications, slots,     *)
(* contents and requests, and whatever mishap happens.                     *)
(***************************************************************************)
EXTENDS MatchingRuns, TLAPS

Statuses == Transient \cup {"none", "scored", "degraded", "failed"}
RowType  == [state : TaskState \cup {"absent"},
             tries : 0..(MaxAttempts + MaxRequests), refresh : BOOLEAN]
ResultType == [status : Statuses, of : Content \cup {<<0, 0>>}, rejected : BOOLEAN]
RunType  == [pc : Working \cup {"idle", "dead"}, key : Key, content : Content,
             newReqs : BOOLEAN, newEvid : BOOLEAN, gone : BOOLEAN, orphan : BOOLEAN]

\* A promised rerun counts as one that has been.
Spent(r) == r.tries + (IF r.refresh THEN 1 ELSE 0)

\* A row is run as often as the attempts and the requests so far allow, and one that
\* can be claimed once more.
RowCounted(r, n) ==
  /\ Spent(r) <= MaxAttempts + n
  /\ r.state \in Claimable => Spent(r) < MaxAttempts + n
  /\ r.refresh => n > 0

Counted ==
  /\ vac <= changes + 1 /\ \A a \in App : cv[a] <= changes + 1
  /\ \A k \in Key : RowCounted(rows[k], asked)

TypeInv == TypeOK /\ Counted

-------------------------------------------------------------------------------
(* Types, and the bounds of the attempts                                    *)

LEMMA BoundsTyped ==
  /\ MaxAttempts \in Nat /\ MaxAttempts > 0 /\ MaxRequests \in Nat /\ MaxChanges \in Nat
  /\ MaxAttempts + MaxRequests \in Nat
BY MatchingAssumption

LEMMA ContentTyped ==
  /\ 1 \in Version /\ Version \subseteq Nat /\ <<1, 1>> \in Content
  /\ NoRun \in RunType /\ NoRun.pc = "idle" /\ NoRow \in RowType
<1>1. 1 \in Version /\ Version \subseteq Nat
  BY BoundsTyped DEF Version
<1>2. <<1, 1>> \in Content
  BY <1>1 DEF Content
<1>3. (CHOOSE k \in Key : TRUE) \in Key
  <2>1. PICK a \in App : TRUE BY MatchingAssumption
  <2>2. <<a, <<1, 1>>>> \in Key BY <1>2 DEF Key
  <2> QED BY <2>2, Zenon
<1>4. NoRow \in RowType
  BY BoundsTyped DEF NoRow, RowType
<1> QED BY <1>1, <1>2, <1>3, <1>4 DEF NoRun, RunType

LEMMA KeyTyped ==
  ASSUME TypeOK, NEW a \in App
  PROVE  CurrentKey(a) \in Key /\ <<vac, cv[a]>> \in Content
BY DEF TypeOK, CurrentKey, Key, Content

\* The rows, when one of them changes.
LEMMA RowChanges ==
  ASSUME TypeInv, NEW k \in Key, NEW r \in RowType, rows' = [rows EXCEPT ![k] = r],
         asked' \in {asked, asked + 1}, RowCounted(r, asked')
  PROVE  rows' \in [Key -> RowType] /\ \A x \in Key : RowCounted(rows'[x], asked')
<1>1. rows \in [Key -> RowType] /\ asked \in Nat /\ asked' \in Nat
  BY BoundsTyped DEF TypeInv, TypeOK, RowType
<1>2. \A x \in Key : RowCounted(rows[x], asked')
  <2> SUFFICES ASSUME NEW x \in Key PROVE RowCounted(rows[x], asked')
    OBVIOUS
  <2>1. RowCounted(rows[x], asked) /\ rows[x] \in RowType
    BY <1>1 DEF TypeInv, Counted
  <2> QED BY <2>1, <1>1, BoundsTyped DEF RowCounted, Spent, RowType
<1> QED BY <1>1, <1>2

LEMMA RowsStay ==
  ASSUME TypeInv, UNCHANGED rows, asked' \in {asked, asked + 1}
  PROVE  rows' \in [Key -> RowType] /\ \A x \in Key : RowCounted(rows'[x], asked')
<1>1. rows \in [Key -> RowType] /\ asked \in Nat /\ asked' \in Nat
  BY BoundsTyped DEF TypeInv, TypeOK, RowType
<1> SUFFICES ASSUME NEW x \in Key PROVE RowCounted(rows[x], asked')
  BY <1>1
<1>2. RowCounted(rows[x], asked) /\ rows[x] \in RowType
  BY <1>1 DEF TypeInv, Counted
<1> QED BY <1>1, <1>2, BoundsTyped DEF RowCounted, Spent, RowType

LEMMA ResultTyped ==
  ASSUME TypeOK, NEW a \in App, NEW s \in Statuses, Status(a, s)
  PROVE  result' \in [App -> ResultType]
<1>1. result \in [App -> ResultType]
  BY DEF TypeOK, ResultType, Statuses
<1>2. [result[a] EXCEPT !.status = s] \in ResultType
  BY <1>1 DEF ResultType
<1> QED BY <1>1, <1>2 DEF Status

LEMMA LosingTyped ==
  ASSUME TypeOK, NEW deleted, NEW wiped \in BOOLEAN, Losing(deleted, wiped)
  PROVE  /\ run' \in [Worker -> RunType]
         /\ \A w \in Worker :
              /\ run'[w].pc = run[w].pc /\ run'[w].key = run[w].key
              /\ run'[w].content = run[w].content /\ run'[w].newReqs = run[w].newReqs
              /\ run'[w].orphan <=> (run[w].orphan \/ (run[w].pc \in Working /\ run[w].key \in deleted))
              /\ run'[w].gone <=> (run[w].gone \/ (wiped /\ Holds(w) /\ ~run[w].newReqs))
<1>1. \A w \in Worker : run[w] \in RunType
  BY DEF TypeOK, RunType
<1>2. \A w \in Worker : (run[w].pc \in Working /\ run[w].key \in deleted) \in BOOLEAN
                        /\ (wiped /\ Holds(w) /\ ~run[w].newReqs) \in BOOLEAN
  BY DEF Holds
<1>3. ASSUME NEW w \in Worker
      PROVE  /\ run'[w] \in RunType
             /\ run'[w].pc = run[w].pc /\ run'[w].key = run[w].key
             /\ run'[w].content = run[w].content /\ run'[w].newReqs = run[w].newReqs
             /\ run'[w].orphan = (run[w].orphan \/ (run[w].pc \in Working /\ run[w].key \in deleted))
             /\ run'[w].gone = (run[w].gone \/ (wiped /\ Holds(w) /\ ~run[w].newReqs))
  <2> DEFINE orphan == run[w].orphan \/ (run[w].pc \in Working /\ run[w].key \in deleted)
             gone   == run[w].gone \/ (wiped /\ Holds(w) /\ ~run[w].newReqs)
  <2>1. orphan \in BOOLEAN /\ gone \in BOOLEAN
    BY <1>1, <1>2 DEF RunType
  <2>2. run'[w] = [run[w] EXCEPT !.orphan = orphan, !.gone = gone]
    BY DEF Losing
  <2> HIDE DEF orphan, gone
  <2>3. /\ run'[w] \in RunType
        /\ run'[w].pc = run[w].pc /\ run'[w].key = run[w].key
        /\ run'[w].content = run[w].content /\ run'[w].newReqs = run[w].newReqs
        /\ run'[w].orphan = orphan /\ run'[w].gone = gone
    BY <1>1, <2>1, <2>2 DEF RunType
  <2> QED BY <2>3 DEF orphan, gone
<1>4. run' \in [Worker -> RunType]
  BY <1>3 DEF Losing
<1> QED BY <1>3, <1>4, Zenon

\* What a step leaves, but for the rows and the run.
Others ==
  /\ UNCHANGED <<vac, cv, changes>> /\ asked' \in {asked, asked + 1} /\ asked' \in 0..MaxRequests
  /\ reqs' \subseteq Version /\ evid' \subseteq App \X Version
  /\ matches' \in [App -> SUBSET Version] /\ result' \in [App -> ResultType]
  /\ stripped' \subseteq App /\ upset' \in Upsets \cup {"none"}

LEMMA TypeSum ==
  ASSUME TypeInv, Others, rows' \in [Key -> RowType], run' \in [Worker -> RunType],
         \A x \in Key : RowCounted(rows'[x], asked')
  PROVE  TypeInv'
BY DEF TypeInv, TypeOK, Counted, Others, RowType, RunType, ResultType, Statuses

LEMMA TypeInit == Init => TypeInv
<1> SUFFICES ASSUME Init PROVE TypeInv
  OBVIOUS
<1>1. rows \in [Key -> RowType] /\ run \in [Worker -> RunType]
  BY ContentTyped DEF Init
<1>2. result \in [App -> ResultType]
  BY DEF Init, ResultType, Statuses
<1>3. vac \in Version /\ cv \in [App -> Version] /\ changes \in 0..MaxChanges /\ asked \in 0..MaxRequests
  BY ContentTyped, BoundsTyped DEF Init
<1>4. Counted
  BY BoundsTyped DEF Init, Counted, RowCounted, Spent, NoRow, Claimable
<1> QED BY <1>1, <1>2, <1>3, <1>4 DEF Init, TypeInv, TypeOK, RowType, RunType, ResultType, Statuses

\* Requests.
LEMMA TypeReplace ==
  ASSUME TypeInv, NEW a \in App, NEW force \in BOOLEAN, NEW state \in {"pending", "scheduled"},
         Replace(a, force, state), result' \in [App -> ResultType], upset' \in Upsets \cup {"none"}
  PROVE  TypeInv'
<1> DEFINE k == CurrentKey(a)
           r == [NoRow EXCEPT !.state = state]
<1>1. k \in Key
  BY KeyTyped DEF TypeInv
<1>2. asked' = asked + 1 /\ asked' \in 0..MaxRequests /\ asked \in Nat
  BY BoundsTyped DEF Replace, TypeInv, TypeOK
<1>3. r \in RowType
  <2>1. NoRow \in RowType /\ state \in TaskState
    BY ContentTyped DEF TaskState, Claimable
  <2> QED BY <2>1 DEF RowType
<1>9. RowCounted(r, asked')
  <2>1. r.tries = 0 /\ r.refresh = FALSE
    BY DEF NoRow
  <2> HIDE DEF r
  <2>2. Spent(r) = 0
    BY <2>1 DEF Spent
  <2> QED BY <1>2, <2>1, <2>2, BoundsTyped DEF RowCounted
<1>4. rows' \in [Key -> RowType] /\ \A x \in Key : RowCounted(rows'[x], asked')
  BY <1>1, <1>2, <1>3, <1>9, RowChanges DEF Replace
<1>5. \E wiped \in BOOLEAN : Losing({k}, wiped)
  BY DEF Replace
<1>6. run' \in [Worker -> RunType]
  BY <1>5, LosingTyped DEF TypeInv
<1>7. reqs' \subseteq Version /\ matches' \in [App -> SUBSET Version] /\ stripped' \subseteq App
  BY DEF Replace, ClearExtraction, TypeInv, TypeOK
<1>8. Others
  BY <1>2, <1>7 DEF Others, Replace, TypeInv, TypeOK
<1> QED BY <1>4, <1>6, <1>8, TypeSum

LEMMA TypeRefresh ==
  ASSUME TypeInv, NEW a \in App, Refresh(a)
  PROVE  TypeInv'
<1> DEFINE k == CurrentKey(a)
           r == [rows[k] EXCEPT !.refresh = TRUE]
<1>1. k \in Key
  BY KeyTyped DEF TypeInv
<1>2. asked' = asked + 1 /\ asked' \in 0..MaxRequests /\ asked \in Nat
  BY BoundsTyped DEF Refresh, TypeInv, TypeOK
<1>3. rows[k] \in RowType /\ RowCounted(rows[k], asked)
  BY <1>1 DEF TypeInv, TypeOK, Counted, RowType
<1>4. r \in RowType /\ RowCounted(r, asked')
  <2>1. r \in RowType /\ r.state = rows[k].state /\ r.tries = rows[k].tries /\ r.refresh
    BY <1>3 DEF RowType
  <2>2. rows[k].tries \in Nat
    BY <1>3, BoundsTyped DEF RowType
  <2> QED BY <1>2, <1>3, <2>1, <2>2, BoundsTyped DEF RowCounted, Spent
<1>5. rows' = [rows EXCEPT ![k] = r]
  BY DEF Refresh
<1>6. rows' \in [Key -> RowType] /\ \A x \in Key : RowCounted(rows'[x], asked')
  BY <1>1, <1>2, <1>4, <1>5, RowChanges
<1>7. run' \in [Worker -> RunType]
  BY LosingTyped DEF Refresh, TypeInv
<1>8. Others
  BY <1>2 DEF Others, Refresh, ClearExtraction, TypeInv, TypeOK, ResultType, Statuses
<1> QED BY <1>6, <1>7, <1>8, TypeSum

LEMMA TypeRequest ==
  ASSUME TypeInv, NEW a \in App, Request(a)
  PROVE  TypeInv'
<1>1. Refresh(a) => TypeInv'
  BY TypeRefresh
<1>2. ASSUME NEW force \in BOOLEAN, Schedule(a, force) PROVE TypeInv'
  <2>1. result' \in [App -> ResultType] /\ upset' \in Upsets \cup {"none"}
    BY <1>2, ResultTyped DEF Schedule, Statuses, Transient, TypeInv, TypeOK
  <2> QED BY <1>2, <2>1, TypeReplace DEF Schedule
<1>3. ASSUME NEW force \in BOOLEAN, ScheduleCrashes(a, force) PROVE TypeInv'
  <2>1. result' \in [App -> ResultType] /\ upset' \in Upsets \cup {"none"}
    BY <1>3 DEF ScheduleCrashes, Upset, TypeInv, TypeOK, ResultType, Statuses
  <2> QED BY <1>3, <2>1, TypeReplace DEF ScheduleCrashes
<1> QED BY <1>1, <1>2, <1>3 DEF Request, Backfill

LEMMA TypeClearQueue ==
  ASSUME TypeInv, ClearQueue
  PROVE  TypeInv'
<1> DEFINE To(r) == [r EXCEPT !.state = IF @ = "running" THEN "interrupted"
                                        ELSE IF @ \in Active THEN "cancelled" ELSE @]
<1>1. \A k \in Key : rows[k] \in RowType /\ RowCounted(rows[k], asked)
  BY DEF TypeInv, TypeOK, Counted, RowType
<1>2. \A k \in Key : To(rows[k]) \in RowType /\ RowCounted(To(rows[k]), asked)
  BY <1>1 DEF RowType, RowCounted, Spent, TaskState, Claimable, Settled
<1>3. rows' = [k \in Key |-> To(rows[k])] /\ UNCHANGED asked
  BY DEF ClearQueue
<1> HIDE DEF To
<1>4. rows' \in [Key -> RowType] /\ \A x \in Key : RowCounted(rows'[x], asked')
  BY <1>2, <1>3
<1>5. result' \in [App -> ResultType]
  <2>1. \A a \in App : result[a] \in ResultType /\ [result[a] EXCEPT !.status = "failed"] \in ResultType
    <3>1. \A a \in App : result[a] \in ResultType
      BY DEF TypeInv, TypeOK, ResultType, Statuses
    <3>2. \A r \in ResultType : [r EXCEPT !.status = "failed"] \in ResultType
      BY DEF ResultType, Statuses
    <3> QED BY <3>1, <3>2
  <2> DEFINE Drops(a) == /\ result[a].status = "pending"
                         /\ \E k \in Key : k[1] = a /\ rows[k].state \in Active \ {"running"}
             New(a) == IF Drops(a) THEN [result[a] EXCEPT !.status = "failed"] ELSE result[a]
  <2>2. result' = [a \in App |-> New(a)]
    BY Zenon DEF ClearQueue
  <2> HIDE DEF Drops
  <2>3. \A a \in App : New(a) \in ResultType
    BY <2>1
  <2> QED BY <2>2, <2>3
<1>6. Others /\ run' \in [Worker -> RunType]
  BY <1>5 DEF ClearQueue, Upset, Others, TypeInv, TypeOK, RunType
<1> QED BY <1>4, <1>6, TypeSum

\* The contents.
LEMMA TypeChanges ==
  ASSUME TypeInv, ChangeVacancy \/ \E a \in App : ChangeCv(a)
  PROVE  TypeInv'
<1>1. /\ changes \in Nat /\ changes' = changes + 1 /\ changes' \in 0..MaxChanges
      /\ UNCHANGED <<rows, reqs, evid, matches, stripped, result, run, asked, upset>>
  BY BoundsTyped DEF ChangeVacancy, ChangeCv, TypeInv, TypeOK
<1>2. /\ vac' \in Version /\ vac' <= changes' + 1
      /\ cv' \in [App -> Version] /\ \A a \in App : cv'[a] <= changes' + 1
  <2>1. vac \in Version /\ cv \in [App -> Version] /\ \A a \in App : cv[a] \in Version
    BY DEF TypeInv, TypeOK
  <2>2. /\ vac' \in {vac, vac + 1}
        /\ UNCHANGED cv \/ \E a \in App : cv' = [cv EXCEPT ![a] = @ + 1]
    BY DEF ChangeVacancy, ChangeCv
  <2>3. vac <= changes + 1 /\ \A a \in App : cv[a] <= changes + 1
    BY DEF TypeInv, Counted
  <2>4. vac + 1 \in Version /\ \A a \in App : cv[a] + 1 \in Version
    BY <1>1, <2>1, <2>3, BoundsTyped DEF Version
  <2>5. vac \in Nat /\ \A a \in App : cv[a] \in Nat
    BY <2>1, BoundsTyped DEF Version
  <2>6. vac' \in Version /\ vac' <= changes' + 1
    BY <1>1, <2>1, <2>2, <2>3, <2>4, <2>5
  <2>7. cv' \in [App -> Version]
    BY <2>1, <2>2, <2>4
  <2>8. ASSUME NEW a \in App PROVE cv'[a] <= changes' + 1
    <3>1. cv'[a] = cv[a] \/ cv'[a] = cv[a] + 1
      BY <2>1, <2>2
    <3> QED BY <1>1, <2>3, <2>5, <3>1
  <2> QED BY <2>6, <2>7, <2>8
<1>3. Counted'
  BY <1>1, <1>2 DEF Counted, TypeInv, RowCounted, Spent
<1> QED BY <1>1, <1>2, <1>3 DEF TypeInv, TypeOK, Working

\* The slot writes the row back as it claimed it.
LEMMA WriteBackTyped ==
  ASSUME TypeInv, NEW w \in Worker, NEW to \in TaskState, WriteBack(w, to), UNCHANGED asked,
         to \in Claimable => Spent(rows[run[w].key]) < MaxAttempts + asked
  PROVE  /\ run' \in [Worker -> RunType] /\ rows' \in [Key -> RowType]
         /\ \A x \in Key : RowCounted(rows'[x], asked')
<1> DEFINE k == run[w].key
           r == [rows[k] EXCEPT !.state = to]
<1>1. run \in [Worker -> RunType] /\ rows \in [Key -> RowType] /\ run[w] \in RunType
  BY DEF TypeInv, TypeOK, RunType, RowType
<1>2. k \in Key /\ rows[k] \in RowType /\ RowCounted(rows[k], asked)
  BY <1>1 DEF TypeInv, Counted, RunType
<1>3. r \in RowType /\ RowCounted(r, asked)
  BY <1>2 DEF RowType, RowCounted, Spent
<1>4. run' \in [Worker -> RunType]
  <2>1. NoRun \in RunType /\ [NoRun EXCEPT !.pc = "dead"] \in RunType
    BY ContentTyped DEF RunType
  <2> QED BY <1>1, <2>1 DEF WriteBack
<1>5. UNCHANGED rows \/ rows' = [rows EXCEPT ![k] = r]
  BY <1>1, <1>2 DEF WriteBack, RowType
<1>6. rows' \in [Key -> RowType] /\ \A x \in Key : RowCounted(rows'[x], asked')
  BY <1>2, <1>3, <1>5, RowChanges, RowsStay
<1> QED BY <1>4, <1>6

LEMMA TypeRunRow ==
  ASSUME TypeInv, NEW w \in Worker,
         (\E k \in Key : Claim(w, k)) \/ Complete(w) \/ Retry(w) \/ Exhaust(w)
  PROVE  TypeInv'
<1>1. run \in [Worker -> RunType] /\ run[w] \in RunType /\ rows \in [Key -> RowType]
      /\ asked \in Nat
  BY BoundsTyped DEF TypeInv, TypeOK, RunType, RowType
<1>2. Others /\ UNCHANGED asked
  BY DEF Others, Claim, Complete, Retry, Exhaust, TypeInv, TypeOK, ResultType, Statuses
<1>3. ASSUME NEW k \in Key, Claim(w, k) PROVE TypeInv'
  <2> DEFINE r == [rows[k] EXCEPT !.state = "running", !.tries = @ + 1]
  <2>1. rows[k] \in RowType /\ RowCounted(rows[k], asked) /\ rows[k].state \in Claimable
    BY <1>1, <1>3 DEF TypeInv, Counted, Claim
  <2>2. r \in RowType /\ RowCounted(r, asked)
    <3>1. Spent(rows[k]) + 1 <= MaxAttempts + asked /\ rows[k].tries + 1 <= MaxAttempts + asked
          /\ asked <= MaxRequests
      BY <1>1, <2>1, BoundsTyped DEF RowCounted, Spent, RowType, TypeInv, TypeOK
    <3>2. r \in RowType
      <4>1. rows[k].tries + 1 \in 0..(MaxAttempts + MaxRequests)
        BY <1>1, <2>1, <3>1, BoundsTyped DEF RowType
      <4> QED BY <2>1, <4>1 DEF RowType, TaskState
    <3> QED BY <1>1, <2>1, <3>1, <3>2 DEF RowCounted, Spent, RowType, Claimable
  <2>3. rows' = [rows EXCEPT ![k] = r]
    BY <1>3 DEF Claim
  <2>4. rows' \in [Key -> RowType] /\ \A x \in Key : RowCounted(rows'[x], asked')
    BY <1>2, <2>2, <2>3, RowChanges
  <2>5. run' \in [Worker -> RunType]
    <3>1. [NoRun EXCEPT !.pc = "claimed", !.key = k] \in RunType
      BY ContentTyped DEF RunType, Working
    <3> QED BY <1>1, <1>3, <3>1 DEF Claim
  <2> QED BY <1>2, <2>4, <2>5, TypeSum
<1>4. ASSUME NEW to \in TaskState, WriteBack(w, to),
             to \in Claimable => Spent(rows[run[w].key]) < MaxAttempts + asked
      PROVE  TypeInv'
  BY <1>2, <1>4, WriteBackTyped, TypeSum
<1>5. CASE Exhaust(w) \/ (Complete(w) /\ WriteBack(w, "completed"))
  <2>1. {"failed", "completed"} \subseteq TaskState \ Claimable
    BY DEF TaskState, Settled, Claimable
  <2> QED BY <1>4, <1>5, <2>1 DEF Exhaust
<1>6. CASE Retry(w)
  <2>1. rows[run[w].key] \in RowType /\ RowCounted(rows[run[w].key], asked)
    BY <1>1 DEF TypeInv, Counted, RunType
  <2>2. Spent(rows[run[w].key]) < MaxAttempts + asked
    BY <1>1, <1>6, <2>1, BoundsTyped DEF Retry, RowCounted, Spent, RowType
  <2> QED BY <1>4, <1>6, <2>2 DEF Retry, TaskState, Claimable
<1>7. CASE Complete(w) /\ ~run[w].orphan /\ rows[run[w].key].refresh
  <2> DEFINE k == run[w].key
             r == [rows[k] EXCEPT !.state = "scheduled", !.refresh = FALSE]
  <2>1. k \in Key /\ rows[k] \in RowType /\ RowCounted(rows[k], asked)
    BY <1>1 DEF TypeInv, Counted, RunType
  <2>2. r \in RowType /\ RowCounted(r, asked)
    <3>1. r \in RowType /\ r.tries = rows[k].tries /\ r.refresh = FALSE
      BY <2>1 DEF RowType, TaskState, Claimable
    <3>2. rows[k].refresh /\ rows[k].tries \in Nat
      BY <1>7, <2>1, BoundsTyped DEF RowType
    <3>3. rows[k].tries + 1 <= MaxAttempts + asked
      BY <2>1, <3>2 DEF RowCounted, Spent
    <3> HIDE DEF r
    <3> QED BY <1>1, <3>1, <3>2, <3>3, BoundsTyped DEF RowCounted, Spent
  <2>3. rows' = [rows EXCEPT ![k] = r] /\ run' = [run EXCEPT ![w] = NoRun]
    BY <1>7 DEF Complete
  <2>4. rows' \in [Key -> RowType] /\ \A x \in Key : RowCounted(rows'[x], asked')
    BY <1>2, <2>1, <2>2, <2>3, RowChanges
  <2> QED BY <1>1, <1>2, <2>3, <2>4, ContentTyped, TypeSum
<1> QED BY <1>3, <1>5, <1>6, <1>7 DEF Complete

\* The pipeline.
LEMMA PipelineRun ==
  ASSUME TypeInv, NEW w \in Worker,
         Begin(w) \/ Extract(w) \/ Store(w) \/ Reject(w) \/ Score(w) \/ Break(w) \/ FailEarly(w)
  PROVE  /\ run' = [run EXCEPT ![w] = run'[w]] /\ run'[w] \in RunType
         /\ run'[w].key = run[w].key /\ run'[w].orphan = run[w].orphan /\ run'[w].gone = run[w].gone
         /\ Begin(w) \/ run'[w].content = run[w].content
         /\ Extract(w) \/ Store(w) \/ run'[w].newReqs = run[w].newReqs
<1>1. run \in [Worker -> RunType] /\ run[w] \in RunType /\ run[w].key[1] \in App
  BY DEF TypeInv, TypeOK, RunType, Key
<1>2. <<vac, cv[run[w].key[1]]>> \in Content
  BY <1>1, KeyTyped DEF TypeInv
<1>3. CASE Begin(w) BY <1>1, <1>2, <1>3 DEF Begin, RunType, Working
<1>4. CASE Extract(w) BY <1>1, <1>4 DEF Extract, RunType, Working
<1>5. CASE Store(w) BY <1>1, <1>5 DEF Store, RunType, Working
<1>6. CASE Reject(w) \/ Score(w) \/ Break(w) \/ FailEarly(w)
  <2>1. \E pc \in {"scored", "broken"} : Move(w, pc)
    BY <1>6 DEF Reject, Score, Break, FailEarly
  <2> QED BY <1>1, <2>1 DEF Move, RunType, Working
<1> QED BY <1>3, <1>4, <1>5, <1>6

LEMMA TypePipeline ==
  ASSUME TypeInv, NEW w \in Worker,
         Begin(w) \/ Extract(w) \/ Store(w) \/ Reject(w) \/ Score(w) \/ Break(w) \/ FailEarly(w)
  PROVE  TypeInv'
<1>1. /\ run \in [Worker -> RunType] /\ run[w] \in RunType
      /\ run[w].key[1] \in App /\ run[w].content \in Content
      /\ run[w].content[1] \in Version /\ run[w].content[2] \in Version
  BY DEF TypeInv, TypeOK, RunType, Key, Content
<1>2. UNCHANGED <<vac, cv, rows, changes, asked>>
  BY DEF Begin, Extract, Store, StoreExtraction, Reject, Score, Break, FailEarly
<1>3. run' \in [Worker -> RunType]
  BY <1>1, PipelineRun
<1>4. result' \in [App -> ResultType]
  <2>1. CASE Begin(w) \/ Extract(w) \/ Store(w) \/ Break(w)
    <3>1. \E s \in Statuses : Status(run[w].key[1], s)
      BY <2>1 DEF Begin, Extract, Store, Break, Statuses, Transient
    <3> QED BY <1>1, <3>1, ResultTyped DEF TypeInv
  <2>2. CASE Reject(w) \/ Score(w)
    <3>1. \E r \in ResultType : result' = [result EXCEPT ![run[w].key[1]] = r]
      BY <1>1, <2>2 DEF Reject, Score, Result, ResultType, Statuses
    <3> QED BY <3>1 DEF TypeInv, TypeOK, ResultType, Statuses
  <2>3. CASE FailEarly(w)
    BY <2>3 DEF FailEarly, TypeInv, TypeOK, ResultType, Statuses
  <2> QED BY <2>1, <2>2, <2>3
<1>5. /\ reqs' \subseteq Version /\ evid' \subseteq App \X Version
      /\ matches' \in [App -> SUBSET Version] /\ stripped' \subseteq App
      /\ upset' \in Upsets \cup {"none"}
  <2> USE DEF TypeInv, TypeOK
  <2>1. CASE Begin(w) \/ Extract(w) \/ Break(w) \/ FailEarly(w)
    BY <2>1 DEF Begin, Extract, Break, FailEarly, Upset
  <2>2. CASE StoreExtraction(w)
    BY <1>1, <2>2 DEF StoreExtraction
  <2>3. CASE Score(w)
    BY <1>1, <2>3 DEF Score
  <2> QED BY <2>1, <2>2, <2>3 DEF Store, Reject
<1>6. Others
  BY <1>2, <1>4, <1>5 DEF Others, TypeInv, TypeOK
<1>7. rows' \in [Key -> RowType] /\ \A x \in Key : RowCounted(rows'[x], asked')
  BY <1>2, RowsStay
<1> QED BY <1>3, <1>6, <1>7, TypeSum

LEMMA TypeStep == TypeInv /\ [Next]_vars => TypeInv'
<1> SUFFICES ASSUME TypeInv, [Next]_vars PROVE TypeInv'
  OBVIOUS
<1>1. CASE UNCHANGED vars
  BY <1>1 DEF vars, TypeInv, TypeOK, Counted, RowCounted, Spent
<1>2. ASSUME NEW w \in Worker, RunStep(w) \/ Break(w) \/ FailEarly(w) PROVE TypeInv'
  BY <1>2, TypeRunRow, TypePipeline DEF RunStep
<1>3. ASSUME NEW a \in App, Request(a) \/ ChangeCv(a) PROVE TypeInv'
  BY <1>3, TypeRequest, TypeChanges
<1>4. CASE ChangeVacancy \/ ClearQueue
  BY <1>4, TypeChanges, TypeClearQueue
<1> QED BY <1>1, <1>2, <1>3, <1>4 DEF Next

(* Rows, results and runs keep their types, and a row is claimed at most    *)
(* worker_max_attempts times, plus once per request for a recalculation,    *)
(* whatever fails or is cleared (TypeOK bounds the attempts of a row).      *)
THEOREM TypeCorrect == Spec => []TypeOK
<1>1. TypeInv => TypeOK
  BY DEF TypeInv
<1> QED BY TypeInit, TypeStep, <1>1, PTL DEF Spec

LEMMA TypeAlways == Spec => []TypeInv
BY TypeInit, TypeStep, PTL DEF Spec

-------------------------------------------------------------------------------
(* Who owns a row                                                           *)

LEMMA RunTyped ==
  ASSUME TypeInv
  PROVE  /\ run \in [Worker -> RunType] /\ rows \in [Key -> RowType]
         /\ \A w \in Worker : run[w] \in RunType /\ run[w].key \in Key
BY DEF TypeInv, TypeOK, RunType, RowType

\* The slots, when one of them moves on with its row.
LEMMA OwnMoves ==
  ASSUME TypeInv, RunOwnsItsRow, NEW w \in Worker, NEW r \in RunType,
         run[w].pc \in Working, run' = [run EXCEPT ![w] = r],
         r.key = run[w].key, r.orphan = run[w].orphan,
         UNCHANGED rows, upset' # "clear" => upset # "clear"
  PROVE  RunOwnsItsRow'
BY RunTyped DEF RunOwnsItsRow

\* A slot ends with its row, whose state alone has changed.
LEMMA OwnEnds ==
  ASSUME TypeInv, RunOwnsItsRow, NEW w \in Worker, NEW r \in RunType,
         run[w].pc \in Working, run' = [run EXCEPT ![w] = r], r.pc \notin Working,
         UNCHANGED upset,
         \/ UNCHANGED rows
         \/ \E new \in RowType : rows' = [rows EXCEPT ![run[w].key] = new]
  PROVE  RunOwnsItsRow'
<1> SUFFICES ASSUME upset # "clear", NEW x \in Worker, run'[x].pc \in Working
             PROVE  /\ ~run'[x].orphan /\ rows'[run'[x].key].state = "running"
                    /\ \A y \in Worker \ {x} : run'[y].pc \in Working => run'[y].key # run'[x].key
  BY DEF RunOwnsItsRow
<1>1. x # w /\ run'[x] = run[x] /\ run[x].pc \in Working
  BY RunTyped
<1>2. ~run[x].orphan /\ rows[run[x].key].state = "running" /\ run[x].key # run[w].key
  BY <1>1 DEF RunOwnsItsRow
<1>3. rows'[run[x].key].state = "running"
  BY <1>1, <1>2, RunTyped
<1>4. ASSUME NEW y \in Worker \ {x}, run'[y].pc \in Working PROVE run'[y].key # run'[x].key
  <2>1. y # w /\ run'[y] = run[y]
    BY <1>4, RunTyped
  <2> QED BY <1>1, <1>4, <2>1 DEF RunOwnsItsRow
<1> QED BY <1>1, <1>2, <1>3, <1>4

LEMMA OwnWriteBack ==
  ASSUME TypeInv, RunOwnsItsRow, NEW w \in Worker, run[w].pc \in Working,
         NEW to \in TaskState, WriteBack(w, to), UNCHANGED upset
  PROVE  RunOwnsItsRow'
<1>1. rows[run[w].key] \in RowType
  BY RunTyped
<1>2. [rows[run[w].key] EXCEPT !.state = to] \in RowType
  BY <1>1 DEF RowType
<1>3. \/ UNCHANGED rows
      \/ \E new \in RowType : rows' = [rows EXCEPT ![run[w].key] = new]
  BY <1>1, <1>2, RunTyped DEF WriteBack, RowType
<1>4. \E r \in RunType : r.pc \notin Working /\ run' = [run EXCEPT ![w] = r]
  <2>1. NoRun \in RunType /\ [NoRun EXCEPT !.pc = "dead"] \in RunType
    BY ContentTyped DEF RunType
  <2>2. NoRun.pc \notin Working /\ [NoRun EXCEPT !.pc = "dead"].pc \notin Working
    BY ContentTyped, <2>1 DEF RunType, Working
  <2> QED BY <2>1, <2>2 DEF WriteBack
<1> QED BY <1>3, <1>4, OwnEnds

\* Requests touch no row that runs, and the runs only lose what they hold.
LEMMA OwnRequest ==
  ASSUME TypeInv, RunOwnsItsRow, NEW a \in App, Request(a)
  PROVE  RunOwnsItsRow'
<1> DEFINE k == CurrentKey(a)
<1>1. k \in Key
  BY KeyTyped DEF TypeInv
<1>2. ASSUME NEW force \in BOOLEAN, NEW state \in {"pending", "scheduled"},
             Replace(a, force, state), upset' # "clear" => upset # "clear"
      PROVE  RunOwnsItsRow'
  <2>1. rows[k].state # "running" /\ rows' = [rows EXCEPT ![k] = [NoRow EXCEPT !.state = state]]
        /\ \E wiped \in BOOLEAN : Losing({k}, wiped)
    BY <1>2 DEF Replace, Active
  <2>2. \A w \in Worker : /\ run'[w].pc = run[w].pc /\ run'[w].key = run[w].key
                          /\ run'[w].orphan <=> (run[w].orphan \/ (run[w].pc \in Working /\ run[w].key = k))
    BY <2>1, LosingTyped DEF TypeInv
  <2>3. \A x \in Key \ {k} : rows'[x] = rows[x]
    BY <2>1, RunTyped
  <2> HIDE DEF k
  <2> SUFFICES ASSUME upset' # "clear" PROVE RunOwnsItsRow'
    BY DEF RunOwnsItsRow
  <2>4. \A w \in Worker : run[w].pc \in Working =>
          /\ ~run[w].orphan /\ run[w].key # k /\ rows'[run[w].key].state = "running"
          /\ \A x \in Worker \ {w} : run[x].pc \in Working => run[x].key # run[w].key
    BY <1>2, <2>1, <2>3, RunTyped DEF RunOwnsItsRow
  <2> QED BY <2>2, <2>4 DEF RunOwnsItsRow
<1>3. CASE Refresh(a)
  <2>1. /\ rows' = [rows EXCEPT ![k].refresh = TRUE] /\ UNCHANGED upset
        /\ \A w \in Worker : /\ run'[w].pc = run[w].pc /\ run'[w].key = run[w].key
                             /\ run'[w].orphan <=> run[w].orphan
    <3>1. PICK none : none = {} /\ Losing(none, TRUE)
      BY <1>3 DEF Refresh
    <3>2. \A w \in Worker : /\ run'[w].pc = run[w].pc /\ run'[w].key = run[w].key
                            /\ run'[w].orphan <=> (run[w].orphan \/ (run[w].pc \in Working /\ run[w].key \in none))
      BY <3>1, LosingTyped DEF TypeInv
    <3> QED BY <1>3, <3>1, <3>2 DEF Refresh
  <2>2. \A x \in Key : rows'[x].state = rows[x].state
    BY <2>1, RunTyped DEF RowType
  <2> QED BY <2>1, <2>2, RunTyped DEF RunOwnsItsRow
<1>4. ASSUME NEW force \in BOOLEAN, Schedule(a, force) \/ ScheduleCrashes(a, force)
      PROVE  RunOwnsItsRow'
  BY <1>2, <1>4 DEF Schedule, ScheduleCrashes, Upset
<1> QED BY <1>3, <1>4 DEF Request, Backfill

LEMMA OwnStep == TypeInv /\ RunOwnsItsRow /\ [Next]_vars => RunOwnsItsRow'
<1> SUFFICES ASSUME TypeInv, RunOwnsItsRow, [Next]_vars PROVE RunOwnsItsRow'
  OBVIOUS
<1>1. CASE UNCHANGED vars
  BY <1>1 DEF vars, RunOwnsItsRow
<1>2. ASSUME NEW w \in Worker, NEW k \in Key, Claim(w, k) PROVE RunOwnsItsRow'
  <2>1. /\ rows[k].state # "running" /\ rows'[k].state = "running" /\ UNCHANGED upset
        /\ \A x \in Key \ {k} : rows'[x] = rows[x]
    BY <1>2, RunTyped DEF Claim, Claimable, RowType
  <2>2. /\ run'[w].key = k /\ run'[w].orphan = FALSE
        /\ \A x \in Worker \ {w} : run'[x] = run[x]
    BY <1>2, RunTyped, ContentTyped DEF Claim, NoRun, RunType
  <2> QED BY <2>1, <2>2, RunTyped DEF RunOwnsItsRow
<1>3. ASSUME NEW w \in Worker,
             Begin(w) \/ Extract(w) \/ Store(w) \/ Reject(w) \/ Score(w) \/ Break(w) \/ FailEarly(w)
      PROVE  RunOwnsItsRow'
  <2>1. run[w].pc \in Working /\ UNCHANGED rows /\ (upset' # "clear" => upset # "clear")
    BY <1>3 DEF Begin, Extract, Store, StoreExtraction, Reject, Score, Break, FailEarly, Upset, Working
  <2>2. /\ run' = [run EXCEPT ![w] = run'[w]] /\ run'[w] \in RunType
        /\ run'[w].key = run[w].key /\ run'[w].orphan = run[w].orphan
    BY <1>3, PipelineRun
  <2> QED BY <2>1, <2>2, OwnMoves
<1>4. ASSUME NEW w \in Worker, Complete(w) \/ Retry(w) \/ Exhaust(w) PROVE RunOwnsItsRow'
  <2>1. run[w].pc \in Working /\ UNCHANGED upset
    BY <1>4 DEF Complete, Retry, Exhaust, Working
  <2>2. CASE \E to \in TaskState : WriteBack(w, to)
    BY <2>1, <2>2, OwnWriteBack
  <2>3. CASE Complete(w) /\ ~run[w].orphan /\ rows[run[w].key].refresh
    <3>1. rows[run[w].key] \in RowType
      BY RunTyped
    <3>2. [rows[run[w].key] EXCEPT !.state = "scheduled", !.refresh = FALSE] \in RowType
      BY <3>1 DEF RowType, TaskState, Claimable
    <3>3. /\ run' = [run EXCEPT ![w] = NoRun]
          /\ rows' = [rows EXCEPT ![run[w].key] =
                        [rows[run[w].key] EXCEPT !.state = "scheduled", !.refresh = FALSE]]
      BY <2>3 DEF Complete
    <3>4. NoRun \in RunType /\ NoRun.pc \notin Working
      BY ContentTyped DEF Working
    <3> QED BY <2>1, <3>2, <3>3, <3>4, OwnEnds
  <2> QED BY <1>4, <2>2, <2>3 DEF Complete, Retry, Exhaust, TaskState, Settled, Claimable
<1>5. CASE (\E a \in App : ChangeCv(a)) \/ ChangeVacancy
  BY <1>5 DEF ChangeCv, ChangeVacancy, RunOwnsItsRow
<1>6. CASE ClearQueue
  BY <1>6 DEF ClearQueue, Upset, RunOwnsItsRow
<1>7. ASSUME NEW a \in App, Request(a) PROVE RunOwnsItsRow'
  BY <1>7, OwnRequest
<1> QED BY <1>1, <1>2, <1>3, <1>4, <1>5, <1>6, <1>7 DEF Next, RunStep

(* Whatever is requested, calculated anew, interrupted by a crash of the    *)
(* API or changed under it, a slot that works on a row owns it until it     *)
(* writes it back, unless the queue was cleared: no row is deleted under    *)
(* its worker, and none has two.                                            *)
THEOREM RunsOwnTheirRows == Spec => []RunOwnsItsRow
<1>1. Init => RunOwnsItsRow
  BY ContentTyped DEF Init, RunOwnsItsRow, Working
<1> QED BY <1>1, OwnStep, TypeAlways, PTL DEF Spec

-------------------------------------------------------------------------------
(* What explains a score                                                    *)

\* The requirement rows that a run relies on are there, or the run knows better when
\* it comes to write its matches: the constraint fails it.
HeldInv ==
  \A w \in Worker :
    /\ run[w].pc = "stored" => ~run[w].newReqs
    /\ Holds(w) /\ ~run[w].newReqs /\ ~run[w].gone => run[w].content[1] \in reqs

Explained(a) == result[a].of[1] \in matches[a] \cap reqs
\* A row will be claimed again, or its process died before it could be.
RowWaits(a)  == \E k \in Key : k[1] = a /\ (rows[k].refresh \/ rows[k].state \in NotYetRun)
\* A run has yet to write its result.
Busy == {"claimed", "begun", "extracted", "stored"}
RunGoesOn(a) == \E w \in Worker : run[w].key[1] = a /\ run[w].pc \in Busy

\* A score without its matches is on its way to be replaced.
ScoreInv ==
  upset \notin {"early", "clear"} =>
    \A a \in App :
      a \notin stripped /\ result[a].status = "scored" /\ ~result[a].rejected
        => Explained(a) \/ RowWaits(a) \/ RunGoesOn(a)

LEMMA HeldAfterClear ==
  ASSUME TypeInv, HeldInv, NEW deleted, NEW wiped \in BOOLEAN, Losing(deleted, wiped),
         wiped \/ UNCHANGED reqs
  PROVE  HeldInv'
<1> SUFFICES ASSUME NEW w \in Worker
             PROVE  /\ run'[w].pc = "stored" => ~run'[w].newReqs
                    /\ Holds(w)' /\ ~run'[w].newReqs /\ ~run'[w].gone => run'[w].content[1] \in reqs'
  BY DEF HeldInv
<1>1. /\ run'[w].pc = run[w].pc /\ run'[w].content = run[w].content /\ run'[w].newReqs = run[w].newReqs
      /\ run'[w].gone <=> (run[w].gone \/ (wiped /\ Holds(w) /\ ~run[w].newReqs))
  BY LosingTyped DEF TypeInv
<1> QED BY <1>1 DEF HeldInv, Holds

LEMMA HeldPipeline ==
  ASSUME TypeInv, HeldInv, NEW w \in Worker,
         Begin(w) \/ Extract(w) \/ Store(w) \/ Reject(w) \/ Score(w) \/ Break(w) \/ FailEarly(w)
  PROVE  HeldInv'
<1>1. /\ run[w] \in RunType /\ run'[w] \in RunType
      /\ \A x \in Worker \ {w} : run'[x] = run[x]
      /\ run'[w].gone = run[w].gone
      /\ Begin(w) \/ run'[w].content = run[w].content
  BY RunTyped, PipelineRun
<1>2. reqs \subseteq reqs'
  BY DEF Begin, Extract, Store, StoreExtraction, Reject, Score, Break, FailEarly
<1>3. /\ run'[w].pc = "stored" => ~run'[w].newReqs
      /\ Holds(w)' /\ ~run'[w].newReqs /\ ~run'[w].gone => run'[w].content[1] \in reqs'
  <2>1. CASE Begin(w) \/ Reject(w) \/ Score(w) \/ Break(w) \/ FailEarly(w)
    <3>1. run'[w].pc \in {"begun", "scored", "broken"}
      <4>1. CASE Begin(w)
        BY <1>1, <4>1, RunTyped DEF Begin, RunType
      <4>2. CASE \E pc \in {"scored", "broken"} : Move(w, pc)
        BY <1>1, <4>2, RunTyped DEF Move, RunType
      <4> QED BY <2>1, <4>1, <4>2 DEF Reject, Score, Break, FailEarly
    <3> QED BY <3>1 DEF Holds
  <2>2. CASE Extract(w)
    <3>1. run'[w].pc = "extracted" /\ (run'[w].newReqs <=> run[w].content[1] \notin reqs)
          /\ UNCHANGED reqs
      BY <1>1, <2>2, RunTyped DEF Extract, RunType
    <3>2. run'[w].content = run[w].content
      BY <1>1, <2>2 DEF Extract, Begin
    <3> QED BY <3>1, <3>2
  <2>3. CASE Store(w)
    <3>1. /\ run'[w].pc = "stored" /\ run'[w].newReqs = FALSE /\ run[w].pc = "extracted"
          /\ reqs' = IF run[w].newReqs THEN reqs \cup {run[w].content[1]} ELSE reqs
      BY <1>1, <2>3, RunTyped DEF Store, StoreExtraction, RunType
    <3>2. run'[w].content = run[w].content
      BY <1>1, <2>3 DEF Store, StoreExtraction, Begin
    <3> QED BY <1>1, <3>1, <3>2 DEF HeldInv, Holds
  <2> QED BY <2>1, <2>2, <2>3
<1> QED BY <1>1, <1>2, <1>3 DEF HeldInv, Holds

LEMMA HeldStep == TypeInv /\ HeldInv /\ [Next]_vars => HeldInv'
<1> SUFFICES ASSUME TypeInv, HeldInv, [Next]_vars PROVE HeldInv'
  OBVIOUS
<1>1. CASE UNCHANGED <<run, reqs>>
  BY <1>1 DEF HeldInv, Holds
<1>2. ASSUME NEW w \in Worker,
             Begin(w) \/ Extract(w) \/ Store(w) \/ Reject(w) \/ Score(w) \/ Break(w) \/ FailEarly(w)
      PROVE  HeldInv'
  BY <1>2, HeldPipeline
<1>3. ASSUME NEW w \in Worker,
             (\E k \in Key : Claim(w, k)) \/ Complete(w) \/ Retry(w) \/ Exhaust(w)
      PROVE  HeldInv'
  <2>1. /\ \A x \in Worker \ {w} : run'[x] = run[x]
        /\ run'[w] = run[w] \/ run'[w].pc \in {"idle", "claimed", "dead"}
        /\ UNCHANGED reqs
    <3>1. /\ NoRun \in RunType /\ NoRun.pc = "idle" /\ [NoRun EXCEPT !.pc = "dead"].pc = "dead"
          /\ \A k \in Key : [NoRun EXCEPT !.pc = "claimed", !.key = k].pc = "claimed"
      BY ContentTyped DEF RunType
    <3>2. \E r : run' = [run EXCEPT ![w] = r] /\ r.pc \in {"idle", "claimed", "dead"}
      BY <1>3, <3>1 DEF Claim, Complete, Retry, Exhaust, WriteBack
    <3>3. UNCHANGED reqs
      BY <1>3 DEF Claim, Complete, Retry, Exhaust
    <3> QED BY <3>2, <3>3, RunTyped
  <2> QED BY <2>1 DEF HeldInv, Holds
<1>4. ASSUME NEW a \in App, Request(a) PROVE HeldInv'
  <2>1. \E deleted, wiped : wiped \in BOOLEAN /\ Losing(deleted, wiped) /\ (wiped \/ UNCHANGED reqs)
    BY <1>4 DEF Request, Refresh, Backfill, Schedule, ScheduleCrashes, Replace
  <2> QED BY <2>1, HeldAfterClear
<1> QED BY <1>1, <1>2, <1>3, <1>4 DEF Next, RunStep, ChangeCv, ChangeVacancy, ClearQueue, vars

\* Another application's step: what explains this one's score is left to it.
LEMMA ScoreFrame ==
  ASSUME TypeInv, ScoreInv, NEW b \in App, upset \notin {"early", "clear"},
         b \notin stripped, result'[b] = result[b], matches'[b] = matches[b], reqs \subseteq reqs',
         result'[b].status = "scored", ~result'[b].rejected,
         RowWaits(b) => RowWaits(b)' \/ RunGoesOn(b)',
         RunGoesOn(b) => RowWaits(b)' \/ RunGoesOn(b)'
  PROVE  Explained(b)' \/ RowWaits(b)' \/ RunGoesOn(b)'
BY DEF ScoreInv, Explained

LEMMA ScoreRequest ==
  ASSUME TypeInv, ScoreInv, NEW a \in App, Request(a), upset' \notin {"early", "clear"},
         NEW b \in App, b \notin stripped', result'[b].status = "scored", ~result'[b].rejected
  PROVE  Explained(b)' \/ RowWaits(b)' \/ RunGoesOn(b)'
<1> DEFINE k == CurrentKey(a)
<1>1. k \in Key /\ k[1] = a /\ rows[k] \in RowType
  BY KeyTyped, RunTyped DEF TypeInv, CurrentKey
<1>2. /\ \A w \in Worker : run'[w].pc = run[w].pc /\ run'[w].key = run[w].key
      /\ \A x \in Key \ {k} : rows'[x] = rows[x]
      /\ rows'[k].refresh \/ rows'[k].state \in NotYetRun
      /\ result'[b] = result[b] \/ a = b
      /\ a = b \/ b \in stripped' \/ (UNCHANGED <<reqs, matches, stripped>>)
      /\ upset \notin {"early", "clear"}
  <2>1. CASE Refresh(a)
    <3>1. \E none : Losing(none, TRUE)
      BY <2>1 DEF Refresh
    <3>2. rows' = [rows EXCEPT ![k].refresh = TRUE]
      BY <2>1 DEF Refresh
    <3>3. rows'[k].refresh /\ \A x \in Key \ {k} : rows'[x] = rows[x]
      BY <1>1, <3>2, RunTyped DEF RowType
    <3> QED BY <2>1, <3>1, <3>3, LosingTyped DEF Refresh, ClearExtraction, TypeInv
  <2>2. ASSUME NEW force \in BOOLEAN, NEW state \in {"pending", "scheduled"}, Replace(a, force, state),
               Status(a, "pending") \/ UNCHANGED result, upset \notin {"early", "clear"}
        PROVE  <1>2!:
    <3>1. \E deleted : \E wiped \in BOOLEAN : Losing(deleted, wiped)
      BY <2>2 DEF Replace
    <3>2. rows' = [rows EXCEPT ![k] = [NoRow EXCEPT !.state = state]]
      BY <2>2 DEF Replace
    <3>3. [NoRow EXCEPT !.state = state].state = state
      BY DEF NoRow
    <3>4. rows'[k].state \in NotYetRun /\ \A x \in Key \ {k} : rows'[x] = rows[x]
      BY <1>1, <3>2, <3>3, RunTyped DEF NotYetRun
    <3>5. result'[b] = result[b] \/ a = b
      BY <2>2 DEF Status, TypeInv, TypeOK
    <3> QED BY <2>2, <3>1, <3>4, <3>5, LosingTyped DEF Replace, ClearExtraction, TypeInv
  <2>3. ASSUME NEW force \in BOOLEAN, Schedule(a, force) \/ ScheduleCrashes(a, force)
        PROVE  <1>2!:
    BY <2>2, <2>3 DEF Schedule, ScheduleCrashes, Upset
  <2> QED BY <2>1, <2>3 DEF Request, Backfill
<1>3. CASE a = b
  BY <1>1, <1>2, <1>3 DEF RowWaits
<1>4. CASE a # b
  <2>1. RowWaits(b) => RowWaits(b)'
    BY <1>1, <1>2, <1>4 DEF RowWaits
  <2>2. RunGoesOn(b) => RunGoesOn(b)'
    BY <1>2 DEF RunGoesOn
  <2>3. UNCHANGED <<reqs, matches, stripped>>
    BY <1>2, <1>4
  <2> QED BY <1>2, <1>4, <2>1, <2>2, <2>3, ScoreFrame
<1> QED BY <1>3, <1>4

LEMMA ScorePipeline ==
  ASSUME TypeInv, HeldInv, ScoreInv, NEW w \in Worker,
         Begin(w) \/ Extract(w) \/ Store(w) \/ Reject(w) \/ Score(w) \/ Break(w),
         upset' \notin {"early", "clear"},
         NEW b \in App, b \notin stripped', result'[b].status = "scored", ~result'[b].rejected
  PROVE  Explained(b)' \/ RowWaits(b)' \/ RunGoesOn(b)'
<1>1. /\ UNCHANGED <<rows, upset>> /\ reqs \subseteq reqs'
      /\ run[w] \in RunType /\ run[w].key[1] \in App
  BY RunTyped DEF Begin, Extract, Store, StoreExtraction, Reject, Score, Break, RunType, Key
<1>2. CASE run[w].key[1] # b
  <2>1. result'[b] = result[b] /\ matches'[b] = matches[b] /\ b \notin stripped
    BY <1>1, <1>2 DEF Begin, Extract, Store, StoreExtraction, Reject, Score, Break,
                      Status, Result, TypeInv, TypeOK
  <2>2. RowWaits(b) => RowWaits(b)'
    BY <1>1 DEF RowWaits
  <2>3. RunGoesOn(b) => RunGoesOn(b)'
    <3>1. \A x \in Worker \ {w} : run'[x] = run[x]
      BY RunTyped, PipelineRun
    <3> QED BY <1>2, <3>1 DEF RunGoesOn
  <2> QED BY <1>1, <2>1, <2>2, <2>3, ScoreFrame
<1>3. CASE run[w].key[1] = b
  <2>1. CASE Begin(w) \/ Extract(w) \/ Store(w) \/ Break(w)
    <3>1. \E st \in Transient \cup {"degraded", "failed"} : Status(b, st)
      BY <1>3, <2>1 DEF Begin, Extract, Store, Break, Transient
    <3>2. result'[b].status # "scored"
      BY <3>1 DEF Status, TypeInv, TypeOK, Transient
    <3> QED BY <3>2
  <2>2. CASE Reject(w)
    <3>1. result'[b].rejected
      BY <1>3, <2>2 DEF Reject, Result, TypeInv, TypeOK
    <3> QED BY <3>1
  <2>3. CASE Score(w)
    <3>1. /\ result'[b].of = run[w].content
          /\ run[w].content[1] \in matches'[b] /\ UNCHANGED reqs
      BY <1>3, <2>3 DEF Score, Result, TypeInv, TypeOK
    <3>2. run[w].content[1] \in reqs
      BY <2>3 DEF Score, MatchClash, HeldInv, Holds
    <3> QED BY <3>1, <3>2 DEF Explained
  <2> QED BY <2>1, <2>2, <2>3
<1> QED BY <1>2, <1>3

LEMMA ScoreRunRow ==
  ASSUME TypeInv, RunOwnsItsRow, ScoreInv, NEW w \in Worker,
         (\E k \in Key : Claim(w, k)) \/ Complete(w) \/ Retry(w) \/ Exhaust(w),
         upset' \notin {"early", "clear"},
         NEW b \in App, b \notin stripped', result'[b].status = "scored", ~result'[b].rejected
  PROVE  Explained(b)' \/ RowWaits(b)' \/ RunGoesOn(b)'
<1>1. UNCHANGED <<upset, reqs, matches, stripped, result>>
  BY DEF Claim, Complete, Retry, Exhaust
<1>2. RunGoesOn(b) => RunGoesOn(b)'
  <2>1. run[w].pc \notin Busy
    BY DEF Claim, Complete, Retry, Exhaust, Busy
  <2>2. \A x \in Worker \ {w} : run'[x] = run[x]
    BY RunTyped DEF Claim, Complete, Retry, Exhaust, WriteBack
  <2> QED BY <2>1, <2>2 DEF RunGoesOn, Busy
<1>3. RowWaits(b) => RowWaits(b)' \/ RunGoesOn(b)'
  <2> SUFFICES ASSUME NEW x \in Key, x[1] = b, rows[x].refresh \/ rows[x].state \in NotYetRun
               PROVE  RowWaits(b)' \/ RunGoesOn(b)'
    BY DEF RowWaits
  <2>1. ASSUME NEW k \in Key, Claim(w, k) PROVE RowWaits(b)' \/ RunGoesOn(b)'
    <3>1. CASE k = x
      <4>1. run'[w].key = k /\ run'[w].pc = "claimed"
        BY <2>1, RunTyped, ContentTyped DEF Claim, RunType
      <4> QED BY <3>1, <4>1 DEF RunGoesOn, Busy
    <3>2. CASE k # x
      <4>1. rows'[x] = rows[x]
        BY <2>1, <3>2, RunTyped DEF Claim
      <4> QED BY <4>1 DEF RowWaits
    <3> QED BY <3>1, <3>2
  <2>2. CASE Complete(w) \/ Retry(w) \/ Exhaust(w)
    <3>1. run[w].pc \in Working /\ rows[run[w].key].state = "running" /\ run[w].key \in Key
      BY <1>1, <2>2, RunTyped DEF Complete, Retry, Exhaust, Working, RunOwnsItsRow
    <3>2. CASE run[w].key # x
      <4>1. rows'[x] = rows[x]
        BY <2>2, <3>1, <3>2, RunTyped DEF Complete, Retry, Exhaust, WriteBack
      <4> QED BY <4>1 DEF RowWaits
    <3>3. CASE run[w].key = x
      <4>1. rows[x].refresh
        BY <3>1, <3>3 DEF NotYetRun
      <4>2. rows'[x].refresh \/ rows'[x].state = "scheduled"
        <5>1. rows[x] \in RowType BY RunTyped
        <5>2. CASE Retry(w) \/ Exhaust(w)
          <6>1. UNCHANGED rows \/ \E st : rows' = [rows EXCEPT ![x].state = st]
            BY <3>3, <5>2 DEF Retry, Exhaust, WriteBack
          <6> QED BY <4>1, <5>1, <6>1, RunTyped DEF RowType
        <5>3. CASE Complete(w)
          <6>1. ~run[w].orphan
            BY <1>1, <3>1 DEF RunOwnsItsRow
          <6> QED BY <3>3, <4>1, <5>1, <5>3, <6>1, RunTyped DEF Complete, RowType
        <5> QED BY <2>2, <5>2, <5>3
      <4> QED BY <4>2 DEF RowWaits, NotYetRun
    <3> QED BY <3>2, <3>3
  <2> QED BY <2>1, <2>2
<1> QED BY <1>1, <1>2, <1>3, ScoreFrame

LEMMA ScoreStep == TypeInv /\ RunOwnsItsRow /\ HeldInv /\ ScoreInv /\ [Next]_vars => ScoreInv'
<1> SUFFICES ASSUME TypeInv, RunOwnsItsRow, HeldInv, ScoreInv, [Next]_vars,
                    upset' \notin {"early", "clear"},
                    NEW b \in App, b \notin stripped', result'[b].status = "scored", ~result'[b].rejected
             PROVE  Explained(b)' \/ RowWaits(b)' \/ RunGoesOn(b)'
  BY DEF ScoreInv
<1>1. CASE UNCHANGED <<rows, run, reqs, matches, result, stripped, upset>>
  BY <1>1 DEF ScoreInv, Explained, RowWaits, RunGoesOn
<1>2. ASSUME NEW w \in Worker, RunStep(w) \/ Break(w)
      PROVE  Explained(b)' \/ RowWaits(b)' \/ RunGoesOn(b)'
  BY <1>2, ScorePipeline, ScoreRunRow DEF RunStep
<1>3. CASE ClearQueue \/ \E w \in Worker : FailEarly(w)
  BY <1>3 DEF ClearQueue, FailEarly, Upset
<1>4. ASSUME NEW a \in App, Request(a)
      PROVE  Explained(b)' \/ RowWaits(b)' \/ RunGoesOn(b)'
  BY <1>4, ScoreRequest
<1> QED BY <1>1, <1>2, <1>3, <1>4 DEF Next, ChangeCv, ChangeVacancy, vars

(* Every score that counts has its explanation, for any number of runs,     *)
(* applications and requests: whatever clears the extraction under a run,   *)
(* its matches are there when nothing is left to run, but for the forced    *)
(* requests that were lost and the rows that another application's forced   *)
(* request took away.                                                       *)
THEOREM ScoresAreExplained == Spec => []ScoreIsExplained
<1>1. Init => HeldInv /\ ScoreInv
  BY ContentTyped DEF Init, HeldInv, ScoreInv, Holds
<1>2. RunOwnsItsRow /\ ScoreInv => ScoreIsExplained
  <2> SUFFICES ASSUME RunOwnsItsRow, ScoreInv,
                      NEW a \in App, Quiet(a), ~RefreshLost(a), a \notin stripped,
                      upset \notin {"early", "clear"},
                      result[a].status = "scored", ~result[a].rejected
               PROVE  Explained(a)
    BY DEF ScoreIsExplained, Explained
  <2>1. ~RowWaits(a)
    BY DEF RowWaits, RefreshLost, Quiet, Active, NotYetRun
  <2>2. ~RunGoesOn(a)
    BY DEF RunGoesOn, Quiet, Working, Busy
  <2> QED BY <2>1, <2>2 DEF ScoreInv
<1> QED BY <1>1, <1>2, HeldStep, ScoreStep, TypeAlways, RunsOwnTheirRows, PTL DEF Spec
===============================================================================
