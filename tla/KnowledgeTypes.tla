----------------------------- MODULE KnowledgeTypes -----------------------------
(***************************************************************************)
(* Type correctness of the parts of Knowledge.  What the invariants of      *)
(* KnowledgeProofs say of a state's types is not repeated; the rest follows *)
(* here, part by part: that tries, batches and queues keep to their bounds, *)
(* that a score is a percentage, that a recommendation a request is about   *)
(* to decide is one there is.                                               *)
(***************************************************************************)
EXTENDS KnowledgeProofs

-------------------------------------------------------------------------------
(* Facts                                                                    *)

LEMMA FactsAreTyped == FactsInv => Facts!TypeOK
BY DEF FactsInv, Facts!TypeOK, Fields

-------------------------------------------------------------------------------
(* Tasks                                                                    *)

\* A task that will be tried has a try left.
TriesLeft(row) ==
  /\ row.tries \in 0..MaxTries
  /\ row.state \in Resumes!Claimable \cup {"pending"} => row.tries < MaxTries

TasksBounds ==
  /\ Len(tasks) <= MaxTasks /\ \A i \in 1..Len(tasks) : TriesLeft(tasks[i])
  /\ \A s \in Slot : sync[s].pc = "idle" => sync[s] = Resumes!Idle
  /\ copy \in 0..MaxConfirms /\ removal \in {"none", "row", "tasks", "done"}

LEMMA TasksBoundsBegin == Resumes!Init => TasksBounds
<1> SUFFICES ASSUME Resumes!Init PROVE TasksBounds
  OBVIOUS
<1>1. Len(tasks) = 0 /\ MaxTasks \in Nat /\ 0 \in 0..MaxConfirms
  BY TaskLimits DEF Resumes!Init
<1> QED BY <1>1 DEF Resumes!Init, TasksBounds

\* A task is added, for which no try has been made.
LEMMA AddedHasTries ==
  ASSUME TasksInv, TasksBounds, NEW version \in 0..MaxConfirms, Resumes!Scheduled(version)
  PROVE  Len(tasks') <= MaxTasks /\ \A i \in 1..Len(tasks') : TriesLeft(tasks'[i])
<1>1. CASE UNCHANGED tasks
  BY <1>1 DEF TasksBounds
<1>2. CASE Resumes!Appended(version)
  <2>1. PICK state \in {"scheduled", "pending"} :
          tasks' = Append(tasks, [version |-> version, tries |-> 0, state |-> state])
    BY <1>2 DEF Resumes!Appended
  <2> DEFINE row == [version |-> version, tries |-> 0, state |-> state]
  <2>2. TriesLeft(row) /\ row \in TaskRow
    BY TaskLimits DEF TriesLeft, TaskRow, Resumes!Active, Resumes!Claimable
  <2> HIDE DEF row
  <2>3. tasks \in Seq(TaskRow) /\ Len(tasks) < MaxTasks /\ MaxTasks \in Nat
    BY <1>2, TaskLimits DEF TasksInv, Resumes!Appended
  <2>4. /\ Len(tasks') = Len(tasks) + 1 /\ Len(tasks) \in Nat
        /\ \A i \in 1..Len(tasks) : tasks'[i] = tasks[i]
        /\ tasks'[Len(tasks) + 1] = row
    BY <2>1, <2>2, <2>3 DEF row
  <2>5. \A i \in 1..Len(tasks') : i \in 1..Len(tasks) \/ i = Len(tasks) + 1
    BY <2>4
  <2>6. Len(tasks') <= MaxTasks
    BY <2>3, <2>4
  <2> QED BY <2>2, <2>4, <2>5, <2>6 DEF TasksBounds
<1> QED BY <1>1, <1>2 DEF Resumes!Scheduled

LEMMA TasksBoundsStep ==
  TasksInv /\ TasksBounds /\ [Resumes!Next]_(Resumes!vars) => TasksBounds'
<1> SUFFICES ASSUME TasksInv, TasksBounds, [Resumes!Next]_(Resumes!vars) PROVE TasksBounds'
  OBVIOUS
<1>1. /\ resume \in -1..MaxConfirms /\ {direct, copy} \subseteq 0..MaxConfirms
      /\ MaxConfirms \in Nat /\ MaxTries \in Nat /\ MaxTries > 0
      /\ tasks \in Seq(TaskRow) /\ Len(tasks) <= MaxTasks
      /\ \A i \in 1..Len(tasks) : tasks[i] \in TaskRow /\ TriesLeft(tasks[i])
      /\ \A s \in Slot : sync[s] \in Sender /\ Carries(sync[s], tasks, served)
      /\ \A s \in Slot : sync[s].pc = "idle" => sync[s] = Resumes!Idle
      /\ sync \in [Slot -> Sender]
  BY TaskLimits DEF TasksInv, TasksBounds
<1>2. CASE Resumes!Confirm \/ Resumes!SendToRag
  <2>1. PICK version \in 0..MaxConfirms :
          Resumes!Scheduled(version) /\ UNCHANGED <<sync, copy, removal>>
    BY <1>1, <1>2 DEF Resumes!Confirm, Resumes!SendToRag, Resumes!Gone
  <2>2. Len(tasks') <= MaxTasks /\ \A i \in 1..Len(tasks') : TriesLeft(tasks'[i])
    BY <2>1, AddedHasTries
  <2> QED BY <2>1, <2>2 DEF TasksBounds
\* A slot moves, and writes a row or none.
<1>3. ASSUME NEW s \in Slot, NEW r, r.pc = "idle" => r = Resumes!Idle,
             sync' = [sync EXCEPT ![s] = r], UNCHANGED <<tasks, removal>>,
             copy' \in 0..MaxConfirms
      PROVE  TasksBounds'
  BY <1>3 DEF TasksInv, TasksBounds
<1>4. ASSUME NEW s \in Slot, NEW r, r.pc = "idle" => r = Resumes!Idle,
             NEW i \in 1..Len(tasks), NEW row \in TaskRow, TriesLeft(row),
             sync' = [sync EXCEPT ![s] = r], tasks' = [tasks EXCEPT ![i] = row],
             UNCHANGED <<copy, removal>>
      PROVE  TasksBounds'
  <2>1. /\ Len(tasks') = Len(tasks)
        /\ \A j \in 1..Len(tasks) : tasks'[j] = IF j = i THEN row ELSE tasks[j]
    BY <1>1, <1>4, ExceptSeq
  <2>2. \A j \in 1..Len(tasks') : TriesLeft(tasks'[j])
    BY <1>1, <1>4, <2>1
  <2>3. \A t \in Slot : sync'[t].pc = "idle" => sync'[t] = Resumes!Idle
    BY <1>1, <1>4
  <2> QED BY <1>4, <2>1, <2>2, <2>3 DEF TasksBounds
<1>5. ASSUME NEW s \in Slot, NEW i \in 1..MaxTasks, Resumes!Claim(s, i)
      PROVE  TasksBounds'
  <2>1. i \in 1..Len(tasks) /\ tasks[i].state \in Resumes!Claimable
    BY <1>5 DEF Resumes!Claim
  <2>2. tasks[i] \in TaskRow /\ tasks[i].tries \in 0..MaxTries /\ tasks[i].tries < MaxTries
    BY <1>1, <2>1 DEF TriesLeft
  <2>3. CASE resume = Resumes!Gone
    <3>1. PICK row \in TaskRow : row = [tasks[i] EXCEPT !.state = "failed"]
      BY <2>2 DEF TaskRow
    <3>2. TriesLeft(row)
      BY <2>2, <3>1 DEF TriesLeft, TaskRow, Resumes!Claimable
    <3>3. tasks' = [tasks EXCEPT ![i] = row] /\ UNCHANGED <<sync, copy, removal>>
      BY <1>5, <2>3, <3>1 DEF Resumes!Claim
    <3>4. sync' = [sync EXCEPT ![s] = sync[s]]
      BY <1>1, <3>3
    <3> QED BY <1>1, <1>4, <2>1, <3>2, <3>3, <3>4
  <2>4. CASE resume # Resumes!Gone
    <3> DEFINE n == tasks[i].tries + 1
               r == [pc |-> "sending", task |-> i, content |-> resume]
    <3>1. n \in Nat /\ n \in 0..MaxTries
      BY <1>1, <2>2
    <3> HIDE DEF n
    <3>2. PICK row \in TaskRow : row = [tasks[i] EXCEPT !.state = "running", !.tries = n]
      BY <2>2, <3>1 DEF TaskRow, Resumes!Active, Resumes!Claimable
    <3>3. TriesLeft(row)
      BY <2>2, <3>1, <3>2 DEF TriesLeft, TaskRow, Resumes!Claimable
    <3>4. /\ tasks' = [tasks EXCEPT ![i].state = "running", ![i].tries = @ + 1]
          /\ sync' = [sync EXCEPT ![s] = r] /\ UNCHANGED <<copy, removal>>
      BY <1>5, <2>4 DEF Resumes!Claim
    <3>5. tasks' = [tasks EXCEPT ![i] = row]
      BY <2>1, <3>2, <3>4 DEF n
    <3>6. r.pc # "idle"
      OBVIOUS
    <3> HIDE DEF r
    <3> QED BY <1>4, <2>1, <3>3, <3>4, <3>5, <3>6
  <2> QED BY <2>3, <2>4
<1>6. ASSUME NEW s \in Slot, Resumes!Store(s) \/ Resumes!Refuse(s)
      PROVE  TasksBounds'
  <2>1. PICK r \in Sender : /\ r = [sync[s] EXCEPT !.pc = "stored"] \/ r = [sync[s] EXCEPT !.pc = "refused"]
                            /\ sync' = [sync EXCEPT ![s] = r]
    BY <1>1, <1>6 DEF Sender, Resumes!Store, Resumes!Refuse
  <2>2. r.pc # "idle"
    BY <1>1, <2>1 DEF Sender
  <2>3. copy' \in 0..MaxConfirms /\ UNCHANGED <<tasks, removal>>
    BY <1>1, <1>6 DEF Resumes!Store, Resumes!Refuse, Resumes!Stores, Sender
  <2> QED BY <1>3, <2>1, <2>2, <2>3
<1>7. ASSUME NEW s \in Slot, Resumes!Finish(s) \/ Resumes!CrashAndRecover(s)
      PROVE  TasksBounds'
  <2> DEFINE i == sync[s].task
  <2>1. /\ i \in 1..Len(tasks) /\ sync' = [sync EXCEPT ![s] = Resumes!Idle]
        /\ UNCHANGED <<copy, removal>>
    BY <1>1, <1>7 DEF Resumes!Finish, Resumes!CrashAndRecover, Carries
  <2>2. CASE tasks[i].state # "running"
    <3>1. tasks' = tasks
      BY <1>7, <2>2 DEF Resumes!Finish, Resumes!CrashAndRecover
    <3> QED BY <1>1, <1>3, <2>1, <3>1
  <2>3. CASE tasks[i].state = "running"
    <3>1. PICK x \in {"completed", "failed", "retry_scheduled", "scheduled"} :
             /\ tasks' = [tasks EXCEPT ![i].state = x]
             /\ x \in Resumes!Claimable => tasks[i].tries < MaxTries
      <4>1. CASE Resumes!Finish(s)
        <5>1. tasks' = [tasks EXCEPT ![i].state = Resumes!Outcome(s)]
          BY <2>3, <4>1 DEF Resumes!Finish
        <5>2. /\ Resumes!Outcome(s) \in {"completed", "failed", "retry_scheduled", "scheduled"}
              /\ Resumes!Outcome(s) \in Resumes!Claimable => tasks[i].tries < MaxTries
          BY DEF Resumes!Outcome, Resumes!Claimable
        <5> QED BY <5>1, <5>2
      <4>2. CASE Resumes!CrashAndRecover(s)
        <5> DEFINE x == IF tasks[i].state = "running" /\ tasks[i].tries < MaxTries
                          THEN "scheduled" ELSE "failed"
        <5>1. tasks' = [tasks EXCEPT ![i].state = x]
          BY <2>1, <2>3, <4>2 DEF Resumes!CrashAndRecover
        <5>2. x \in Resumes!Claimable => tasks[i].tries < MaxTries
          BY DEF Resumes!Claimable
        <5> QED BY <5>1, <5>2
      <4> QED BY <1>7, <4>1, <4>2
    <3>2. tasks[i] \in TaskRow /\ tasks[i].tries \in 0..MaxTries
      BY <1>1, <2>1 DEF TriesLeft
    <3>3. PICK row \in TaskRow : row = [tasks[i] EXCEPT !.state = x]
      BY <3>2 DEF TaskRow, Resumes!Active, Resumes!Claimable
    <3>4. row.tries = tasks[i].tries /\ row.state = x /\ x # "pending"
      BY <3>2, <3>3 DEF TaskRow
    <3>5. TriesLeft(row)
      BY <3>1, <3>2, <3>4 DEF TriesLeft
    <3>6. tasks' = [tasks EXCEPT ![i] = row]
      BY <2>1, <3>1, <3>3
    <3> HIDE DEF i
    <3> QED BY <1>1, <1>4, <2>1, <3>5, <3>6
  <2> QED BY <2>2, <2>3
<1>8. CASE \/ Resumes!DirectRead \/ Resumes!DirectStore \/ Resumes!DirectFails
           \/ Resumes!DeleteRow \/ Resumes!DeleteCopy \/ UNCHANGED Resumes!vars
  <2>1. /\ copy' \in 0..MaxConfirms /\ removal' \in {"none", "row", "tasks", "done"}
        /\ UNCHANGED <<tasks, sync>>
    BY <1>1, <1>8 DEF Resumes!DirectRead, Resumes!DirectStore, Resumes!DirectFails, Resumes!Stores,
       Resumes!DeleteRow, Resumes!DeleteCopy, Resumes!vars, TasksBounds
  <2> QED BY <2>1 DEF TasksBounds
<1>9. CASE Resumes!DeleteTasks
  <2>1. /\ tasks' = [i \in 1..Len(tasks) |-> [tasks[i] EXCEPT !.state = "deleted"]]
        /\ removal' = "tasks" /\ UNCHANGED <<sync, copy>>
    BY <1>9 DEF Resumes!DeleteTasks
  <2>2. Len(tasks') = Len(tasks)
    BY <1>1, <2>1
  <2>3. ASSUME NEW i \in 1..Len(tasks)
        PROVE  TriesLeft(tasks'[i])
    <3>1. /\ tasks'[i] = [tasks[i] EXCEPT !.state = "deleted"] /\ tasks[i] \in TaskRow
          /\ tasks[i].tries \in 0..MaxTries
      BY <1>1, <2>1 DEF TriesLeft
    <3>2. tasks'[i].tries = tasks[i].tries /\ tasks'[i].state = "deleted"
      BY <3>1 DEF TaskRow
    <3> QED BY <3>1, <3>2 DEF TriesLeft, Resumes!Claimable
  <2> QED BY <2>1, <2>2, <2>3 DEF TasksBounds
<1> QED BY <1>2, <1>5, <1>6, <1>7, <1>8, <1>9 DEF Resumes!Next

LEMMA TasksAreTyped == TasksInv /\ TasksBounds => Resumes!TypeOK
<1> SUFFICES ASSUME TasksInv, TasksBounds PROVE Resumes!TypeOK
  OBVIOUS
<1> DEFINE Row == [version : 0..MaxConfirms, tries : 0..MaxTries,
                   state : Resumes!Active \cup {"completed", "failed", "deleted"}]
           At  == [pc : {"idle", "sending", "stored", "refused"},
                   task : 0..MaxTasks, content : 0..MaxConfirms]
<1>1. tasks \in Seq(Row)
  <2>1. tasks \in Seq(TaskRow) /\ Len(tasks) \in Nat
    BY DEF TasksInv
  <2>2. ASSUME NEW i \in 1..Len(tasks) PROVE tasks[i] \in Row
    <3>1. tasks[i] \in TaskRow /\ tasks[i].tries \in 0..MaxTries
      BY <2>1 DEF TasksBounds, TriesLeft
    <3> QED BY <3>1 DEF TaskRow
  <2>3. tasks = [i \in 1..Len(tasks) |-> tasks[i]]
    BY <2>1
  <2> HIDE DEF Row
  <2> QED BY <2>1, <2>2, <2>3
<1>2. sync \in [Slot -> At]
  <2>1. ASSUME NEW s \in Slot PROVE sync[s] \in At
    <3>1. sync[s] \in Sender /\ sync[s].task \in 0..MaxTasks
      <4>1. CASE sync[s].pc = "idle"
        BY <4>1, TaskLimits DEF TasksBounds, TasksInv, Resumes!Idle
      <4>2. CASE sync[s].pc # "idle"
        <5>1. sync[s].task \in 1..Len(tasks) /\ Len(tasks) \in Nat /\ Len(tasks) <= MaxTasks
          BY <4>2 DEF TasksInv, TasksBounds, Carries
        <5> QED BY <5>1, TaskLimits DEF TasksInv
      <4> QED BY <4>1, <4>2
    <3> QED BY <3>1 DEF Sender
  <2> HIDE DEF At
  <2> QED BY <2>1 DEF TasksInv
<1> QED BY <1>1, <1>2 DEF TasksInv, TasksBounds, Resumes!TypeOK

-------------------------------------------------------------------------------
(* Batches                                                                  *)

BatchesBounds ==
  /\ run \in 1..MaxRuns /\ flusher \in {"none", "running", "stopped"}
  /\ Len(drained) + Len(sent) <= BatchSize

LEMMA BatchesBoundsBegin == Batches!EvInit => BatchesBounds
<1> SUFFICES ASSUME Batches!EvInit PROVE BatchesBounds
  OBVIOUS
<1>1. MaxRuns \in Nat /\ MaxRuns > 0 /\ BatchSize \in Nat
  BY KnowledgeAssumption, TypesAssumption
<1>2. Len(drained) = 0 /\ Len(sent) = 0 /\ run = 1 /\ flusher = "none"
  BY DEF Batches!EvInit
<1> QED BY <1>1, <1>2 DEF BatchesBounds

LEMMA BatchesBoundsStep ==
  BatchesInv /\ BatchesBounds /\ [Batches!EvNext]_(Batches!evVars) => BatchesBounds'
<1> SUFFICES ASSUME BatchesInv, BatchesBounds, [Batches!EvNext]_(Batches!evVars)
             PROVE  BatchesBounds'
  OBVIOUS
<1>1. /\ run \in 1..MaxRuns /\ MaxRuns \in Nat /\ BatchSize \in Nat
      /\ Len(queue) \in Nat /\ Len(drained) \in Nat /\ Len(sent) \in Nat
      /\ Len(drained) + Len(sent) <= BatchSize
      /\ drained \in Seq(JobClaim)
  BY KnowledgeAssumption, TypesAssumption DEF BatchesInv, BatchesBounds, Line
<1>2. ASSUME NEW c \in JobClaim, Batches!Ask(c) PROVE BatchesBounds'
  BY <1>2 DEF Batches!Ask, BatchesBounds
<1>3. CASE Batches!Drain
  <2>1. drained = <<>> /\ sent = <<>> /\ UNCHANGED <<run, sent>>
    BY <1>3 DEF Batches!Drain
  <2>2. CASE Head(queue) = Batches!Stop
    BY <1>3, <2>1, <2>2 DEF Batches!Drain, BatchesBounds
  <2>3. CASE Head(queue) # Batches!Stop
    <3> DEFINE S == JobClaim \cup {Batches!Stop}
               n == IF Len(queue) < BatchSize THEN Len(queue) ELSE BatchSize
    <3>1. drained' = SubSeq(queue, 1, n) /\ UNCHANGED flusher
      BY <1>3, <2>3 DEF Batches!Drain
    <3>2. queue \in Seq(S) /\ n \in 0..Len(queue) /\ n <= BatchSize /\ n \in Nat
      BY <1>1 DEF BatchesInv, Line
    <3> HIDE DEF n, S
    <3>3. Len(drained') = n
      BY <3>1, <3>2
    <3>4. Len(drained') + Len(sent') <= BatchSize
      BY <2>1, <3>2, <3>3
    <3> QED BY <2>1, <3>1, <3>4 DEF BatchesBounds
  <2> QED BY <2>2, <2>3
<1>4. CASE Batches!Send
  <2>1. PICK n \in 1..Len(drained) :
          sent' = SubSeq(drained, 1, n) /\ drained' = SubSeq(drained, n + 1, Len(drained))
    BY <1>4 DEF Batches!Send
  <2>2. Len(sent') = n /\ Len(drained') = Len(drained) - n
    BY <1>1, <2>1
  <2>3. Len(drained') + Len(sent') <= BatchSize
    BY <1>1, <2>1, <2>2
  <2> QED BY <1>4, <2>3 DEF Batches!Send, BatchesBounds
<1>5. CASE Batches!Answered \/ Batches!RequestFails
  <2>1. sent' = <<>> /\ UNCHANGED <<run, drained, flusher>>
    BY <1>5 DEF Batches!Answered, Batches!RequestFails
  <2>2. Len(drained') + Len(sent') <= BatchSize
    BY <1>1, <2>1
  <2> QED BY <2>1, <2>2 DEF BatchesBounds
<1>6. CASE Batches!Close \/ UNCHANGED Batches!evVars
  BY <1>6 DEF Batches!Close, Batches!evVars, BatchesBounds
<1>7. CASE Batches!RunAgain
  <2>1. run' \in 1..MaxRuns
    BY <1>1, <1>7 DEF Batches!RunAgain
  <2> QED BY <1>7, <2>1 DEF Batches!RunAgain, BatchesBounds
<1> QED BY <1>2, <1>3, <1>4, <1>5, <1>6, <1>7 DEF Batches!EvNext

LEMMA BatchesAreTyped == BatchesInv /\ BatchesBounds => Batches!EvTypeOK
<1> SUFFICES ASSUME BatchesInv, BatchesBounds PROVE Batches!EvTypeOK
  OBVIOUS
<1>1. \A S : \A s \in Seq(S) : Batches!Range(s) \subseteq S
  BY DEF Batches!Range
<1>2. Batches!Range(queue) \subseteq JobClaim \cup {Batches!Stop}
  BY <1>1 DEF BatchesInv, Line
<1>3. Batches!Range(drained) \cup Batches!Range(sent) \subseteq JobClaim
  BY <1>1 DEF BatchesInv, Line
<1> QED
  BY <1>2, <1>3 DEF BatchesInv, BatchesBounds, Line, Answers, Batches!EvTypeOK

-------------------------------------------------------------------------------
(* Labels                                                                   *)

TrainingTyped ==
  /\ hash \in [Labels!Vacancy -> Labels!Fold] /\ trained \subseteq Labels!Vacancy
  /\ training \in [pc : {"idle", "exported"}, items : SUBSET Labels!Vacancy]

LEMMA TrainingTypedBegins == Labels!LdInit => TrainingTyped
BY KnowledgeAssumption DEF Labels!LdInit, TrainingTyped, Labels!NoTraining

LEMMA TrainingTypedStep ==
  LabelsInv /\ TrainingTyped /\ [Labels!LdNext]_(Labels!ldVars) => TrainingTyped'
<1> SUFFICES ASSUME LabelsInv, TrainingTyped, [Labels!LdNext]_(Labels!ldVars)
             PROVE  TrainingTyped'
  OBVIOUS
<1>1. CASE Labels!TrainExport
  <2>1. Labels!ExportFold("train") \subseteq Labels!Vacancy
    BY DEF Labels!ExportFold, LabelsInv
  <2> QED BY <1>1, <2>1 DEF Labels!TrainExport, TrainingTyped
<1>2. CASE Labels!TrainEvaluate
  BY <1>2 DEF Labels!TrainEvaluate, Labels!NoTraining, TrainingTyped
<1>3. CASE UNCHANGED <<hash, training, trained>>
  BY <1>3 DEF TrainingTyped
<1>4. ASSUME NEW a \in Labels!Vacancy, NEW b \in Labels!Vacancy, NEW preference \in Given,
             Labels!SubmitPair(a, b, preference)
      PROVE  TrainingTyped'
  BY <1>3, <1>4 DEF Labels!SubmitPair
<1> QED
  BY <1>1, <1>2, <1>3, <1>4 DEF Labels!LdNext, Labels!ldVars, Labels!SubmitPoint, Labels!ImportLegacy,
     Labels!RollbackLegacy, Labels!DeleteResume, Labels!FreezeSplit

LEMMA LabelsAreTyped == LabelsInv /\ TrainingTyped => Labels!LdTypeOK
BY DEF LabelsInv, TrainingTyped, LabelRow, Labels!LdTypeOK

-------------------------------------------------------------------------------
(* Claims                                                                   *)

\* What is counted here is counted by the library's cardinality.
LEMMA CountsAlike ==
  \A S : Claims!Cardinality(S) = Cardinality(S)
BY Zenon DEF Claims!Cardinality, Cardinality, Claims!IsFiniteSet, IsFiniteSet

\* A share that is at most the whole is at most a hundred, in hundredths, when rounded.
LEMMA RoundedIsPercent ==
  ASSUME NEW n \in Nat, NEW d \in Nat \ {0}, n <= 100 * d
  PROVE  Claims!Rounded(n, d) \in 0..100
<1> DEFINE q == (2 * n + d) \div (2 * d)
<1>1. q \in Int /\ 2 * d \in Nat /\ 2 * d > 0 /\ 2 * n + d \in Nat
  OBVIOUS
<1>2. 2 * n + d < 101 * (2 * d)
  OBVIOUS
<1>3. q >= 0 /\ q <= 100
  BY <1>2
<1> QED BY <1>1, <1>3 DEF Claims!Rounded

LEMMA PartsAddUp ==
  ASSUME NEW S, NEW T, IsFiniteSet(S), IsFiniteSet(T), S \cap T = {}
  PROVE  IsFiniteSet(S \cup T) /\ Cardinality(S \cup T) = Cardinality(S) + Cardinality(T)
<1>1. /\ IsFiniteSet(S \cup T)
      /\ Cardinality(S \cup T) = Cardinality(S) + Cardinality(T) - Cardinality(S \cap T)
  BY FS_Union
<1>2. Cardinality(S \cap T) = 0 /\ Cardinality(S) \in Nat /\ Cardinality(T) \in Nat
  BY FS_EmptySet, FS_CardinalityType
<1> QED BY <1>1, <1>2

\* The requirements of five relations are no more than all of them.
LEMMA LevelsAddUp ==
  ASSUME NEW R, IsFiniteSet(R)
  PROVE  LET At(l) == {r \in R : level[r] = l}
         IN  /\ \A l : Cardinality(At(l)) \in Nat
             /\ Cardinality(At("entailed")) + Cardinality(At("partial"))
                  + Cardinality(At("related_but_insufficient"))
                  + Cardinality(At("insufficient_evidence"))
                  + Cardinality(At("evaluation_error")) <= Cardinality(R)
<1> DEFINE At(l) == {r \in R : level[r] = l}
           A == At("entailed")
           B == At("partial")
           C == At("related_but_insufficient")
           D == At("insufficient_evidence")
           E == At("evaluation_error")
<1>1. \A l : IsFiniteSet(At(l)) /\ Cardinality(At(l)) \in Nat
  BY FS_Subset, FS_CardinalityType
<1>2. IsFiniteSet(A) /\ IsFiniteSet(B) /\ IsFiniteSet(C) /\ IsFiniteSet(D) /\ IsFiniteSet(E)
  BY <1>1
<1>3. /\ A \cap B = {} /\ (A \cup B) \cap C = {} /\ (A \cup B \cup C) \cap D = {}
      /\ (A \cup B \cup C \cup D) \cap E = {} /\ A \cup B \cup C \cup D \cup E \subseteq R
  OBVIOUS
<1>4. \A l : Cardinality(At(l)) \in Nat
  BY <1>1
<1>5. Cardinality(A) + Cardinality(B) + Cardinality(C) + Cardinality(D) + Cardinality(E)
        <= Cardinality(R)
  <2> HIDE DEF A, B, C, D, E
  <2>1. /\ IsFiniteSet(A \cup B)
        /\ Cardinality(A \cup B) = Cardinality(A) + Cardinality(B)
    BY <1>2, <1>3, PartsAddUp
  <2>2. /\ IsFiniteSet(A \cup B \cup C)
        /\ Cardinality(A \cup B \cup C) = Cardinality(A \cup B) + Cardinality(C)
    BY <1>2, <1>3, <2>1, PartsAddUp
  <2>3. /\ IsFiniteSet(A \cup B \cup C \cup D)
        /\ Cardinality(A \cup B \cup C \cup D) = Cardinality(A \cup B \cup C) + Cardinality(D)
    BY <1>2, <1>3, <2>2, PartsAddUp
  <2>4. Cardinality(A \cup B \cup C \cup D \cup E) = Cardinality(A \cup B \cup C \cup D) + Cardinality(E)
    BY <1>2, <1>3, <2>3, PartsAddUp
  <2>5. Cardinality(A \cup B \cup C \cup D \cup E) <= Cardinality(R)
    BY <1>3, FS_Subset
  <2> QED BY <2>1, <2>2, <2>3, <2>4, <2>5
<1> QED BY <1>4, <1>5

\* What is earned is a percentage of what could be.
LEMMA WeightedIsPercent == Claims!Weighted \in 0..100
<1> DEFINE Q     == {r \in Requirement : claims[r].importance = "required"}
           At(l) == {r \in Requirement : level[r] = l}
           Of(l) == {r \in Q : level[r] = l}
           W(l)  == Cardinality(At(l)) + Cardinality(Of(l))
           all   == Cardinality(Requirement) + Cardinality(Q)
           E(l)  == Claims!Factor[l] * Claims!Importance(At(l))
           sum   == E("entailed") + E("partial") + E("related_but_insufficient")
                      + E("insufficient_evidence") + E("evaluation_error")
<1>1. IsFiniteSet(Requirement) /\ IsFiniteSet(Q)
  BY KnowledgeAssumption, FS_Subset
<1>2. /\ \A l : Cardinality(At(l)) \in Nat
      /\ Cardinality(At("entailed")) + Cardinality(At("partial"))
           + Cardinality(At("related_but_insufficient")) + Cardinality(At("insufficient_evidence"))
           + Cardinality(At("evaluation_error")) <= Cardinality(Requirement)
  BY <1>1, LevelsAddUp
<1>3. /\ \A l : Cardinality(Of(l)) \in Nat
      /\ Cardinality(Of("entailed")) + Cardinality(Of("partial"))
           + Cardinality(Of("related_but_insufficient")) + Cardinality(Of("insufficient_evidence"))
           + Cardinality(Of("evaluation_error")) <= Cardinality(Q)
  <2> HIDE DEF Q
  <2> QED BY <1>1, LevelsAddUp
<1>4. Cardinality(Requirement) \in Nat /\ Cardinality(Q) \in Nat
  BY <1>1, FS_CardinalityType
<1>5. Claims!Importance(Requirement) = 50 * all
  BY CountsAlike DEF Claims!Importance
<1>6. \A l : Claims!Importance(At(l)) = 50 * W(l)
  <2>1. \A l : {r \in At(l) : claims[r].importance = "required"} = Of(l)
    OBVIOUS
  <2> HIDE DEF At, Of
  <2> QED BY <2>1, CountsAlike DEF Claims!Importance
<1>7. /\ E("entailed") = 100 * (50 * W("entailed")) /\ E("partial") = 65 * (50 * W("partial"))
      /\ E("related_but_insufficient") = 35 * (50 * W("related_but_insufficient"))
      /\ E("insufficient_evidence") = 15 * (50 * W("insufficient_evidence"))
      /\ E("evaluation_error") = 10 * (50 * W("evaluation_error"))
  <2> HIDE DEF At, Of, W
  <2> QED BY <1>6 DEF Claims!Factor
<1>8. Claims!Weighted = IF Requirement = {} THEN 0
                        ELSE Claims!Rounded(sum, Claims!Importance(Requirement))
  BY DEF Claims!Weighted
<1>9. CASE Requirement # {}
  <2>1. Cardinality(Requirement) # 0
    BY <1>1, <1>9, FS_EmptySet
  <2> HIDE DEF At, Of, Q, E
  <2>2. 50 * all \in Nat \ {0}
    BY <1>4, <2>1
  <2>3. sum \in Nat /\ sum <= 100 * (50 * all)
    BY <1>2, <1>3, <1>4, <1>7
  <2> HIDE DEF sum, all
  <2> QED BY <1>5, <1>8, <1>9, <2>2, <2>3, RoundedIsPercent
<1> QED BY <1>8, <1>9

\* The caps leave it one.
LEMMA FinalIsPercent ==
  /\ Claims!Final \in 0..100
  /\ Claims!Cardinality(Claims!NotMet) \in 0..Claims!Cardinality(Requirement)
<1> DEFINE R == Claims!Required
           M == Claims!NotMet
           n == Claims!Cardinality(R)
           k == Claims!Cardinality(M)
           x == Claims!Rounded(80 * (n - k), n)
           Cap(c) == IF Claims!Weighted < c THEN Claims!Weighted ELSE c
<1>1. /\ M \subseteq R /\ R \subseteq Requirement /\ IsFiniteSet(Requirement)
  BY KnowledgeAssumption DEF Claims!NotMet, Claims!Required
<1>2. /\ n \in Nat /\ k \in Nat /\ k <= n /\ n <= Claims!Cardinality(Requirement)
      /\ Claims!Cardinality(Requirement) \in Nat /\ (M # {} => k # 0)
  <2>1. IsFiniteSet(R) /\ IsFiniteSet(M)
    BY <1>1, FS_Subset
  <2>2. /\ Cardinality(R) \in Nat /\ Cardinality(M) \in Nat /\ Cardinality(Requirement) \in Nat
        /\ Cardinality(M) <= Cardinality(R) /\ Cardinality(R) <= Cardinality(Requirement)
        /\ (M # {} => Cardinality(M) # 0)
    BY <1>1, <2>1, FS_Subset, FS_CardinalityType, FS_EmptySet
  <2> QED BY <2>2, CountsAlike
<1> HIDE DEF n, k
<1>3. \A c \in Nat : Cap(c) \in 0..100
  BY WeightedIsPercent
<1>4. M # {} => Claims!Max({20, x}) \in Nat
  <2> SUFFICES ASSUME M # {} PROVE Claims!Max({20, x}) \in Nat
    OBVIOUS
  <2>1. n \in Nat \ {0} /\ 80 * (n - k) \in Nat /\ 80 * (n - k) <= 100 * n
    BY <1>2
  <2>2. x \in 0..100
    <3> DEFINE a == 80 * (n - k)
    <3>1. a \in Nat /\ a <= 100 * n
      BY <2>1
    <3> HIDE DEF a
    <3>2. Claims!Rounded(a, n) \in 0..100
      BY <2>1, <3>1, RoundedIsPercent
    <3> QED BY <3>2 DEF a
  <2> HIDE DEF x
  <2>3. \E y \in {20, x} : \A z \in {20, x} : y >= z
    BY <2>2
  <2>4. Claims!Max({20, x}) \in {20, x}
    BY <2>3 DEF Claims!Max
  <2> QED BY <2>2, <2>4
<1>5. Claims!Final = IF Claims!Confirmed THEN 0 ELSE IF Claims!Blocked THEN Cap(20)
                     ELSE IF M = {} THEN Claims!Weighted ELSE Cap(Claims!Max({20, x}))
  BY DEF Claims!Final, n, k
<1>6. Claims!Final \in 0..100
  <2> HIDE DEF M, x, Cap
  <2> QED BY <1>3, <1>4, <1>5, WeightedIsPercent
<1> QED BY <1>2, <1>6 DEF k

ScoreTyped ==
  /\ \A r \in Requirement : claims[r] \in Decomposition \/ claims[r].claims = <<>>
  /\ score \in [eligibility : {"none", "eligible", "review", "ineligible", "needs_confirmation"},
                final : 0..100, missing : 0..Claims!Cardinality(Requirement)]

LEMMA ScoreTypedBegins == Claims!CmInit => ScoreTyped
<1> SUFFICES ASSUME Claims!CmInit PROVE ScoreTyped
  OBVIOUS
<1>1. Claims!Cardinality(Requirement) \in Nat
  BY KnowledgeAssumption, CountsAlike, FS_CardinalityType
<1> QED BY <1>1 DEF Claims!CmInit, ScoreTyped, Claims!NoScore

LEMMA ScoreTypedStep ==
  ClaimsInv /\ ScoreTyped /\ [Claims!CmNext]_(Claims!cmVars) => ScoreTyped'
<1> SUFFICES ASSUME ClaimsInv, ScoreTyped, [Claims!CmNext]_(Claims!cmVars) PROVE ScoreTyped'
  OBVIOUS
<1>1. ASSUME NEW r \in Requirement, Claims!JudgeClaim(r) \/ Claims!Aggregate(r)
      PROVE  ScoreTyped'
  BY <1>1 DEF Claims!JudgeClaim, Claims!Aggregate, ScoreTyped
<1>2. ASSUME NEW r \in Requirement, Claims!RequirementFails(r)
      PROVE  ScoreTyped'
  <2>1. claims' = [claims EXCEPT ![r].claims = <<>>] /\ UNCHANGED score
    BY <1>2 DEF Claims!RequirementFails
  <2>2. claims \in [Requirement -> Shape]
    BY DEF ClaimsInv
  <2>3. claims'[r].claims = <<>> /\ \A q \in Requirement : q # r => claims'[q] = claims[q]
    BY <2>1, <2>2 DEF Shape
  <2> QED BY <2>1, <2>3 DEF ScoreTyped
<1>3. CASE Claims!Score
  <2>1. score' = Claims!Scored /\ UNCHANGED claims
    BY <1>3 DEF Claims!Score
  <2>2. Claims!Eligibility \in {"none", "eligible", "review", "ineligible", "needs_confirmation"}
    BY Zenon DEF Claims!Eligibility
  <2> QED BY <2>1, <2>2, FinalIsPercent DEF ScoreTyped, Claims!Scored
<1>4. CASE UNCHANGED Claims!cmVars
  BY <1>4 DEF Claims!cmVars, ScoreTyped
<1> QED BY <1>1, <1>2, <1>3, <1>4 DEF Claims!CmNext

LEMMA ScoreIsTyped == ClaimsInv /\ ScoreTyped => Claims!CmTypeOK
BY DEF ClaimsInv, ScoreTyped, Claims!CmTypeOK

-------------------------------------------------------------------------------
(* The review queue                                                         *)

\* Nothing is listed twice.
Distinct(s) == \A i, j \in 1..Len(s) : s[i] = s[j] => i = j

\* A list that a page can show.
Shown(s, S) == s \in Seq(S) /\ Distinct(s) /\ Len(s) <= QueueLimit

\* All of a set, once.
Lists(s, S) == s \in Seq(S) /\ Distinct(s) /\ Len(s) = Cardinality(S)

\* An order of a set is a sequence of all its members.
LEMMA OrderIsTyped ==
  ASSUME NEW S, IsFiniteSet(S), NEW key, \A v \in S : key[v] \in Int, NEW s \in Review!By(S, key)
  PROVE  Lists(s, S)
<1>1. Cardinality(S) \in Nat
  BY FS_CardinalityType
<1>2. Review!Cardinality(S) = Cardinality(S)
  BY Zenon DEF Review!Cardinality, Cardinality, Review!IsFiniteSet, IsFiniteSet
<1>3. s \in [1..Cardinality(S) -> S] /\ \A i, j \in DOMAIN s : i < j => key[s[i]] < key[s[j]]
  BY <1>2 DEF Review!By
<1>4. s \in Seq(S) /\ Len(s) = Cardinality(S)
  BY <1>1, <1>3
<1>5. ASSUME NEW i \in 1..Len(s), NEW j \in 1..Len(s), s[i] = s[j], i # j PROVE FALSE
  <2>1. key[s[i]] \in Int /\ key[s[i]] = key[s[j]]
    BY <1>4, <1>5
  <2>2. i < j \/ j < i
    BY <1>1, <1>4, <1>5
  <2>3. key[s[i]] < key[s[j]] \/ key[s[j]] < key[s[i]]
    BY <1>3, <1>4, <2>2
  <2> QED BY <2>1, <2>3
<1> QED BY <1>4, <1>5 DEF Lists, Distinct

\* The first n of some places are at most n.
LEMMA FirstAreFew ==
  ASSUME NEW m \in Nat, NEW S, S \subseteq 1..m, NEW place, \A i \in S : place[i] = i, NEW n \in Nat
  PROVE  /\ Review!First(S, place, n) \subseteq S
         /\ IsFiniteSet(Review!First(S, place, n)) /\ Cardinality(Review!First(S, place, n)) <= n
<1> DEFINE C == Review!First(S, place, n)
<1>1. C = {v \in S : Review!Cardinality({w \in S : place[w] < place[v]}) < n}
  BY DEF Review!First
<1>2. C \subseteq S /\ IsFiniteSet(S) /\ IsFiniteSet(C) /\ Cardinality(C) \in Nat
  <2>1. IsFiniteSet(1..m)
    BY FS_Interval
  <2>2. C \subseteq S
    BY <1>1
  <2> HIDE DEF C
  <2> QED BY <2>1, <2>2, FS_Subset, FS_CardinalityType
<1>3. CASE C = {}
  BY <1>2, <1>3, FS_EmptySet
<1>4. CASE C # {}
  <2> DEFINE T == {m - v : v \in C}
  <2>1. T \subseteq Nat /\ T # {}
    <3>1. \A v \in C : v \in 1..m
      BY <1>2
    <3> HIDE DEF C
    <3>2. \A v \in C : m - v \in Nat
      BY <3>1
    <3> QED BY <1>4, <3>2
  <2> HIDE DEF T, C
  <2>2. PICK t \in T : \A y \in T : t <= y
    BY <2>1, LeastNumber
  <2> USE DEF T
  <2>3. PICK x \in C : t = m - x
    BY <2>2
  <2>4. x \in Nat /\ \A y \in C : y \in Nat /\ m - x <= m - y
    BY <1>2, <2>2, <2>3
  <2>5. \A y \in C : y <= x
    BY <2>4
  <2> DEFINE B == {w \in S : place[w] < place[x]}
  <2>6. Review!Cardinality(B) < n
    BY <1>1, <2>3
  <2>7. C \ {x} \subseteq B
    BY <1>2, <2>4, <2>5
  <2>8. IsFiniteSet(B) /\ Cardinality(B) \in Nat /\ Review!Cardinality(B) = Cardinality(B)
    <3>1. B \subseteq S
      OBVIOUS
    <3> HIDE DEF B
    <3>2. IsFiniteSet(B)
      BY <1>2, <3>1, FS_Subset
    <3>3. Review!Cardinality(B) = Cardinality(B)
      BY Zenon DEF Review!Cardinality, Cardinality, Review!IsFiniteSet, IsFiniteSet
    <3> QED BY <3>2, <3>3, FS_CardinalityType
  <2> HIDE DEF B
  <2>9. Cardinality(C \ {x}) = Cardinality(C) - 1
    BY <1>2, <2>3, FS_RemoveElement
  <2>10. Cardinality(C \ {x}) <= Cardinality(B)
    <3> DEFINE D == C \ {x}
    <3>1. D \in SUBSET B
      BY <2>7
    <3> HIDE DEF D
    <3>2. Cardinality(D) <= Cardinality(B)
      BY <2>8, <3>1, FS_Subset
    <3> QED BY <3>2 DEF D
  <2> QED BY <1>2, <2>6, <2>8, <2>9, <2>10 DEF C
<1> QED BY <1>2, <1>3, <1>4

\* A sample is of what is eligible, and names strata.
LEMMA SampleIsTyped ==
  ASSUME NEW r, NEW l, NEW sample \in Review!Samples(r, l)
  PROVE  LET full == Review!FilledUp(sample, r)
         IN  /\ DOMAIN full \subseteq Review!Eligible
             /\ \A v \in DOMAIN full : full[v] \subseteq Review!Stratum
<1> DEFINE E == Review!Eligible
           taken == Review!Taken(r, l)
           rest  == E \ UNION Review!Range(taken)
           size  == Review!AtMost(Review!Cardinality(rest), Quota["random"])
           room  == QueueLimit - Review!AtMost(Review!Cardinality(DOMAIN sample), QueueLimit)
           more  == Review!First(E \ DOMAIN sample, r, room)
           full  == Review!FilledUp(sample, r)
<1>1. DOMAIN taken = Review!Stratum \ {"random", "fill"}
  BY Zenon DEF Review!Taken
<1> HIDE DEF taken
<1>2. PICK random \in Review!kSubset(size, rest) :
        sample = [v \in (E \ rest) \cup random |->
                    {s \in DOMAIN taken : v \in taken[s]}
                    \cup (IF v \in random THEN {"random"} ELSE {})]
  BY DEF Review!Samples, taken
<1>3. random \subseteq rest
  BY DEF Review!kSubset
<1>4. /\ DOMAIN sample \subseteq E
      /\ \A v \in DOMAIN sample : sample[v] \subseteq Review!Stratum
  <2>1. DOMAIN sample = (E \ rest) \cup random
    BY <1>2
  <2>2. \A v \in DOMAIN sample : sample[v] \subseteq (DOMAIN taken) \cup {"random"}
    BY <1>2, <2>1
  <2>3. (DOMAIN taken) \cup {"random"} \subseteq Review!Stratum
    BY <1>1 DEF Review!Stratum
  <2> QED BY <1>3, <2>1, <2>2, <2>3
<1>5. more \subseteq E
  BY DEF Review!First
<1>6. full = [v \in DOMAIN sample \cup more |-> IF v \in DOMAIN sample THEN sample[v] ELSE {}]
  BY DEF Review!FilledUp
<1> HIDE DEF full, more, E
<1>7. DOMAIN full = DOMAIN sample \cup more
  BY <1>6
<1>8. \A v \in DOMAIN full : full[v] = IF v \in DOMAIN sample THEN sample[v] ELSE {}
  BY <1>6
<1> QED BY <1>4, <1>5, <1>7, <1>8 DEF full, E

\* The reasons and the priorities of a sample are numbers.
LEMMA ReasonIsNumber ==
  ASSUME NEW strata, strata \subseteq Review!Stratum
  PROVE  Review!Reason(strata) \in Int
<1> DEFINE order == <<"rank_disagreement", "ltr_top", "current_top", "middle_rank", "random", "fill">>
           T == {i \in 1..6 : order[i] \in strata}
<1>1. CASE strata = {}
  BY <1>1 DEF Review!Reason, Review!STRATA_PRIORITY
<1>2. CASE strata # {}
  <2>1. T # {} /\ T \subseteq Nat
    <3>1. PICK s \in strata : s \in Review!Stratum
      BY <1>2
    <3>2. \E i \in 1..6 : order[i] = s
      <4>1. /\ order[1] = "rank_disagreement" /\ order[2] = "ltr_top" /\ order[3] = "current_top"
            /\ order[4] = "middle_rank" /\ order[5] = "random" /\ order[6] = "fill"
            /\ {1, 2, 3, 4, 5, 6} \subseteq 1..6
        OBVIOUS
      <4> HIDE DEF order
      <4> QED BY <3>1, <4>1 DEF Review!Stratum
    <3> QED BY <3>2
  <2> HIDE DEF T
  <2>2. PICK x \in T : \A y \in T : x <= y
    BY <2>1, LeastNumber
  <2> USE DEF T
  <2>3. DOMAIN Review!STRATA_PRIORITY = 1..6 /\ Review!STRATA_PRIORITY = order
    BY DEF Review!STRATA_PRIORITY
  <2> HIDE DEF order
  <2>4. /\ x \in DOMAIN Review!STRATA_PRIORITY /\ Review!STRATA_PRIORITY[x] \in strata
        /\ \A j \in 1..(x - 1) : Review!STRATA_PRIORITY[j] \notin strata
    <3>1. x \in 1..6 /\ order[x] \in strata
      BY <2>2
    <3>2. \A j \in 1..(x - 1) : j \in 1..6 /\ ~(x <= j)
      BY <3>1
    <3>3. \A j \in 1..(x - 1) : order[j] \notin strata
      BY <2>2, <3>2
    <3> QED BY <2>3, <3>1, <3>3
  <2>5. Review!Reason(strata) \in DOMAIN Review!STRATA_PRIORITY
    BY <1>2, <2>4 DEF Review!Reason
  <2> QED BY <2>3, <2>5
<1> QED BY <1>1, <1>2

LEMMA PriorityIsNumber ==
  ASSUME NEW full, DOMAIN full \subseteq Review!Eligible,
         \A v \in DOMAIN full : full[v] \subseteq Review!Stratum,
         NEW v \in DOMAIN full
  PROVE  Review!Priorities(full)[v] \in Int
<1> DEFINE E == Review!Eligible
           L == E \cap Review!WithLtr
           n == Review!Cardinality(E)
           m == IF L = {} THEN 1 ELSE Review!Cardinality(L)
           UpTo(S, field, w) == Review!Cardinality({u \in S : scores[u][field] <= scores[w][field]})
           c(w) == UpTo(E, "current", w) * m
           p(w) == (IF w \in L THEN 25 * Review!Abs(c(w) - UpTo(L, "ltr", w) * n) ELSE 0)
                     + 15 * (n * m - Review!Abs(2 * c(w) - n * m))
                     + 2 * Review!Cardinality(full[w]) * n * m
<1>1. Review!Priorities(full) = [w \in DOMAIN full |-> p(w)]
  BY DEF Review!Priorities
<1>2. E \subseteq Review!Vacancy /\ L \subseteq Review!Vacancy
  BY DEF Review!Eligible, Review!Rankable
<1>3. n \in Int /\ m \in Int
  BY <1>2, VacanciesAreFinite
<1>4. UpTo(E, "current", v) \in Int /\ UpTo(L, "ltr", v) \in Int
  <2> DEFINE A == {u \in E : scores[u]["current"] <= scores[v]["current"]}
             B == {u \in L : scores[u]["ltr"] <= scores[v]["ltr"]}
  <2>1. A \subseteq Review!Vacancy /\ B \subseteq Review!Vacancy
    BY <1>2
  <2> HIDE DEF A, B
  <2>2. Review!Cardinality(A) \in Int /\ Review!Cardinality(B) \in Int
    BY <2>1, VacanciesAreFinite
  <2> QED BY <2>2 DEF A, B
<1>5. Review!Cardinality(full[v]) \in Int
  <2>1. IsFiniteSet(Review!Stratum)
    <3>1. \A S, x : IsFiniteSet(S) => IsFiniteSet(S \cup {x})
      BY FS_AddElement
    <3>2. IsFiniteSet({"rank_disagreement"} \cup {"ltr_top"} \cup {"current_top"})
      BY <3>1, FS_Singleton
    <3>3. IsFiniteSet({"rank_disagreement"} \cup {"ltr_top"} \cup {"current_top"}
                        \cup {"middle_rank"} \cup {"random"} \cup {"fill"})
      BY <3>1, <3>2
    <3> QED BY <3>3, Zenon DEF Review!Stratum
  <2>2. IsFiniteSet(full[v])
    BY <2>1, FS_Subset
  <2>3. Review!Cardinality(full[v]) = Cardinality(full[v])
    BY Zenon DEF Review!Cardinality, Cardinality, Review!IsFiniteSet, IsFiniteSet
  <2> QED BY <2>2, <2>3, FS_CardinalityType
<1>6. \A x \in Int : Review!Abs(x) \in Int
  BY DEF Review!Abs
<1>7. ASSUME NEW a \in Int, NEW b \in Int, NEW d \in Int, NEW e \in Int, NEW k \in Int
      PROVE  /\ 25 * Review!Abs(a * e - b * d) \in Int
             /\ 15 * (d * e - Review!Abs(2 * (a * e) - d * e)) \in Int
             /\ 2 * k * d * e \in Int
  <2>1. a * e \in Int /\ b * d \in Int /\ d * e \in Int /\ 2 * k * d \in Int
    OBVIOUS
  <2>2. 2 * k * d * e \in Int
    BY <2>1
  <2>3. Review!Abs(a * e - b * d) \in Int /\ Review!Abs(2 * (a * e) - d * e) \in Int
    BY <1>6, <2>1
  <2> QED BY <2>1, <2>2, <2>3
<1> HIDE DEF n, m, UpTo, L, E
<1>8. p(v) \in Int
  BY <1>3, <1>4, <1>5, <1>7
<1> QED BY <1>1, <1>8

\* The first places, in their order.
LEMMA PlacesAreTyped ==
  ASSUME NEW m \in Nat, NEW S, S \subseteq 1..m, NEW place, \A i \in S : place[i] = i,
         NEW p \in Review!By(Review!First(S, place, QueueLimit), place)
  PROVE  Shown(p, 1..m)
<1> DEFINE C == Review!First(S, place, QueueLimit)
<1>1. C \subseteq S /\ IsFiniteSet(C) /\ Cardinality(C) <= QueueLimit
  <2>1. QueueLimit \in Nat
    BY KnowledgeAssumption
  <2> QED BY <2>1, FirstAreFew
<1>2. p \in Review!By(C, place)
  OBVIOUS
<1> HIDE DEF C
<1>3. \A i \in C : place[i] \in Int
  <2>1. \A i \in C : place[i] = i /\ i \in Int
    BY <1>1
  <2> QED BY <2>1
<1>4. p \in Seq(C) /\ Distinct(p) /\ Len(p) = Cardinality(C)
  <2>1. Lists(p, C)
    BY <1>1, <1>2, <1>3, OrderIsTyped
  <2> QED BY <2>1 DEF Lists
<1>5. C \subseteq 1..m
  BY <1>1
<1>6. p \in Seq(1..m)
  <2>1. Len(p) \in Nat /\ p = [i \in 1..Len(p) |-> p[i]] /\ \A i \in 1..Len(p) : p[i] \in C
    BY <1>4
  <2>2. \A i \in 1..Len(p) : p[i] \in 1..m
    BY <1>5, <2>1
  <2> QED BY <2>1, <2>2
<1> QED BY <1>1, <1>4, <1>6 DEF Shown

\* What remains of a queue when companies are limited.
LEMMA LimitIsTyped ==
  ASSUME NEW S, NEW items \in Seq(S), Distinct(items),
         NEW shown \in Review!limit_bucket_dominance(items)
  PROVE  Shown(shown, S)
<1> DEFINE place == [i \in DOMAIN items |-> i]
           OfCompany(i) == {j \in 1..(i - 1) : Employer[items[j]] = Employer[items[i]]}
           few  == Review!Cardinality({Employer[items[i]] : i \in DOMAIN items}) < ShareOf
           kept == {i \in DOMAIN items : few \/ Review!Cardinality(OfCompany(i)) < Review!Cap}
           n    == Len(items)
<1>1. PICK p \in Review!By(Review!First(kept, place, QueueLimit), place) :
        shown = [k \in DOMAIN p |-> items[p[k]]]
  BY DEF Review!limit_bucket_dominance
<1>2. kept \subseteq 1..n /\ n \in Nat /\ \A i \in kept : place[i] = i
  OBVIOUS
<1> HIDE DEF kept, place
<1>3. p \in Seq(1..n) /\ Distinct(p) /\ Len(p) <= QueueLimit
  <2>1. Shown(p, 1..n)
    <3> HIDE DEF n
    <3> QED BY <1>1, <1>2, PlacesAreTyped
  <2> QED BY <2>1 DEF Shown
<1>4. Len(p) \in Nat /\ DOMAIN p = 1..Len(p) /\ \A k \in 1..Len(p) : p[k] \in 1..n
  BY <1>3
<1>5. shown = [k \in 1..Len(p) |-> items[p[k]]] /\ \A k \in 1..Len(p) : items[p[k]] \in S
  BY <1>1, <1>4
<1>6. shown \in Seq(S) /\ Len(shown) = Len(p) /\ \A k \in 1..Len(p) : shown[k] = items[p[k]]
  BY <1>4, <1>5
<1>7. Distinct(shown)
  BY <1>3, <1>4, <1>6 DEF Distinct
<1> QED BY <1>3, <1>6, <1>7 DEF Shown

LEMMA QueueIsTyped ==
  ASSUME NEW shown \in Review!Queues
  PROVE  Shown(shown, Review!Vacancy)
<1> DEFINE r == Review!Ranks(Review!Rankable, "current")
           l == Review!Ranks(Review!WithLtr, "ltr")
<1>1. PICK sample \in Review!Samples(r, l) :
        \E items \in Review!Ordered(Review!FilledUp(sample, r), r) :
          shown \in Review!limit_bucket_dominance(items)
  BY DEF Review!Queues
<1> DEFINE full == Review!FilledUp(sample, r)
           key  == [v \in DOMAIN full |->
                      (Review!Reason(full[v]) - 7 * Review!Priorities(full)[v]) * (N + 1) + r[v]]
<1>2. PICK items \in Review!Ordered(full, r) : shown \in Review!limit_bucket_dominance(items)
  BY <1>1
<1>3. /\ DOMAIN full \subseteq Review!Eligible
      /\ \A v \in DOMAIN full : full[v] \subseteq Review!Stratum
  BY SampleIsTyped
<1>4. \A v \in Review!Eligible : r[v] \in Nat
  <2>1. ASSUME NEW v \in Review!Rankable PROVE r[v] \in Nat
    <3> DEFINE W == {w \in Review!Rankable :
                       \/ scores[w]["current"] > scores[v]["current"]
                       \/ scores[w]["current"] = scores[v]["current"] /\ w <= v}
    <3>1. r[v] = Review!Cardinality(W)
      BY DEF Review!Ranks
    <3>2. W \subseteq Review!Vacancy
      BY DEF Review!Rankable
    <3> HIDE DEF W
    <3> QED BY <3>1, <3>2, VacanciesAreFinite
  <2> QED BY <2>1 DEF Review!Eligible
<1>5. items \in Review!By(DOMAIN full, key)
  BY <1>2 DEF Review!Ordered
<1> HIDE DEF full, r, l
<1>6. ASSUME NEW v \in DOMAIN full PROVE key[v] \in Int
  <2>1. Review!Reason(full[v]) \in Int
    BY <1>3, ReasonIsNumber
  <2>2. Review!Priorities(full)[v] \in Int
    BY <1>3, PriorityIsNumber
  <2>3. r[v] \in Int /\ N \in Nat
    BY <1>3, <1>4, KnowledgeAssumption
  <2>4. \A a, b, c \in Int : (a - 7 * b) * (N + 1) + c \in Int
    <3> SUFFICES ASSUME NEW a \in Int, NEW b \in Int, NEW c \in Int
                 PROVE  (a - 7 * b) * (N + 1) + c \in Int
      OBVIOUS
    <3>1. a - 7 * b \in Int /\ N + 1 \in Int
      BY <2>3
    <3> QED BY <3>1
  <2> QED BY <2>1, <2>2, <2>3, <2>4
<1> HIDE DEF key
<1>7. DOMAIN full \subseteq Review!Vacancy /\ IsFiniteSet(DOMAIN full)
  <2>1. Review!Eligible \subseteq Review!Vacancy
    BY DEF Review!Eligible, Review!Rankable
  <2> QED BY <1>3, <2>1, VacanciesAreFinite
<1>8. items \in Seq(DOMAIN full) /\ Distinct(items)
  BY <1>5, <1>6, <1>7, OrderIsTyped DEF Lists
<1>9. items \in Seq(Review!Vacancy)
  BY <1>7, <1>8
<1> QED BY <1>2, <1>8, <1>9, LimitIsTyped

LEMMA ReviewBegins == Review!RqInit => Review!RqTypeOK
<1> SUFFICES ASSUME Review!RqInit PROVE Review!RqTypeOK
  OBVIOUS
<1>1. MaxRescores \in Nat /\ QueueLimit \in Nat
  BY KnowledgeAssumption, TypesAssumption
<1>2. review = <<>> /\ review \in Seq(Review!Vacancy) /\ Len(review) = 0 /\ DOMAIN review = {}
  BY DEF Review!RqInit
<1>3. Review!IsInjective(review)
  BY <1>2 DEF Review!IsInjective
<1> QED BY <1>1, <1>2, <1>3 DEF Review!RqInit, Review!RqTypeOK

LEMMA ReviewStep ==
  Review!RqTypeOK /\ [Review!RqNext]_(Review!rqVars) => Review!RqTypeOK'
<1> SUFFICES ASSUME Review!RqTypeOK, [Review!RqNext]_(Review!rqVars) PROVE Review!RqTypeOK'
  OBVIOUS
<1> DEFINE Keys == {Review!Key(a, b) : a, b \in Review!Vacancy}
           Score == [current : 0..MaxScore \cup {Review!NoScore}, ltr : 0..MaxScore \cup {Review!NoScore}]
           Queue(s) == s \in Seq(Review!Vacancy) /\ Review!IsInjective(s) /\ Len(s) <= QueueLimit
<1>1. /\ scores \in [Review!Vacancy -> Score] /\ labelled \subseteq Review!Vacancy
      /\ judged \subseteq Keys /\ reviewPairs \subseteq Keys /\ rescores \in 0..MaxRescores
      /\ Queue(review) /\ MaxRescores \in Nat /\ QueueLimit \in Nat
  BY KnowledgeAssumption, TypesAssumption DEF Review!RqTypeOK
<1>2. ASSUME scores' \in [Review!Vacancy -> Score], labelled' \subseteq Review!Vacancy,
             judged' \subseteq Keys, reviewPairs' \subseteq Keys, rescores' \in 0..MaxRescores,
             Queue(review')
      PROVE  Review!RqTypeOK'
  BY <1>2 DEF Review!RqTypeOK, Review!Key, Review!Vacancy, Review!NoScore, Review!IsInjective
<1> HIDE DEF Keys, Score, Queue
<1>3. CASE Review!Rescore
  <2>1. PICK v \in Review!Vacancy, current \in 0..MaxScore, ltr \in 0..MaxScore \cup {Review!NoScore} :
          scores' = [scores EXCEPT ![v] = [current |-> current, ltr |-> ltr]]
    BY <1>3 DEF Review!Rescore
  <2>2. [current |-> current, ltr |-> ltr] \in Score
    BY DEF Score
  <2>3. scores' \in [Review!Vacancy -> Score]
    BY <1>1, <2>1, <2>2
  <2>4. rescores' \in 0..MaxRescores
    BY <1>1, <1>3 DEF Review!Rescore
  <2> QED BY <1>1, <1>2, <1>3, <2>3, <2>4 DEF Review!Rescore
<1>4. CASE Review!OpenQueue
  <2>1. review' \in Review!Queues /\ reviewPairs' = {}
        /\ UNCHANGED <<scores, labelled, judged, rescores>>
    BY <1>4 DEF Review!OpenQueue
  <2>2. Shown(review', Review!Vacancy)
    BY <2>1, QueueIsTyped
  <2>3. Queue(review')
    BY <2>2 DEF Queue, Shown, Distinct, Review!IsInjective
  <2> QED BY <1>1, <1>2, <2>1, <2>3
<1>5. CASE Review!OpenPairs
  <2>1. reviewPairs' \in Review!PairQueues(Review!Candidates \ judged) /\ review' = <<>>
        /\ UNCHANGED <<scores, labelled, judged, rescores>>
    BY <1>5 DEF Review!OpenPairs
  <2>2. Review!Candidates \subseteq Keys
    <3> DEFINE q == Review!Ranks(Review!Rankable, "current")
               l == Review!Ranks(Review!WithLtr, "ltr")
               P == {x \in Review!Rankable \X Review!Rankable :
                       \/ q[x[2]] = q[x[1]] + 1
                       \/ {x[1], x[2]} \subseteq Review!WithLtr /\ q[x[1]] < q[x[2]] /\ l[x[1]] > l[x[2]]}
    <3>1. Review!Candidates = {Review!Key(x[1], x[2]) : x \in P}
      BY DEF Review!Candidates
    <3>2. \A x \in P : x[1] \in Review!Vacancy /\ x[2] \in Review!Vacancy
      BY DEF Review!Rankable
    <3> HIDE DEF P
    <3> QED BY <3>1, <3>2 DEF Keys
  <2>3. reviewPairs' \subseteq Keys
    BY <2>1, <2>2 DEF Review!PairQueues
  <2>4. Queue(<<>>)
    BY <1>1 DEF Queue, Review!IsInjective
  <2> QED BY <1>1, <1>2, <2>1, <2>3, <2>4
<1>6. CASE Review!Label
  <2>1. /\ review # <<>> /\ labelled' = labelled \cup {Head(review)} /\ review' = Tail(review)
        /\ UNCHANGED <<scores, judged, reviewPairs, rescores>>
    BY <1>6 DEF Review!Label
  <2>2. review \in Seq(Review!Vacancy) /\ Review!IsInjective(review) /\ Len(review) <= QueueLimit
    BY <1>1 DEF Queue
  <2>3. Head(review) \in Review!Vacancy /\ review' \in Seq(Review!Vacancy)
        /\ Len(review') = Len(review) - 1 /\ Len(review) \in Nat
        /\ \A i \in 1..Len(review') : i + 1 \in 1..Len(review) /\ review'[i] = review[i + 1]
    BY <2>1, <2>2
  <2>4. ASSUME NEW i \in 1..Len(review'), NEW j \in 1..Len(review'), review'[i] = review'[j]
        PROVE  i = j
    <3>1. i + 1 = j + 1
      BY <2>2, <2>3, <2>4 DEF Review!IsInjective
    <3> QED BY <2>3, <3>1
  <2>5. Len(review') <= QueueLimit
    BY <1>1, <2>2, <2>3
  <2>6. Queue(review')
    BY <2>3, <2>4, <2>5 DEF Queue, Review!IsInjective
  <2>7. labelled' \subseteq Review!Vacancy
    BY <1>1, <2>1, <2>3
  <2> QED BY <1>1, <1>2, <2>1, <2>6, <2>7
<1>7. CASE Review!Judge
  <2>1. /\ \E p \in reviewPairs : judged' = judged \cup {p} /\ reviewPairs' = reviewPairs \ {p}
        /\ UNCHANGED <<scores, labelled, review, rescores>>
    BY <1>7 DEF Review!Judge
  <2>2. judged' \subseteq Keys /\ reviewPairs' \subseteq Keys
    BY <1>1, <2>1
  <2> QED BY <1>1, <1>2, <2>1, <2>2
<1>8. CASE UNCHANGED Review!rqVars
  BY <1>1, <1>2, <1>8 DEF Review!rqVars
<1> QED BY <1>3, <1>4, <1>5, <1>6, <1>7, <1>8 DEF Review!RqNext

-------------------------------------------------------------------------------
(* Strategy                                                                 *)

Applied == {NoOne} \cup [changed : BOOLEAN, previous : Resume \cup {NoOne}]
AdviceRow == [asks : Strategy!Advice, status : {"proposed", "accepted", "rejected"},
              applied : Applied, at : Strategy!Times]
Decision == [pc : {"deciding"}, row : Nat, status : {"accepted", "rejected"},
             applied : Applied, switches : Resume \cup {NoOne}]

\* A request is about rows that there are, and proposes finitely many.
About(r, n) ==
  \/ r = Strategy!Idle
  \/ \E P \in SUBSET Strategy!Advice : IsFiniteSet(P) /\ r = [pc |-> "generating", proposals |-> P]
  \/ \E i \in 1..n : r = [pc |-> "accepting", row |-> i]
  \/ r \in Decision /\ r.row \in 1..n

AdviceInv ==
  /\ advice \in Seq(AdviceRow)
  /\ resumes \subseteq Resume /\ active \in resumes \cup {NoOne}
  /\ request = [q \in Request |-> request[q]] /\ \A q \in Request : About(request[q], Len(advice))

LEMMA AdviceBegins == Strategy!JsInit => AdviceInv
<1> SUFFICES ASSUME Strategy!JsInit PROVE AdviceInv
  OBVIOUS
<1>1. request = [q \in Request |-> Strategy!Idle]
  BY DEF Strategy!JsInit
<1>2. advice \in Seq(AdviceRow) /\ resumes \subseteq Resume /\ active \in resumes \cup {NoOne}
  BY DEF Strategy!JsInit
<1>3. \A q \in Request : About(request[q], Len(advice))
  BY <1>1 DEF About
<1> QED BY <1>1, <1>2, <1>3 DEF AdviceInv

\* What a function makes of a finite set is finite.
LEMMA ImageIsFinite ==
  ASSUME NEW S, IsFiniteSet(S), NEW f, DOMAIN f = S, f = [x \in S |-> f[x]]
  PROVE  IsFiniteSet({f[x] : x \in S})
<1> DEFINE T == {f[x] : x \in S}
<1>1. f \in Surjection(S, T)
  BY DEF Surjection
<1> HIDE DEF T
<1>2. IsFiniteSet(T)
  BY <1>1, FS_Surjection
<1> QED BY <1>2 DEF T

\* Finitely many applications in finitely many dimensions compare in finitely many ways.
LEMMA ProposalsAreFew ==
  ASSUME AdviceInv
  PROVE  Strategy!Proposals \in SUBSET Strategy!Advice /\ IsFiniteSet(Strategy!Proposals)
<1> DEFINE G(a, d) == GroupOf(a, d, resumes)
           S == Dimension \X (Application \X Application)
           f == [x \in S |-> Strategy!AskedFor(x[1], <<G(x[2][1], x[1]), G(x[2][2], x[1])>>)]
           T == {f[x] : x \in S}
<1>1. IsFiniteSet(S)
  <2>1. IsFiniteSet(Application \X Application)
    BY TypesAssumption, FS_Product
  <2> QED BY <2>1, TypesAssumption, FS_Product
<1>2. IsFiniteSet(T)
  <2> HIDE DEF S
  <2>1. DOMAIN f = S /\ f = [x \in S |-> f[x]]
    OBVIOUS
  <2> HIDE DEF f
  <2> QED BY <1>1, <2>1, ImageIsFinite
<1>3. ASSUME NEW d \in Dimension, NEW pair \in Strategy!Comparison(d)
      PROVE  Strategy!AskedFor(d, pair) \in T /\ Strategy!AskedFor(d, pair) \in Strategy!Advice
  <2>1. pair \in Strategy!Groups(d) \X Strategy!Groups(d)
    BY DEF Strategy!Comparison
  <2>2. PICK a \in Application, b \in Application : pair = <<G(a, d), G(b, d)>>
    BY <2>1 DEF Strategy!Groups
  <2> DEFINE x == <<d, <<a, b>>>>
  <2>3. x \in S /\ x[1] = d /\ x[2][1] = a /\ x[2][2] = b
    OBVIOUS
  <2>4. Strategy!AskedFor(d, pair) = f[x]
    BY <2>2, <2>3
  <2>5. /\ pair[1] \in STRING /\ pair[2] \in STRING
        /\ ResumeOf(pair[1], resumes) \in Resume \cup {NoOne}
    BY <2>2, TypesAssumption DEF AdviceInv
  <2>6. Strategy!AskedFor(d, pair) \in Strategy!Advice
    BY <2>5 DEF Strategy!AskedFor, Strategy!Advice
  <2> QED BY <2>3, <2>4, <2>6
<1>4. Strategy!Proposals \subseteq T /\ Strategy!Proposals \subseteq Strategy!Advice
  <2> HIDE DEF T
  <2>1. \A asks \in UNION {{Strategy!AskedFor(d, pair) : pair \in Strategy!Comparison(d)} :
                             d \in Dimension} : asks \in T /\ asks \in Strategy!Advice
    BY <1>3
  <2> QED BY <2>1 DEF Strategy!Proposals
<1> HIDE DEF T
<1> QED BY <1>2, <1>4, FS_Subset

\* The rows of a finite set, in some order.
LEMMA SomeOrder ==
  ASSUME NEW S, IsFiniteSet(S)
  PROVE  Strategy!SetToSeq(S) \in Seq(S)
<1> DEFINE n == Cardinality(S)
<1>1. n \in Nat /\ ExistsBijection(1..n, S)
  BY FS_CardinalityType
<1>2. Strategy!Cardinality(S) = n
  BY Zenon DEF Strategy!Cardinality, Cardinality, Strategy!IsFiniteSet, IsFiniteSet
<1>3. \E f \in [1..n -> S] : Strategy!IsInjective(f)
  <2>1. PICK f \in Bijection(1..n, S) : TRUE
    BY <1>1 DEF ExistsBijection
  <2>2. f \in [1..n -> S] /\ \A a, b \in 1..n : f[a] = f[b] => a = b
    BY <2>1 DEF Bijection, Injection, IsInjective
  <2> QED BY <2>2 DEF Strategy!IsInjective
<1>4. Strategy!SetToSeq(S) = CHOOSE f \in [1..n -> S] : Strategy!IsInjective(f)
  BY <1>2 DEF Strategy!SetToSeq
<1> HIDE DEF n
<1>5. Strategy!SetToSeq(S) \in [1..n -> S]
  BY <1>3, <1>4, Zenon
<1> QED BY <1>1, <1>5

LEMMA AdviceStep ==
  StrategyInv /\ AdviceInv /\ [Strategy!JsNext]_(Strategy!jsVars) => AdviceInv'
<1> SUFFICES ASSUME StrategyInv, AdviceInv, [Strategy!JsNext]_(Strategy!jsVars) PROVE AdviceInv'
  OBVIOUS
<1> DEFINE n == Len(advice)
<1>1. /\ advice \in Seq(AdviceRow) /\ n \in Nat /\ now \in Strategy!Times
      /\ resumes \subseteq Resume /\ active \in resumes \cup {NoOne}
      /\ request = [q \in Request |-> request[q]] /\ \A q \in Request : About(request[q], n)
  BY DEF StrategyInv, AdviceInv
\* Rows are only added.
<1>2. ASSUME NEW r, About(r, n), NEW k \in Nat, n <= k PROVE About(r, k)
  <2>1. 1..n \subseteq 1..k
    BY <1>1, <1>2
  <2> QED BY <1>2, <2>1 DEF About
<1>3. ASSUME NEW q \in Request, NEW r, request' = [request EXCEPT ![q] = r],
             advice' \in Seq(AdviceRow), n <= Len(advice'), About(r, Len(advice')),
             resumes' \subseteq Resume, active' \in resumes' \cup {NoOne}
      PROVE  AdviceInv'
  <2>1. Len(advice') \in Nat
    BY <1>3
  <2>2. \A p \in Request : About(request[p], Len(advice'))
    BY <1>1, <1>2, <1>3, <2>1
  <2>3. request' = [p \in Request |-> IF p = q THEN r ELSE request[p]]
    BY <1>1, <1>3
  <2>4. request' = [p \in Request |-> request'[p]]
        /\ \A p \in Request : request'[p] = r \/ request'[p] = request[p]
    BY <2>3
  <2>5. \A p \in Request : About(request'[p], Len(advice'))
    BY <1>3, <2>2, <2>4
  <2> QED BY <1>3, <2>4, <2>5 DEF AdviceInv
<1>4. About(Strategy!Idle, n)
  BY DEF About
<1> HIDE DEF n
<1>5. ASSUME NEW q \in Request, Strategy!Generate(q) PROVE AdviceInv'
  <2> DEFINE P == Strategy!Proposals
  <2>1. P \in SUBSET Strategy!Advice /\ IsFiniteSet(P)
    BY ProposalsAreFew
  <2>2. request' = [request EXCEPT ![q] = [pc |-> "generating", proposals |-> P]]
        /\ UNCHANGED <<advice, active, resumes>>
    BY <1>5 DEF Strategy!Generate
  <2> HIDE DEF P
  <2>3. About([pc |-> "generating", proposals |-> P], n)
    BY <2>1 DEF About
  <2> QED BY <1>1, <1>3, <2>2, <2>3 DEF n
<1>6. ASSUME NEW q \in Request, Strategy!GenerateCommits(q) PROVE AdviceInv'
  <2> DEFINE P == request[q].proposals
  <2>1. /\ request[q].pc = "generating" /\ request' = [request EXCEPT ![q] = Strategy!Idle]
        /\ UNCHANGED <<active, resumes>>
        /\ \/ UNCHANGED advice
           \/ advice' = advice \o Strategy!SetToSeq({Strategy!Row(asks) : asks \in P})
    BY <1>6 DEF Strategy!GenerateCommits
  <2>2. P \in SUBSET Strategy!Advice /\ IsFiniteSet(P)
    BY <1>1, <2>1 DEF About, Strategy!Idle, Decision
  <2> HIDE DEF P
  <2>3. CASE UNCHANGED advice
    BY <1>1, <1>3, <1>4, <2>1, <2>3 DEF n
  <2>4. CASE advice' = advice \o Strategy!SetToSeq({Strategy!Row(asks) : asks \in P})
    <3> DEFINE f == [asks \in P |-> Strategy!Row(asks)]
               S == {f[asks] : asks \in P}
               s == Strategy!SetToSeq(S)
    <3>1. S = {Strategy!Row(asks) : asks \in P}
      OBVIOUS
    <3>2. S \subseteq AdviceRow
      BY <1>1, <2>2 DEF Strategy!Row, AdviceRow, Applied
    <3>3. IsFiniteSet(S)
      <4>1. DOMAIN f = P /\ f = [x \in P |-> f[x]]
        OBVIOUS
      <4> HIDE DEF f
      <4> QED BY <2>2, <4>1, ImageIsFinite
    <3> HIDE DEF S
    <3>4. s \in Seq(S)
      BY <3>3, SomeOrder
    <3>5. advice' = advice \o s
      BY <2>4, <3>1
    <3> HIDE DEF s
    <3>6. s \in Seq(AdviceRow) /\ Len(s) \in Nat
      BY <3>2, <3>4
    <3>7. advice' \in Seq(AdviceRow) /\ Len(advice') = n + Len(s)
      BY <1>1, <3>5, <3>6 DEF n
    <3>8. n <= Len(advice') /\ About(Strategy!Idle, Len(advice'))
      BY <1>1, <3>6, <3>7 DEF About
    <3> QED BY <1>1, <1>3, <2>1, <3>7, <3>8
  <2> QED BY <2>1, <2>3, <2>4
<1>7. ASSUME NEW q \in Request, NEW i \in Strategy!Rows, NEW d \in {"accept", "reject"},
             Strategy!Decides(q, i, d)
      PROVE  AdviceInv'
  <2> DEFINE a == [pc |-> "accepting", row |-> i]
             b == [pc |-> "deciding", row |-> i, status |-> "rejected", applied |-> NoOne,
                   switches |-> NoOne]
  <2>1. i \in 1..n /\ i \in Nat
    BY <1>1 DEF n, Strategy!Rows
  <2>2. About(a, n) /\ About(b, n)
    BY <2>1 DEF About, Decision, Applied
  <2>3. \/ request' = [request EXCEPT ![q] = a]
        \/ request' = [request EXCEPT ![q] = b]
    BY <1>7 DEF Strategy!Decides
  <2>4. UNCHANGED <<advice, active, resumes>>
    BY <1>7 DEF Strategy!Decides
  <2> HIDE DEF a, b
  <2> QED BY <1>1, <1>3, <2>2, <2>3, <2>4 DEF n
<1>8. ASSUME NEW q \in Request, Strategy!Applies(q) PROVE AdviceInv'
  <2> DEFINE i == request[q].row
             wanted == advice[i].asks.resume
             applied == IF wanted = NoOne THEN [changed |-> FALSE, previous |-> NoOne]
                        ELSE [changed |-> active # wanted, previous |-> active]
             switches == IF wanted = active THEN NoOne ELSE wanted
             r == [pc |-> "deciding", row |-> i, status |-> "accepted", applied |-> applied,
                   switches |-> switches]
  <2>1. request[q].pc = "accepting" /\ UNCHANGED <<advice, active, resumes>>
    BY <1>8 DEF Strategy!Applies
  <2>2. \/ request' = [request EXCEPT ![q] = Strategy!Idle]
        \/ request' = [request EXCEPT ![q] = r]
    BY <1>8 DEF Strategy!Applies
  <2>3. i \in 1..n
    BY <1>1, <2>1 DEF About, Strategy!Idle, Decision
  <2>4. i \in Nat /\ wanted \in Resume \cup {NoOne}
    <3> HIDE DEF i
    <3>1. i \in Nat /\ advice[i] \in AdviceRow
      BY <1>1, <2>3 DEF n
    <3>2. advice[i].asks.resume \in Resume \cup {NoOne}
      BY <3>1 DEF AdviceRow, Strategy!Advice
    <3> QED BY <3>1, <3>2
  <2> HIDE DEF i, wanted
  <2>5. applied \in Applied /\ switches \in Resume \cup {NoOne}
    BY <1>1, <2>4 DEF Applied
  <2> HIDE DEF applied, switches
  <2>6. r \in Decision /\ r.row = i
    BY <2>4, <2>5 DEF Decision
  <2> HIDE DEF r
  <2>7. About(r, n)
    BY <2>3, <2>6 DEF About
  <2> QED BY <1>1, <1>3, <1>4, <2>1, <2>2, <2>7 DEF n
<1>9. ASSUME NEW q \in Request, Strategy!DecideCommits(q) PROVE AdviceInv'
  <2> DEFINE r == request[q]
             row == Strategy!Written(r.row, r)
  <2>1. r.pc = "deciding" /\ request' = [request EXCEPT ![q] = Strategy!Idle] /\ resumes' = resumes
    BY <1>9 DEF Strategy!DecideCommits
  <2>2. \/ UNCHANGED <<advice, active>>
        \/ /\ r.switches \in resumes \cup {NoOne}
           /\ advice' = [advice EXCEPT ![r.row] = row]
           /\ active' = IF r.switches = NoOne THEN active ELSE r.switches
    BY <1>9 DEF Strategy!DecideCommits
  <2>3. r \in Decision /\ r.row \in 1..n
    BY <1>1, <2>1 DEF About, Strategy!Idle
  <2>4. row \in AdviceRow
    <3> DEFINE old == advice[r.row]
               applied == IF r.applied = NoOne THEN old.applied ELSE r.applied
    <3>1. old \in AdviceRow
      BY <1>1, <2>3 DEF n
    <3>2. r.status \in {"proposed", "accepted", "rejected"} /\ r.applied \in Applied
      BY <2>3 DEF Decision
    <3>3. applied \in Applied
      BY <3>1, <3>2 DEF AdviceRow
    <3>4. row = [old EXCEPT !.status = r.status, !.at = now, !.applied = applied]
      BY DEF Strategy!Written
    <3> HIDE DEF old, applied, row, r
    <3> QED BY <1>1, <3>1, <3>2, <3>3, <3>4 DEF AdviceRow
  <2> HIDE DEF row
  <2>5. \/ UNCHANGED advice
        \/ advice' \in Seq(AdviceRow) /\ Len(advice') = n
    BY <1>1, <2>2, <2>3, <2>4 DEF n
  <2>6. active' \in resumes' \cup {NoOne}
    BY <1>1, <2>1, <2>2
  <2> HIDE DEF r
  <2> QED BY <1>1, <1>3, <1>4, <2>1, <2>5, <2>6 DEF n
<1>10. ASSUME request' = request, advice' = advice, resumes' \subseteq Resume,
              active' \in resumes' \cup {NoOne}
       PROVE  AdviceInv'
  BY <1>1, <1>10 DEF AdviceInv, n
<1>11. ASSUME NEW v \in Resume, Strategy!DeleteResume(v) PROVE AdviceInv'
  <2>1. resumes' = resumes \ {v} /\ UNCHANGED <<advice, request>>
        /\ active' \in IF active # v THEN {active} ELSE IF resumes' = {} THEN {NoOne} ELSE resumes'
    BY <1>11 DEF Strategy!DeleteResume
  <2> QED BY <1>1, <1>10, <2>1
<1>12. ASSUME NEW a \in Application,
              \/ Strategy!Hears(a) \/ Strategy!LedgerConfirms(a)
              \/ \E s \in Reached : Strategy!Changes(a, s)
       PROVE  UNCHANGED <<advice, active, resumes, request>>
  BY <1>12 DEF Strategy!Hears, Strategy!LedgerConfirms, Strategy!Changes
<1>13. ASSUME Strategy!Tick \/ UNCHANGED Strategy!jsVars
       PROVE  UNCHANGED <<advice, active, resumes, request>>
  BY <1>13 DEF Strategy!Tick, Strategy!jsVars
<1> QED
  BY <1>1, <1>5, <1>6, <1>7, <1>8, <1>9, <1>10, <1>11, <1>12, <1>13 DEF Strategy!JsNext

LEMMA StrategyIsTyped == StrategyInv /\ AdviceInv => Strategy!JsTypeOK
<1> SUFFICES ASSUME StrategyInv, AdviceInv PROVE Strategy!JsTypeOK
  OBVIOUS
<1>1. \A a \in Application : \A e \in timeline[a] : e.status \in Strategy!Status
                                                   /\ e.at \in Strategy!Times
  BY DEF StrategyInv, Occurrence
<1>2. \A i \in Strategy!Rows :
        /\ advice[i].asks \in Strategy!Advice
        /\ advice[i].status \in {"proposed", "accepted", "rejected"}
        /\ advice[i].applied \in {NoOne} \cup [changed : BOOLEAN, previous : Resume \cup {NoOne}]
  <2>1. \A i \in Strategy!Rows : advice[i] \in AdviceRow
    BY DEF AdviceInv, Strategy!Rows
  <2> QED BY <2>1 DEF AdviceRow, Applied
<1>3. \A q \in Request : request[q].pc \in {"idle", "generating", "accepting", "deciding"}
  BY DEF AdviceInv, About, Strategy!Idle, Decision
<1> QED BY <1>1, <1>2, <1>3 DEF StrategyInv, AdviceInv, Strategy!JsTypeOK

-------------------------------------------------------------------------------
\* Every part of what is known keeps its types: tasks, tries, batches, queues and
\* recommendations their bounds, scores a percentage (app/matching/scoring.py:380), and
\* the active resume one that is not deleted (app/services/job_strategy.py,
\* profile_rag_ingestion.py, llm_judge_batch.py, review_queue.py, application_crm.py).
THEOREM TypesStayOK == Spec => []TypesOK
<1> DEFINE AllInv == /\ FactsInv /\ TasksInv /\ TasksBounds /\ BatchesInv /\ BatchesBounds
                     /\ ClaimsInv /\ ScoreTyped /\ LabelsInv /\ TrainingTyped
                     /\ Review!RqTypeOK /\ StrategyInv /\ AdviceInv
<1>1. Init => AllInv
  BY PartsBegin, FactsBegin, TasksBegin, TasksBoundsBegin, BatchesBegin, BatchesBoundsBegin,
     ClaimsBegin, ScoreTypedBegins, LabelsBegin, TrainingTypedBegins, ReviewBegins,
     StrategyBegin, AdviceBegins
<1>2. AllInv /\ [Next]_vars => AllInv'
  BY PartSteps, FactsStep, TasksStep, TasksBoundsStep, BatchesStep, BatchesBoundsStep,
     ClaimsStep, ScoreTypedStep, LabelsStep, TrainingTypedStep, ReviewStep,
     StrategyGrows, AdviceStep
<1>3. AllInv => TypesOK
  BY FactsAreTyped, TasksAreTyped, BatchesAreTyped, ScoreIsTyped, LabelsAreTyped,
     StrategyIsTyped DEF TypesOK
<1> HIDE DEF AllInv
<1> QED BY <1>1, <1>2, <1>3, PTL DEF Spec
===============================================================================
