------------------------------- MODULE Knowledge -------------------------------
(***************************************************************************)
(* What the system knows about the person and concludes about vacancies:    *)
(* facts, resumes, evaluation batches, requirements, labels, the queue for  *)
(* labelling and recommendations share no state that is modelled, so that   *)
(* their instances stand side by side, each behaviour moving only the part  *)
(* it has begun with.                                                       *)
(***************************************************************************)
EXTENDS Integers, Sequences, FiniteSets

CONSTANTS
  FactKey, Import, Manual, MaxChanges,                        \* ProfileFacts
  Slot, MaxConfirms, MaxTasks, MaxTries,                      \* ResumeSync
  JobClaim, BatchSize, Concurrency, MaxRuns, Incomplete,      \* EntailmentBatches
  Requirement, Decomposition, MaxCandidates,                  \* ClaimMatching
  N, Company, Hash, Given, Legacy,                            \* LabelDataset
  Employer, Featured, Quota, MaxScore, QueueLimit, ShareOf, MaxRescores, \* ReviewQueue
  Resume, Request, NoOne, Application, Unrecorded, Reached,   \* JobStrategy
  Dimension, GroupOf(_, _, _), ResumeOf(_, _), Apart(_, _),
  LowSample, MinTotalMature, Maturity, MaxTime, MaxRows

VARIABLES
  facts, batch, import, sending, profile, reviewed, changes,
  resume, tasks, sync, direct, copy, removal, served,
  run, asked, answer, queue, drained, sent, flusher, cache,
  claims, found, denied, level, score,
  pairs, points, hash, split, training, trained, preferred,
  scores, labelled, judged, review, reviewPairs, rescores,
  status, timeline, answered, confirmed, now, advice, active, resumes, request,
  part

factVars  == <<facts, batch, import, sending, profile, reviewed, changes>>
syncVars  == <<resume, tasks, sync, direct, copy, removal, served>>
batchVars == <<run, asked, answer, queue, drained, sent, flusher, cache>>
claimVars == <<claims, found, denied, level, score>>
labelVars == <<pairs, points, hash, split, training, trained, preferred>>
reviewVars == <<scores, labelled, judged, review, reviewPairs, rescores>>
strategyVars == <<status, timeline, answered, confirmed, now, advice, active, resumes, request>>
vars == <<factVars, syncVars, batchVars, claimVars, labelVars,
          reviewVars, strategyVars, part>>

Facts   == INSTANCE ProfileFacts WITH Key <- FactKey
Resumes == INSTANCE ResumeSync
Batches == INSTANCE EntailmentBatches WITH Claim <- JobClaim
Claims  == INSTANCE ClaimMatching
Labels  == INSTANCE LabelDataset
Review  == INSTANCE ReviewQueue WITH
  score <- scores, queue <- review, pairs <- reviewPairs, Company <- Employer,
  Known <- Featured, Limit <- QueueLimit
Strategy == INSTANCE JobStrategy WITH
  None <- NoOne, rows <- advice, Legacy <- Unrecorded,
  LOW_SAMPLE <- LowSample, MIN_TOTAL_MATURE <- MinTotalMature, MATURITY <- Maturity

(* The bounds are numbers; what is counted is finite; decompositions and old *)
(* judgements are what the code reads them as.                              *)
Shape == [importance : {"required", "preferred"}, blocker : BOOLEAN,
          claims : Seq([criticality : {"hard_blocker", "required", "preferred"},
                        alternative : BOOLEAN, duration : BOOLEAN])]
ASSUME KnowledgeAssumption ==
  /\ {MaxChanges, MaxConfirms, MaxTasks, MaxTries, MaxCandidates, N, Maturity, MaxTime} \subseteq Nat
  /\ MaxTries > 0 /\ Manual \notin Import
  /\ BatchSize \in Nat /\ {QueueLimit, ShareOf} \subseteq Nat \ {0}
  /\ JobClaim \cap {Batches!None, Batches!Error, Batches!Stop, Batches!NoId} = {}
  /\ IsFiniteSet(Requirement) /\ Decomposition \subseteq Shape
  /\ Hash \subseteq [Labels!Vacancy -> Labels!Fold] /\ Given \subseteq Labels!Preference
  /\ \A e \in Legacy : /\ e.a \in Labels!Vacancy /\ e.b \in Labels!Vacancy /\ e.a # e.b
                       /\ e.preference \in Labels!Preference
  /\ Reached \subseteq Strategy!Status /\ NoOne \notin Strategy!Times

(* What only the types need: applications are grouped by names, and a name  *)
(* may be that of a resume.                                                 *)
ASSUME TypesAssumption ==
  /\ MaxRescores \in Nat /\ MaxRuns \in Nat \ {0}
  /\ IsFiniteSet(Application) /\ IsFiniteSet(Dimension)
  /\ \A a \in Application, d \in Dimension, there \in SUBSET Resume :
       /\ GroupOf(a, d, there) \in STRING
       /\ ResumeOf(GroupOf(a, d, there), there) \in Resume \cup {NoOne}

\* The choices of the instances that a behaviour leaves alone are fixed.
Init ==
  /\ part \in {"facts", "resumes", "batches", "claims", "labels", "review", "strategy"}
  /\ Facts!Init /\ Resumes!Init /\ Batches!EvInit /\ Claims!CmInit /\ Labels!LdInit
  /\ Review!RqInit /\ Strategy!JsInit
  /\ part # "claims" => claims = [r \in Requirement |-> CHOOSE d \in Decomposition : TRUE]
  /\ part # "labels" => hash = CHOOSE h \in Hash : TRUE
  /\ part # "strategy" => active = NoOne

Next ==
  /\ UNCHANGED part
  /\ \/ /\ part = "facts" /\ Facts!Next
        /\ UNCHANGED <<syncVars, batchVars, claimVars, labelVars, reviewVars, strategyVars>>
     \/ /\ part = "resumes" /\ Resumes!Next
        /\ UNCHANGED <<factVars, batchVars, claimVars, labelVars, reviewVars, strategyVars>>
     \/ /\ part = "batches" /\ Batches!EvNext
        /\ UNCHANGED <<factVars, syncVars, claimVars, labelVars, reviewVars, strategyVars>>
     \/ /\ part = "claims" /\ Claims!CmNext
        /\ UNCHANGED <<factVars, syncVars, batchVars, labelVars, reviewVars, strategyVars>>
     \/ /\ part = "labels" /\ Labels!LdNext
        /\ UNCHANGED <<factVars, syncVars, batchVars, claimVars, reviewVars, strategyVars>>
     \/ /\ part = "review" /\ Review!RqNext
        /\ UNCHANGED <<factVars, syncVars, batchVars, claimVars, labelVars, strategyVars>>
     \/ /\ part = "strategy" /\ Strategy!JsNext
        /\ UNCHANGED <<factVars, syncVars, batchVars, claimVars, labelVars, reviewVars>>

Spec == Init /\ [][Next]_vars

-------------------------------------------------------------------------------
(* The seven type invariants.                                               *)
TypesOK ==
  /\ Facts!TypeOK /\ Resumes!TypeOK /\ Batches!EvTypeOK /\ Claims!CmTypeOK /\ Labels!LdTypeOK
  /\ Review!RqTypeOK /\ Strategy!JsTypeOK

(* The properties, as the modules state and explain them: imported facts    *)
(* can be undone, and only what the person has reviewed is indexed,         *)
FactsAreAccountedFor == Facts!FactsAreAccountedFor
(* a resume has one synchronisation, completed only when it is stored,      *)
TasksTellTheTruth == Resumes!TasksTellTheTruth
(* a claim's answer is about that claim,                                    *)
OwnAnswer == Batches!OwnAnswer
(* an evaluation that failed is not a gap of the person,                    *)
FailureIsNotAGap == Claims!FailureIsNotAGap
(* what the split keeps for evaluation is not learnt,                       *)
TrainingIsFair == Labels!TrainingIsFair
(* a queue for labelling is empty only when everything is labelled,         *)
NothingIsHidden == Review!NothingIsHidden
(* and an application that counted once in the rates counts ever after.     *)
CountedStaysCounted == Strategy!CountedStaysCounted
===============================================================================
