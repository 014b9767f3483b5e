------------------------------ MODULE LabelDataset ------------------------------
(***************************************************************************)
(* The human labels that ranking models learn from: judgements given in the *)
(* dashboard or imported from an old timeline, the folds of the validated   *)
(* export, the frozen evaluation split, and training, which reads the       *)
(* folds one after the other.  One person, one resume at a time; vacancy    *)
(* ids are numbers, for the order that makes a pair canonical.              *)
(***************************************************************************)
EXTENDS Integers, FiniteSets, Relation

CONSTANTS N,       \* vacancies 1..N
          Company, \* the company of a vacancy, or "" when it is not known
          Hash,    \* functions from group ids to the folds their hashes may give
          Given,   \* the preferences the person gives
          Legacy   \* the old judgements of pairs: records [a, b, preference], as shown

Vacancy    == 1..N
PairKey    == {p \in Vacancy \X Vacancy : p[1] < p[2]}
Preference == {"a_better", "b_better", "neither"}
Fold       == {"train", "validation", "test"}
EVAL_FOLDS == Fold \ {"train"}
None       == "none"

VARIABLES
  pairs,    \* the stored pairwise rows, by pair_key
  points,   \* vacancies with a pointwise row
  hash,     \* the fold that the hash of a group's id gives
  split,    \* the evaluation split
  training, \* the training under way
  trained,  \* vacancies that a training under the frozen split has learnt from
  preferred \* whom the person preferred (0: nobody) when a pair was last judged

ldVars == <<pairs, points, hash, split, training, trained, preferred>>

NoRow == [label |-> None, source |-> None]
NotFrozen == [frozen |-> FALSE, eval |-> [v \in Vacancy |-> None]]
NoTraining == [pc |-> "idle", items |-> {}]

LdTypeOK ==
  /\ pairs \in [PairKey -> [label : Preference, source : {"dashboard", "legacy_timeline"}]
                             \cup {NoRow}]
  /\ points \subseteq Vacancy /\ hash \in [Vacancy -> Fold] /\ trained \subseteq Vacancy
  /\ split \in [frozen : BOOLEAN, eval : [Vacancy -> EVAL_FOLDS \cup {None}]]
  /\ training \in [pc : {"idle", "exported"}, items : SUBSET Vacancy]
  /\ preferred \in [PairKey -> 0..N]

LdInit ==
  /\ pairs = [p \in PairKey |-> NoRow] /\ points = {} /\ hash \in Hash
  /\ split = NotFrozen /\ training = NoTraining /\ trained = {}
  /\ preferred = [p \in PairKey |-> 0]

-------------------------------------------------------------------------------
(* Judging                                                                  *)

flipped(preference) ==
  CASE preference = "a_better" -> "b_better"
    [] preference = "b_better" -> "a_better"
    [] OTHER -> preference

\* canonicalize_pair: the smaller id first, and what was said with it.
UnflippedPair(a, b, preference) ==
  [key |-> IF a < b THEN <<a, b>> ELSE <<b, a>>, label |-> preference]
canonicalize_pair(a, b, preference) ==
  IF a < b THEN [key |-> <<a, b>>, label |-> preference]
           ELSE [key |-> <<b, a>>, label |-> flipped(preference)]

Winner(a, b, preference) ==
  CASE preference = "a_better" -> a [] preference = "b_better" -> b [] OTHER -> 0

(* submit_pairwise, committed: the unique index and the savepoint make of   *)
(* two submissions one row; an update leaves the source of the row.         *)
SubmitPair(a, b, preference) ==
  LET pair == canonicalize_pair(a, b, preference)
  IN  /\ pairs' = [pairs EXCEPT ![pair.key] =
                     [label  |-> pair.label,
                      source |-> IF @ = NoRow THEN "dashboard" ELSE @.source]]
      /\ preferred' = [preferred EXCEPT ![pair.key] = Winner(a, b, preference)]
  /\ UNCHANGED <<points, hash, split, training, trained>>

\* submit_pointwise: which label it is makes no difference to the folds.
SubmitPoint(v) ==
  /\ points' = points \cup {v}
  /\ UNCHANGED <<pairs, hash, split, training, trained, preferred>>

(* import_legacy_labels: old judgements of pairs that have none.            *)
ImportLegacy ==
  LET row(e) == canonicalize_pair(e.a, e.b, e.preference)
      new    == {e \in Legacy : pairs[row(e).key] = NoRow}
      of(p)  == CHOOSE e \in new : row(e).key = p
      keys   == {row(e).key : e \in new}
  IN  /\ new # {}
      /\ pairs' = [p \in PairKey |->
                     IF p \in keys THEN [label |-> row(of(p)).label, source |-> "legacy_timeline"]
                                   ELSE pairs[p]]
      /\ preferred' = [p \in PairKey |->
                         IF p \in keys THEN Winner(of(p).a, of(p).b, of(p).preference)
                                       ELSE preferred[p]]
  /\ UNCHANGED <<points, hash, split, training, trained>>

\* rollback_legacy_labels goes by the source of the row alone.
RollbackLegacy ==
  /\ pairs' = [p \in PairKey |-> IF pairs[p].source = "legacy_timeline" THEN NoRow
                                                                        ELSE pairs[p]]
  /\ UNCHANGED <<points, hash, split, training, trained, preferred>>

(* delete_cv_file: the labels go with their resume.                         *)
DeleteResume ==
  /\ pairs' = [p \in PairKey |-> NoRow] /\ points' = {}
  /\ preferred' = [p \in PairKey |-> 0]
  /\ UNCHANGED <<hash, split, training, trained>>

-------------------------------------------------------------------------------
(* Export and folds                                                         *)

\* training_pair: a stored pair that states no order is not exported.
TrainingPairs == {p \in PairKey : pairs[p].label \in {"a_better", "b_better"}}
training_pair(p) ==
  IF pairs[p].label = "a_better" THEN [winner |-> p[1], loser |-> p[2]]
                                 ELSE [winner |-> p[2], loser |-> p[1]]

Labelled == points \cup UNION {{p[1], p[2]} : p \in TrainingPairs}

\* group_vacancies: one company, or compared with each other.
Grouped == TransitiveClosure(
  [p \in Labelled \X Labelled |->
     \/ p \in TrainingPairs \/ <<p[2], p[1]>> \in TrainingPairs
     \/ Company[p[1]] = Company[p[2]] /\ Company[p[1]] # ""], Labelled)
Group(v) == {v} \cup {w \in Labelled : Grouped[v, w]}
Id(g)    == CHOOSE v \in g : \A w \in g : v <= w

HashedFolds(eval) == [v \in Labelled |-> hash[Id(Group(v))]]
\* assign_folds: a group keeps to the evaluation fold that a member was frozen in.
Folds(eval) ==
  [v \in Labelled |->
     LET pinned == {eval[w] : w \in Group(v)} \ {None}
     IN  CASE "test" \in pinned -> "test"
           [] pinned = {"validation"} -> "validation"
           [] OTHER -> hash[Id(Group(v))]]

\* export_fold: the pointwise rows, which are the ones ranking models use.
ExportFold(fold) == {v \in points : Folds(split.eval)[v] = fold}

FreezeSplit ==
  /\ ~split.frozen /\ Labelled # {}
  /\ LET folds == Folds(split.eval)
     IN  split' = [frozen |-> TRUE,
                   eval   |-> [v \in Vacancy |-> IF v \in Labelled /\ folds[v] \in EVAL_FOLDS
                                                   THEN folds[v] ELSE None]]
  /\ UNCHANGED <<pairs, points, hash, training, trained, preferred>>

(* train_and_evaluate: the train fold is exported ...                       *)
TrainExport ==
  /\ training.pc = "idle" /\ split.frozen /\ ExportFold("train") # {}
  /\ training' = [pc |-> "exported", items |-> ExportFold("train")]
  /\ trained' = trained \cup ExportFold("train")
  /\ UNCHANGED <<pairs, points, hash, split, preferred>>

\* ... and then the fold it is measured on, with the labels there are by then.
TrainEvaluate ==
  /\ training.pc = "exported" /\ training' = NoTraining
  /\ UNCHANGED <<pairs, points, hash, split, trained, preferred>>

LdNext ==
  \/ \E a \in Vacancy, b \in Vacancy, preference \in Given :
       a # b /\ SubmitPair(a, b, preference)
  \/ \E v \in Vacancy : SubmitPoint(v)
  \/ ImportLegacy \/ RollbackLegacy \/ DeleteResume
  \/ FreezeSplit \/ TrainExport \/ TrainEvaluate

LdSpec == LdInit /\ [][LdNext]_ldVars

-------------------------------------------------------------------------------
(* domain/annotation_dataset.py: training can never see the frozen           *)
(* evaluation data, however many labels are added later, by whichever order  *)
(* of judging, importing, freezing, deleting and labelling anew.             *)
FrozenIsNeverTrained == \A v \in trained : split.eval[v] = None

(* What an exported training pair says is what the person said when the two  *)
(* were last compared, in whichever order they were shown.                   *)
ExportedAsPreferred ==
  \A p \in TrainingPairs : training_pair(p).winner = preferred[p]

(* Together: training is fair to the evaluation and to the person.          *)
TrainingIsFair == FrozenIsNeverTrained /\ ExportedAsPreferred
====
