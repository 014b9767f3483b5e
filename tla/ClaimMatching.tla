----------------------------- MODULE ClaimMatching -----------------------------
(***************************************************************************)
(* How one matching run judges an application: the requirements of the      *)
(* vacancy side by side, the claims of a requirement one after the other,   *)
(* each against its best pieces of evidence; then the claims make the       *)
(* requirement's relation, and the relations the eligibility and the score. *)
(***************************************************************************)
EXTENDS Integers, FiniteSetsExt, SequencesExt

CONSTANTS Requirement,   \* requirements of the vacancy
          Decomposition, \* what the decomposer may make of a requirement
          MaxCandidates  \* matching_entailment_max_candidates

VARIABLES
  claims,  \* per requirement: its importance and its claims (Decomposition)
  found,   \* per requirement: the relations of the claims judged so far
  denied,  \* history: requirements some evaluation has answered are not met
  level,   \* per requirement: the relation it is assessed with, or "open"
  score    \* the deterministic score, NoScore until there is one

cmVars == <<claims, found, denied, level, score>>

Relation == {"entailed", "partial", "related_but_insufficient", "insufficient_evidence",
             "contradicted", "evaluation_error", "unknown"}
NoScore  == [eligibility |-> "none", final |-> 0, missing |-> 0]

\* compute_evidence_strength, in steps: the strengths a relation's caps allow.
Strengths(relation) ==
  CASE relation = "entailed" -> {1, 3} [] relation = "partial" -> {1, 2}
    [] relation = "related_but_insufficient" -> {1} [] OTHER -> {0}

Evaluation == UNION {[relation : {x}, strength : Strengths(x)] : x \in Relation}
Raised     == [relation |-> "raised", strength |-> -1]

CmTypeOK ==
  /\ \A r \in Requirement : claims[r] \in Decomposition \/ claims[r].claims = <<>>
  /\ found \in [Requirement -> Seq(Relation)]
  /\ denied \subseteq Requirement
  /\ level \in [Requirement -> Relation \cup {"open"}]
  /\ score \in [eligibility : {"none", "eligible", "review", "ineligible", "needs_confirmation"},
                final : 0..100, missing : 0..Cardinality(Requirement)]

CmInit ==
  /\ claims \in [Requirement -> Decomposition]
  /\ found = [r \in Requirement |-> <<>>] /\ denied = {}
  /\ level = [r \in Requirement |-> "open"] /\ score = NoScore

\* _evaluate_single_claim: the first evaluation of the greatest strength; without
\* one, an error if some evaluation raised, and insufficient evidence otherwise.
ClaimRelation(tried) ==
  LET ok == {i \in DOMAIN tried : tried[i] # Raised}
      best == {i \in ok : \A j \in ok : tried[j].strength <= tried[i].strength}
  IN  IF ok = {} THEN IF tried = <<>> THEN "insufficient_evidence" ELSE "evaluation_error"
      ELSE tried[Min(best)].relation

\* A claim that is confirmed outright is not tried on further candidates.
Conclusive(tried) == \E i \in 1..(Len(tried) - 1) : tried[i].strength = 3

(* The next claim of a requirement: the evaluator is asked about the        *)
(* candidates there are; a duration claim is computed from dated evidence;  *)
(* a retrieval that raises makes the claim an error.                        *)
JudgeClaim(r) ==
  /\ level[r] = "open" /\ Len(found[r]) < Len(claims[r].claims)
  /\ LET claim == claims[r].claims[Len(found[r]) + 1]
         Judged(relation, given) ==
           /\ found' = [found EXCEPT ![r] = Append(@, relation)]
           /\ denied' = denied \cup
                (IF given \cap {"unknown", "contradicted"} = {} THEN {} ELSE {r})
     IN  \/ /\ ~claim.duration
            /\ \E n \in 0..MaxCandidates : \E tried \in [1..n -> Evaluation \cup {Raised}] :
                 /\ ~Conclusive(tried)
                 /\ Judged(ClaimRelation(tried),
                           {tried[i].relation : i \in 1..n})
         \/ /\ claim.duration
            /\ \E x \in {"entailed", "partial", "insufficient_evidence"} : Judged(x, {})
         \/ Judged("evaluation_error", {})
  /\ UNCHANGED <<claims, level, score>>

\* The relation of an OR group is its best one; a contradiction counts as unknown.
OrRelation(group) ==
  LET ranked == <<"entailed", "partial", "related_but_insufficient",
                  "insufficient_evidence", "evaluation_error">>
      in == {i \in DOMAIN ranked : ranked[i] \in group}
  IN  IF in = {} THEN "unknown" ELSE ranked[Min(in)]

\* The order of _determine_overall_relation with errors among the missing ones.
OverallErrorsMissing(relations) ==
  LET missing == relations \cap {"unknown", "contradicted", "evaluation_error"} # {}
  IN  IF relations = {"entailed"} THEN "entailed"
      ELSE IF relations \cap {"entailed", "partial"} # {} THEN "partial"
      ELSE IF "related_but_insufficient" \in relations THEN "related_but_insufficient"
      ELSE IF "insufficient_evidence" \in relations /\ ~missing THEN "insufficient_evidence"
      ELSE "unknown"

\* _determine_overall_relation.
Overall(relations) ==
  IF relations = {"entailed"} THEN "entailed"
  ELSE IF relations \cap {"entailed", "partial"} # {} THEN "partial"
  ELSE IF "related_but_insufficient" \in relations THEN "related_but_insufficient"
  ELSE IF "insufficient_evidence" \in relations THEN "insufficient_evidence"
  ELSE IF "evaluation_error" \in relations THEN "evaluation_error"
  ELSE "unknown"

\* The claims that decide: the required ones, all if none is.
Deciding(r) ==
  LET all == DOMAIN claims[r].claims
      required == {i \in all : claims[r].claims[i].criticality \in {"required", "hard_blocker"}}
  IN  IF required = {} THEN all ELSE required

(* _aggregate_claims, once every claim is judged (none: insufficient); the   *)
(* relations of the claims decide nothing after it.                         *)
Aggregate(r) ==
  /\ level[r] = "open" /\ Len(found[r]) = Len(claims[r].claims)
  /\ LET alternatives == {i \in Deciding(r) : claims[r].claims[i].alternative}
         resolved == {found[r][i] : i \in Deciding(r) \ alternatives}
                     \cup (IF alternatives = {} THEN {}
                           ELSE {OrRelation({found[r][i] : i \in alternatives})})
     IN  level' = [level EXCEPT ![r] = IF claims[r].claims = <<>> THEN "insufficient_evidence"
                                       ELSE Overall(resolved)]
  /\ found' = [found EXCEPT ![r] = <<>>]
  /\ UNCHANGED <<claims, denied, score>>

(* The decomposer raises, or anything else: match_requirements assesses the *)
(* requirement as an error, without its claims.                             *)
RequirementFails(r) ==
  /\ level[r] = "open" /\ found[r] = <<>>
  /\ level' = [level EXCEPT ![r] = "evaluation_error"]
  /\ claims' = [claims EXCEPT ![r].claims = <<>>]
  /\ UNCHANGED <<found, denied, score>>

-------------------------------------------------------------------------------
(* DeterministicMatchScorer                                                 *)

Missing(r)   == level[r] \in {"unknown", "contradicted"}
Uncertain(r) == level[r] \in {"insufficient_evidence", "evaluation_error"}

\* A claim of the requirement is a hard blocker.
Hard(r) == \E i \in DOMAIN claims[r].claims : claims[r].claims[i].criticality = "hard_blocker"

\* _MATCH_FACTOR (what is missing earns nothing) and, summed over a set, _IMPORTANCE_FACTOR,
\* in hundredths; every weight is one.
Factor == [entailed |-> 100, partial |-> 65, related_but_insufficient |-> 35,
           insufficient_evidence |-> 15, evaluation_error |-> 10]
Importance(S) ==
  50 * (Cardinality(S) + Cardinality({r \in S : claims[r].importance = "required"}))

Rounded(n, d) == (2 * n + d) \div (2 * d)

\* _weighted_score: no requirement earns nothing.
Weighted ==
  LET Earned(l) == Factor[l] * Importance({r \in Requirement : level[r] = l})
  IN  IF Requirement = {} THEN 0
      ELSE Rounded(Earned("entailed") + Earned("partial") + Earned("related_but_insufficient")
                     + Earned("insufficient_evidence") + Earned("evaluation_error"),
                   Importance(Requirement))

\* An unresolved hard blocker is not flagged as one, and counts as required.
Required == {r \in Requirement : claims[r].importance = "required" /\ ~(Hard(r) /\ ~Uncertain(r))}

\* score(): the blockers that are confirmed and those nobody could decide, ...
Confirmed  == \E r \in Requirement : Hard(r) /\ Missing(r)
Unresolved == \E r \in Requirement : Hard(r) /\ Uncertain(r)
Blocked    == \E r \in Requirement : claims[r].blocker /\ ~Hard(r) /\ Missing(r)
NotMet     == {r \in Required : Missing(r)}

\* ... the eligibility, ...
Eligibility ==
  CASE Confirmed -> "ineligible" [] ~Confirmed /\ Unresolved -> "needs_confirmation"
    [] OTHER -> IF Blocked \/ NotMet # {} \/ \E r \in Required : level[r] = "evaluation_error"
                  THEN "review" ELSE "eligible"

\* ... and the score with its caps.
Final ==
  LET n == Cardinality(Required)
      Cap(c) == IF Weighted < c THEN Weighted ELSE c
  IN  IF Confirmed THEN 0 ELSE IF Blocked THEN Cap(20)
      ELSE IF NotMet = {} THEN Weighted
      ELSE Cap(Max({20, Rounded(80 * (n - Cardinality(NotMet)), n)}))

Scored == [eligibility |-> Eligibility, final |-> Final, missing |-> Cardinality(NotMet)]

Score ==
  /\ score = NoScore /\ \A r \in Requirement : level[r] # "open"
  /\ score' = Scored
  /\ UNCHANGED <<claims, found, denied, level>>

CmNext ==
  \/ \E r \in Requirement : JudgeClaim(r) \/ Aggregate(r) \/ RequirementFails(r)
  \/ Score

CmSpec == CmInit /\ [][CmNext]_cmVars

-------------------------------------------------------------------------------
(* Properties                                                               *)

(* "This prevents technical failures from being interpreted as missing      *)
(* skills" (docs/matching-architecture.md): an application is ineligible,   *)
(* and a requirement counted as missing, only if some evaluation of such a  *)
(* requirement answered that it is not met, however many others failed; a   *)
(* required one that could not be evaluated keeps it from being eligible.   *)
FailureIsNotAGap ==
  score # NoScore =>
    /\ score.missing <= Cardinality(denied)
    /\ score.eligibility = "ineligible" => \E r \in denied : Hard(r)
    /\ (\E r \in Requirement : claims[r].importance = "required"
                               /\ level[r] = "evaluation_error")
         => score.eligibility # "eligible"
===============================================================================
