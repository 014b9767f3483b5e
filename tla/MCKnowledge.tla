------------------------------ MODULE MCKnowledge ------------------------------
(* The values of Knowledge for TLC.                                         *)
EXTENDS Knowledge, TLC

(* A requirement of two claims, a hard one whose alternative is a duration, *)
(* and a preferred one.                                                     *)
OneClaim(criticality, alternative, duration) ==
  [criticality |-> criticality, alternative |-> alternative, duration |-> duration]
Shapes ==
  {[importance |-> "required", blocker |-> FALSE,
    claims |-> <<OneClaim("required", TRUE, FALSE), OneClaim("required", TRUE, FALSE)>>],
   [importance |-> "required", blocker |-> TRUE,
    claims |-> <<OneClaim("hard_blocker", FALSE, FALSE), OneClaim("required", FALSE, TRUE)>>],
   [importance |-> "preferred", blocker |-> FALSE,
    claims |-> <<OneClaim("preferred", FALSE, FALSE)>>]}

(* Two vacancies of one company and one whose company is not known.         *)
Companies == <<"acme", "acme", "">>
FoldHashes == {<<"train", "test", "train">>, <<"test", "train", "validation">>,
               <<"train", "train", "validation">>}
OldJudgements == {[a |-> 3, b |-> 2, preference |-> "a_better"]}

(* One vacancy of each stratum.                                             *)
OneOfEach == [s \in {"rank_disagreement", "ltr_top", "current_top", "middle_rank", "random"} |-> 1]
Employers == <<"acme", "acme", "other">>

(* An application with a resume, while that is there, and one with none.    *)
(* Only all against none is told apart.                                     *)
FirstApplication == CHOOSE a \in Application : TRUE
Others == Application \ {FirstApplication}
ByResume(a, d, there) == IF a = FirstApplication /\ there # {} THEN "resume" ELSE "no resume selected"
NamedResume(g, there) == IF g = "resume" THEN CHOOSE r \in there : TRUE ELSE NoOne
AllOrNothing(r, s) == \/ r.successes = r.n /\ s.successes = 0
                      \/ s.successes = s.n /\ r.successes = 0
Symmetric == Permutations(Request)
===============================================================================
