------------------------------ MODULE ReviewQueue ------------------------------
(***************************************************************************)
(* Which vacancies, and which pairs of them, the dashboard asks the person  *)
(* to judge (app/matching/cross_encoder/annotation.py): a union of strata,  *)
(* ordered by a priority, in which no company may dominate, and pairs that  *)
(* are hard to tell apart.  One resume; matching scores its vacancies, the  *)
(* person judges what was on the screen when it was opened.                 *)
(***************************************************************************)
EXTENDS Integers, FiniteSets, SequencesExt

CONSTANTS N,          \* vacancies 1..N
          Company,    \* of each vacancy
          Known,      \* vacancies of the score files, or all without such files
          MaxScore,
          Quota,      \* STRATA_QUOTAS
          Limit,      \* of the queue
          ShareOf,    \* MAX_COMPANY_SHARE is 1 / ShareOf
          MaxRescores

VARIABLES
  score,     \* the match result of a vacancy: current and LTR score; NoScore: not rankable
  labelled,  \* vacancies with a pointwise judgement
  judged,    \* pairs with a judgement, by their key
  queue,     \* the vacancies that the screen shows
  pairs,     \* or the pairs
  rescores

rqVars == <<score, labelled, judged, queue, pairs, rescores>>

Vacancy == 1..N
NoScore == -1
Stratum == {"rank_disagreement", "ltr_top", "current_top", "middle_rank", "random", "fill"}
STRATA_PRIORITY == <<"rank_disagreement", "ltr_top", "current_top", "middle_rank", "random", "fill">>
Key(a, b) == IF a < b THEN <<a, b>> ELSE <<b, a>>

RqTypeOK ==
  /\ score \in [Vacancy -> [current : 0..MaxScore \cup {NoScore}, ltr : 0..MaxScore \cup {NoScore}]]
  /\ labelled \subseteq Vacancy /\ judged \subseteq {Key(a, b) : a, b \in Vacancy}
  /\ queue \in Seq(Vacancy) /\ IsInjective(queue) /\ Len(queue) <= Limit
  /\ pairs \subseteq {Key(a, b) : a, b \in Vacancy} /\ rescores \in 0..MaxRescores

RqInit ==
  /\ score = [v \in Vacancy |-> [current |-> NoScore, ltr |-> NoScore]]
  /\ labelled = {} /\ judged = {} /\ queue = <<>> /\ pairs = {} /\ rescores = 0

-------------------------------------------------------------------------------
(* The candidate pool                                                       *)

\* resume_match_results_statement: scored results, of those with features.
Rankable == {v \in Vacancy : score[v].current # NoScore} \cap Known
WithLtr  == {v \in Rankable : score[v].ltr # NoScore}

\* Ranks of _build_candidate_pool: by score, ties by the id.
Ranks(S, field) ==
  [v \in S |-> Cardinality({w \in S : \/ score[w][field] > score[v][field]
                                      \/ score[w][field] = score[v][field] /\ w <= v})]

\* _exclude_pointwise_annotated: the ranks are still those of the whole pool.
Eligible == Rankable \ labelled

AtMost(n, limit) == IF n < limit THEN n ELSE limit
Abs(x) == IF x < 0 THEN -x ELSE x

\* S in the order of its keys: the one sequence, in a set.
By(S, key) ==
  {s \in [1..Cardinality(S) -> S] : \A i, j \in DOMAIN s : i < j => key[s[i]] < key[s[j]]}
First(S, key, n) == {v \in S : Cardinality({w \in S : key[w] < key[v]}) < n}

-------------------------------------------------------------------------------
(* _stratified_sample, of a pool with ranks r and LTR ranks l               *)

\* The members of each stratum, by its order; the shuffle is the environment's.
Taken(r, l) ==
  LET E == Eligible
      L == Eligible \cap WithLtr
      n == Cardinality(E)
  IN  [s \in Stratum \ {"random", "fill"} |->
         CASE s = "rank_disagreement" ->
                First(L, [v \in L |-> r[v] - (N + 1) * Abs(r[v] - l[v])], Quota[s])
           [] s = "ltr_top"     -> First(L, l, Quota[s])
           [] s = "current_top" -> First(E, r, Quota[s])
           [] OTHER -> First({v \in E : n \div 4 < r[v] /\ r[v] <= (3 * n) \div 4}, r, Quota[s])]

\* The strata of those chosen, each with one of the outcomes of the shuffle.
Samples(r, l) ==
  LET taken == Taken(r, l)
      rest  == Eligible \ UNION Range(taken)
      with(random) ==
        [v \in (Eligible \ rest) \cup random |->
           {s \in DOMAIN taken : v \in taken[s]} \cup (IF v \in random THEN {"random"} ELSE {})]
  IN  {with(random) : random \in kSubset(AtMost(Cardinality(rest), Quota["random"]), rest)}

\* The best-ranked of the rest fill a short queue.
FilledUp(sample, r) ==
  LET room == Limit - AtMost(Cardinality(DOMAIN sample), Limit)
      more == First(Eligible \ DOMAIN sample, r, room)
  IN  [v \in DOMAIN sample \cup more |-> IF v \in DOMAIN sample THEN sample[v] ELSE {}]

\* review_priority of the percentiles, times 50 and the sizes of both rankings.
Priorities(sample) ==
  LET L == Eligible \cap WithLtr
      n == Cardinality(Eligible)
      m == IF L = {} THEN 1 ELSE Cardinality(L)
      UpTo(S, field, v) == Cardinality({w \in S : score[w][field] <= score[v][field]})
      p(v) == LET c == UpTo(Eligible, "current", v) * m
              IN  (IF v \in L THEN 25 * Abs(c - UpTo(L, "ltr", v) * n) ELSE 0)
                    + 15 * (n * m - Abs(2 * c - n * m)) + 2 * Cardinality(sample[v]) * n * m
  IN  [v \in DOMAIN sample |-> p(v)]

\* sampling_reason: the first of its strata in STRATA_PRIORITY.
Reason(strata) ==
  IF strata = {} THEN Len(STRATA_PRIORITY)
  ELSE CHOOSE i \in DOMAIN STRATA_PRIORITY :
         /\ STRATA_PRIORITY[i] \in strata
         /\ \A j \in 1..(i - 1) : STRATA_PRIORITY[j] \notin strata

Ordered(sample, r) ==
  LET p == Priorities(sample)
  IN  By(DOMAIN sample, [v \in DOMAIN sample |-> (Reason(sample[v]) - 7 * p[v]) * (N + 1) + r[v]])

\* The share of a short queue, rounded down to nothing.
CapOfNothing == Limit \div ShareOf
Cap == IF Limit \div ShareOf = 0 THEN 1 ELSE Limit \div ShareOf

\* limit_bucket_dominance: what exceeds a company's share is dropped.
limit_bucket_dominance(items) ==
  LET place == [i \in DOMAIN items |-> i]
      OfCompany(i) == {j \in 1..(i - 1) : Company[items[j]] = Company[items[i]]}
      few  == Cardinality({Company[items[i]] : i \in DOMAIN items}) < ShareOf
      kept == {i \in DOMAIN items : few \/ Cardinality(OfCompany(i)) < Cap}
  IN  {[k \in DOMAIN p |-> items[p[k]]] : p \in By(First(kept, place, Limit), place)}

Queues ==
  LET r == Ranks(Rankable, "current")
      l == Ranks(WithLtr, "ltr")
  IN  UNION {limit_bucket_dominance(items) :
               items \in UNION {Ordered(FilledUp(sample, r), r) : sample \in Samples(r, l)}}

-------------------------------------------------------------------------------
(* get_pair_queue                                                           *)

\* Neighbours in the ranking, and pairs that the LTR ranking reverses.
Candidates ==
  LET r == Ranks(Rankable, "current")
      l == Ranks(WithLtr, "ltr")
  IN  {Key(p[1], p[2]) : p \in {q \in Rankable \X Rankable :
         \/ r[q[2]] = r[q[1]] + 1
         \/ {q[1], q[2]} \subseteq WithLtr /\ r[q[1]] < r[q[2]] /\ l[q[1]] > l[q[2]]}}

\* In the order of their closeness, whatever that is, none is shown that
\* is judged or has a vacancy already shown twice: as many as can be.
MAX_PAIR_APPEARANCES == 2
Shown(shown, v)     == Cardinality({p \in shown : v \in Range(p)})
SeldomShown(shown)  == \A v \in Vacancy : Shown(shown, v) <= MAX_PAIR_APPEARANCES
PairQueues(left) ==
  {shown \in SUBSET left :
     SeldomShown(shown) /\ \A p \in left \ shown : ~SeldomShown(shown \cup {p})}

-------------------------------------------------------------------------------
(* Matching scores or rescores a vacancy.                                   *)
Rescore ==
  /\ rescores < MaxRescores /\ rescores' = rescores + 1
  /\ \E v \in Vacancy, current \in 0..MaxScore, ltr \in 0..MaxScore \cup {NoScore} :
       score' = [score EXCEPT ![v] = [current |-> current, ltr |-> ltr]]
  /\ UNCHANGED <<labelled, judged, queue, pairs>>

OpenQueue ==
  /\ UNCHANGED <<score, labelled, judged, rescores>>
  /\ pairs' = {} /\ queue' \in Queues

OpenPairs ==
  /\ pairs' \in PairQueues(Candidates \ judged) /\ queue' = <<>>
  /\ UNCHANGED <<score, labelled, judged, rescores>>

(* The person goes through the queue, which may be an old one.              *)
Label ==
  /\ queue # <<>>
  /\ labelled' = labelled \cup {Head(queue)} /\ queue' = Tail(queue)
  /\ UNCHANGED <<score, judged, pairs, rescores>>

Judge ==
  /\ \E p \in pairs : judged' = judged \cup {p} /\ pairs' = pairs \ {p}
  /\ UNCHANGED <<score, labelled, queue, rescores>>

RqNext == Rescore \/ OpenQueue \/ OpenPairs \/ Label \/ Judge

RqSpec == RqInit /\ [][RqNext]_rqVars

-------------------------------------------------------------------------------
(* Neither the quotas, nor the share of a company, nor a shuffle hide what  *)
(* is left to judge: a queue is empty only when every vacancy with a score  *)
(* has its judgement.  Whoever goes on judging is asked about all of them.  *)
NothingIsHidden == \A shown \in Queues : shown = <<>> => Rankable \subseteq labelled
===============================================================================
