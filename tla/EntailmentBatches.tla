--------------------------- MODULE EntailmentBatches ---------------------------
(***************************************************************************)
(* The claims of one matching run and the evaluator they share: a claim is  *)
(* answered from the cache or put on a queue; a flusher drains the queue,   *)
(* packs what fits the model's context into one request, and gives every    *)
(* claim the answer that is about it.  A retry is a new evaluator with the  *)
(* old cache.  An answer is named by the claim it is about.                 *)
(***************************************************************************)
EXTENDS Integers, FiniteSets, SequencesExt

CONSTANTS Claim,       \* claims to be evaluated, each with one piece of evidence
          BatchSize,   \* matching_entailment_batch_size
          Concurrency, \* matching_llm_concurrency
          MaxRuns,     \* bound: runs over the same claims
          Incomplete   \* the model may leave claims of a batch out

VARIABLES
  run,     \* the run under way
  asked,   \* what each claim's evaluate() does
  answer,  \* what it returned: the claim the answer is about, Error or None
  queue,   \* _queue: claims, and Stop once close() is called
  drained, \* claims the flusher has taken and not yet sent
  sent,    \* the sub-batch at the model
  flusher, \* _flusher_task
  cache    \* MatchingCache: the entailment entry of each claim

evVars == <<run, asked, answer, queue, drained, sent, flusher, cache>>

None  == "none"
Error == "error"
Stop  == "stop"
NoId  == "unlabelled"

EvTypeOK ==
  /\ run \in 1..MaxRuns
  /\ asked \in [Claim -> {"todo", "queued", "done"}]
  /\ {answer, cache} \subseteq [Claim -> Claim \cup {None, Error}]
  /\ Range(queue) \subseteq Claim \cup {Stop}
  /\ Range(drained) \cup Range(sent) \subseteq Claim
  /\ Len(drained) + Len(sent) <= BatchSize
  /\ flusher \in {"none", "running", "stopped"}

EvInit ==
  /\ run = 1 /\ asked = [c \in Claim |-> "todo"] /\ answer = [c \in Claim |-> None]
  /\ queue = <<>> /\ drained = <<>> /\ sent = <<>> /\ flusher = "none"
  /\ cache = [c \in Claim |-> None]

(* evaluate: the cached answer, or a place in the queue (which starts the   *)
(* flusher) while the semaphore lets the claim's requirement run.           *)
Ask(c) ==
  /\ asked[c] = "todo"
  /\ Cardinality({d \in Claim : asked[d] = "queued"}) < Concurrency
  /\ IF cache[c] # None
       THEN /\ asked' = [asked EXCEPT ![c] = "done"]
            /\ answer' = [answer EXCEPT ![c] = cache[c]]
            /\ UNCHANGED <<queue, flusher>>
       ELSE /\ asked' = [asked EXCEPT ![c] = "queued"]
            /\ queue' = Append(queue, c) /\ flusher' = "running"
            /\ UNCHANGED answer
  /\ UNCHANGED <<run, drained, sent, cache>>

(* _flush_loop: everything queued, up to the batch size; Stop ends it.  It  *)
(* comes alone, as no claim waits when close() is called, so that the loop  *)
(* has none to skip among the claims it drains.                             *)
Drain ==
  /\ flusher = "running" /\ drained = <<>> /\ sent = <<>> /\ queue # <<>>
  /\ IF Head(queue) = Stop
       THEN flusher' = "stopped" /\ queue' = Tail(queue) /\ UNCHANGED drained
       ELSE LET n == IF Len(queue) < BatchSize THEN Len(queue) ELSE BatchSize
            IN  /\ drained' = SubSeq(queue, 1, n)
                /\ queue' = SubSeq(queue, n + 1, Len(queue))
                /\ UNCHANGED flusher
  /\ UNCHANGED <<run, asked, answer, sent, cache>>

(* _pack_by_budget: the next sub-batch is whatever fits the context.        *)
Send ==
  /\ sent = <<>> /\ drained # <<>>
  /\ \E n \in 1..Len(drained) :
       sent' = SubSeq(drained, 1, n) /\ drained' = SubSeq(drained, n + 1, Len(drained))
  /\ UNCHANGED <<run, asked, answer, queue, flusher, cache>>

\* What the model may return for a batch: evaluations that echo the claim, in any
\* order, or unlabelled ones in the order of the items.
Responses(batch) ==
  LET Lengths  == IF Incomplete THEN 0..Len(batch) ELSE {Len(batch)}
      Labelled(n) == {[i \in 1..n |-> [id |-> batch[p[i]], about |-> batch[p[i]]]] :
                        p \in Injection(1..n, DOMAIN batch)}
      InOrder(n)  == [i \in 1..n |-> [id |-> NoId, about |-> batch[i]]]
  IN  UNION {Labelled(n) \cup {InOrder(n)} : n \in Lengths}

\* An alignment that trusts the order alone.
MatchedInOrder(batch, response) ==
  {[i \in DOMAIN batch |-> IF i \in DOMAIN response THEN response[i].about ELSE Error]}

\* _match_raws_to_items: an item takes the first evaluation that echoes its claim; if
\* there is none, or an earlier item has it, the first that no earlier item has; an
\* item that gets none (0) is batch_missing_item.
Matched(batch, response) ==
  LET IsFirst(k, S) == k \in S /\ \A j \in S : k <= j
      Echoes(i)  == {k \in DOMAIN response : response[k].id = batch[i]}
      Free(g, i) == DOMAIN response \ {g[j] : j \in 1..(i - 1)}
      Takes(g, i) ==
        IF \E k \in Free(g, i) : IsFirst(k, Echoes(i)) THEN IsFirst(g[i], Echoes(i))
        ELSE IF Free(g, i) # {} THEN IsFirst(g[i], Free(g, i)) ELSE g[i] = 0
      given == {g \in [DOMAIN batch -> {0} \cup DOMAIN response] :
                  \A i \in DOMAIN batch : Takes(g, i)}
  IN  {[i \in DOMAIN batch |-> IF g[i] = 0 THEN Error ELSE response[g[i]].about] : g \in given}

\* _resolve_pending: the waiting claims get their answers, and every answer is
\* cached, an error too.
Resolve(answers) ==
  LET Of(f) == [c \in Claim |-> IF \E i \in DOMAIN sent : sent[i] = c
                                THEN answers[CHOOSE i \in DOMAIN sent : sent[i] = c]
                                ELSE f[c]]
  IN  /\ answer' = Of(answer) /\ cache' = Of(cache)
      /\ asked' = [c \in Claim |-> IF c \in Range(sent) THEN "done" ELSE asked[c]]

(* _process_batch: the router answers; the answer of a single pair carries  *)
(* no label and needs none.                                                 *)
Answered ==
  /\ sent # <<>> /\ sent' = <<>>
  /\ IF Len(sent) = 1 THEN Resolve(sent)
     ELSE \E response \in Responses(sent) : \E answers \in Matched(sent, response) :
            Resolve(answers)
  /\ UNCHANGED <<run, queue, drained, flusher>>

(* ... or raises: every pair of the request is an evaluation error.         *)
RequestFails ==
  /\ sent # <<>> /\ sent' = <<>>
  /\ Resolve([i \in DOMAIN sent |-> Error])
  /\ UNCHANGED <<run, queue, drained, flusher>>

(* match_requirements: when every requirement is through, close() puts Stop *)
(* on the queue and waits for the flusher.                                  *)
Close ==
  /\ \A c \in Claim : asked[c] = "done"
  /\ flusher = "running" /\ Stop \notin Range(queue)
  /\ queue' = Append(queue, Stop)
  /\ UNCHANGED <<run, asked, answer, drained, sent, flusher, cache>>

(* The person retries, or the vacancy is matched again: a new evaluator.    *)
RunAgain ==
  /\ \A c \in Claim : asked[c] = "done"
  /\ flusher # "running" /\ run < MaxRuns /\ run' = run + 1
  /\ asked' = [c \in Claim |-> "todo"] /\ answer' = [c \in Claim |-> None]
  /\ flusher' = "none"
  /\ UNCHANGED <<queue, drained, sent, cache>>

EvNext ==
  \/ \E c \in Claim : Ask(c)
  \/ Drain \/ Send \/ Answered \/ RequestFails \/ Close \/ RunAgain

EvSpec == EvInit /\ [][EvNext]_evVars

-------------------------------------------------------------------------------
(* Properties                                                               *)

(* A claim is answered by an evaluation of itself, in this run and from the *)
(* cache of an earlier one, however requests are packed and whatever order  *)
(* a complete response has (after an incomplete one, the items that were    *)
(* left out take what is there); and a claim that waits is held by a flusher     *)
(* that is alive.                                                           *)
OwnAnswer ==
  /\ \A c \in Claim : {answer[c], cache[c]} \subseteq {c, None, Error}
  /\ \A c \in Claim : asked[c] = "queued" =>
       flusher = "running" /\ c \in Range(queue \o drained \o sent)
===============================================================================
