---------------------------- MODULE DiscoveryStream ----------------------------
(***************************************************************************)
(* discover_vacancies_stream (app/api/main.py): one task per source stages  *)
(* hits, one task per hit enriches it (RAG, letter, detailed matching)      *)
(* under a semaphore, and all of them put events into one queue that the    *)
(* response reads until every source has finished or the client is gone.    *)
(* With direct_rerank the hits are shown at the end, the best ones only.    *)
(***************************************************************************)
EXTENDS Naturals, Sequences, FiniteSets

CONSTANTS Source,
          Hits,      \* how many a source finds at most
          Limit,     \* request.limit, for the best ones
          Permits    \* of the enrichment semaphore, by direct_rerank

VARIABLES
  direct,  \* direct_rerank
  source,  \* run_source of each source
  hits,    \* its hits, and how far each enrichment has got
  profile, \* the one ingestion of the profile and the CV
  queue,   \* the events on their way, of each source: how those of two
           \* sources come to lie in the one queue is left open
  got,     \* the events the client has received
  stream   \* the response

dsVars == <<direct, source, hits, profile, queue, got, stream>>

Enriching == {"profile", "drafting", "polling"}
Over      == {"done", "raised", "cancelled"}
Ended     == {"finished", "cancelled"}
Event     == {"vacancy", "materials", "matching", "source_error", "_source_finished"} \X Source \X Nat

DsTypeOK ==
  /\ direct \in BOOLEAN
  /\ source \in [Source -> {"searching", "gathering", "closing"} \cup Ended]
  /\ hits \in [Source -> Seq({"waiting"} \cup Enriching \cup Over)]
  /\ \A s \in Source : Len(hits[s]) <= Hits[s]
  /\ profile \in {"none", "running", "ready", "failed"}
  /\ queue \in [Source -> Seq(Event)] /\ got \subseteq Event
  /\ stream \in {"open", "complete", "cancelling", "closed"}

DsInit ==
  /\ direct \in BOOLEAN
  /\ source = [s \in Source |-> "searching"] /\ hits = [s \in Source |-> <<>>]
  /\ profile = "none" /\ queue = [s \in Source |-> <<>>] /\ got = {} /\ stream = "open"

Put(s, events) == queue' = [queue EXCEPT ![s] = @ \o events]
Quiet          == UNCHANGED queue
Go(s, pc)     == source' = [source EXCEPT ![s] = pc]
Enrich(s, i, pc) == hits' = [hits EXCEPT ![s][i] = pc]
Busy          == UNION {{s} \X {i \in DOMAIN hits[s] : hits[s][i] \in Enriching} : s \in Source}
AllOver(s)    == \A i \in DOMAIN hits[s] : hits[s][i] \in Over
Cancelled(s)  == [i \in DOMAIN hits[s] |-> IF hits[s][i] \in Over THEN hits[s][i] ELSE "cancelled"]

-------------------------------------------------------------------------------
(* enrich_outcome                                                           *)

(* The semaphore lets it in. A direct search first has the profile          *)
(* ingested, once and by the first that comes to it.                        *)
Start(s, i) ==
  /\ hits[s][i] = "waiting" /\ Cardinality(Busy) < Permits[direct]
  /\ Enrich(s, i, IF direct THEN "profile" ELSE "drafting")
  /\ profile' = IF direct /\ profile = "none" THEN "running" ELSE profile
  /\ UNCHANGED <<direct, source, queue, got, stream>>

ProfileIngested ==
  /\ profile = "running" /\ profile' \in {"ready", "failed"}
  /\ UNCHANGED <<direct, source, hits, queue, got, stream>>

(* It waits for that; its failure, as that of the vacancy's own ingestion,  *)
(* stops nothing.                                                           *)
ProfileThere(s, i) ==
  /\ hits[s][i] = "profile" /\ profile \in {"ready", "failed"}
  /\ Enrich(s, i, "drafting")
  /\ UNCHANGED <<direct, source, profile, queue, got, stream>>

(* materials_ready or materials_error.                                      *)
Materials(s, i) ==
  /\ hits[s][i] = "drafting" /\ Enrich(s, i, "polling")
  /\ IF direct THEN Quiet ELSE Put(s, <<<<"materials", s, i>>>>)
  /\ UNCHANGED <<direct, source, profile, got, stream>>

(* matching_ready, or matching_error when _STREAM_MATCHING_POLL_SECONDS are *)
(* over.                                                                    *)
Matching(s, i) ==
  /\ hits[s][i] = "polling" /\ Enrich(s, i, "done")
  /\ IF direct THEN Quiet ELSE Put(s, <<<<"matching", s, i>>>>)
  /\ UNCHANGED <<direct, source, profile, got, stream>>

(* The database fails where no handler is: the task ends with an exception. *)
Raises(s, i) ==
  /\ hits[s][i] = "polling" /\ Enrich(s, i, "raised")
  /\ UNCHANGED <<direct, source, profile, queue, got, stream>>

-------------------------------------------------------------------------------
(* run_source                                                               *)

(* on_outcome: the hit is shown, unless it waits for the ranking, and its   *)
(* enrichment begins.                                                       *)
Stage(s) ==
  /\ source[s] = "searching" /\ Len(hits[s]) < Hits[s]
  /\ hits' = [hits EXCEPT ![s] = Append(@, "waiting")]
  /\ IF direct THEN Quiet ELSE Put(s, <<<<"vacancy", s, Len(hits[s]) + 1>>>>)
  /\ UNCHANGED <<direct, source, profile, got, stream>>

(* The search is through; finally, source_complete is sent, which promises  *)
(* nothing and is left out.                                                 *)
Searched(s) ==
  /\ source[s] = "searching"
  /\ Go(s, IF direct THEN "gathering" ELSE "closing")
  /\ UNCHANGED <<direct, hits, profile, queue, got, stream>>

\* A source that cannot even be asked reports its error and nothing else.
FailsAndStops(s) ==
  /\ source[s] = "searching"
  /\ Put(s, <<<<"source_error", s, 0>>>>) /\ Go(s, "cancelled")
  /\ UNCHANGED <<direct, hits, profile, got, stream>>

(* It fails: no session, no recipe, the site; or, gathering, an enrichment  *)
(* raised.                                                                  *)
Fails(s) ==
  /\ \/ source[s] = "searching"
     \/ source[s] = "gathering" /\ \E i \in DOMAIN hits[s] : hits[s][i] = "raised"
  /\ Put(s, <<<<"source_error", s, 0>>>>) /\ Go(s, "closing")
  /\ UNCHANGED <<direct, hits, profile, got, stream>>

(* All are enriched: the best Limit are shown, the best first.              *)
Rank(s) ==
  /\ source[s] = "gathering" /\ \A i \in DOMAIN hits[s] : hits[s][i] = "done"
  /\ LET places == 1..(IF Len(hits[s]) < Limit THEN Len(hits[s]) ELSE Limit)
     IN  \E best \in [places -> DOMAIN hits[s]] :
           /\ \A j, k \in places : best[j] = best[k] => j = k
           /\ Put(s, [j \in places |-> <<"vacancy", s, best[j]>>])
  /\ Go(s, "closing")
  /\ UNCHANGED <<direct, hits, profile, got, stream>>

\* The source does not wait for the enrichments it has started.
CloseAtOnce(s) ==
  /\ source[s] = "closing"
  /\ Put(s, <<<<"_source_finished", s, 0>>>>) /\ Go(s, "finished")
  /\ UNCHANGED <<direct, hits, profile, got, stream>>

(* _source_finished, when every enrichment is over.                         *)
Close(s) ==
  /\ source[s] = "closing" /\ AllOver(s)
  /\ Put(s, <<<<"_source_finished", s, 0>>>>) /\ Go(s, "finished")
  /\ UNCHANGED <<direct, hits, profile, got, stream>>

-------------------------------------------------------------------------------
(* event_stream                                                             *)

Finished(events) == {s \in Source : <<"_source_finished", s, 0>> \in events}

(* The next event goes to the client; the last source ends the loop.        *)
Receive(s) ==
  /\ stream = "open" /\ queue[s] # <<>>
  /\ got' = got \cup {Head(queue[s])} /\ queue' = [queue EXCEPT ![s] = Tail(@)]
  /\ stream' = IF Finished(got') = Source THEN "complete" ELSE "open"
  /\ UNCHANGED <<direct, source, hits, profile>>

\* A source that is cancelled in its try goes to its finally, gathering takes the
\* enrichments with it; in its finally, too, and it ends.
CancelSources ==
  /\ source' = [s \in Source |->
                  CASE source[s] \in {"searching", "gathering"} -> "closing"
                    [] source[s] = "closing" -> "cancelled"
                    [] OTHER -> source[s]]
  /\ hits' = [s \in Source |-> IF source[s] \in {"gathering", "closing"} THEN Cancelled(s)
                               ELSE hits[s]]

(* The client goes away.                                                    *)
Disconnect ==
  /\ stream = "open" /\ stream' = "cancelling" /\ CancelSources
  /\ UNCHANGED <<direct, profile, queue, got>>

(* The server may cancel the response again while it waits for its sources. *)
CancelAgain ==
  /\ stream = "cancelling" /\ CancelSources
  /\ \E s \in Source : source[s] \in {"searching", "gathering", "closing"}
  /\ UNCHANGED <<direct, profile, queue, got, stream>>

Closed ==
  /\ stream = "cancelling" /\ \A s \in Source : source[s] \in Ended
  /\ stream' = "closed"
  /\ UNCHANGED <<direct, source, hits, profile, queue, got>>

HitStep(s, i) ==
  \/ Start(s, i) \/ ProfileThere(s, i) \/ Materials(s, i)
  \/ Matching(s, i) \/ Raises(s, i)
SourceStep(s) == Stage(s) \/ Searched(s) \/ Fails(s) \/ Rank(s) \/ Close(s)

\* Every call has a timeout, the polling its bound, the client reads or goes.
DsStep ==
  \/ \E s \in Source : SourceStep(s) \/ Receive(s) \/ \E i \in DOMAIN hits[s] : HitStep(s, i)
  \/ ProfileIngested \/ Closed

DsNext == DsStep \/ Disconnect \/ CancelAgain

DsSpec == DsInit /\ [][DsNext]_dsVars /\ WF_dsVars(DsStep)

-------------------------------------------------------------------------------
(* When the client reads "complete" it has everything: of a plain search    *)
(* each hit, its letter and its score unless the enrichment broke; of a     *)
(* direct one the best hits, or the error of the source; and nothing of     *)
(* that is left in the queue ("must not end the whole stream").             *)
Told(s, i) == {<<"vacancy", s, i>>, <<"materials", s, i>>, <<"matching", s, i>>} \subseteq got
Shown(s)   == {i \in DOMAIN hits[s] : <<"vacancy", s, i>> \in got}
CompleteIsComplete ==
  stream = "complete" =>
    /\ \A s \in Source : queue[s] = <<>>
    /\ \A s \in Source :
         IF direct
           THEN \/ <<"source_error", s, 0>> \in got
                \/ Cardinality(Shown(s)) >= Limit \/ Shown(s) = DOMAIN hits[s]
           ELSE \A i \in DOMAIN hits[s] :
                  Told(s, i) \/ (hits[s][i] = "raised" /\ <<"vacancy", s, i>> \in got)

(* The stream ends: the sources never wait for one another, for the         *)
(* semaphore or for the one ingestion of the profile without end, also when *)
(* sources fail, enrichments raise or the client is gone.                   *)
StreamEnds == <>(stream \in {"complete", "closed"})
===============================================================================
