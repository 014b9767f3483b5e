----------------------------- MODULE VacancySearch -----------------------------
(***************************************************************************)
(* The search of saved vacancies: list_saved_vacancies asks the hybrid      *)
(* retriever of the API process for the vacancies and shows what it names.  *)
(* The first request makes the retriever and fills the index              *)
(* (app/api/main.py, app/matching/vacancy_index.py, vacancy_reindex.py,     *)
(* vacancy_retriever.py, app/services/vacancy_catalog.py); nothing else     *)
(* writes it.  Every call of OpenSearch and of the embedding model may fail.*)
(***************************************************************************)
EXTENDS Naturals, FiniteSets

CONSTANTS Vacancy, Request, BatchSize, MaxIndices,
          MaxStarts \* of the API process

VARIABLES
  rows,      \* the saved vacancies; the text of each has the words of the query
  docs,      \* those that each physical index has
  alias,     \* the index behind both aliases, 0 for none
  used,      \* how many indices there have been
  attempted, \* _vacancy_retriever_init_attempted
  retriever, \* _vacancy_retriever_instance is there
  request,   \* the requests, the one that makes the retriever among them
  starts

vsVars == <<rows, docs, alias, used, attempted, retriever, request, starts>>

Building == {"ensure", "create", "read", "index"}
NoAsk    == [pc |-> "idle", index |-> 0, todo |-> {}, named |-> FALSE,
             ids |-> {}, failed |-> FALSE, shown |-> {}]

VsTypeOK ==
  /\ rows \subseteq Vacancy /\ docs \in [1..MaxIndices -> SUBSET Vacancy] /\ used \in 0..MaxIndices
  /\ alias \in 0..used /\ {attempted, retriever} \subseteq BOOLEAN /\ starts \in 1..MaxStarts
  /\ request \in [Request -> [pc : Building \cup {"idle", "rrf", "bm25", "knn", "list", "done"},
                              index : 0..MaxIndices, todo : SUBSET Vacancy, named : BOOLEAN,
                              ids : SUBSET Vacancy, failed : BOOLEAN,
                              shown : SUBSET Vacancy]]

VsInit ==
  /\ rows \in SUBSET Vacancy /\ docs = [x \in 1..MaxIndices |-> {}] /\ alias = 0 /\ used = 0
  /\ attempted = FALSE /\ retriever = FALSE /\ request = [q \in Request |-> NoAsk] /\ starts = 1

Indexed       == IF alias = 0 THEN {} ELSE docs[alias]
At(q, pc)     == request[q].pc = pc
Then(q, rec)  == request' = [request EXCEPT ![q] = rec]
To(q, pc)     == Then(q, [request[q] EXCEPT !.pc = pc])
index         == <<docs, alias, used>>
process       == <<attempted, retriever, starts>>

\* The aliases move in one call, from whatever index of the prefix they are on.
SwitchAliases(x) == alias' = x

\* The request remembers only at the end that it has made the retriever.
AskUnmarked(q) ==
  /\ request[q].pc \in {"idle", "done"}
  /\ Then(q, [NoAsk EXCEPT !.pc = IF retriever THEN "rrf" ELSE "ensure"])
  /\ attempted' = retriever
  /\ UNCHANGED <<rows, index, retriever, starts>>

(* _get_vacancy_retriever: who comes first makes the retriever; who comes   *)
(* meanwhile, or after that has failed, goes without one.                   *)
Ask(q) ==
  /\ request[q].pc \in {"idle", "done"} /\ attempted' = TRUE
  /\ Then(q, [NoAsk EXCEPT !.pc = IF ~attempted THEN "ensure" ELSE IF retriever THEN "rrf"
                                  ELSE "list"])
  /\ UNCHANGED <<rows, index, retriever, starts>>

(* ensure_index creates the first index and points the aliases to it.       *)
EnsureIndex(q) ==
  /\ At(q, "ensure") /\ (alias = 0 => used < MaxIndices)
  /\ used' = IF alias = 0 THEN used + 1 ELSE used
  /\ SwitchAliases(IF alias = 0 THEN used + 1 ELSE alias)
  /\ retriever' = TRUE
  /\ \E embedding \in BOOLEAN : To(q, IF embedding THEN "create" ELSE "rrf")
  /\ UNCHANGED <<rows, docs, attempted, starts>>

InitFails(q) ==
  /\ At(q, "ensure") /\ To(q, "list")
  /\ UNCHANGED <<rows, index, process>>

(* rebuild: a new index ...                                                 *)
CreateIndex(q) ==
  /\ At(q, "create") /\ used < MaxIndices /\ used' = used + 1
  /\ Then(q, [request[q] EXCEPT !.pc = "read", !.index = used + 1])
  /\ UNCHANGED <<rows, docs, alias, process>>

ReadRows(q) ==
  /\ At(q, "read")
  /\ Then(q, [request[q] EXCEPT !.pc = "index", !.todo = rows])
  /\ UNCHANGED <<rows, index, process>>

(* ... gets every vacancy as it was read, batch by batch,                   *)
IndexBatch(q) ==
  LET r == request[q]
  IN  /\ At(q, "index")
      /\ \E batch \in SUBSET r.todo :
           /\ batch # {} /\ (Cardinality(batch) = BatchSize \/ batch = r.todo)
           /\ Cardinality(batch) <= BatchSize
           /\ docs' = [docs EXCEPT ![r.index] = @ \cup batch]
           /\ Then(q, [r EXCEPT !.todo = @ \ batch])
      /\ UNCHANGED <<rows, alias, used, process>>

(* and then the aliases.                                                    *)
Switch(q) ==
  /\ At(q, "index") /\ request[q].todo = {}
  /\ SwitchAliases(request[q].index) /\ To(q, "rrf")
  /\ UNCHANGED <<rows, docs, used, process>>

(* A failure leaves the incomplete index behind: OpenSearchVacancyIndex has *)
(* no delete_index.                                                         *)
RebuildFails(q) ==
  /\ request[q].pc \in {"create", "read", "index"} /\ To(q, "rrf")
  /\ UNCHANGED <<rows, index, process>>

-------------------------------------------------------------------------------
(* VacancyHybridRetriever.search                                            *)

Named(q, ids, failed) ==
  Then(q, [request[q] EXCEPT !.pc = "list", !.named = TRUE, !.ids = ids, !.failed = failed])

(* One hybrid query, unless it fails or finds nothing;                      *)
SearchRrf(q) ==
  /\ At(q, "rrf")
  /\ \/ To(q, "bm25")
     \/ Indexed # {} /\ Named(q, Indexed, FALSE)
  /\ UNCHANGED <<rows, index, process>>

(* or BM25, whose failure is an empty answer;                               *)
SearchBm25(q) ==
  /\ At(q, "bm25")
  /\ \/ Named(q, {}, TRUE)
     \/ alias # 0 /\ Then(q, [request[q] EXCEPT !.pc = "knn", !.ids = Indexed])
  /\ UNCHANGED <<rows, index, process>>

(* and the vectors, which may be missing.                                   *)
SearchKnn(q) ==
  /\ At(q, "knn")
  /\ \E near \in {{}, Indexed} : Named(q, request[q].ids \cup near, FALSE)
  /\ UNCHANGED <<rows, index, process>>

(* list_saved_vacancies: the vacancies that are named, or without a         *)
(* retriever those whose text has the query.                                *)
List(q) ==
  LET r == request[q]
  IN  /\ At(q, "list")
      /\ Then(q, [r EXCEPT !.pc = "done",
                           !.shown = IF r.named THEN r.ids \cap rows ELSE rows])
      /\ UNCHANGED <<rows, index, process>>

(* A search stages a vacancy: no index hears of it.                         *)
Save(v) ==
  /\ v \notin rows /\ rows' = rows \cup {v}
  /\ UNCHANGED <<index, process, request>>

(* The API process is started again.                                        *)
Restart ==
  /\ starts < MaxStarts /\ starts' = starts + 1
  /\ attempted' = FALSE /\ retriever' = FALSE /\ request' = [q \in Request |-> NoAsk]
  /\ UNCHANGED <<rows, index>>

VsNext ==
  \/ \E q \in Request : \/ Ask(q) \/ EnsureIndex(q) \/ InitFails(q) \/ CreateIndex(q)
                        \/ ReadRows(q) \/ IndexBatch(q) \/ Switch(q) \/ RebuildFails(q)
                        \/ SearchRrf(q) \/ SearchBm25(q) \/ SearchKnn(q) \/ List(q)
  \/ \E v \in Vacancy : Save(v)
  \/ Restart

VsSpec == VsInit /\ [][VsNext]_vsVars

-------------------------------------------------------------------------------
(* What the search once knows it keeps: rebuilds that fail, are cut short   *)
(* by a restart or overlap in time never move the aliases to an index that  *)
(* lacks a vacancy which the one before it has.                             *)
NothingLeavesTheIndex ==
  [][alias # 0 => docs[alias] \subseteq docs'[alias']]_vsVars
===============================================================================
