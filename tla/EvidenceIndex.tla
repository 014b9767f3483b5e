----------------------------- MODULE EvidenceIndex -----------------------------
(***************************************************************************)
(* The evidence of the resumes in OpenSearch: the runs of the matching      *)
(* worker refresh one resume through the write alias and search it, while   *)
(* an operator rebuilds the whole index beside it and moves the aliases     *)
(* (app/matching/indexing.py, opensearch_index.py, retrieval.py).  Every    *)
(* call of OpenSearch or of the embedding model may fail.                   *)
(***************************************************************************)
EXTENDS Naturals, FiniteSets

CONSTANTS Evidence,   \* the rows of candidate_evidence there will ever be
          CvOf,       \* the resume of each
          Verified,   \* is_verified
          Similar,    \* those that share a word with the requirement
          Limit,      \* retrieval_limit
          BatchSize, MaxIndices, Run

Cv == {CvOf[e] : e \in Evidence}

VARIABLES
  rows,    \* candidate_evidence: what each row is
  docs,    \* the documents of each physical index, <<>> for none
  alias,   \* the index behind both aliases, 0 for none
  rebuild, \* the operator's rebuild
  run,     \* a run's indexing and retrieval
  got      \* the evidence that a run has retrieved

eiVars == <<rows, docs, alias, rebuild, run, got>>

Index   == 1..MaxIndices
NoIndex == [there |-> FALSE, has |-> {}]
Resting == [pc |-> "idle", index |-> 0, todo |-> {}]
NoRun   == [pc |-> "idle", cv |-> CHOOSE c \in Cv : TRUE, index |-> 0, todo |-> {},
            lexical |-> {}, dense |-> {}]

EiTypeOK ==
  /\ rows \in [Evidence -> {"unknown", "stored", "deleted"}]
  /\ docs \in [Index -> [there : BOOLEAN, has : SUBSET Evidence]]
  /\ alias \in 0..MaxIndices /\ (alias # 0 => docs[alias].there)
  /\ rebuild \in [pc : {"idle", "read", "index", "commit", "cleanup"},
                  index : 0..MaxIndices, todo : SUBSET Evidence]
  /\ run \in [Run -> [pc : {"idle", "create", "switch", "extract", "index", "lexical",
                            "dense", "fuse", "done"},
                      cv : Cv, index : 0..MaxIndices, todo : SUBSET Evidence,
                      lexical : SUBSET Evidence, dense : SUBSET Evidence]]
  /\ got \in [Run -> SUBSET Evidence]

EiInit ==
  /\ rows = [e \in Evidence |-> "unknown"] /\ docs = [x \in Index |-> NoIndex] /\ alias = 0
  /\ rebuild = Resting /\ run = [r \in Run |-> NoRun] /\ got = [r \in Run |-> {}]

Stored(c)      == {e \in Evidence : rows[e] = "stored" /\ CvOf[e] = c}
Current(c)     == Stored(c) \cap Verified
Top(S)         == {T \in SUBSET S : Cardinality(T) = IF Cardinality(S) < Limit THEN Cardinality(S)
                                                     ELSE Limit}
Batch(S)       == {T \in SUBSET S : Cardinality(T) = IF Cardinality(S) < BatchSize
                                                     THEN Cardinality(S) ELSE BatchSize}
Free           == {x \in Index : ~docs[x].there}

-------------------------------------------------------------------------------
(* OpenSearch                                                               *)

CreateIndex(x)  == docs' = [docs EXCEPT ![x] = [there |-> TRUE, has |-> {}]]
SwitchAliases(x) == alias' = x
IndexDocuments(x, S) == docs' = [docs EXCEPT ![x].has = @ \cup S]
DeleteIndex(x)  == docs' = [docs EXCEPT ![x] = NoIndex] /\ alias' = IF alias = x THEN 0 ELSE alias

\* The resume's documents behind the read alias: nothing removes those whose rows
\* are deleted.
Documents(c) == IF alias = 0 THEN {} ELSE {e \in docs[alias].has : CvOf[e] = c}
SearchBm25(c) == Top(Documents(c) \cap Similar)
SearchKnn(c)  == Top(Documents(c))

-------------------------------------------------------------------------------
(* A run of the matching worker                                             *)

At(r, from)  == run[r].pc = from
Then(r, rec) == run' = [run EXCEPT ![r] = rec]
To(r, pc)    == Then(r, [run[r] EXCEPT !.pc = pc])

(* ensure_index.                                                            *)
EnsureIndex(r) ==
  /\ run[r].pc \in {"idle", "done"} /\ got' = [got EXCEPT ![r] = {}]
  /\ \E c \in Cv : Then(r, [NoRun EXCEPT !.cv = c, !.pc = IF alias = 0 THEN "create" ELSE "extract"])
  /\ UNCHANGED <<rows, docs, alias, rebuild>>

\* Another run may have seen no alias either, each creates an index of its own.
CreateFirst(r) ==
  /\ At(r, "create")
  /\ \E x \in Free : CreateIndex(x) /\ Then(r, [run[r] EXCEPT !.pc = "switch", !.index = x])
  /\ UNCHANGED <<rows, alias, rebuild, got>>

SwitchFirst(r) ==
  /\ At(r, "switch") /\ docs[run[r].index].there
  /\ SwitchAliases(run[r].index) /\ To(r, "extract")
  /\ UNCHANGED <<rows, docs, rebuild, got>>

(* _extract_evidence, where the rows of an earlier text of the resume stay; *)
(* then index_cv reads the verified ones and sends them batch by batch.     *)
Extract(r) ==
  /\ At(r, "extract")
  /\ \E new \in SUBSET {e \in Evidence : rows[e] = "unknown" /\ CvOf[e] = run[r].cv} :
       /\ rows' = [e \in Evidence |-> IF e \in new THEN "stored" ELSE rows[e]]
       /\ Then(r, [run[r] EXCEPT !.pc = "index",
                                 !.todo = Current(run[r].cv) \cup (new \cap Verified)])
  /\ UNCHANGED <<docs, alias, rebuild, got>>

IndexBatch(r) ==
  /\ At(r, "index") /\ run[r].todo # {} /\ alias # 0
  /\ \E batch \in Batch(run[r].todo) :
       IndexDocuments(alias, batch) /\ Then(r, [run[r] EXCEPT !.todo = @ \ batch])
  /\ UNCHANGED <<rows, alias, rebuild, got>>

Indexed(r) ==
  /\ At(r, "index") /\ run[r].todo = {} /\ To(r, "lexical")
  /\ UNCHANGED <<rows, docs, alias, rebuild, got>>

(* What has failed fails the run.                                           *)
RunBreaks(r) ==
  /\ run[r].pc \in {"create", "switch", "extract", "index"} /\ To(r, "idle")
  /\ UNCHANGED <<rows, docs, alias, rebuild, got>>

(* search_lexical asks the database.                                        *)
SearchLexical(c) == Top(Current(c) \cap Similar)
Retrieved(r, S)  == got' = [got EXCEPT ![r] = S] /\ To(r, "done")

(* HybridRetriever.retrieve: without BM25 the database answers ...          *)
AskLexical(r) ==
  /\ At(r, "lexical")
  /\ \/ alias # 0 /\ \E found \in SearchBm25(run[r].cv) :
          Then(r, [run[r] EXCEPT !.pc = "dense", !.lexical = found]) /\ UNCHANGED got
     \/ \E found \in SearchLexical(run[r].cv) : Retrieved(r, found)
  /\ UNCHANGED <<rows, docs, alias, rebuild>>

(* ... without vectors BM25 alone does.                                     *)
AskDense(r) ==
  /\ At(r, "dense")
  /\ \E found \in SearchKnn(run[r].cv) \cup {{}} :
       Then(r, [run[r] EXCEPT !.pc = "fuse", !.dense = found])
  /\ UNCHANGED <<rows, docs, alias, rebuild, got>>

\* load_by_ids: of the hits, the rows that are there, verified and of this resume.
Loaded(r) == (run[r].lexical \cup run[r].dense) \cap Current(run[r].cv)
\* The index has the last word.
FusedOnly(r) == Top(Loaded(r))
\* The best of what is loaded; nothing of it, and the database answers.
Fused(r)  == IF Loaded(r) # {} THEN Top(Loaded(r)) ELSE SearchLexical(run[r].cv)

Fuse(r) ==
  /\ At(r, "fuse") /\ \E found \in Fused(r) : Retrieved(r, found)
  /\ UNCHANGED <<rows, docs, alias, rebuild>>

(* delete_cv_file takes the resume's evidence with it.                      *)
DeleteCv(c) ==
  /\ Stored(c) # {} /\ rows' = [e \in Evidence |-> IF CvOf[e] = c THEN "deleted" ELSE rows[e]]
  /\ UNCHANGED <<docs, alias, rebuild, run, got>>

-------------------------------------------------------------------------------
(* rebuild                                                                  *)

RebuildStart ==
  /\ rebuild.pc = "idle"
  /\ \E x \in Free : CreateIndex(x) /\ rebuild' = [Resting EXCEPT !.pc = "read", !.index = x]
  /\ UNCHANGED <<rows, alias, run, got>>

RebuildRead ==
  /\ rebuild.pc = "read"
  /\ rebuild' = [rebuild EXCEPT !.pc = "index", !.todo = UNION {Current(c) : c \in Cv}]
  /\ UNCHANGED <<rows, docs, alias, run, got>>

RebuildBatch ==
  /\ rebuild.pc = "index" /\ rebuild.todo # {}
  /\ \E batch \in Batch(rebuild.todo) :
       /\ IndexDocuments(rebuild.index, batch)
       /\ rebuild' = [rebuild EXCEPT !.todo = @ \ batch]
  /\ UNCHANGED <<rows, alias, run, got>>

\* OpenSearch may have moved the aliases although the call fails.
RebuildSwitch ==
  /\ rebuild.pc = "index" /\ rebuild.todo = {}
  /\ SwitchAliases(rebuild.index)
  /\ \E pc \in {"commit", "cleanup"} : rebuild' = [rebuild EXCEPT !.pc = pc]
  /\ UNCHANGED <<rows, docs, run, got>>

(* The commit of the embedding records fails when a run has recorded the    *)
(* same embedding meanwhile.                                                *)
RebuildCommit ==
  /\ rebuild.pc = "commit"
  /\ \E after \in {Resting, [rebuild EXCEPT !.pc = "cleanup"]} : rebuild' = after
  /\ UNCHANGED <<rows, docs, alias, run, got>>

RebuildFails ==
  /\ rebuild.pc \in {"read", "index"} /\ rebuild' = [rebuild EXCEPT !.pc = "cleanup"]
  /\ UNCHANGED <<rows, docs, alias, run, got>>

(* _best_effort_delete removes the index, also when the aliases are on it.  *)
RebuildCleanup ==
  /\ rebuild.pc = "cleanup" /\ rebuild' = Resting
  /\ DeleteIndex(rebuild.index) \/ UNCHANGED <<docs, alias>>
  /\ UNCHANGED <<rows, run, got>>

EiNext ==
  \/ \E r \in Run : \/ EnsureIndex(r) \/ CreateFirst(r) \/ SwitchFirst(r) \/ Extract(r)
                    \/ IndexBatch(r) \/ Indexed(r) \/ RunBreaks(r)
                    \/ AskLexical(r) \/ AskDense(r) \/ Fuse(r)
  \/ \E c \in Cv : DeleteCv(c)
  \/ RebuildStart \/ RebuildRead \/ RebuildBatch \/ RebuildSwitch \/ RebuildCommit
  \/ RebuildFails \/ RebuildCleanup

EiSpec == EiInit /\ [][EiNext]_eiVars

-------------------------------------------------------------------------------
(* OpenSearch is a projection "whose loss must not lose authoritative       *)
(* data": whatever the index has lost, kept or never got, a retrieval gives *)
(* current evidence of the resume only, and never nothing when the database *)
(* has verified evidence with a word of the requirement.                    *)
RetrievedIsCurrent ==
  [][\A r \in Run : run[r].pc # "done" /\ run'[r].pc = "done" =>
       /\ got'[r] \subseteq Current(run[r].cv)
       /\ got'[r] = {} => Current(run[r].cv) \cap Similar = {}]_eiVars
===============================================================================
