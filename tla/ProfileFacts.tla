------------------------------ MODULE ProfileFacts ------------------------------
(***************************************************************************)
(* The facts of one person: import batches that extract candidates, compare *)
(* them with the facts on record and commit them, the person's own changes, *)
(* and the reviewed profile document the changes are copied to in the RAG   *)
(* service.  A fact's key stands for its (category, name), which is unique, *)
(* and its value for how much it says.                                      *)
(***************************************************************************)
EXTENDS Integers, FiniteSets

CONSTANTS Key,     \* (category, name) pairs
          Import,  \* import requests, each with its batch
          Manual,  \* batch of a fact nobody imported
          MaxChanges  \* bound: changes the person makes

VARIABLES
  facts,   \* profile_facts by key
  batch,   \* fact_import_batches.status, "none" while nothing is committed
  import,  \* the requests: where each is, its option and its candidates
  sending, \* profile documents on their way to the RAG service
  profile, \* the profile document the RAG service has
  reviewed,\* history: what a person entered as verified or accepted unseen
  changes  \* changes the person has made

vars == <<facts, batch, import, sending, profile, reviewed, changes>>

Value  == 1..2
Entry  == Key \X Value
Absent == [value |-> 0, verified |-> FALSE, status |-> "none", of |-> Manual]
Fact   == [value : Value, verified : BOOLEAN,
           status : {"active", "extracted", "superseded"}, of : Import \cup {Manual}]
Idle   == [pc |-> "new", accept |-> FALSE, found |-> {}, merge |-> {},
           insert |-> {}, doomed |-> FALSE]

TypeOK ==
  /\ facts \in [Key -> Fact \cup {Absent}]
  /\ batch \in [Import -> {"none", "completed", "failed", "undone"}]
  /\ import \in [Import -> [pc : {"new", "extract", "save", "done"}, accept : BOOLEAN,
                   found : SUBSET Entry, merge : SUBSET Entry, insert : SUBSET Entry,
                   doomed : BOOLEAN]]
  /\ sending \subseteq SUBSET Entry /\ profile \subseteq Entry /\ reviewed \subseteq Entry
  /\ changes \in 0..MaxChanges

Init ==
  /\ facts = [k \in Key |-> Absent] /\ batch = [b \in Import |-> "none"]
  /\ import = [b \in Import |-> Idle]
  /\ sending = {} /\ profile = {} /\ reviewed = {} /\ changes = 0

Exists(k) == facts[k] # Absent

\* _build_content: the verified facts, whatever their status.
Content(f) == {e \in Entry : f[e[1]].verified /\ f[e[1]].value = e[2]}

\* The request goes on to sync_profile: the document is built from the facts as
\* they are then, and sent.
Change(f) == facts' = f /\ sending' = sending \cup {Content(f)}

-------------------------------------------------------------------------------
(* Importing                                                                *)

\* What the parser finds in a structured file, or the model in a text.
Candidates == {found \in SUBSET Entry : \A d, e \in found : d[1] = e[1] => d = e}

(* import_from_file and extract_from_resume flush a batch in "processing"   *)
(* that nobody else sees, and wait for the candidates.                      *)
StartImport(b) ==
  /\ import[b].pc = "new"
  /\ \E found \in Candidates, accept \in BOOLEAN :
       import' = [import EXCEPT ![b] = [Idle EXCEPT !.pc = "extract",
                    !.accept = accept, !.found = found]]
  /\ UNCHANGED <<facts, batch, sending, profile, reviewed, changes>>

(* Extraction fails: the batch is kept, as failed.                          *)
ExtractFails(b) ==
  /\ import[b].pc = "extract"
  /\ import' = [import EXCEPT ![b].pc = "done"]
  /\ batch' = [batch EXCEPT ![b] = "failed"]
  /\ UNCHANGED <<facts, sending, profile, reviewed, changes>>

\* existing_by_key: a superseded fact is not among the existing ones.
Known == {k \in Key : facts[k].status \in {"active", "extracted"}}

(* check_duplicates: a candidate that says more than the fact on record is  *)
(* to be merged, any other that is known is a duplicate; one that is not    *)
(* known is new, or by its name near a known fact, and to be merged there.  *)
(* A new fact that was extracted twice is new both times.                   *)
CheckDuplicates(b) ==
  /\ import[b].pc = "extract"
  /\ LET found == import[b].found
         new   == {e \in found : e[1] \notin Known}
         more  == {e \in found : e[1] \in Known /\ e[2] > facts[e[1]].value}
     IN  \E near \in SUBSET new, k \in Key, twice \in BOOLEAN :
           /\ near # {} => k \in Known
           /\ twice => new # near
           /\ import' = [import EXCEPT ![b] =
                [@ EXCEPT !.pc = "save", !.insert = new \ near,
                          !.merge = more \cup {<<k, e[2]>> : e \in near}, !.doomed = twice]]
  /\ UNCHANGED <<facts, batch, sending, profile, reviewed, changes>>

\* _save_candidates that merges what a candidate adds without being asked to.
SavedAlways(b) ==
  [k \in Key |->
     IF \E v \in Value : <<k, v>> \in import[b].insert
       THEN [value |-> CHOOSE v \in Value : <<k, v>> \in import[b].insert,
             verified |-> import[b].accept,
             status |-> IF import[b].accept THEN "active" ELSE "extracted", of |-> b]
     ELSE IF \E v \in Value : <<k, v>> \in import[b].merge
       THEN [facts[k] EXCEPT !.value = CHOOSE v \in Value : <<k, v>> \in import[b].merge]
     ELSE facts[k]]

\* _save_candidates: new facts, and with auto_accept the merges.
Saved(b) ==
  [k \in Key |->
     IF \E v \in Value : <<k, v>> \in import[b].insert
       THEN [value |-> CHOOSE v \in Value : <<k, v>> \in import[b].insert,
             verified |-> import[b].accept,
             status |-> IF import[b].accept THEN "active" ELSE "extracted", of |-> b]
     ELSE IF import[b].accept /\ \E v \in Value : <<k, v>> \in import[b].merge
       THEN [facts[k] EXCEPT !.value = CHOOSE v \in Value : <<k, v>> \in import[b].merge]
     ELSE facts[k]]

\* The commit the database refuses: a new fact that exists by now, superseded or
\* not, the same one twice, or a merge with a row that is gone.
Refused(b) == import[b].doomed \/ \E e \in import[b].insert : Exists(e[1])

(* The facts and the completed batch are one commit.                        *)
Commit(b) ==
  /\ import[b].pc = "save" /\ ~Refused(b)
  /\ import' = [import EXCEPT ![b].pc = "done"]
  /\ batch' = [batch EXCEPT ![b] = "completed"]
  /\ reviewed' = reviewed \cup
       (IF import[b].accept THEN import[b].insert \cup import[b].merge ELSE {})
  /\ Change(Saved(b)) /\ UNCHANGED <<profile, changes>>

\* A refusal that finds the facts committed one by one.
RefusedHalfway(b) ==
  /\ import[b].pc = "save" /\ Refused(b)
  /\ import' = [import EXCEPT ![b].pc = "done"]
  /\ facts' = [k \in Key |-> IF Exists(k) THEN facts[k] ELSE Saved(b)[k]]
  /\ UNCHANGED <<batch, sending, profile, reviewed, changes>>

(* A refused commit takes the batch with it: marking it as failed needs the *)
(* transaction that has just been lost.                                     *)
CommitRefused(b) ==
  /\ import[b].pc = "save" /\ Refused(b)
  /\ import' = [import EXCEPT ![b].pc = "done"]
  /\ UNCHANGED <<facts, batch, sending, profile, reviewed, changes>>

(* undo_batch: what was not verified since is superseded; merges stay, and  *)
(* the profile is not sent.                                                 *)
Undo(b) ==
  /\ batch[b] # "none"
  /\ batch' = [batch EXCEPT ![b] = "undone"]
  /\ facts' = [k \in Key |-> IF facts[k].of = b /\ ~facts[k].verified
                 THEN [facts[k] EXCEPT !.status = "superseded"] ELSE facts[k]]
  /\ UNCHANGED <<import, sending, profile, reviewed, changes>>

-------------------------------------------------------------------------------
(* The person                                                               *)

\* A change of the person's own: what it says, and what of that is verified.
Edit(f, verified) ==
  /\ changes < MaxChanges /\ changes' = changes + 1
  /\ Change(f) /\ reviewed' = reviewed \cup verified
  /\ UNCHANGED <<batch, profile>>

Verified(k, v, verified) == IF verified THEN {<<k, v>>} ELSE {}

(* add_profile_fact; confirm_profile_facts adds verified ones.              *)
AddFact(k, v, verified) ==
  /\ ~Exists(k)
  /\ Edit([facts EXCEPT ![k] = [value |-> v, verified |-> verified, status |-> "active",
                                of |-> Manual]], Verified(k, v, verified))
  /\ UNCHANGED import

(* update_profile_fact (without a change of the key): status and batch stay.*)
UpdateFact(k, v, verified) ==
  /\ Exists(k)
  /\ Edit([facts EXCEPT ![k].value = v, ![k].verified = verified], Verified(k, v, verified))
  /\ UNCHANGED import

DeleteFact(k) ==
  /\ Exists(k) /\ Edit([facts EXCEPT ![k] = Absent], {})
  /\ import' = [b \in Import |->
       IF import[b].accept /\ \E e \in import[b].merge : e[1] = k
         THEN [import[b] EXCEPT !.doomed = TRUE] ELSE import[b]]

-------------------------------------------------------------------------------
(* The RAG service                                                          *)

(* ingest_document, or delete_document for an empty profile: requests are   *)
(* served in any order, and the last to be served wins (a lock conflict is  *)
(* answered by sending the same content again).                             *)
Indexed(c) == c \in sending /\ profile' = c /\ sending' = sending \ {c}
              /\ UNCHANGED <<facts, batch, import, reviewed, changes>>

(* The service cannot be reached: logged and forgotten.                     *)
NotIndexed(c) == c \in sending /\ sending' = sending \ {c}
                 /\ UNCHANGED <<facts, batch, import, profile, reviewed, changes>>

Next ==
  \/ \E b \in Import : StartImport(b) \/ ExtractFails(b) \/ CheckDuplicates(b)
                       \/ Commit(b) \/ CommitRefused(b) \/ Undo(b)
  \/ \E k \in Key, v \in Value, verified \in BOOLEAN :
       AddFact(k, v, verified) \/ UpdateFact(k, v, verified)
  \/ \E k \in Key : DeleteFact(k)
  \/ \E c \in sending : Indexed(c) \/ NotIndexed(c)

Spec == Init /\ [][Next]_vars

-------------------------------------------------------------------------------
(* Properties                                                               *)

(* Imports are all or nothing, whatever other requests commit between the   *)
(* comparison and the commit, and when the commit is refused: an imported   *)
(* fact is never without the completed (or undone) batch that could undo it.*)
FactsHaveTheirBatch ==
  \A k \in Key : Exists(k) /\ facts[k].of \in Import
                   => batch[facts[k].of] \in {"completed", "undone"}

(* "Only what is submitted here becomes usable" and is_verified "gates      *)
(* everything downstream": the reviewed profile never says, in the database *)
(* or in any document sent, what no person entered or accepted, although    *)
(* extracted facts are merged, undone and overtaken in between.             *)
OnlyReviewedIsIndexed ==
  \A c \in sending \cup {profile, Content(facts)} : c \subseteq reviewed

(* Together: what an import brought in can be taken back, and none of it    *)
(* counts before a person has looked at it.                                 *)
FactsAreAccountedFor == FactsHaveTheirBatch /\ OnlyReviewedIsIndexed
===============================================================================
