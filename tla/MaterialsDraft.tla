---------------------------- MODULE MaterialsDraft ----------------------------
(***************************************************************************)
(* The materials of one application (app/services/materials_generation.py): *)
(* a search and the person's request draft the letter and open answers with *)
(* a model, while the person edits them, decides, or confirms the real      *)
(* submission that a browser worker then makes.                             *)
(***************************************************************************)
CONSTANTS Field,     \* the screening questions
          Sensitive, \* those of SENSITIVE_CATEGORIES
          Required,  \* those that must be answered
          Draft      \* the requests that draft

VARIABLES
  board,   \* the vacancy is on a Greenhouse board, whose form is only prepared
  open,    \* the application is awaiting_review
  letter,  \* who wrote the cover letter, and whether its language fits the vacancy's
  answers, \* where each answer comes from: answer_source
  drafts,  \* the drafting requests and what their sessions have read
  task,    \* the task of the application
  taken,   \* the answers that the worker has loaded for the real submission
  unseen   \* history: a draft has changed something since the person last looked

mdVars == <<board, open, letter, answers, drafts, task, taken, unseen>>

Source  == {"none", "fact", "person", "ai"}
Letter  == [by : {"none", "person", "ai"}, fits : BOOLEAN]
NoLetter == [by |-> "none", fits |-> TRUE]
Nothing  == [f \in Field |-> "none"]
Idle     == [pc |-> "idle", force |-> FALSE, open |-> FALSE, letter |-> NoLetter, read |-> Nothing]

MdTypeOK ==
  /\ {board, open, unseen} \subseteq BOOLEAN /\ letter \in Letter
  /\ answers \in [Field -> Source] /\ taken \in [Field -> Source]
  /\ drafts \in [Draft -> [pc : {"idle", "read", "asked", "correcting", "writing"},
                           force : BOOLEAN, open : BOOLEAN, letter : Letter,
                           read : [Field -> Source]]]
  /\ task \in {"review", "form", "apply", "taken", "failed"}

(* prepare_application answers questions, sensitive ones too, from facts.   *)
MdInit ==
  /\ board \in BOOLEAN /\ open = TRUE /\ letter = NoLetter /\ answers \in [Field -> {"none", "fact"}]
  /\ drafts = [d \in Draft |-> Idle] /\ task = "review" /\ taken = Nothing
  /\ unseen = TRUE

application == <<board, open, letter, answers, task, taken, unseen>>
Blank(l)    == l.by = "none"
Go(d, r)    == drafts' = [drafts EXCEPT ![d] = r]

-------------------------------------------------------------------------------
(* Drafting                                                                 *)

(* The request's session loads the application: its answers stay as they    *)
(* were read (expire_on_commit=False), in a search since it was staged.     *)
Read(d) ==
  /\ drafts[d] = Idle
  /\ \E force \in BOOLEAN :
       Go(d, [pc |-> "read", force |-> force, open |-> open, letter |-> letter, read |-> answers])
  /\ UNCHANGED application

\* needs_material_refresh, as the session has the application.
NeedsRefresh(r) ==
  r.open /\ \/ Blank(r.letter) \/ ~r.letter.fits
            \/ \E f \in Field \ Sensitive : r.read[f] = "none"

(* draft_materials: refused, or the model is asked.                         *)
Ask(d) ==
  LET r == drafts[d]
  IN  /\ r.pc = "read"
      /\ Go(d, IF r.open /\ (r.force \/ NeedsRefresh(r)) THEN [r EXCEPT !.pc = "asked"] ELSE Idle)
      /\ UNCHANGED application

(* The answer is dropped when the application is decided by then; the       *)
(* status and the letter are read anew, the answers are not.  A letter in   *)
(* the wrong language is asked for once more.                               *)
Answered(d) ==
  LET r == drafts[d]
      now == [r EXCEPT !.open = open, !.letter = letter]
  IN  /\ r.pc \in {"asked", "correcting"}
      /\ \/ ~open /\ Go(d, Idle)
         \/ open /\ Go(d, [now EXCEPT !.pc = "writing"])
         \/ open /\ Go(d, IF r.pc = "asked" THEN [now EXCEPT !.pc = "correcting"] ELSE Idle)
      /\ UNCHANGED application

ModelFails(d) ==
  /\ drafts[d].pc \in {"asked", "correcting"} /\ Go(d, Idle)
  /\ UNCHANGED application

\* The model's word for everything it has answered.
FilledWith(r, given) == {f \in given : r.read[f] = "none"}
\* Of the answers the model gives, asked for or not, those that are written.
Filled(r, given) == {f \in given \ Sensitive : r.read[f] = "none"}

Replaces(r) == r.force \/ Blank(r.letter) \/ ~r.letter.fits

Write(d) ==
  LET r == drafts[d]
  IN  /\ r.pc = "writing" /\ Go(d, Idle)
      /\ \E given \in SUBSET Field :
           LET filled == Filled(r, given)
           IN  /\ answers' = [f \in Field |-> IF f \in filled THEN "ai" ELSE answers[f]]
               /\ unseen' = (unseen \/ filled # {} \/ Replaces(r))
      /\ letter' = IF Replaces(r) THEN [by |-> "ai", fits |-> TRUE] ELSE letter
      /\ UNCHANGED <<board, open, task, taken>>

-------------------------------------------------------------------------------
(* The person                                                               *)

(* update_application_materials: a changed answer becomes the person's, one *)
(* that is sent back as it was keeps its source.                            *)
Edit ==
  /\ open
  /\ \E l \in [by : {"person"}, fits : BOOLEAN] \cup {NoLetter, letter} : letter' = l
  /\ \E changed \in SUBSET Field, to \in {"person", "none"} :
       answers' = [f \in Field |-> IF f \in changed THEN to ELSE answers[f]]
  /\ unseen' = FALSE
  /\ UNCHANGED <<board, open, drafts, task, taken>>

\* decide_application.
Decide ==
  /\ open /\ open' = FALSE
  /\ UNCHANGED <<board, letter, answers, drafts, task, taken, unseen>>

Answerable(as) == \A f \in Required : as[f] # "none"
\* A gate that asks for answers and not for whose they are.
ReviewedAnyway(as) == TRUE
Reviewed(as) == \A f \in Sensitive : as[f] \in {"none", "person"}

\* What a browser task is scheduled with: all that is required, and no sensitive
\* answer that the person has not given.
Gate == open /\ Answerable(answers) /\ Reviewed(answers)

(* schedule_real_submission_apply: the person confirms the submission of    *)
(* what they see; the application stays awaiting_review until it is sent.   *)
Confirm ==
  /\ ~board /\ task # "taken" /\ Gate
  /\ task' = "apply" /\ unseen' = FALSE
  /\ UNCHANGED <<board, open, letter, answers, drafts, taken>>

\* schedule_greenhouse_browser_review.
Prepare ==
  /\ board /\ task \in {"review", "form"} /\ Gate
  /\ task' = "form" /\ unseen' = FALSE
  /\ UNCHANGED <<board, open, letter, answers, drafts, taken>>

(* _load_apply_inputs: the worker takes letter and answers as they are now. *)
Load ==
  /\ task = "apply" /\ open
  /\ task' = "taken" /\ taken' = answers
  /\ UNCHANGED <<board, open, letter, answers, drafts, unseen>>

(* GreenhouseBrowserReviewHandler: the form is filled with what there is    *)
(* now, the person is asked again or the task has failed.                   *)
FillForm ==
  /\ task = "form"
  /\ IF open THEN taken' = answers /\ task' \in {"review", "form", "failed"}
             ELSE taken' = taken /\ task' = "failed"
  /\ UNCHANGED <<board, open, letter, answers, drafts, unseen>>

(* _mark_application_submitted.                                             *)
Submitted ==
  /\ task = "taken" /\ open /\ open' = FALSE
  /\ UNCHANGED <<board, letter, answers, drafts, task, taken, unseen>>

MdNext ==
  \/ \E d \in Draft : Read(d) \/ Ask(d) \/ Answered(d) \/ ModelFails(d) \/ Write(d)
  \/ Edit \/ Decide \/ Confirm \/ Prepare \/ Load \/ FillForm \/ Submitted

MdSpec == MdInit /\ [][MdNext]_mdVars

-------------------------------------------------------------------------------
(* "never overwritten by its output, even if the model tries to answer them *)
(* anyway": a sensitive answer that goes to the site is one the person gave *)
(* -- not a fact's, not a draft's that was under way.                       *)
SensitiveIsHuman == \A f \in Sensitive : taken[f] \in {"none", "person"}

(* "A human still reviews and edits (or clears) it ... before any apply     *)
(* step" (materials_generation.py): the worker takes nothing that a draft   *)
(* has written since the person confirmed.  A draft that was asked for      *)
(* before the confirmation is written after it all the same.                *)
SubmittedWasReviewed ==
  [][task = "apply" /\ task' = "taken" => ~unseen]_mdVars
===============================================================================
