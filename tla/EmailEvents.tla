----------------------------- MODULE EmailEvents -----------------------------
(***************************************************************************)
(* Employer e-mails and the applications they are about                    *)
(* (app/services/application_email_events.py): messages arrive in any      *)
(* order and again and again, are classified and linked with more or less  *)
(* certainty, move the status of an application or ask the person, who     *)
(* links or dismisses them.                                                *)
(*                                                                         *)
(* The classifier and the matcher are the environment: their answer about  *)
(* a message is any Reading, and another one each time it is synchronised. *)
(***************************************************************************)
EXTENDS ApplicationLifecycle

CONSTANTS
  Application,
  Email,      \* messages, by their fingerprint
  None,
  StartsAs,   \* statuses applications are created with
  Decisions,  \* statuses an e-mail category may map to
  ByHand      \* statuses the person may set

ASSUME EmailAssumption ==
  /\ StartsAs \subseteq PRE_SUBMISSION /\ ByHand \subseteq Status
  /\ Decisions \subseteq {"approved"} \cup TRACKING
  /\ None \notin Application /\ None \notin Status /\ None \notin Email

VARIABLES
  status,    \* of each application
  recorded,  \* applications with a confirmed row in the submission ledger
  event      \* application_email_events, by message

vars == <<status, recorded, event>>

TERMINAL_STATUSES == {"rejected", "employer_rejected", "skipped", "withdrawn"}

\* target stands for the category: status_for_category of it.
Event == [known: BOOLEAN, app: Application \cup {None}, target: Decisions \cup {None},
          applied: BOOLEAN, flagged: BOOLEAN, resolved: BOOLEAN, previous: Status \cup {None}]

TypeOK ==
  /\ status \in [Application -> Status] /\ recorded \subseteq Application
  /\ event \in [Email -> Event]

Unknown == [known |-> FALSE, app |-> None, target |-> None, applied |-> FALSE,
            flagged |-> FALSE, resolved |-> FALSE, previous |-> None]

Init ==
  /\ status \in [Application -> StartsAs] /\ recorded = {}
  /\ event = [e \in Email |-> Unknown]

-------------------------------------------------------------------------------
(* A transaction works on the rows it will commit: the statuses, the        *)
(* confirmed submissions and its event.  "moved" is what the code returns.  *)

Rows(row) == [status |-> status, recorded |-> recorded, event |-> row, moved |-> FALSE]

Refused(w, a, target, actor) == check_transition(w.status[a], target, actor) = "illegal"

\* A refusal that leaves no trace would lose the message.
MoveSilently(w, a, target, actor) ==
  IF check_transition(w.status[a], target, actor) = "moves"
    THEN [w EXCEPT !.status[a] = target, !.moved = TRUE,
                   !.recorded = IF target \in SUBMISSION_IMPLIED THEN @ \cup {a} ELSE @]
    ELSE w

\* The status alone: the ledger would not know that the application was sent.
MoveWithoutRecord(w, a, target, actor) ==
  CASE Refused(w, a, target, actor) -> [w EXCEPT !.event.flagged = TRUE]
    [] check_transition(w.status[a], target, actor) = "moves" ->
         [w EXCEPT !.status[a] = target, !.moved = TRUE]
    [] OTHER -> w

(* _move_status: through the lifecycle; a refusal queues the message, a     *)
(* status that implies a submission confirms one in the ledger.             *)
MoveStatus(w, a, target, actor) ==
  CASE Refused(w, a, target, actor) -> [w EXCEPT !.event.flagged = TRUE]
    [] check_transition(w.status[a], target, actor) = "moves" ->
         [w EXCEPT !.status[a] = target, !.moved = TRUE,
                   !.recorded = IF target \in SUBMISSION_IMPLIED THEN @ \cup {a} ELSE @]
    [] OTHER -> w

\* The same without its memory of what was applied.
ApplyAgain(w, target) ==
  IF w.event.app = None THEN w
  ELSE LET x == MoveStatus(w, w.event.app, target, "email")
       IN  [x EXCEPT !.event.applied = @ \/ x.moved]

(* _apply_status                                                            *)
ApplyStatus(w, target) ==
  IF w.event.applied \/ w.event.app = None THEN w
  ELSE LET x == MoveStatus(w, w.event.app, target, "email")
       IN  [x EXCEPT !.event.applied = x.moved]

(* _mark_needs_review                                                       *)
MarkNeedsReview(w) ==
  LET a == w.event.app
  IN  IF a = None \/ (a # None /\ w.status[a] \in TERMINAL_STATUSES \cup {"needs_review"})
        THEN w
        ELSE LET x == MoveStatus(w, a, "needs_review", "email")
             IN  IF x.moved THEN [x EXCEPT !.event.previous = w.status[a]] ELSE x

\* Putting back what was remembered, also when nothing was.
RevertUnchecked(w) ==
  IF w.event.app = None THEN w
  ELSE [w EXCEPT !.status[w.event.app] = w.event.previous, !.event.previous = None]

\* The status is put back from wherever the application is by now.
RevertAnyStatus(w) ==
  IF w.event.app = None THEN w
  ELSE [w EXCEPT !.status[w.event.app] = IF w.event.previous = None THEN "saved"
                                         ELSE w.event.previous,
                 !.event.previous = None]

(* _revert_needs_review: without a previous status the code takes "saved".  *)
RevertNeedsReview(w) ==
  LET a == w.event.app
      previous == IF w.event.previous = None THEN "saved" ELSE w.event.previous
  IN  IF a = None \/ (a # None /\ w.status[a] # "needs_review") THEN w
      ELSE [MoveStatus(w, a, previous, "human") EXCEPT !.event.previous = None]

Commit(e, w) ==
  /\ status' = w.status /\ recorded' = w.recorded
  /\ event' = [event EXCEPT ![e] = w.event]

-------------------------------------------------------------------------------
(* Synchronisation                                                          *)

\* What the classifier and the matcher say: the status of the category, whether
\* they are confident, the best application, whether it is the only candidate,
\* and whether they are the LLM and its retrieval, which may ask for a review.
Reading == {r \in [target: Decisions \cup {None}, sure: BOOLEAN, app: Application \cup {None},
                   matched: BOOLEAN, llm: BOOLEAN] :
              /\ r.matched => r.app # None
              /\ ~r.llm => /\ r.matched <=> r.app # None
                           /\ r.target # None => r.sure}

\* _decide
Applies(r) == r.target # None /\ r.matched /\ r.sure
NeedsReview(r) == ~Applies(r) /\ (r.target # None \/ ~r.sure)

Handled(w, r) ==
  CASE Applies(r)              -> ApplyStatus(w, r.target)
    [] NeedsReview(r) /\ r.llm -> MarkNeedsReview(w)
    [] OTHER                   -> w

(* _ingest_common, a message seen for the first time.                       *)
IngestNew(e) ==
  /\ ~event[e].known
  /\ \E r \in Reading :
       Commit(e, Handled(Rows([Unknown EXCEPT !.known = TRUE, !.app = r.app,
                                 !.target = r.target, !.flagged = NeedsReview(r)]), r))

(* _ingest_common, a message that is known and not resolved: an application *)
(* is filled in, the category stays, and a change of status takes the       *)
(* message out of the queue.  What only a refusal changed is not committed  *)
(* unless a later message of the batch commits.                             *)
IngestAgain(e) ==
  /\ event[e].known /\ ~event[e].resolved
  /\ \E r \in Reading :
       LET row == [event[e] EXCEPT !.app = IF @ = None THEN r.app ELSE @]
           w   == Handled(Rows(row), r)
       IN  \/ Commit(e, IF w.moved THEN [w EXCEPT !.event.flagged = FALSE] ELSE w)
           \/ ~w.moved /\ row = event[e] /\ UNCHANGED vars

(* _ingest_common, a message that was resolved: nothing happens to it.      *)
IngestResolved(e) ==
  /\ event[e].resolved
  /\ UNCHANGED vars

-------------------------------------------------------------------------------
(* The person                                                               *)

Resolved(w) == [w EXCEPT !.event.resolved = TRUE, !.event.flagged = FALSE]

(* resolve, action "link".  A refused status fails the whole request.       *)
Link(e, a) ==
  /\ event[e].known /\ ~event[e].resolved
  /\ LET w      == Rows(event[e])
         linked == IF w.event.app = a THEN w
                   ELSE [RevertNeedsReview(w) EXCEPT !.event.app = a, !.event.applied = FALSE]
         target == w.event.target
     IN  IF target = None
           THEN Commit(e, Resolved(RevertNeedsReview(linked)))
           ELSE /\ ~Refused(linked, a, target, "human")
                /\ Commit(e, Resolved([MoveStatus(linked, a, target, "human")
                                         EXCEPT !.event.applied = TRUE]))

(* resolve, action "dismiss".                                               *)
Dismiss(e) ==
  /\ event[e].known /\ ~event[e].resolved
  /\ Commit(e, Resolved([RevertNeedsReview(Rows(event[e])) EXCEPT !.event.app = None]))

(* update_application_status, with the manual record it implies.            *)
UpdateStatus(a, new) ==
  /\ new \in ByHand /\ check_transition(status[a], new, "human") = "moves"
  /\ status' = [status EXCEPT ![a] = new]
  /\ recorded' = IF new \in SUBMISSION_IMPLIED /\ status[a] \notin POST_SUBMISSION
                   THEN recorded \cup {a} ELSE recorded
  /\ UNCHANGED event

MessageStep(e) ==
  \/ IngestNew(e) \/ IngestAgain(e) \/ IngestResolved(e) \/ Dismiss(e)
  \/ \E a \in Application : Link(e, a)

Next ==
  \/ \E e \in Email : MessageStep(e)
  \/ \E a \in Application, new \in ByHand : UpdateStatus(a, new)

Spec == Init /\ [][Next]_vars

-------------------------------------------------------------------------------
(* Properties                                                               *)

(* However a status that only exists after sending was reached, a message,  *)
(* a link, a dismissal that puts it back or the person's hand, a confirmed  *)
(* row keeps the application from being sent again                          *)
(* (application_email_events.py:442-448, docs/email-foundation.md:135-137). *)
ImpliedIsOnRecord == \A a \in Application : status[a] \in SUBMISSION_IMPLIED => a \in recorded

(* Neither a message nor its resolution moves an application that is over,  *)
(* in whatever order messages arrive and reviews are answered               *)
(* (docs/email-foundation.md:78).                                           *)
TerminalStays ==
  [][event' # event =>
       \A a \in Application : status[a] \in TERMINAL_STATUSES => status'[a] = status[a]]_vars

(* A message decides once: after its status was applied, synchronising it   *)
(* again may ask for a review but does not apply a status again, whatever   *)
(* the classifier says now and wherever the person has put the application  *)
(* meanwhile (application_email_events.py:451-466).                         *)
AppliedOnce ==
  [][\A e \in Email : status' # status /\ event[e].applied /\ IngestAgain(e) =>
       \A a \in Application : status'[a] \in {status[a], "needs_review"}]_vars

(* A message that carries a decision is not dropped on arrival: its status  *)
(* is applied, or already true, or the message is in the review queue, also *)
(* when the lifecycle refuses (application_email_events.py:414-441).        *)
NothingIsSilent ==
  [][\A e \in Email :
       ~event[e].known /\ event'[e].known /\ event'[e].target # None =>
         \/ event'[e].applied \/ event'[e].flagged
         \/ event'[e].app # None /\ status'[event'[e].app] = event'[e].target]_vars

(* Together: every message decides exactly once.                            *)
EachDecidesOnce == NothingIsSilent /\ AppliedOnce
===============================================================================
