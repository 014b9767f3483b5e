--------------------------- MODULE EmailEventsProofs ---------------------------
(***************************************************************************)
(* Theorems about EmailEvents, for any number of messages, applications,   *)
(* categories and corrections by hand.                                     *)
(*                                                                         *)
(* Every transaction is a chain of operators on the rows it will commit.   *)
(* Each operator is shown to keep the rows Sound, and a commit of Sound    *)
(* rows keeps the invariant and leaves terminal applications alone.        *)
(***************************************************************************)
EXTENDS EmailEvents, TLAPS

\* The rows a transaction holds.
World == [status: [Application -> Status], recorded: SUBSET Application, event: Event,
          moved: BOOLEAN]

OnRecord(w) == \A a \in Application : w.status[a] \in SUBMISSION_IMPLIED => a \in w.recorded

\* As far as the transaction is concerned, what was over is still as it was.
KeepsTerminal(w) ==
  \A a \in Application : status[a] \in TERMINAL_STATUSES => w.status[a] = status[a]

Sound(w) == w \in World /\ OnRecord(w) /\ KeepsTerminal(w)

Inv == TypeOK /\ ImpliedIsOnRecord

-------------------------------------------------------------------------------

\* The table has no edge from a terminal status to what an e-mail decides.
LEMMA NoWayOut ==
  ASSUME NEW current \in TERMINAL_STATUSES, NEW target \in {"approved"} \cup TRACKING,
         NEW actor \in {"email", "human"}
  PROVE  check_transition(current, target, actor) # "moves"
  BY DEF check_transition, TERMINAL_STATUSES, TRACKING, TRANSITIONS, EMAIL_EXTRA,
         PRE_SUBMISSION, EXITS

\* _move_status, from a status that is not over or to one an e-mail decides.
LEMMA MoveStatusIsSound ==
  ASSUME NEW w, Sound(w), NEW a \in Application, NEW target \in Status,
         NEW actor \in {"email", "human"},
         w.status[a] \notin TERMINAL_STATUSES \/ target \in {"approved"} \cup TRACKING
  PROVE  Sound(MoveStatus(w, a, target, actor))
<1>1. w \in World /\ OnRecord(w) /\ KeepsTerminal(w)
  BY DEF Sound
<1>2. CASE Refused(w, a, target, actor)
  <2>1. MoveStatus(w, a, target, actor) = [w EXCEPT !.event.flagged = TRUE]
    BY <1>2, Zenon DEF MoveStatus, Refused
  <2>2. [w EXCEPT !.event.flagged = TRUE] \in World
    BY <1>1 DEF World, Event
  <2>3. /\ [w EXCEPT !.event.flagged = TRUE].status = w.status
        /\ [w EXCEPT !.event.flagged = TRUE].recorded = w.recorded
    BY <1>1 DEF World
  <2> QED BY <1>1, <2>1, <2>2, <2>3 DEF OnRecord, KeepsTerminal, Sound
<1>3. CASE check_transition(w.status[a], target, actor) = "moves"
  <2> DEFINE x == [w EXCEPT !.status[a] = target, !.moved = TRUE,
                     !.recorded = IF target \in SUBMISSION_IMPLIED THEN @ \cup {a} ELSE @]
  <2>1. MoveStatus(w, a, target, actor) = x
    BY <1>3, Zenon DEF MoveStatus, Refused
  <2>2. x \in World
    BY <1>1 DEF World
  <2>3. OnRecord(x)
    BY <1>1 DEF World, OnRecord
  <2>4. w.status[a] \notin TERMINAL_STATUSES
    BY <1>3, NoWayOut
  <2>5. KeepsTerminal(x)
    BY <1>1, <2>4 DEF World, KeepsTerminal
  <2> QED BY <2>1, <2>2, <2>3, <2>5 DEF Sound
<1>4. CASE /\ ~Refused(w, a, target, actor)
           /\ check_transition(w.status[a], target, actor) # "moves"
  <2>1. MoveStatus(w, a, target, actor) = w
    BY <1>4 DEF MoveStatus
  <2> QED BY <2>1
<1> QED BY <1>2, <1>3, <1>4

\* What becomes of the event row does not matter to the other two.
LEMMA EventIsFree ==
  ASSUME NEW w, Sound(w), NEW row \in Event
  PROVE  /\ [w EXCEPT !.event = row] \in World
         /\ Sound([w EXCEPT !.event = row])
  BY DEF Sound, World, OnRecord, KeepsTerminal

\* What a category may map to.
LEMMA DecisionsAreStatuses ==
  Decisions \subseteq Status \ {None} /\ Decisions \subseteq {"approved"} \cup TRACKING
  BY EmailAssumption DEF Status, PRE_SUBMISSION, POST_SUBMISSION, SUBMISSION_IMPLIED, TRACKING

\* _apply_status.
LEMMA ApplyStatusIsSound ==
  ASSUME NEW w, Sound(w), NEW target \in Decisions
  PROVE  Sound(ApplyStatus(w, target))
<1>1. CASE w.event.applied \/ w.event.app = None
  BY <1>1 DEF ApplyStatus
<1>2. CASE ~(w.event.applied \/ w.event.app = None)
  <2> DEFINE x == MoveStatus(w, w.event.app, target, "email")
  <2>1. w.event.app \in Application
    BY <1>2 DEF Sound, World, Event
  <2>2. Sound(x)
    BY <2>1, MoveStatusIsSound, DecisionsAreStatuses
  <2>3. ApplyStatus(w, target) = [x EXCEPT !.event.applied = x.moved]
    BY <1>2 DEF ApplyStatus
  <2> HIDE DEF x
  <2>4. [x.event EXCEPT !.applied = x.moved] \in Event
    BY <2>2 DEF Sound, World, Event
  <2> QED BY <2>2, <2>3, <2>4, EventIsFree
<1> QED BY <1>1, <1>2

\* _mark_needs_review.
LEMMA MarkNeedsReviewIsSound ==
  ASSUME NEW w, Sound(w)
  PROVE  Sound(MarkNeedsReview(w))
<1> DEFINE a == w.event.app
           x == MoveStatus(w, a, "needs_review", "email")
<1>1. CASE a = None \/ (a # None /\ w.status[a] \in TERMINAL_STATUSES \cup {"needs_review"})
  BY <1>1 DEF MarkNeedsReview
<1>2. CASE ~(a = None \/ (a # None /\ w.status[a] \in TERMINAL_STATUSES \cup {"needs_review"}))
  <2>1. a \in Application /\ w.status[a] \in Status
    BY <1>2 DEF Sound, World, Event
  <2>2. Sound(x)
    BY <1>2, <2>1, MoveStatusIsSound DEF Status, PRE_SUBMISSION
  <2>3. MarkNeedsReview(w) = IF x.moved THEN [x EXCEPT !.event.previous = w.status[a]] ELSE x
    BY <1>2 DEF MarkNeedsReview
  <2> HIDE DEF x
  <2>4. [x.event EXCEPT !.previous = w.status[a]] \in Event
    BY <2>1, <2>2 DEF Sound, World, Event
  <2> QED BY <2>2, <2>3, <2>4, EventIsFree
<1> QED BY <1>1, <1>2

\* _revert_needs_review: it acts on needs_review only, which is not over.
LEMMA RevertNeedsReviewIsSound ==
  ASSUME NEW w, Sound(w)
  PROVE  Sound(RevertNeedsReview(w))
<1> DEFINE a == w.event.app
           previous == IF w.event.previous = None THEN "saved" ELSE w.event.previous
           x == MoveStatus(w, a, previous, "human")
<1>1. CASE a = None \/ (a # None /\ w.status[a] # "needs_review")
  BY <1>1 DEF RevertNeedsReview
<1>2. CASE ~(a = None \/ (a # None /\ w.status[a] # "needs_review"))
  <2>1. a \in Application /\ previous \in Status
    BY <1>2 DEF Sound, World, Event, Status, PRE_SUBMISSION
  <2>2. Sound(x)
    BY <1>2, <2>1, MoveStatusIsSound DEF TERMINAL_STATUSES
  <2>3. RevertNeedsReview(w) = [x EXCEPT !.event.previous = None]
    BY <1>2 DEF RevertNeedsReview
  <2> HIDE DEF x
  <2>4. [x.event EXCEPT !.previous = None] \in Event
    BY <2>2 DEF Sound, World, Event
  <2> QED BY <2>2, <2>3, <2>4, EventIsFree
<1> QED BY <1>1, <1>2

\* Either branch of _ingest_common.
LEMMA HandledIsSound ==
  ASSUME NEW w, Sound(w), NEW r \in Reading
  PROVE  Sound(Handled(w, r))
<1>1. Applies(r) => r.target \in Decisions
  BY DEF Applies, Reading
<1> QED BY <1>1, ApplyStatusIsSound, MarkNeedsReviewIsSound DEF Handled

\* The end of resolve.
LEMMA ResolvedIsSound ==
  ASSUME NEW w, Sound(w)
  PROVE  Sound(Resolved(w))
<1>1. [w.event EXCEPT !.resolved = TRUE, !.flagged = FALSE] \in Event
  BY DEF Sound, World, Event
<1>2. Resolved(w) = [w EXCEPT !.event = [w.event EXCEPT !.resolved = TRUE, !.flagged = FALSE]]
  BY DEF Resolved, Sound, World
<1> QED BY <1>1, <1>2, EventIsFree

\* A transaction starts from what the invariant says.
LEMMA RowsAreSound ==
  ASSUME Inv, NEW row \in Event
  PROVE  Sound(Rows(row))
  BY DEF Inv, TypeOK, ImpliedIsOnRecord, Rows, Sound, World, OnRecord, KeepsTerminal

\* What a step that changes a message may do to the applications.
LEMMA CommitIsSound ==
  ASSUME Inv, NEW e \in Email, NEW w, Sound(w), Commit(e, w)
  PROVE  Inv' /\ \A a \in Application : status[a] \in TERMINAL_STATUSES => status'[a] = status[a]
  BY DEF Inv, TypeOK, ImpliedIsOnRecord, Commit, Sound, World, OnRecord, KeepsTerminal

-------------------------------------------------------------------------------

\* "Over" as the action property states it, for a step of any kind.
TerminalKept == \A a \in Application : status[a] \in TERMINAL_STATUSES => status'[a] = status[a]

\* Every transaction on a message.
LEMMA MessageStepIsSound ==
  ASSUME Inv, NEW e \in Email, MessageStep(e)
  PROVE  Inv' /\ TerminalKept
<1>0. event[e] \in Event
  BY DEF Inv, TypeOK
<1>1. CASE IngestNew(e)
  <2>1. PICK r \in Reading :
          Commit(e, Handled(Rows([Unknown EXCEPT !.known = TRUE, !.app = r.app,
                                    !.target = r.target, !.flagged = NeedsReview(r)]), r))
    BY <1>1 DEF IngestNew
  <2> DEFINE row == [Unknown EXCEPT !.known = TRUE, !.app = r.app, !.target = r.target,
                                    !.flagged = NeedsReview(r)]
  <2>2. NeedsReview(r) \in BOOLEAN
    BY DEF NeedsReview
  <2>3. row \in Event
    BY <2>2 DEF Reading, Unknown, Event
  <2> HIDE DEF row
  <2>4. Sound(Handled(Rows(row), r))
    BY <2>3, RowsAreSound, HandledIsSound
  <2> QED BY <2>1, <2>4, CommitIsSound DEF row, TerminalKept
<1>2. CASE IngestAgain(e)
  <2> DEFINE Row(r) == [event[e] EXCEPT !.app = IF @ = None THEN r.app ELSE @]
             W(r) == Handled(Rows(Row(r)), r)
             X(r) == IF W(r).moved THEN [W(r) EXCEPT !.event.flagged = FALSE] ELSE W(r)
  <2>1. PICK r \in Reading : Commit(e, X(r)) \/ UNCHANGED vars
    BY <1>2 DEF IngestAgain
  <2>2. Row(r) \in Event
    BY <1>0 DEF Reading, Event
  <2> HIDE DEF Row
  <2>3. Sound(W(r))
    BY <2>2, RowsAreSound, HandledIsSound
  <2> HIDE DEF W
  <2>4. [W(r).event EXCEPT !.flagged = FALSE] \in Event
    BY <2>3 DEF Sound, World, Event
  <2>5. Sound(X(r))
    BY <2>3, <2>4, EventIsFree
  <2> HIDE DEF X
  <2>6. CASE Commit(e, X(r))
    BY <2>5, <2>6, CommitIsSound DEF TerminalKept
  <2>7. CASE UNCHANGED vars
    BY <2>7 DEF vars, Inv, TypeOK, ImpliedIsOnRecord, TerminalKept
  <2> QED BY <2>1, <2>6, <2>7
<1>3. CASE IngestResolved(e)
  BY <1>3 DEF IngestResolved, vars, Inv, TypeOK, ImpliedIsOnRecord, TerminalKept
<1>4. CASE Dismiss(e)
  <2> DEFINE w == RevertNeedsReview(Rows(event[e]))
             x == [w EXCEPT !.event.app = None]
  <2>1. Sound(w)
    BY <1>0, RowsAreSound, RevertNeedsReviewIsSound
  <2>2. Commit(e, Resolved(x))
    BY <1>4 DEF Dismiss
  <2> HIDE DEF w
  <2>3. [w.event EXCEPT !.app = None] \in Event
    BY <2>1 DEF Sound, World, Event
  <2>4. Sound(x)
    BY <2>1, <2>3, EventIsFree
  <2> HIDE DEF x
  <2> QED BY <2>2, <2>4, ResolvedIsSound, CommitIsSound DEF TerminalKept
<1>5. ASSUME NEW a \in Application, Link(e, a)
      PROVE  Inv' /\ TerminalKept
  <2> DEFINE w      == Rows(event[e])
             v      == RevertNeedsReview(w)
             linked == IF w.event.app = a THEN w
                       ELSE [v EXCEPT !.event.app = a, !.event.applied = FALSE]
             target == w.event.target
             y      == MoveStatus(linked, a, target, "human")
  <2>1. Sound(w) /\ Sound(v) /\ target \in Decisions \cup {None}
    BY <1>0, RowsAreSound, RevertNeedsReviewIsSound DEF Sound, World, Event
  <2>2. \/ target = None /\ Commit(e, Resolved(RevertNeedsReview(linked)))
        \/ target # None /\ Commit(e, Resolved([y EXCEPT !.event.applied = TRUE]))
    BY <1>5 DEF Link
  <2> HIDE DEF v
  <2>3. [v.event EXCEPT !.app = a, !.applied = FALSE] \in Event
    BY <2>1 DEF Sound, World, Event
  <2>4. [v EXCEPT !.event.app = a, !.event.applied = FALSE]
          = [v EXCEPT !.event = [v.event EXCEPT !.app = a, !.applied = FALSE]]
    BY <2>1 DEF Sound, World, Event
  <2>5. Sound(linked)
    BY <2>1, <2>3, <2>4, EventIsFree
  <2> HIDE DEF linked, w, target
  <2>6. CASE target = None
    <3>1. Sound(RevertNeedsReview(linked))
      BY <2>5, RevertNeedsReviewIsSound
    <3> QED BY <2>2, <2>6, <3>1, ResolvedIsSound, CommitIsSound DEF TerminalKept
  <2>7. CASE target # None
    <3>1. Sound(y)
      BY <2>1, <2>5, <2>7, MoveStatusIsSound, DecisionsAreStatuses
    <3> HIDE DEF y
    <3>2. [y.event EXCEPT !.applied = TRUE] \in Event
      BY <3>1 DEF Sound, World, Event
    <3>3. Sound([y EXCEPT !.event.applied = TRUE])
      BY <3>1, <3>2, EventIsFree
    <3> QED BY <2>2, <2>7, <3>3, ResolvedIsSound, CommitIsSound DEF TerminalKept
  <2> QED BY <2>6, <2>7
<1> QED BY <1>1, <1>2, <1>3, <1>4, <1>5 DEF MessageStep

\* The person's own change of a status.
LEMMA UpdateStatusIsSound ==
  ASSUME Inv, NEW a \in Application, NEW new \in ByHand, UpdateStatus(a, new)
  PROVE  Inv' /\ event' = event
<1>1. new \in Status
  BY EmailAssumption
<1>2. TypeOK'
  BY <1>1 DEF UpdateStatus, Inv, TypeOK
\* A status from after the submission that implies it was backed before.
<1>3. ASSUME NEW b \in Application, status'[b] \in SUBMISSION_IMPLIED
      PROVE  b \in recorded'
  <2>1. CASE b # a
    BY <1>3, <2>1 DEF UpdateStatus, Inv, TypeOK, ImpliedIsOnRecord
  <2>2. CASE b = a /\ status[a] \notin POST_SUBMISSION
    BY <1>3, <2>2 DEF UpdateStatus, Inv, TypeOK
  <2>3. CASE b = a /\ status[a] \in SUBMISSION_IMPLIED
    BY <2>3 DEF UpdateStatus, Inv, ImpliedIsOnRecord
  <2>4. CASE b = a /\ status[a] = "withdrawn"
    <3>1. check_transition("withdrawn", new, "human") # "moves"
      BY DEF check_transition, TRANSITIONS, PRE_SUBMISSION, TRACKING, EXITS
    <3> QED BY <2>4, <3>1 DEF UpdateStatus
  <2> QED BY <2>1, <2>2, <2>3, <2>4 DEF POST_SUBMISSION
<1> QED BY <1>2, <1>3 DEF Inv, ImpliedIsOnRecord, UpdateStatus

\* Nothing was submitted at the start.
LEMMA InitIsSound == Init => Inv
<1> SUFFICES ASSUME Init PROVE Inv
  OBVIOUS
<1>1. Unknown \in Event
  BY DEF Unknown, Event
<1>2. StartsAs \subseteq Status /\ StartsAs \cap SUBMISSION_IMPLIED = {}
  BY EmailAssumption DEF Status, PRE_SUBMISSION, SUBMISSION_IMPLIED, TRACKING
<1> QED BY <1>1, <1>2 DEF Init, Inv, TypeOK, ImpliedIsOnRecord

\* Every step.
LEMMA StepIsSound ==
  ASSUME Inv, [Next]_vars
  PROVE  Inv' /\ (event' # event => TerminalKept)
<1>1. ASSUME NEW e \in Email, MessageStep(e)
      PROVE  Inv' /\ TerminalKept
  BY <1>1, MessageStepIsSound
<1>2. ASSUME NEW a \in Application, NEW new \in ByHand, UpdateStatus(a, new)
      PROVE  Inv' /\ event' = event
  BY <1>2, UpdateStatusIsSound
<1>3. CASE UNCHANGED vars
  BY <1>3 DEF vars, Inv, TypeOK, ImpliedIsOnRecord
<1> QED BY <1>1, <1>2, <1>3 DEF Next

\* The invariant, from the three facts above.
LEMMA InvHolds == Spec => []Inv
<1>1. Inv /\ [Next]_vars => Inv'
  BY StepIsSound
<1> QED BY InitIsSound, <1>1, PTL DEF Spec

\* The rows of messages and applications keep their types, for any environment.
THEOREM TypeCorrect == Spec => []TypeOK
<1>1. Inv => TypeOK
  BY DEF Inv
<1> QED BY InvHolds, <1>1, PTL

\* Whoever moves an application to a status that implies a submission, a message,
\* a link, a dismissal or a person, a confirmed row is on record.
THEOREM SubmissionsAreOnRecord == Spec => []ImpliedIsOnRecord
<1>1. Inv => ImpliedIsOnRecord
  BY DEF Inv
<1> QED BY InvHolds, <1>1, PTL

\* No message and no answer to a review moves an application that is over.
THEOREM TerminalIsFinal == Spec => TerminalStays
<1>1. Inv /\ [Next]_vars
        => [event' # event =>
              \A a \in Application : status[a] \in TERMINAL_STATUSES
                                       => status'[a] = status[a]]_vars
  BY StepIsSound DEF TerminalKept
<1> QED BY InvHolds, <1>1, PTL DEF Spec, TerminalStays

-------------------------------------------------------------------------------

\* What _move_status leaves of the rows, and that it says so when it does not move.
LEMMA MoveStatusTells ==
  ASSUME NEW w \in World, NEW a \in Application, NEW target \in Status,
         NEW actor \in {"email", "human"}
  PROVE  LET x == MoveStatus(w, a, target, actor)
         IN  /\ x.event \in Event /\ x.moved \in BOOLEAN
             /\ x.event.app = w.event.app /\ x.event.target = w.event.target
             /\ w.event.flagged => x.event.flagged
             /\ \A b \in Application : x.status[b] \in {w.status[b], target}
             /\ x.moved \/ x.event.flagged \/ x.status[a] = target
<1>1. CASE Refused(w, a, target, actor)
  <2>1. MoveStatus(w, a, target, actor) = [w EXCEPT !.event.flagged = TRUE]
    BY <1>1, Zenon DEF MoveStatus, Refused
  <2> DEFINE x == [w EXCEPT !.event.flagged = TRUE]
  <2>2. /\ x.event = [w.event EXCEPT !.flagged = TRUE] /\ x.moved = w.moved /\ x.status = w.status
        /\ w.event \in Event /\ w.moved \in BOOLEAN
    BY DEF World
  <2> HIDE DEF x
  <2>3. /\ x.event \in Event /\ x.event.flagged /\ x.event.app = w.event.app
        /\ x.event.target = w.event.target
    BY <2>2 DEF Event
  <2> QED BY <2>1, <2>2, <2>3 DEF x
<1>2. CASE check_transition(w.status[a], target, actor) = "moves"
  <2> DEFINE x == [w EXCEPT !.status[a] = target, !.moved = TRUE,
                     !.recorded = IF target \in SUBMISSION_IMPLIED THEN @ \cup {a} ELSE @]
  <2>1. MoveStatus(w, a, target, actor) = x
    BY <1>2, Zenon DEF MoveStatus, Refused
  <2>2. /\ x.event = w.event /\ x.event \in Event /\ x.moved = TRUE
        /\ x.status = [w.status EXCEPT ![a] = target] /\ w.status \in [Application -> Status]
    BY DEF World
  <2> HIDE DEF x
  <2> QED BY <2>1, <2>2
<1>3. CASE ~Refused(w, a, target, actor) /\ check_transition(w.status[a], target, actor) # "moves"
  <2>1. MoveStatus(w, a, target, actor) = w
    BY <1>3 DEF MoveStatus
  <2>2. w.status[a] = target
    BY <1>3 DEF Refused, check_transition
  <2> QED BY <2>1, <2>2 DEF World
<1> QED BY <1>1, <1>2, <1>3

\* A message whose status was applied, or that has none to apply, only asks for a review.
LEMMA OnlyReviewIsAsked ==
  ASSUME Inv, NEW row \in Event, row.applied, NEW r \in Reading
  PROVE  \A a \in Application : Handled(Rows(row), r).status[a] \in {status[a], "needs_review"}
<1> DEFINE w == Rows(row)
<1>1. w \in World /\ w.status = status /\ w.event = row
  BY RowsAreSound DEF Sound, Rows
<1>2. ApplyStatus(w, r.target) = w
  BY <1>1 DEF ApplyStatus
<1>3. \A a \in Application : MarkNeedsReview(w).status[a] \in {status[a], "needs_review"}
  <2> DEFINE a == w.event.app
             x == MoveStatus(w, a, "needs_review", "email")
  <2>1. CASE a = None \/ (a # None /\ w.status[a] \in TERMINAL_STATUSES \cup {"needs_review"})
    <3>1. MarkNeedsReview(w) = w
      BY <2>1 DEF MarkNeedsReview
    <3> QED BY <1>1, <3>1
  <2>2. CASE ~(a = None \/ (a # None /\ w.status[a] \in TERMINAL_STATUSES \cup {"needs_review"}))
    <3>1. a \in Application /\ "needs_review" \in Status
      BY <1>1, <2>2 DEF World, Event, Status, PRE_SUBMISSION
    <3>2. \A b \in Application : x.status[b] \in {w.status[b], "needs_review"}
      BY <1>1, <3>1, MoveStatusTells
    <3>3. MarkNeedsReview(w) = IF x.moved THEN [x EXCEPT !.event.previous = w.status[a]] ELSE x
      BY <2>2 DEF MarkNeedsReview
    <3>4. [x EXCEPT !.event.previous = w.status[a]].status = x.status
      <4>1. w.status[a] \notin TERMINAL_STATUSES /\ Sound(w)
        BY <2>2, RowsAreSound
      <4>2. x \in World
        BY <3>1, <4>1, MoveStatusIsSound DEF Sound
      <4> HIDE DEF x
      <4> QED BY <4>2 DEF World
    <3> HIDE DEF x
    <3> QED BY <1>1, <3>2, <3>3, <3>4
  <2> QED BY <2>1, <2>2
<1> HIDE DEF w
<1>4. \A a \in Application : w.status[a] \in {status[a], "needs_review"}
  BY <1>1
<1>5. \A a \in Application : Handled(w, r).status[a] \in {status[a], "needs_review"}
  <2>1. CASE Applies(r)
    <3>1. Handled(w, r) = ApplyStatus(w, r.target)
      BY <2>1 DEF Handled, NeedsReview
    <3> QED BY <1>2, <1>4, <3>1
  <2>2. CASE ~Applies(r) /\ NeedsReview(r) /\ r.llm
    BY <1>3, <2>2 DEF Handled
  <2>3. CASE ~Applies(r) /\ ~(NeedsReview(r) /\ r.llm)
    BY <1>4, <2>3 DEF Handled
  <2> QED BY <2>1, <2>2, <2>3
<1> QED BY <1>5 DEF w

\* Synchronising a message again.
LEMMA AgainOnlyAsks ==
  ASSUME Inv, NEW e \in Email, event[e].applied, IngestAgain(e)
  PROVE  \A a \in Application : status'[a] \in {status[a], "needs_review"}
<1> DEFINE Row(r) == [event[e] EXCEPT !.app = IF @ = None THEN r.app ELSE @]
           W(r) == Handled(Rows(Row(r)), r)
           X(r) == IF W(r).moved THEN [W(r) EXCEPT !.event.flagged = FALSE] ELSE W(r)
<1>1. PICK r \in Reading : Commit(e, X(r)) \/ UNCHANGED vars
  BY DEF IngestAgain
<1>2. event[e] \in Event
  BY DEF Inv, TypeOK
<1>3. Row(r) \in Event /\ Row(r).applied
  BY <1>2 DEF Reading, Event
<1> HIDE DEF Row
<1>4. Sound(Handled(Rows(Row(r)), r))
  BY <1>3, RowsAreSound, HandledIsSound
<1>5. \A a \in Application : W(r).status[a] \in {status[a], "needs_review"}
  BY <1>3, OnlyReviewIsAsked
<1> HIDE DEF W
<1>6. X(r).status = W(r).status
  BY <1>4 DEF Sound, World, W
<1> HIDE DEF X
<1> QED BY <1>1, <1>5, <1>6 DEF Commit, vars

\* What a new message with a decision comes to.
Told(w) ==
  w.event.target # None => \/ w.event.applied \/ w.event.flagged
                           \/ w.event.app # None /\ w.status[w.event.app] = w.event.target

LEMMA HandledIsTold ==
  ASSUME Inv, NEW r \in Reading, NEW row \in Event,
         ~row.applied, row.app = r.app, row.target = r.target, row.flagged = NeedsReview(r)
  PROVE  Told(Handled(Rows(row), r))
<1> DEFINE w == Rows(row)
<1>1. w \in World /\ w.event = row /\ Sound(w)
  BY RowsAreSound DEF Sound, Rows
<1> HIDE DEF w
<1>2. CASE Applies(r)
  <2> DEFINE a == w.event.app
             x == MoveStatus(w, a, r.target, "email")
  <2>1. a \in Application /\ a # None /\ r.target \in Status /\ r.target \in Decisions
    BY <1>1, <1>2, DecisionsAreStatuses, EmailAssumption DEF Applies, Reading
  <2>2. /\ x.event \in Event /\ x.moved \in BOOLEAN
        /\ x.event.app = a /\ x.event.target = r.target
        /\ x.moved \/ x.event.flagged \/ x.status[a] = r.target
    BY <1>1, <2>1, MoveStatusTells
  <2>3. x \in World
    BY <1>1, <2>1, MoveStatusIsSound, DecisionsAreStatuses DEF Sound
  <2>4. Handled(w, r) = [x EXCEPT !.event.applied = x.moved]
    <3>1. Handled(w, r) = ApplyStatus(w, r.target)
      BY <1>2 DEF Handled, NeedsReview
    <3>2. ~(w.event.applied \/ w.event.app = None)
      BY <1>1, <2>1
    <3>3. ApplyStatus(w, r.target) = [x EXCEPT !.event.applied = x.moved]
      BY <3>2, Zenon DEF ApplyStatus
    <3> QED BY <3>1, <3>3
  <2> HIDE DEF x, a
  <2> DEFINE y == [x EXCEPT !.event.applied = x.moved]
  <2>5. y.event = [x.event EXCEPT !.applied = x.moved] /\ y.status = x.status
    BY <2>3 DEF World
  <2>6. /\ y.event.applied = x.moved /\ y.event.flagged = x.event.flagged
        /\ y.event.app = a /\ y.event.target = r.target
    BY <2>2, <2>5 DEF Event
  <2> HIDE DEF y
  <2>7. Told(y)
    BY <2>1, <2>2, <2>5, <2>6 DEF Told
  <2> QED BY <2>4, <2>7 DEF w, y
<1>3. CASE ~Applies(r) /\ r.target # None
  <2>1. NeedsReview(r) /\ row.flagged = TRUE
    BY <1>3 DEF NeedsReview
  <2>2. CASE ~r.llm
    <3>1. Handled(w, r) = w
      BY <1>3, <2>2 DEF Handled
    <3> QED BY <1>1, <2>1, <3>1 DEF Told, w
  <2>3. CASE r.llm
    <3> DEFINE a == w.event.app
               x == MoveStatus(w, a, "needs_review", "email")
    <3>1. Handled(w, r) = MarkNeedsReview(w)
      BY <1>3, <2>1, <2>3 DEF Handled
    <3>2. CASE a = None \/ (a # None /\ w.status[a] \in TERMINAL_STATUSES \cup {"needs_review"})
      <4>1. MarkNeedsReview(w) = w
        BY <3>2 DEF MarkNeedsReview
      <4> QED BY <1>1, <2>1, <3>1, <4>1 DEF Told, w
    <3>3. CASE ~(a = None \/ (a # None /\ w.status[a] \in TERMINAL_STATUSES \cup {"needs_review"}))
      <4>1. a \in Application /\ "needs_review" \in Status
        BY <1>1, <3>3 DEF World, Event, Status, PRE_SUBMISSION
      <4>2. x \in World /\ x.event.flagged
        BY <1>1, <2>1, <3>3, <4>1, MoveStatusIsSound, MoveStatusTells DEF Sound
      <4>3. MarkNeedsReview(w) = IF x.moved THEN [x EXCEPT !.event.previous = w.status[a]] ELSE x
        BY <3>3 DEF MarkNeedsReview
      <4> HIDE DEF x
      <4>4. [x EXCEPT !.event.previous = w.status[a]].event.flagged
        BY <4>2 DEF World, Event
      <4> QED BY <3>1, <4>2, <4>3, <4>4 DEF Told, w
    <3> QED BY <3>2, <3>3
  <2> QED BY <2>2, <2>3
<1>4. CASE ~Applies(r) /\ r.target = None
  <2>1. CASE ~(NeedsReview(r) /\ r.llm)
    <3>1. Handled(w, r) = w
      BY <1>4, <2>1 DEF Handled
    <3> QED BY <1>1, <1>4, <3>1 DEF Told, w
  <2>2. CASE NeedsReview(r) /\ r.llm
    <3> DEFINE a == w.event.app
               x == MoveStatus(w, a, "needs_review", "email")
    <3>1. Handled(w, r) = MarkNeedsReview(w)
      BY <1>4, <2>2 DEF Handled
    <3>2. CASE a = None \/ (a # None /\ w.status[a] \in TERMINAL_STATUSES \cup {"needs_review"})
      <4>1. MarkNeedsReview(w) = w
        BY <3>2 DEF MarkNeedsReview
      <4> QED BY <1>1, <1>4, <3>1, <4>1 DEF Told, w
    <3>3. CASE ~(a = None \/ (a # None /\ w.status[a] \in TERMINAL_STATUSES \cup {"needs_review"}))
      <4>1. a \in Application /\ "needs_review" \in Status
        BY <1>1, <3>3 DEF World, Event, Status, PRE_SUBMISSION
      <4>2. x \in World /\ x.event.target = None
        BY <1>1, <1>4, <3>3, <4>1, MoveStatusIsSound, MoveStatusTells DEF Sound
      <4>3. MarkNeedsReview(w) = IF x.moved THEN [x EXCEPT !.event.previous = w.status[a]] ELSE x
        BY <3>3 DEF MarkNeedsReview
      <4> HIDE DEF x
      <4>4. [x EXCEPT !.event.previous = w.status[a]].event.target = None
        BY <4>2 DEF World, Event
      <4> QED BY <3>1, <4>2, <4>3, <4>4 DEF Told, w
    <3> QED BY <3>2, <3>3
  <2> QED BY <2>1, <2>2
<1> QED BY <1>2, <1>3, <1>4

\* A step that makes a message known is its first synchronisation.
LEMMA NewIsIngested ==
  ASSUME Inv, [Next]_vars, NEW e \in Email, ~event[e].known, event'[e].known
  PROVE  IngestNew(e)
<1>1. ASSUME NEW f \in Email, NEW w, Commit(f, w), f # e
      PROVE  FALSE
  BY <1>1 DEF Commit, Inv, TypeOK
<1>2. ASSUME NEW f \in Email, MessageStep(f)
      PROVE  IngestNew(e)
  <2>1. f = e \/ UNCHANGED vars
    BY <1>1, <1>2 DEF MessageStep, IngestNew, IngestAgain, IngestResolved, Dismiss, Link
  <2>2. IngestAgain(e) \/ Dismiss(e) \/ (\E a \in Application : Link(e, a)) => event[e].known
    BY DEF IngestAgain, Dismiss, Link
  <2> QED BY <1>2, <2>1, <2>2 DEF MessageStep, IngestResolved, vars
<1>3. ASSUME NEW a \in Application, NEW new \in ByHand, UpdateStatus(a, new)
      PROVE  FALSE
  BY <1>3 DEF UpdateStatus
<1> QED BY <1>2, <1>3 DEF Next, vars

LEMMA NewIsTold ==
  ASSUME Inv, NEW e \in Email, IngestNew(e), event'[e].target # None
  PROVE  \/ event'[e].applied \/ event'[e].flagged
         \/ event'[e].app # None /\ status'[event'[e].app] = event'[e].target
<1>1. PICK r \in Reading :
        Commit(e, Handled(Rows([Unknown EXCEPT !.known = TRUE, !.app = r.app,
                                  !.target = r.target, !.flagged = NeedsReview(r)]), r))
  BY DEF IngestNew
<1> DEFINE row == [Unknown EXCEPT !.known = TRUE, !.app = r.app, !.target = r.target,
                                  !.flagged = NeedsReview(r)]
<1>2. NeedsReview(r) \in BOOLEAN
  BY DEF NeedsReview
<1>3. /\ row \in Event /\ ~row.applied /\ row.app = r.app /\ row.target = r.target
      /\ row.flagged = NeedsReview(r)
  BY <1>2 DEF Reading, Unknown, Event
<1> HIDE DEF row
<1> DEFINE w == Handled(Rows(row), r)
<1>4. Told(w)
  BY <1>3, HandledIsTold
<1> HIDE DEF w
<1>5. status' = w.status /\ event'[e] = w.event
  BY <1>1 DEF Commit, Inv, TypeOK, w, row
<1> QED BY <1>4, <1>5 DEF Told

\* A message decides exactly once: on arrival its decision is applied, true already or in
\* the review queue, and once applied it is not applied again, whatever the classifier
\* says and whatever the person does in between (app/services/application_email_events.py).
THEOREM DecisionsAreTakenOnce == Spec => EachDecidesOnce
<1>1. Inv /\ [Next]_vars =>
        [\A e \in Email :
           ~event[e].known /\ event'[e].known /\ event'[e].target # None =>
             \/ event'[e].applied \/ event'[e].flagged
             \/ event'[e].app # None /\ status'[event'[e].app] = event'[e].target]_vars
  BY NewIsIngested, NewIsTold
<1>2. Inv /\ [Next]_vars =>
        [\A e \in Email : status' # status /\ event[e].applied /\ IngestAgain(e) =>
           \A a \in Application : status'[a] \in {status[a], "needs_review"}]_vars
  BY AgainOnlyAsks
<1> QED BY InvHolds, <1>1, <1>2, PTL DEF Spec, EachDecidesOnce, NothingIsSilent, AppliedOnce
===============================================================================
