------------------------- MODULE ApplicationLifecycle -------------------------
(***************************************************************************)
(* The status of an application: the transition table of                   *)
(* app/domain/application_lifecycle.py and who may take which edge.        *)
(***************************************************************************)

\* The person may record from these what happened outside the program.
PRE_SUBMISSION == {"draft", "saved", "awaiting_review", "approved", "needs_review"}
TRACKING == {"interview", "offer", "employer_rejected"}

\* These imply that the application was sent.
SUBMISSION_IMPLIED == {"submitted"} \cup TRACKING
POST_SUBMISSION == SUBMISSION_IMPLIED \cup {"withdrawn"}

\* APPLICATION_STATUSES
Status == PRE_SUBMISSION \cup POST_SUBMISSION \cup {"rejected", "skipped"}

\* The side exits open before the submission.
EXITS == {"rejected", "skipped", "withdrawn", "submitted"}

TRANSITIONS ==
       PRE_SUBMISSION \X (TRACKING \cup EXITS)
  \cup {"draft"}           \X {"saved", "awaiting_review", "approved"}
  \cup {"saved"}           \X {"draft", "awaiting_review", "approved"}
  \cup {"awaiting_review"} \X {"saved", "approved", "needs_review"}
  \cup {"approved"}        \X {"awaiting_review", "saved"}
  \cup {"needs_review"}    \X {"awaiting_review", "saved", "approved"}
  \cup {"submitted"}       \X (TRACKING \cup {"withdrawn", "needs_review"})
  \cup {"interview"}       \X {"offer", "employer_rejected", "withdrawn", "needs_review"}
  \cup {"offer"}           \X {"employer_rejected", "withdrawn", "needs_review"}
  \cup {"rejected", "skipped"} \X {"saved", "awaiting_review"}
  \cup {<<"employer_rejected", "needs_review">>}

\* Edges automation may not take.
HUMAN_ONLY ==
       (PRE_SUBMISSION \ {"approved"}) \X {"approved"}
  \cup {"rejected", "skipped"} \X {"saved", "awaiting_review"}
  \cup {<<"approved", "awaiting_review">>, <<"employer_rejected", "needs_review">>}

\* An acknowledgement by the employer may approve.
EMAIL_EXTRA ==
       ({"submitted"} \cup (PRE_SUBMISSION \ {"approved"})) \X {"approved"}
  \cup {<<"needs_review", "awaiting_review">>}

(* change_status: "same" changes nothing, "moves" writes the status and a   *)
(* timeline event, "illegal" raises IllegalApplicationTransition.           *)
check_transition(current, target, actor) ==
  CASE current = target -> "same"
    [] current # target /\ actor = "email" /\ <<current, target>> \in EMAIL_EXTRA -> "moves"
    [] OTHER ->
         IF /\ <<current, target>> \in TRANSITIONS
            /\ actor = "human" \/ <<current, target>> \notin HUMAN_ONLY
           THEN "moves" ELSE "illegal"
===============================================================================
