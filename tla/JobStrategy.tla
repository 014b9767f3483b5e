------------------------------ MODULE JobStrategy ------------------------------
(***************************************************************************)
(* What became of the applications (app/services/application_crm.py), and   *)
(* the recommendations drawn from it, which the person accepts or rejects   *)
(* (app/services/job_strategy.py).  One user.  The endpoints are plain      *)
(* functions: requests run side by side in the thread pool, read what is    *)
(* committed, lock nothing, and commit at their end.                        *)
(***************************************************************************)
EXTENDS Integers, FiniteSetsExt, SequencesExt, ApplicationLifecycle

CONSTANTS Application, Request, None,
          Dimension,       \* keys of DIMENSION_KIND
          GroupOf(_, _, _), \* the group of an application by a dimension and the resumes there
          ResumeOf(_, _),  \* _resume_id_for: the resume a group names, or None
          Resume,
          Legacy,          \* submitted before statuses were recorded
          Reached,         \* the statuses that this instance moves to
          Apart(_, _),     \* the Wilson intervals of two rates do not overlap
          LOW_SAMPLE, MIN_TOTAL_MATURE, MATURITY,
          MaxTime, MaxRows

VARIABLES
  status,      \* of an application
  timeline,    \* its status changes, [status, at]
  answered,    \* applications with an e-mail from the employer
  confirmed,   \* when the submission ledger confirmed it, or None
  now,
  rows,        \* strategy_recommendations, in the order of their commits
  active,      \* users.active_cv_file_id
  resumes,     \* CV files not deleted
  request      \* what a request has read and is about to commit

jsVars == <<status, timeline, answered, confirmed, now, rows, active, resumes, request>>
history == <<status, timeline, answered, confirmed, now>>

Rate   == [successes : Nat, n : Nat]
Idle   == [pc |-> "idle"]
Rows   == 1..Len(rows)
Times  == 0..MaxTime
Advice == [dimension : Dimension, best : STRING, worst : STRING, resume : Resume \cup {None}]

JsTypeOK ==
  /\ status \in [Application -> Status]
  /\ \A a \in Application : \A e \in timeline[a] : e.status \in Status /\ e.at \in Times
  /\ answered \subseteq Application /\ confirmed \in [Application -> Times \cup {None}]
  /\ now \in Times /\ active \in resumes \cup {None} /\ resumes \subseteq Resume
  /\ \A i \in Rows : /\ rows[i].asks \in Advice
                     /\ rows[i].status \in {"proposed", "accepted", "rejected"}
                     /\ rows[i].applied \in {None} \cup [changed : BOOLEAN, previous : Resume \cup {None}]
  /\ \A q \in Request : request[q].pc \in {"idle", "generating", "accepting", "deciding"}

JsInit ==
  /\ status = [a \in Application |-> IF a \in Legacy THEN "submitted" ELSE "approved"]
  /\ timeline = [a \in Application |-> {}] /\ answered = {}
  /\ confirmed = [a \in Application |-> None] /\ now = 0
  /\ rows = <<>> /\ active \in Resume \cup {None} /\ resumes = Resume
  /\ request = [q \in Request |-> Idle]

-------------------------------------------------------------------------------
(* The facts of an application                                              *)

\* Mutant: only the current status is looked at.
CurrentStatusOf(a) == {status[a]}

\* The statuses of the events, and the current one, which legacy rows never recorded.
StatusesOf(a) == {e.status : e \in timeline[a]} \cup {status[a]}

TimesSent(a) == {e.at : e \in {f \in timeline[a] : f.status = "submitted"}}
                \cup ({confirmed[a]} \ {None})

Sent(a)      == StatusesOf(a) \cap SUBMISSION_IMPLIED # {} \/ confirmed[a] # None
Responded(a) == a \in answered \/ StatusesOf(a) \cap TRACKING # {}

\* ApplicationFacts.mature: a submission without a time cannot be aged and counts.
Mature(a) == \/ Responded(a)
             \/ TimesSent(a) = {} /\ Sent(a)
             \/ TimesSent(a) # {} /\ Min(TimesSent(a)) + MATURITY <= now

Counted(S)   == {a \in S : Sent(a) /\ Mature(a)}
ResponseOf(S) == [successes |-> Cardinality({a \in Counted(S) : Responded(a)}),
                  n |-> Cardinality(Counted(S))]

\* funnel: the groups of a dimension with their response rates.
Groups(d)    == {GroupOf(a, d, resumes) : a \in Application}
Members(g, d) == {a \in Application : GroupOf(a, d, resumes) = g}
Funnel(d)    == [g \in Groups(d) |-> ResponseOf(Members(g, d))]

Above(r, s)  == r.successes * s.n > s.successes * r.n

\* distinguishable(): low samples never are.
Distinguishable(r, s) == r.n >= LOW_SAMPLE /\ s.n >= LOW_SAMPLE /\ Apart(r, s)

\* followup: the answers to what was sent before the decision and since.
Followup(i) ==
  LET Kept(a)  == Counted({a}) # {}
      Since    == {a \in Application : Kept(a) /\ TimesSent(a) # {} /\ Min(TimesSent(a)) >= rows[i].at}
      after    == ResponseOf(Since)
      before   == ResponseOf({a \in Application : Kept(a)} \ Since)
  IN CASE rows[i].status # "accepted" -> "not_accepted"
       [] rows[i].status = "accepted" /\ after.n < LOW_SAMPLE -> "too_early"
       [] OTHER -> IF Distinguishable(before, after) THEN "differs" ELSE "no difference"

\* journey: the outcome that a reader is shown.
OutcomeOf(a) ==
  CASE "offer" \in StatusesOf(a) -> "offer"
    [] "offer" \notin StatusesOf(a) /\ "employer_rejected" \in StatusesOf(a) -> "employer_rejected"
    [] OTHER -> IF status[a] \in {"withdrawn", "rejected", "skipped"} THEN status[a] ELSE "open"

-------------------------------------------------------------------------------
(* generate                                                                 *)

\* The best and the worst group of a dimension, where they are comparable.
Comparison(d) ==
  LET rates  == Funnel(d)
      usable == {g \in Groups(d) : rates[g].n >= LOW_SAMPLE}
      best   == {b \in usable : \A g \in usable : ~Above(rates[g], rates[b])}
      worst  == {w \in usable : \A g \in usable : ~Above(rates[w], rates[g])}
  IN {pair \in best \X worst :
        pair[1] # pair[2] /\ Distinguishable(rates[pair[1]], rates[pair[2]])}

Fingerprint(asks) == <<asks.dimension, asks.best, asks.worst>>
Asked == {Fingerprint(rows[i].asks) : i \in Rows}

AskedFor(d, pair) ==
  [dimension |-> d, best |-> pair[1], worst |-> pair[2],
   resume |-> IF d = "resume" THEN ResumeOf(pair[1], resumes) ELSE None]

\* Every comparison that no row of any status asked before.
Proposals ==
  IF Cardinality(Counted(Application)) < MIN_TOTAL_MATURE THEN {}
  ELSE {asks \in UNION {{AskedFor(d, pair) : pair \in Comparison(d)} : d \in Dimension} :
          Fingerprint(asks) \notin Asked}

Generate(q) ==
  /\ request[q].pc = "idle" /\ Len(rows) + Cardinality(Proposals) <= MaxRows
  /\ Proposals # {}
  /\ request' = [request EXCEPT ![q] = [pc |-> "generating", proposals |-> Proposals]]
  /\ UNCHANGED <<history, rows, active, resumes>>

\* The unique key of user and fingerprint refuses the flush: the transaction is undone.
Refused(proposals) == {Fingerprint(asks) : asks \in proposals} \cap Asked # {}

Row(asks) == [asks |-> asks, status |-> "proposed", applied |-> None, at |-> now]

GenerateCommits(q) ==
  /\ request[q].pc = "generating"
  /\ \/ Refused(request[q].proposals) /\ UNCHANGED rows
     \/ /\ ~Refused(request[q].proposals)
        /\ Len(rows) + Cardinality(request[q].proposals) <= MaxRows
        /\ rows' = rows \o SetToSeq({Row(asks) : asks \in request[q].proposals})
  /\ request' = [request EXCEPT ![q] = Idle]
  /\ UNCHANGED <<history, active, resumes>>

-------------------------------------------------------------------------------
(* decide                                                                   *)

\* A closed row is answered 409; rejecting reads nothing else.
Decides(q, i, decision) ==
  /\ request[q].pc = "idle" /\ rows[i].status = "proposed"
  /\ request' = [request EXCEPT ![q] =
       IF decision = "accept" THEN [pc |-> "accepting", row |-> i]
       ELSE [pc |-> "deciding", row |-> i, status |-> "rejected", applied |-> None, switches |-> None]]
  /\ UNCHANGED <<history, rows, active, resumes>>

\* _apply reads the user after the row, and _baseline the funnel.
Applies(q) ==
  /\ request[q].pc = "accepting"
  /\ LET i      == request[q].row
         wanted == rows[i].asks.resume
     IN request' = [request EXCEPT ![q] =
          IF wanted # None /\ wanted \notin resumes THEN Idle
          ELSE [pc |-> "deciding", row |-> i, status |-> "accepted",
                applied |-> IF wanted = None THEN [changed |-> FALSE, previous |-> None]
                            ELSE [changed |-> active # wanted, previous |-> active],
                switches |-> IF wanted = active THEN None ELSE wanted]]
  /\ UNCHANGED <<history, rows, active, resumes>>

\* The commit writes what differs from what was read: a rejection leaves "applied" alone.
Written(i, r) ==
  [rows[i] EXCEPT !.status = r.status, !.at = now,
                  !.applied = IF r.applied = None THEN @ ELSE r.applied]

DecideCommits(q) ==
  /\ request[q].pc = "deciding"
  /\ LET r == request[q] IN
       \/ /\ r.switches \notin resumes \cup {None}    \* the foreign key refuses it
          /\ UNCHANGED <<rows, active>>
       \/ /\ r.switches \in resumes \cup {None}
          /\ rows' = [rows EXCEPT ![r.row] = Written(r.row, r)]
          /\ active' = IF r.switches = None THEN active ELSE r.switches
  /\ request' = [request EXCEPT ![q] = Idle]
  /\ UNCHANGED <<history, resumes>>

-------------------------------------------------------------------------------
(* What happens to the applications and the resumes meanwhile               *)

\* A status change writes its event (application_lifecycle.change_status).
Changes(a, target) ==
  /\ \E actor \in {"human", "email"} : check_transition(status[a], target, actor) = "moves"
  /\ status' = [status EXCEPT ![a] = target]
  /\ timeline' = [timeline EXCEPT ![a] = @ \cup {[status |-> target, at |-> now]}]
  /\ UNCHANGED <<answered, confirmed, now, rows, active, resumes, request>>

Hears(a) ==
  /\ answered' = answered \cup {a}
  /\ UNCHANGED <<status, timeline, confirmed, now, rows, active, resumes, request>>

LedgerConfirms(a) ==
  /\ confirmed[a] = None /\ confirmed' = [confirmed EXCEPT ![a] = now]
  /\ UNCHANGED <<status, timeline, answered, now, rows, active, resumes, request>>

Tick ==
  /\ now < MaxTime /\ now' = now + 1
  /\ UNCHANGED <<status, timeline, answered, confirmed, rows, active, resumes, request>>

\* Deleting the active CV file activates the newest of the others; the applications
\* that selected it have none from then on.
DeleteResume(r) ==
  /\ r \in resumes /\ resumes' = resumes \ {r}
  /\ active' \in IF active # r THEN {active} ELSE IF resumes' = {} THEN {None} ELSE resumes'
  /\ UNCHANGED <<history, rows, request>>

JsNext ==
  \/ \E q \in Request : \/ Generate(q) \/ GenerateCommits(q) \/ Applies(q) \/ DecideCommits(q)
                        \/ \E i \in Rows, d \in {"accept", "reject"} : Decides(q, i, d)
  \/ \E a \in Application : Hears(a) \/ LedgerConfirms(a) \/ \E s \in Reached : Changes(a, s)
  \/ \E r \in Resume : DeleteResume(r)
  \/ Tick

JsSpec == JsInit /\ [][JsNext]_jsVars

-------------------------------------------------------------------------------
(* Properties                                                               *)

\* An application whose submission is on record (an event or the ledger), once it
\* counts in the rates, counts in them ever after: no later status, and no second
\* way of recording the submission, takes the evidence of a decision away.
OnRecord(a) == {e.status : e \in timeline[a]} \cap SUBMISSION_IMPLIED # {} \/ confirmed[a] # None
CountedStaysCounted ==
  [][\A a \in Application : OnRecord(a) /\ a \in Counted({a}) => (a \in Counted({a}))']_jsVars
===============================================================================
