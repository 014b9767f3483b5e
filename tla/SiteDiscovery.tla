----------------------------- MODULE SiteDiscovery -----------------------------
(***************************************************************************)
(* How vacancies found on the sites become applications, and what the sites *)
(* show about them comes back: searches stage hits for review, LinkedIn     *)
(* pages and the application sync tell that an application was sent, while   *)
(* the person and their mail move the same applications.  All vacancies are *)
(* postings of one job (same title, company and place).                     *)
(***************************************************************************)
EXTENDS ApplicationLifecycle, FiniteSets

CONSTANTS Vacancy,  \* vacancies, by identity; an application is named by its vacancy
          LinkedIn, \* those on LinkedIn, whose page shows a submission
          Board,    \* those on a Greenhouse board, which is read before it is stored
          Moves     \* statuses the person and the mail set

VARIABLES
  stored,    \* vacancies with a row
  status,    \* the status of each application, or Absent
  confirmed, \* applications with a confirmed row in the submission ledger
  sent,      \* applications the site has
  banned,    \* the company is blacklisted
  search,    \* the search under way
  syncing    \* the application sync under way

sdVars == <<stored, status, confirmed, sent, banned, search, syncing>>

Absent == "absent"
NoSearch == [pc |-> "idle", hits |-> {}, at |-> {}]
NoSync   == [pc |-> "idle", read |-> [v \in Vacancy |-> Absent], todo |-> {}, at |-> {},
             marks |-> {}]

\* _TERMINAL_DISCOVERY_STATUSES and _TERMINAL_STATUSES of the sync.
TerminalForDiscovery == {"rejected", "employer_rejected", "skipped", "submitted", "interview"}
TerminalForSync      == TerminalForDiscovery \ {"skipped"}

SdTypeOK ==
  /\ stored \subseteq Vacancy /\ confirmed \subseteq Vacancy /\ sent \subseteq Vacancy
  /\ status \in [Vacancy -> Status \cup {Absent}] /\ banned \in BOOLEAN
  /\ search \in [pc : {"idle", "staging", "extracting"}, hits : SUBSET Vacancy,
                 at : SUBSET Vacancy]
  /\ syncing \in [pc : {"idle", "open"}, read : [Vacancy -> Status \cup {Absent}],
                  todo : SUBSET Vacancy, at : SUBSET Vacancy, marks : SUBSET Vacancy]

SdInit ==
  /\ stored = {} /\ status = [v \in Vacancy |-> Absent] /\ confirmed = {} /\ sent = {}
  /\ banned = FALSE /\ search = NoSearch /\ syncing = NoSync

\* Rows another transaction has written wait for its commit.
Locked(v) == v \in syncing.marks

\* What a site, or the boards together, may list of the search, without the
\* vacancies whose application is settled.
Found == {v \in Vacancy : status[v] \notin TerminalForDiscovery}

(* discover_*: the search begins with the hits of its queries.              *)
StartSearch ==
  /\ search.pc = "idle"
  /\ \E hits \in SUBSET Found :
       search' = [NoSearch EXCEPT !.pc = "staging", !.hits = hits]
  /\ UNCHANGED <<stored, status, confirmed, sent, banned, syncing>>

(* The next hit is staged: its page is asked for, always on LinkedIn and    *)
(* elsewhere when the vacancy is not stored or its row has gaps.            *)
StageOne(v) ==
  /\ search.pc = "staging" /\ v \in search.hits
  /\ search' = [pc |-> "extracting", hits |-> search.hits \ {v}, at |-> {v}]
  /\ UNCHANGED <<stored, status, confirmed, sent, banned, syncing>>

\* mark_submitted_from_site leaves a status that the lifecycle refuses to change.
Markable(of, S) == {v \in S : check_transition(of[v], "submitted", "system") # "illegal"}

\* As if the ledger were forgotten.
WriteSubmittedOnly(of, S) ==
  /\ status' = [v \in Vacancy |-> IF v \in S THEN "submitted" ELSE of[v]]
  /\ UNCHANGED confirmed
\* The other rows keep the status of; the ledger remembers that the marked were sent.
WriteSubmitted(of, S) ==
  /\ status' = [v \in Vacancy |-> IF v \in S THEN "submitted" ELSE of[v]]
  /\ confirmed' = confirmed \cup S

\* As if only those under review counted.
PostingsInReview == {v \in LinkedIn : status[v] = "awaiting_review"}
\* The applications to postings of the job on LinkedIn.
Postings == {v \in LinkedIn : status[v] # Absent}

\* The rows once a page was read, which a board's page of a banned company is
\* dropped before; a page that cannot be read leaves what is stored.
Kept(v, read) == stored \cup {w \in {v} : read /\ ~(banned /\ v \in Board)}

\* A hit is reported: its row is there, and neither its company nor its
\* application rules it out.
Reported(v, read) ==
  v \in Kept(v, read) /\ ~banned /\ status[v] \notin TerminalForDiscovery

(* The page is read (or not): the vacancy is stored, the application        *)
(* prepared for review or reported again; a LinkedIn page that shows a       *)
(* submission marks the application and all postings of the same job.       *)
StageRead ==
  /\ search.pc = "extracting"
  /\ \E v \in search.at, read \in BOOLEAN :
       LET prepared == [status EXCEPT ![v] = IF @ = Absent THEN "awaiting_review" ELSE @]
           shown    == IF read /\ v \in LinkedIn \cap sent THEN {v} \cup Postings ELSE {}
       IN  /\ stored' = Kept(v, read)
           /\ \/ /\ ~Reported(v, read)
                 /\ UNCHANGED <<status, confirmed>>
              \/ /\ Reported(v, read)
                 /\ \A w \in {v} \cup shown : ~Locked(w)
                 /\ WriteSubmitted(prepared, Markable(prepared, shown))
  /\ search' = [search EXCEPT !.pc = "staging", !.at = {}]
  /\ UNCHANGED <<sent, banned, syncing>>

EndSearch ==
  /\ search.pc = "staging" /\ search' = NoSearch
  /\ UNCHANGED <<stored, status, confirmed, sent, banned, syncing>>

-------------------------------------------------------------------------------
(* ApplicationStatusSyncService.synchronize: one session for the whole      *)
(* batch, its rows as they were when it began, one commit at its end.       *)

SyncStart ==
  /\ syncing.pc = "idle"
  /\ \E v \in Vacancy \ Board : status[v] # Absent
  /\ LET todo == {v \in Vacancy \ Board : status[v] \notin TerminalForSync \cup {Absent}}
     IN  syncing' = [NoSync EXCEPT !.pc = "open", !.todo = todo,
                       !.read = [v \in Vacancy |-> IF v \in todo THEN status[v] ELSE Absent]]
  /\ UNCHANGED <<stored, status, confirmed, sent, banned, search>>

(* The site is asked about the next application ...                         *)
SyncAsk(v) ==
  /\ syncing.pc = "open" /\ syncing.at = {} /\ v \in syncing.todo
  /\ syncing' = [syncing EXCEPT !.at = {v}, !.todo = @ \ {v}]
  /\ UNCHANGED <<stored, status, confirmed, sent, banned, search>>

(* ... and shows a submission, or not, or cannot be read.                   *)
SyncAnswer ==
  /\ syncing.at # {}
  /\ \E v \in syncing.at :
       \/ syncing' = [syncing EXCEPT !.at = {}]
       \/ /\ v \in sent
          /\ syncing' = [syncing EXCEPT !.at = {},
               !.marks = @ \cup Markable(syncing.read, {v})]
  /\ UNCHANGED <<stored, status, confirmed, sent, banned, search>>

SyncCommit ==
  /\ syncing.pc = "open" /\ syncing.at = {} /\ syncing.todo = {}
  /\ WriteSubmitted(status, syncing.marks)
  /\ syncing' = NoSync
  /\ UNCHANGED <<stored, sent, banned, search>>

-------------------------------------------------------------------------------
(* The person and their mail                                                *)

(* update_application_status, reject_saved_vacancy and the e-mail service:  *)
(* a status that implies a submission is remembered in the ledger.          *)
Move(v, target) ==
  /\ status[v] # Absent /\ ~Locked(v)
  /\ \E actor \in {"human", "email"} : check_transition(status[v], target, actor) = "moves"
  /\ status' = [status EXCEPT ![v] = target]
  /\ confirmed' = confirmed \cup (IF target \in SUBMISSION_IMPLIED THEN {v} ELSE {})
  /\ UNCHANGED <<stored, sent, banned, search, syncing>>

(* The person applies on the site itself.                                   *)
ApplyOnSite(v) ==
  /\ v \notin sent /\ sent' = sent \cup {v}
  /\ UNCHANGED <<stored, status, confirmed, banned, search, syncing>>

(* CompanyBlacklistService.add and remove.                                  *)
Blacklist ==
  /\ banned' = ~banned
  /\ UNCHANGED <<stored, status, confirmed, sent, search, syncing>>

SdNext ==
  \/ StartSearch \/ StageRead \/ EndSearch \/ SyncStart \/ SyncAnswer \/ SyncCommit
  \/ \E v \in Vacancy : StageOne(v) \/ SyncAsk(v) \/ ApplyOnSite(v)
  \/ \E v \in Vacancy, target \in Moves : Move(v, target)
  \/ Blacklist

SdSpec == SdInit /\ [][SdNext]_sdVars

-------------------------------------------------------------------------------
(* What searches, the sync, the person and the mail keep true together: an   *)
(* application whose status says that it was sent has its confirmed row in   *)
(* the ledger, which is what keeps it from being submitted again.            *)
SubmittedIsOnRecord ==
  \A v \in Vacancy : status[v] \in SUBMISSION_IMPLIED => v \in confirmed

(* A step in which a search reads that an application was sent leaves no    *)
(* posting of the same job open for a second submission.                    *)
Settles ==
  \A v \in LinkedIn :
    /\ search.at = {v} /\ search'.at = {}
    /\ status[v] # "submitted" /\ status'[v] = "submitted"
    => \A w \in LinkedIn : status'[w] \notin PRE_SUBMISSION

(* _mark_linkedin_duplicates_submitted: once a search has read on LinkedIn   *)
(* that an application was sent, no posting of the same job that has an      *)
(* application is left open for a second submission.                         *)
RepostsAreSettled == [][Settles]_sdVars

(* Together: no job that was applied for invites a second application.       *)
NeverInvitedTwice == []SubmittedIsOnRecord /\ RepostsAreSettled
===============================================================================
