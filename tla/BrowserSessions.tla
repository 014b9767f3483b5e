---------------------------- MODULE BrowserSessions ----------------------------
(***************************************************************************)
(* A user's login on one site: the lifecycle state the dashboard shows     *)
(* (browser_session_states), the stored capture (browser_sessions and its  *)
(* encrypted file), the visible login window of the browser service and    *)
(* the probes that ask the site.  Captures are numbered as they are made.  *)
(***************************************************************************)
EXTENDS Integers, FiniteSets

CONSTANT MaxCaptures  \* bound: captures ever made

VARIABLES
  life,    \* browser_session_states.state
  stored,  \* the browser_sessions row: its status ("none" without a row) and capture
  files,   \* captures whose encrypted file exists
  made,    \* captures made so far
  dead,    \* captures the site no longer accepts
  window,  \* the entry of BrowserAuthorizationManager._active and what its page shows
  recent,  \* the state was written less than STALE_WINDOW_GRACE ago
  confirm, \* the API request that confirms a login
  save,    \* a save by the browser worker that has read the row and written its file
  restore, \* a restore that has read the row and not yet the file
  probe,   \* a status request waiting for the site's answer
  sweep,   \* the background probe waiting for the site's answer
  fresh    \* history: a confirmed login nothing has spoken against since

vars == <<life, stored, files, made, dead, window, recent, confirm, save, restore,
          probe, sweep, fresh>>

State == {"DISCONNECTED", "LOGIN_REQUIRED", "AUTHENTICATING", "AUTHENTICATED", "READY",
          "EXPIRED", "REAUTH_REQUIRED"}
USABLE_STATES == {"AUTHENTICATED", "READY"}

Capture == 1..MaxCaptures
None    == 0
NoSave  == [prev |-> None, new |-> None]

\* _TRANSITIONS for the events some code applies: the state one leads to, by the
\* state it is applied in.
Transitions ==
  [LOGIN_STARTED   |-> [s \in State |-> "AUTHENTICATING"],
   LOGIN_CONFIRMED |-> [s \in {"AUTHENTICATING", "LOGIN_REQUIRED"} |-> "AUTHENTICATED"],
   LOGIN_CANCELLED |-> [s \in {"AUTHENTICATING"} |-> "LOGIN_REQUIRED"],
   VERIFIED_LIVE   |-> [s \in USABLE_STATES |-> "READY"],
   VERIFIED_DEAD   |-> [s \in USABLE_STATES |-> "EXPIRED"],
   EXPIRY_ACKNOWLEDGED |-> [s \in {"EXPIRED"} |-> "REAUTH_REQUIRED"],
   STATE_CORRUPTED |-> [s \in USABLE_STATES |-> "REAUTH_REQUIRED"]]

\* The table before it let a saved capture confirm a window given up already.
CanApplyWaiting(s, e) ==
  s \in DOMAIN Transitions[e] /\ (e = "LOGIN_CONFIRMED" => s = "AUTHENTICATING")

CanApply(s, e) == s \in DOMAIN Transitions[e]

\* apply: an event the table does not know raises and writes nothing.
Applied(s, e) == IF CanApply(s, e) THEN Transitions[e][s] ELSE s

TypeOK ==
  /\ life \in State
  /\ stored \in [status : {"none", "available", "expired", "corrupted"}, of : 0..MaxCaptures]
  /\ files \subseteq Capture /\ made \in 0..MaxCaptures
  /\ dead \subseteq Capture
  /\ window \in {"none", "open", "signed", "closed"}
  /\ recent \in BOOLEAN /\ fresh \in BOOLEAN
  /\ confirm \in {"idle", "saved", "verify"}
  /\ {restore, probe, sweep} \subseteq 0..MaxCaptures
  /\ save \in [prev : 0..MaxCaptures, new : 0..MaxCaptures]

Init ==
  /\ life = "DISCONNECTED" /\ stored = [status |-> "none", of |-> None]
  /\ files = {} /\ made = 0 /\ dead = {}
  /\ window = "none" /\ recent = FALSE /\ confirm = "idle" /\ fresh = FALSE
  /\ save = NoSave /\ restore = None /\ probe = None /\ sweep = None

credential == <<stored, files, made, dead>>
asking     == <<confirm, save, restore, probe, sweep>>

-------------------------------------------------------------------------------
(* The login window                                                         *)

\* BrowserAuthorizationManager.start: one window at a time.
Opened == IF window = "none" THEN "open" ELSE window

(* start_browser_authorization: the worker opens a window, or answers 409   *)
(* because it holds one; both ways the state becomes AUTHENTICATING.        *)
StartLogin ==
  /\ life' = Applied(life, "LOGIN_STARTED") /\ recent' = TRUE
  /\ window' = Opened
  /\ fresh' = FALSE
  /\ UNCHANGED <<credential, asking>>

(* The person signs in, or closes the window, which the manager is not told.*)
InWindow ==
  /\ \/ window = "open" /\ window' = "signed"
     \/ window \in {"open", "signed"} /\ window' = "closed"
  /\ UNCHANGED <<credential, asking, life, recent, fresh>>

(* The browser service restarts: its windows lived in its memory.           *)
RestartService ==
  /\ window # "none" /\ window' = "none"
  /\ UNCHANGED <<credential, asking, life, recent, fresh>>

Grace == recent /\ recent' = FALSE
         /\ UNCHANGED <<credential, asking, life, window, fresh>>

\* A usable stored session as the row has it, whatever the state said before.
HasUsableStored == stored.status = "available"

\* cancel_login: a user with a usable capture keeps it.
Cancelled == IF HasUsableStored THEN Applied(life, "LOGIN_CONFIRMED")
             ELSE Applied(life, "LOGIN_CANCELLED")

(* cancel_browser_authorization.                                            *)
CancelLogin ==
  /\ window' = "none"
  /\ life' = IF life = "AUTHENTICATING" THEN Cancelled ELSE life
  /\ recent' = (recent \/ life = "AUTHENTICATING")
  /\ UNCHANGED <<credential, asking, fresh>>

(* A status read whose worker no longer has the window: reconcile_waiting.  *)
Reconcile ==
  /\ life = "AUTHENTICATING" /\ window = "none" /\ ~recent
  /\ life' = Cancelled /\ recent' = TRUE
  /\ UNCHANGED <<credential, asking, window, fresh>>

(* login_confirm of the browser service finds the page signed in: the       *)
(* window is closed and the capture saved.  A closed page fails, and is     *)
(* dropped all the same.                                                    *)
ConfirmWindow ==
  /\ confirm = "idle" /\ life = "AUTHENTICATING"
  /\ window \in {"signed", "closed"} /\ window' = "none"
  /\ IF window = "signed" /\ made < MaxCaptures
       THEN /\ made' = made + 1
            /\ files' = (files \cup {made + 1}) \ {stored.of}
            /\ stored' = [status |-> "available", of |-> made + 1]
            /\ confirm' = "saved" /\ fresh' = TRUE
       ELSE UNCHANGED <<made, files, stored, confirm, fresh>>
  /\ UNCHANGED <<life, dead, recent, save, restore, probe, sweep>>

(* The API records the confirmation, and answers 409 when the state moved.  *)
ConfirmState ==
  /\ confirm = "saved"
  /\ life' = Applied(life, "LOGIN_CONFIRMED")
  /\ confirm' = IF CanApply(life, "LOGIN_CONFIRMED") THEN "verify" ELSE "idle"
  /\ recent' = TRUE
  /\ UNCHANGED <<credential, window, save, restore, probe, sweep, fresh>>

\* record_verification of an answer about capture c.
Verified(c) ==
  /\ IF c \in dead
       THEN life' = Applied(Applied(life, "VERIFIED_DEAD"), "EXPIRY_ACKNOWLEDGED")
       ELSE life' = Applied(life, "VERIFIED_LIVE")
  /\ recent' = TRUE
  /\ fresh' = (fresh /\ c \notin dead)

(* _verify_captured_session asks the site about the row of now; the answer  *)
(* may be that it cannot tell.                                              *)
ConfirmVerify ==
  /\ confirm = "verify" /\ confirm' = "idle"
  /\ \/ stored.of \in files /\ Verified(stored.of)
     \/ UNCHANGED <<life, recent, fresh>>
  /\ UNCHANGED <<credential, window, save, restore, probe, sweep>>

-------------------------------------------------------------------------------
(* The status request with probe=true                                       *)

(* The file is read; one that cannot be read ends the session.              *)
StatusLoad ==
  /\ probe = None /\ stored.status # "none" /\ life \in USABLE_STATES
  /\ IF stored.of \in files
       THEN probe' = stored.of /\ UNCHANGED <<life, recent, fresh>>
       ELSE /\ life' = Applied(life, "STATE_CORRUPTED") /\ recent' = TRUE
            /\ fresh' = FALSE /\ UNCHANGED probe
  /\ UNCHANGED <<credential, window, confirm, save, restore, sweep>>

(* The answer is applied to the state and the row as they are by then.      *)
StatusAnswer ==
  /\ probe # None /\ probe' = None
  /\ Verified(probe)
  /\ stored' = IF /\ probe \in dead /\ CanApply(life, "VERIFIED_DEAD")
                  /\ stored.status # "none"
               THEN [stored EXCEPT !.status = "expired"] ELSE stored
  /\ UNCHANGED <<files, made, dead, window, confirm, save, restore, sweep>>

StatusUnknown ==
  /\ probe # None /\ probe' = None
  /\ UNCHANGED <<credential, life, window, recent, confirm, save, restore, sweep, fresh>>

-------------------------------------------------------------------------------
(* The browser worker and service: restore, probe, save                     *)

(* restore reads the row: the audit, the searches and the probes only one   *)
(* that is available, the application tasks any row.                        *)
RestoreRow ==
  /\ restore = None /\ stored.status # "none"
  /\ restore' = stored.of
  /\ UNCHANGED <<credential, life, window, recent, confirm, save, probe, sweep, fresh>>

(* ... then the file: the status becomes available or corrupted, and a      *)
(* probe that is due goes on to ask the site.                               *)
RestoreFile ==
  /\ restore # None /\ restore' = None
  /\ stored' = IF stored.status = "none" THEN stored
               ELSE [stored EXCEPT !.status = IF restore \in files THEN "available"
                                              ELSE "corrupted"]
  /\ sweep' \in IF restore \in files THEN {sweep, restore} ELSE {sweep}
  /\ UNCHANGED <<files, made, dead, life, window, recent, confirm, save, probe, fresh>>

(* probe_active_browser_sessions: a dead answer is written to the row as it *)
(* is by then; the lifecycle state is not touched.                          *)
SweepAnswer ==
  /\ sweep # None /\ sweep' = None
  /\ stored' = IF sweep \in dead /\ stored.status # "none"
               THEN [stored EXCEPT !.status = "expired"] ELSE stored
  /\ UNCHANGED <<files, made, dead, life, window, recent, confirm, save, restore, probe, fresh>>

(* BrowserSessionService.save after a run (cookies rotate): the row is      *)
(* read and the new file written ...                                        *)
SaveFile ==
  /\ save = NoSave /\ stored.status # "none" /\ made < MaxCaptures
  /\ made' = made + 1 /\ save' = [prev |-> stored.of, new |-> made + 1]
  /\ files' = files \cup {made + 1}
  /\ UNCHANGED <<stored, dead, life, window, recent, confirm, restore, probe, sweep, fresh>>

(* ... then the row is committed and the previous file goes.                *)
SaveCommit ==
  /\ save # NoSave /\ save' = NoSave
  /\ stored.status # "none"
  /\ stored' = [status |-> "available", of |-> save.new]
  /\ files' = files \ {save.prev}
  /\ UNCHANGED <<made, dead, life, window, recent, confirm, restore, probe, sweep, fresh>>

\* A save that deletes the previous file before it knows that the commit failed.
SaveFailsLate ==
  /\ save # NoSave /\ save' = NoSave
  /\ files' = files \ {save.prev, save.new}
  /\ UNCHANGED <<stored, made, dead, life, window, recent, confirm, restore, probe, sweep, fresh>>

(* The commit fails, or the row is gone: the new file goes.                 *)
SaveFails ==
  /\ save # NoSave /\ save' = NoSave
  /\ files' = files \ {save.new}
  /\ UNCHANGED <<stored, made, dead, life, window, recent, confirm, restore, probe, sweep, fresh>>

(* purge_expired_browser_sessions: file and row, not the lifecycle state.   *)
Purge ==
  /\ stored.status # "none"
  /\ files' = files \ {stored.of} /\ stored' = [status |-> "none", of |-> None]
  /\ UNCHANGED <<made, dead, life, window, recent, asking, fresh>>

(* The site ends a session.                                                 *)
SiteDrops ==
  /\ stored.of \in Capture \ dead /\ dead' = dead \cup {stored.of}
  /\ UNCHANGED <<stored, files, made, life, window, recent, asking, fresh>>

Next ==
  \/ StartLogin \/ InWindow \/ RestartService \/ Grace \/ CancelLogin \/ Reconcile
  \/ ConfirmWindow \/ ConfirmState \/ ConfirmVerify
  \/ StatusLoad \/ StatusAnswer \/ StatusUnknown
  \/ RestoreRow \/ RestoreFile \/ SweepAnswer
  \/ SaveFile \/ SaveCommit \/ SaveFails \/ Purge \/ SiteDrops

Spec == Init /\ [][Next]_vars

-------------------------------------------------------------------------------
(* Properties                                                               *)

(* A login the browser service has confirmed is usable once the API request *)
(* is through, although a status read may have dropped the vanished window  *)
(* in between ("the capture is the truth", browser_session_state.py), until *)
(* another login, a refusal by the site or a lost file speaks against it.   *)
ConfirmedIsUsable == fresh /\ confirm = "idle" => life \in USABLE_STATES

(* The file of the capture on record exists: saves of the worker and logins *)
(* of the service overlap, commits fail, and each deletes only what the row *)
(* no longer needs.                                                         *)
RowHasItsFile == stored.status # "none" => stored.of \in files

(* Together: a login that counts can be loaded.                             *)
LoginsAreKept == ConfirmedIsUsable /\ RowHasItsFile
===============================================================================
