------------------------------- MODULE EmailSync -------------------------------
(***************************************************************************)
(* How employers' messages reach the events: from the mailbox              *)
(* (app/services/imap_email_provider.py) or from uploaded files            *)
(* (email_file_import.py), one after the other through the classifier and   *)
(* the matcher (application_email_sync.py).  Several requests may be at it, *)
(* each with a database session of its own; they alternate where they await *)
(* the mailbox, the language model or the retrieval.  What an event does to *)
(* its application is the business of EmailEvents.                          *)
(***************************************************************************)
EXTENDS Naturals, FiniteSets, SequencesExt

CONSTANTS Message, Request, Application, None,
          Subject, Plain, Html,  \* of each message; a missing part is ""
          Attached,              \* the messages attached to a message
          Malformed,             \* with a text that the database refuses
          Uploads,               \* files the person may import together
          Window,                \* max_messages of a mailbox synchronisation
          MaxMessages,           \* max_messages of an import
          MaxRuns                \* how often each request is made

VARIABLES
  mailbox,      \* the messages in it, in the order of their arrival
  integration,  \* email_integrations: "none", "enabled", "disabled"
  events,       \* application_email_events: the text, as its fingerprint, and the application
  sync          \* each request: what it fetched and how far it is

esVars == <<mailbox, integration, events, sync>>

NoSync == [pc |-> "idle", path |-> "mailbox", batch |-> <<>>, at |-> 1, window |-> {},
           created |-> 0, duplicates |-> 0, failed |-> 0, broken |-> FALSE, runs |-> 0]

EsInit ==
  /\ mailbox = <<>> /\ integration = "none" /\ events = {}
  /\ sync = [r \in Request |-> NoSync]

Step(r, s) == sync' = [sync EXCEPT ![r] = s]

-------------------------------------------------------------------------------
(* Reading messages                                                         *)

NotEmpty(texts) == SelectSeq(texts, LAMBDA t : t # "")

\* _plain_text_body walks through the attached messages too, and knows no HTML.
MailboxText(m) ==
  <<Subject[m], NotEmpty(<<Plain[m]>> \o [i \in DOMAIN Attached[m] |-> Plain[Attached[m][i]]])>>

\* _message_text_without_nested_messages
FileText(m) == <<Subject[m], NotEmpty(<<IF Plain[m] # "" THEN Plain[m] ELSE Html[m]>>)>>

TextOf(path, m) == IF path = "mailbox" THEN MailboxText(m) ELSE FileText(m)
Text            == {TextOf(path, m) : path \in {"mailbox", "file"}, m \in Message}

EsTypeOK ==
  /\ mailbox \in Seq(Message) /\ integration \in {"none", "enabled", "disabled"}
  /\ events \subseteq [text : Text, app : Application \cup {None}]
  /\ sync \in [Request -> [pc : {"idle", "fetch", "next", "asked", "done"}, path : {"mailbox", "file"},
                           batch : Seq(Message), at : Nat, window : SUBSET Message,
                           created : Nat, duplicates : Nat, failed : Nat,
                           broken : BOOLEAN, runs : 0..MaxRuns]]
  /\ \A r \in Request : sync[r].pc \in {"next", "asked"} =>
       LET s == sync[r]
       IN  s.created + s.duplicates + s.failed = s.at - 1 /\ s.at - 1 <= Len(s.batch)

\* _parse_email_message: the message, then those attached to it.
Parsed(m) == <<m>> \o Attached[m]

FirstOf(s, n) == IF Len(s) <= n THEN s ELSE SubSeq(s, 1, n)
LastOf(s, n)  == IF Len(s) <= n THEN s ELSE SubSeq(s, Len(s) - n + 1, Len(s))

\* The oldest messages of the mailbox instead of the newest.
Oldest(s) == FirstOf(s, Window)
Recent(s) == LastOf(s, Window)

\* _parse_zip_bytes passes over unsafe paths; an mbox has none.
Members(file) == SelectSeq(file.messages, LAMBDA m : m \notin file.unsafe)

\* UploadedEmailImportProvider.fetch_messages, file after file.
Imported(files) ==
  FirstOf(FlattenSeq([i \in DOMAIN files |->
                       FlattenSeq([j \in DOMAIN Members(files[i]) |-> Parsed(Members(files[i])[j])])]),
          MaxMessages)

Arrives ==
  /\ \E m \in Message : m \notin Range(mailbox) /\ mailbox' = Append(mailbox, m)
  /\ UNCHANGED <<integration, events, sync>>

(* EmailIntegrationService.save                                             *)
SaveIntegration ==
  /\ integration' \in {"enabled", "disabled"}
  /\ UNCHANGED <<mailbox, events, sync>>

-------------------------------------------------------------------------------
(* A request                                                                *)

Idle(r) == sync[r].pc \in {"idle", "done"} /\ sync[r].runs < MaxRuns
Begins(r, path) == [NoSync EXCEPT !.pc = "fetch", !.path = path, !.runs = sync[r].runs + 1]

Start(r) ==
  /\ Idle(r) /\ integration = "enabled"
  /\ Step(r, Begins(r, "mailbox"))
  /\ UNCHANGED <<mailbox, integration, events>>

(* What passes the limits on files and bytes is read at once; an archive    *)
(* that unpacks to too much, or a file that is none, spoils the import.     *)
Import(r) ==
  /\ Idle(r)
  /\ LET s == Begins(r, "file")
     IN  \/ \E files \in Uploads : Step(r, [s EXCEPT !.pc = "next", !.batch = Imported(files)])
         \/ Step(r, [s EXCEPT !.pc = "done", !.failed = 1])
  /\ UNCHANGED <<mailbox, integration, events>>

(* _fetch_messages in its thread; a message that comes without bytes is     *)
(* passed over.                                                             *)
Fetch(r) ==
  LET recent == Recent(mailbox)
  IN  /\ sync[r].pc = "fetch"
      /\ \E batch \in {recent} \cup {RemoveAt(recent, i) : i \in DOMAIN recent} :
           Step(r, [sync[r] EXCEPT !.pc = "next", !.batch = batch,
                      !.window = Range(LastOf(mailbox, Window)) \ (Range(recent) \ Range(batch))])
      /\ UNCHANGED <<mailbox, integration, events>>

(* No connection, no login, or any other answer than OK.                    *)
FetchFails(r) ==
  /\ sync[r].pc = "fetch"
  /\ Step(r, [sync[r] EXCEPT !.pc = "done", !.failed = 1])
  /\ UNCHANGED <<mailbox, integration, events>>

Current(r) == sync[r].batch[sync[r].at]
Onward(s)  == [s EXCEPT !.pc = "next", !.at = @ + 1]
Failed(s)  == [Onward(s) EXCEPT !.failed = @ + 1]

(* The classifier is asked, or the patterns when it fails.  A session that  *)
(* needs its rollback refuses even to look the user up.                     *)
Classify(r) ==
  /\ sync[r].pc = "next" /\ sync[r].at <= Len(sync[r].batch)
  /\ Step(r, IF sync[r].broken THEN Failed(sync[r]) ELSE [sync[r] EXCEPT !.pc = "asked"])
  /\ UNCHANGED <<mailbox, integration, events>>

Only(apps) == CHOOSE a \in apps : TRUE

\* match_application_text: a title that fits several settles it, a company may not help.
Mentioned(titles, companies) ==
  CASE Cardinality(titles) = 1                       -> Only(titles)
    [] titles = {} /\ Cardinality(companies) = 1     -> Only(companies)
    [] OTHER                                         -> None

\* _match: by name, by the text, by the retrieval's first answer, sure or not.
Matched(named, titles, companies, found) ==
  CASE Cardinality(named) = 1                -> Only(named)
    [] Mentioned(titles, companies) # None   -> Mentioned(titles, companies)
    [] OTHER                                 -> found

\* The retrieval finds an application, or none, or is out of service.
Matches ==
  {Matched(named, titles, companies, found) :
     named \in SUBSET Application, titles \in SUBSET Application,
     companies \in SUBSET Application, found \in Application \cup {None}}

(* _ingest_common: without an await, up to the commit.  What the database   *)
(* refuses is an error of this message; nobody rolls the session back.      *)
Ingest(r) ==
  LET s == sync[r]
      text == TextOf(s.path, Current(r))
      known == {e \in events : e.text = text}
  IN  /\ s.pc = "asked"
      /\ \E app \in Matches :
           \/ /\ known # {}
              /\ events' = {[e EXCEPT !.app = IF e \in known /\ @ = None THEN app ELSE @] : e \in events}
              /\ Step(r, [Onward(s) EXCEPT !.duplicates = @ + 1])
           \/ /\ known = {} /\ Current(r) \notin Malformed
              /\ events' = events \cup {[text |-> text, app |-> app]}
              /\ Step(r, [Onward(s) EXCEPT !.created = @ + 1])
           \/ /\ known = {} /\ Current(r) \in Malformed
              /\ Step(r, [Failed(s) EXCEPT !.broken = TRUE])
              /\ UNCHANGED events
      /\ UNCHANGED <<mailbox, integration>>

Summary(r) ==
  /\ sync[r].pc = "next" /\ sync[r].at > Len(sync[r].batch)
  /\ Step(r, [sync[r] EXCEPT !.pc = "done"])
  /\ UNCHANGED <<mailbox, integration, events>>

(* The API process restarts: what is committed stays.                       *)
ApiRestarts ==
  /\ \E r \in Request : sync[r].pc \in {"fetch", "next", "asked"}
  /\ sync' = [r \in Request |-> [NoSync EXCEPT !.runs = sync[r].runs]]
  /\ UNCHANGED <<mailbox, integration, events>>

EsNext ==
  \/ Arrives \/ SaveIntegration \/ ApiRestarts
  \/ \E r \in Request : \/ Start(r) \/ Import(r) \/ Fetch(r) \/ FetchFails(r)
                        \/ Classify(r) \/ Ingest(r) \/ Summary(r)

EsSpec == EsInit /\ [][EsNext]_esVars

-------------------------------------------------------------------------------
Stored(path, m) == \E e \in events : e.text = TextOf(path, m)

(* A synchronisation that reports no failure has an event for each of the   *)
(* newest messages that the mailbox held, whatever other requests, a        *)
(* restart or an import did meanwhile; and no text has two.                 *)
MailboxIsKept ==
  /\ \A r \in Request :
       sync[r].pc = "done" /\ sync[r].failed = 0 => \A m \in sync[r].window : Stored("mailbox", m)
  /\ \A e, f \in events : e.text = f.text => e = f
===============================================================================
