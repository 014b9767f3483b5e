--------------------------------- MODULE Sites ---------------------------------
(***************************************************************************)
(* What the system gets from outside and finds again: the logins and        *)
(* recipes of the sites, the vacancies found there, the mailbox and the     *)
(* search indices share no state that is modelled, so that their instances  *)
(* stand side by side, each behaviour moving only the part it has begun     *)
(* with.                                                                    *)
(***************************************************************************)
EXTENDS Integers, Sequences, FiniteSets

CONSTANTS
  MaxCaptures,                                           \* BrowserSessions
  Host, Window, MaxVersions, MaxEdits,                   \* SiteRecipes
  Vacancy, LinkedIn, Board, Moves,                       \* SiteDiscovery
  Mixed,                                                 \* those on LinkedIn when others are on a board
  Message, Request, Application, NoOne, Malformed,       \* EmailSync
  Subjects, PlainText, HtmlText, Attachments, Uploads, MaxFetched, MaxImported, MaxRuns,
  Evidence, CvOf, IsVerified, Similar, Limit, Run,       \* EvidenceIndex
  EvidenceBatch, EvidenceIndices,
  VacancyBatch, VacancyIndices, MaxStarts                \* VacancySearch

VARIABLES
  life, stored, files, made, dead, window, recent, confirm, save, restore, probe, sweep, fresh,
  hosts, edits, recipes, proved, saving, learning, testing, search,
  windows, active, opening, closing,
  vacancies, status, confirmed, sent, banned, discovery, syncing,
  mailbox, integration, events, sync,
  evidence, indices, evidenceAlias, rebuild, retrieval, got,
  saved, searchIndices, searchAlias, used, attempted, retriever, searching, starts,
  part

sessionVars   == <<life, stored, files, made, dead, window, recent, confirm, save, restore,
                   probe, sweep, fresh>>
recipeVars    == <<hosts, edits, recipes, proved, saving, learning, testing, search,
                   windows, active, opening, closing>>
discoveryVars == <<vacancies, status, confirmed, sent, banned, discovery, syncing>>
mailVars      == <<mailbox, integration, events, sync>>
indexVars     == <<evidence, indices, evidenceAlias, rebuild, retrieval, got>>
searchVars    == <<saved, searchIndices, searchAlias, used, attempted, retriever, searching, starts>>
vars          == <<sessionVars, recipeVars, discoveryVars, mailVars, indexVars, searchVars, part>>

Sessions  == INSTANCE BrowserSessions
Recipes   == INSTANCE SiteRecipes
\* With these vacancies on LinkedIn and those on a board.
Discovery(linkedin, board) == INSTANCE SiteDiscovery WITH
  stored <- vacancies, search <- discovery, LinkedIn <- linkedin, Board <- board
Mail      == INSTANCE EmailSync WITH
  None <- NoOne, Subject <- Subjects, Plain <- PlainText, Html <- HtmlText,
  Attached <- Attachments, Window <- MaxFetched, MaxMessages <- MaxImported

Index     == INSTANCE EvidenceIndex WITH
  rows <- evidence, docs <- indices, alias <- evidenceAlias, run <- retrieval,
  Verified <- IsVerified, BatchSize <- EvidenceBatch, MaxIndices <- EvidenceIndices
Search    == INSTANCE VacancySearch WITH
  rows <- saved, docs <- searchIndices, alias <- searchAlias, request <- searching,
  BatchSize <- VacancyBatch, MaxIndices <- VacancyIndices

(* The bounds are numbers, the subsets subsets; a resume has finitely many   *)
(* pieces of evidence, a retrieval gives some, and what files unpack to are  *)
(* messages.                                                                *)
ASSUME SitesAssumption ==
  /\ {MaxCaptures, MaxVersions, MaxEdits, MaxFetched, MaxImported, MaxRuns,
      EvidenceIndices, VacancyIndices} \subseteq Nat
  /\ {MaxStarts, Limit} \subseteq Nat \ {0}
  /\ Host # {}
  /\ LinkedIn \cup Board \cup Mixed \subseteq Vacancy
  /\ Moves \subseteq Discovery(LinkedIn, Board)!Status
  /\ \A chosen \in Uploads : Mail!Imported(chosen) \in Seq(Message)
  /\ IsFiniteSet(Evidence) /\ Evidence # {}

\* The choices of the instances that a behaviour leaves alone are fixed.
Init ==
  /\ part \in {"sessions", "recipes", "discovery", "boards", "mail", "evidence", "search"}
  /\ Sessions!Init /\ Recipes!SrInit /\ Discovery(LinkedIn, Board)!SdInit
  /\ Mail!EsInit /\ Index!EiInit /\ Search!VsInit
  /\ part # "mail" => mailbox = <<>>
  /\ part # "search" => saved = {}

Next ==
  /\ UNCHANGED part
  /\ \/ /\ part = "sessions" /\ Sessions!Next
        /\ UNCHANGED <<recipeVars, discoveryVars, mailVars, indexVars, searchVars>>
     \/ /\ part = "recipes" /\ Recipes!SrNext
        /\ UNCHANGED <<sessionVars, discoveryVars, mailVars, indexVars, searchVars>>
     \/ /\ part = "discovery" /\ Discovery(LinkedIn, Board)!SdNext
        /\ UNCHANGED <<sessionVars, recipeVars, mailVars, indexVars, searchVars>>
     \/ /\ part = "boards" /\ Discovery(Mixed, Vacancy \ Mixed)!SdNext
        /\ UNCHANGED <<sessionVars, recipeVars, mailVars, indexVars, searchVars>>
     \/ /\ part = "mail" /\ Mail!EsNext
        /\ UNCHANGED <<sessionVars, recipeVars, discoveryVars, indexVars, searchVars>>
     \/ /\ part = "evidence" /\ Index!EiNext
        /\ UNCHANGED <<sessionVars, recipeVars, discoveryVars, mailVars, searchVars>>
     \/ /\ part = "search" /\ Search!VsNext
        /\ UNCHANGED <<sessionVars, recipeVars, discoveryVars, mailVars, indexVars>>

Spec == Init /\ [][Next]_vars

-------------------------------------------------------------------------------
(* The six type invariants.                                                 *)
TypesOK ==
  /\ Sessions!TypeOK /\ Recipes!SrTypeOK /\ Discovery(LinkedIn, Board)!SdTypeOK
  /\ Mail!EsTypeOK /\ Index!EiTypeOK /\ Search!VsTypeOK

(* The properties, as the modules state and explain them: logins that count *)
(* can be loaded,                                                           *)
LoginsAreKept == Sessions!LoginsAreKept
(* recordings end, and run in searches only when they have worked,          *)
RecordingsAreSafe == Recipes!RecordingsAreSafe
(* no job that was applied for invites a second application (postings that  *)
(* are settled together are all on LinkedIn),                               *)
NeverInvitedTwice ==
  /\ []Discovery(LinkedIn, Board)!SubmittedIsOnRecord
  /\ [][part = "discovery" => Discovery(LinkedIn, Board)!Settles]_vars
(* the messages of the mailbox are kept, each once,                         *)
MailboxIsKept == Mail!MailboxIsKept
(* the evidence that a retrieval gives is current,                          *)
RetrievedIsCurrent == Index!RetrievedIsCurrent
(* and what the search of vacancies once knows it keeps.                    *)
NothingLeavesTheIndex == Search!NothingLeavesTheIndex
===============================================================================
