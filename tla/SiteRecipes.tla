------------------------------- MODULE SiteRecipes -------------------------------
(***************************************************************************)
(* Search recipes of one site that the person has defined: drafts written  *)
(* by hand, recorded or learnt, tests, activation, the searches that run    *)
(* them, and the visible windows in which searches are recorded.            *)
(***************************************************************************)
EXTENDS Naturals, Sequences

CONSTANTS Host,        \* hosts a site may be allowed
          Window,      \* browser windows
          MaxVersions, \* bounds the recipe versions
          MaxEdits     \* bounds the edits of the site

VARIABLES
  hosts,    \* allowed_hosts of the site
  edits,    \* how often they were edited
  recipes,  \* its recipe versions
  proved,   \* versions a run of which has returned results
  saving,   \* the save_draft under way
  learning, \* the learn request under way
  testing,  \* the test request under way
  search,   \* the discovery search under way
  windows,  \* open recording windows
  active,   \* the recording the manager knows: a window, or nothing
  opening,  \* the window being opened, under the manager's lock
  closing   \* windows whose recording is being read

srVars == <<hosts, edits, recipes, proved, saving, learning, testing, search,
            windows, active, opening, closing>>
requests == <<saving, learning, testing, search>>
recording == <<windows, active, opening, closing>>

Version == 1..MaxVersions
Recipe  == [host : Host, status : {"draft", "active", "archived"}, verified : BOOLEAN]
Idle    == [pc |-> "idle"]
Read    == [host : Host, verified : BOOLEAN, drafts : SUBSET Version, version : 1..MaxVersions + 1]

SrTypeOK ==
  /\ hosts \subseteq Host /\ hosts # {} /\ edits \in 0..MaxEdits
  /\ recipes \in Seq(Recipe) /\ Len(recipes) <= MaxVersions /\ proved \subseteq Version
  /\ saving = Idle \/ saving \in [pc : {"read"}, read : Read]
  /\ learning = Idle \/ learning \in [pc : {"asked"}, hosts : SUBSET Host]
  /\ testing = Idle \/ testing \in [pc : {"asked"}, version : Version, hosts : SUBSET Host]
  /\ search = Idle \/ search \in [pc : {"running"}, version : Version]
  /\ windows \subseteq Window /\ closing \subseteq Window
  /\ active \subseteq Window /\ opening \subseteq Window

SrInit ==
  /\ hosts = Host /\ edits = 0 /\ recipes = <<>> /\ proved = {}
  /\ saving = Idle /\ learning = Idle /\ testing = Idle /\ search = Idle
  /\ windows = {} /\ active = {} /\ opening = {} /\ closing = {}

WithStatus(vs, status) ==
  [v \in DOMAIN recipes |-> IF v \in vs THEN [recipes[v] EXCEPT !.status = status] ELSE recipes[v]]

\* An edit that does not ask for a host.
EditSiteToNothing(hs) ==
  /\ edits < MaxEdits /\ hosts' = hs /\ edits' = edits + 1
  /\ UNCHANGED <<recipes, proved, requests, recording>>

\* update_site_definition: the recipes are not validated again.
EditSite(hs) ==
  /\ edits < MaxEdits /\ hs \in (SUBSET Host) \ {{}, hosts}
  /\ hosts' = hs /\ edits' = edits + 1
  /\ UNCHANGED <<recipes, proved, requests, recording>>

-------------------------------------------------------------------------------
(* Drafts                                                                   *)

\* save_draft reads the drafts it is going to replace and the next version ...
SaveRead(host, verified) ==
  /\ saving = Idle /\ Len(recipes) < MaxVersions
  /\ saving' = [pc |-> "read",
                read |-> [host |-> host, verified |-> verified, version |-> Len(recipes) + 1,
                          drafts |-> {v \in DOMAIN recipes : recipes[v].status = "draft"}]]

\* put_draft: validated against the site, nothing proved.
PutDraft(host) ==
  /\ host \in hosts /\ SaveRead(host, FALSE)
  /\ UNCHANGED <<hosts, edits, recipes, proved, learning, testing, search, recording>>

\* ... and then archives the drafts it has read, whatever became of them.
SaveWrite ==
  /\ saving.pc = "read"
  /\ LET r == saving.read
     IN  /\ recipes' = Append(WithStatus(r.drafts, "archived"),
                              [host |-> r.host, status |-> "draft", verified |-> r.verified])
         /\ proved' = proved \cup (IF r.verified THEN {r.version} ELSE {})
  /\ saving' = Idle
  /\ UNCHANGED <<hosts, edits, learning, testing, search, recording>>

LearnAsk ==
  /\ learning = Idle /\ learning' = [pc |-> "asked", hosts |-> hosts]
  /\ UNCHANGED <<hosts, edits, recipes, proved, saving, testing, search, recording>>

\* infer_url_template, learn_selectors and the run that proves them: a recipe for one
\* of the hosts, with results or without; nothing when the page gives no selectors.
Learnt(hs) == [host : hs, results : BOOLEAN]

(* learn_recipe: the worker fails, or has learnt on the hosts it was told.   *)
LearnDone ==
  /\ learning.pc = "asked" /\ learning' = Idle
  /\ \/ UNCHANGED saving
     \/ \E learnt \in Learnt(learning.hosts) : SaveRead(learnt.host, learnt.results)
  /\ UNCHANGED <<hosts, edits, recipes, proved, testing, search, recording>>

-------------------------------------------------------------------------------
(* Verification, activation, search                                         *)

TestAsk(v) ==
  /\ testing = Idle /\ testing' = [pc |-> "asked", version |-> v, hosts |-> hosts]
  /\ UNCHANGED <<hosts, edits, recipes, proved, saving, learning, search, recording>>

(* test_recipe: the worker refuses a recipe outside the hosts it was told,   *)
(* fails, or answers; record_verification takes back what had been verified  *)
(* when the answer is empty.                                                *)
VerificationOfAny(results) == TRUE
Verification(results) == results
TestDone ==
  /\ testing.pc = "asked" /\ testing' = Idle
  /\ \/ UNCHANGED <<recipes, proved>>
     \/ /\ recipes[testing.version].host \in testing.hosts
        /\ \E results \in BOOLEAN :
             /\ recipes' = [recipes EXCEPT ![testing.version].verified = Verification(results)]
             /\ proved' = proved \cup (IF results THEN {testing.version} ELSE {})
  /\ UNCHANGED <<hosts, edits, saving, learning, search, recording>>

\* activate: the previous version is archived before this one is promoted.
Activate(v) ==
  /\ recipes[v].verified /\ recipes[v].host \in hosts
  /\ LET old == {w \in DOMAIN recipes \ {v} : recipes[w].status = "active"}
     IN  recipes' = [WithStatus(old, "archived") EXCEPT ![v].status = "active"]
  /\ UNCHANGED <<hosts, edits, proved, requests, recording>>

Archive(v) ==
  /\ recipes' = WithStatus({v}, "archived")
  /\ UNCHANGED <<hosts, edits, proved, requests, recording>>

(* A discovery search takes the active recipe, which the worker validates.   *)
SearchStart ==
  /\ search = Idle
  /\ \E v \in DOMAIN recipes :
       /\ recipes[v].status = "active" /\ recipes[v].host \in hosts
       /\ search' = [pc |-> "running", version |-> v]
  /\ UNCHANGED <<hosts, edits, recipes, proved, saving, learning, testing, recording>>

SearchEnd ==
  /\ search # Idle /\ search' = Idle
  /\ UNCHANGED <<hosts, edits, recipes, proved, saving, learning, testing, recording>>

-------------------------------------------------------------------------------
(* SearchRecipeRecordingManager                                             *)

Locked == opening # {}
CanStartAnyway == ~Locked
CanStart == ~Locked /\ active = {}

StartRecording(w) ==
  /\ CanStart /\ w \notin windows
  /\ windows' = windows \cup {w} /\ opening' = {w}
  /\ UNCHANGED <<hosts, edits, recipes, proved, requests, active, closing>>

\* The page opens, or start closes the window again.
Opened ==
  /\ Locked
  /\ \/ active' = opening /\ UNCHANGED windows
     \/ windows' = windows \ opening /\ UNCHANGED active
  /\ opening' = {}
  /\ UNCHANGED <<hosts, edits, recipes, proved, requests, closing>>

\* stop and cancel take the recording from the manager; the window closes later.
StopRecording ==
  /\ ~Locked /\ active # {}
  /\ closing' = closing \cup active /\ active' = {}
  /\ UNCHANGED <<hosts, edits, recipes, proved, requests, windows, opening>>

Closed(w) ==
  /\ w \in closing /\ closing' = closing \ {w} /\ windows' = windows \ {w}
  /\ UNCHANGED <<hosts, edits, recipes, proved, requests, active, opening>>

SrNext ==
  \/ \E hs \in SUBSET Host : EditSite(hs)
  \/ \E host \in Host : PutDraft(host)
  \/ SaveWrite \/ LearnAsk \/ LearnDone \/ TestDone \/ SearchStart \/ SearchEnd
  \/ \E v \in DOMAIN recipes : TestAsk(v) \/ Activate(v) \/ Archive(v)
  \/ \E w \in Window : StartRecording(w) \/ Closed(w)
  \/ Opened \/ StopRecording

SrSpec == SrInit /\ [][SrNext]_srVars

-------------------------------------------------------------------------------
(* docs/universal-site-automation.md: drafts never run in discovery, only    *)
(* what has returned results does -- across drafts that are saved while      *)
(* others are activated, tests that end after the version has changed, and   *)
(* versions that are activated again.                                        *)
OnlyProvedRecipesRun == search # Idle => search.version \in proved

(* SearchRecipeRecordingManager: every open recording window can be reached  *)
(* by stop or cancel, or is about to close; none is left open for good.      *)
WindowsAreOwned == windows = active \cup opening \cup closing

(* Together: what a person records ends, and runs only after it has worked. *)
RecordingsAreSafe == OnlyProvedRecipesRun /\ WindowsAreOwned
====
