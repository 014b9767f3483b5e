------------------------------ MODULE SitesProofs ------------------------------
(***************************************************************************)
(* Proofs about what comes from the sites and the mailbox, and about the    *)
(* indices.  Each part has an inductive invariant of its own, which the     *)
(* other parts leave alone.                                                *)
(***************************************************************************)
EXTENDS Sites, FiniteSetTheorems, TLAPS

-------------------------------------------------------------------------------
(* Logins                                                                   *)

\* Every capture on record or on disk has been made; the one that is being saved has its
\* file, and is neither on record nor about to be deleted.
CapturesInv ==
  /\ stored.of <= made /\ files \subseteq 1..made
  /\ save # Sessions!NoSave => save.new \in files \ {stored.of, save.prev}
  /\ Sessions!RowHasItsFile

\* A confirmed login is usable, or the API is about to record it.
FreshInv ==
  fresh => \/ life \in Sessions!USABLE_STATES
           \/ confirm = "saved" /\ life \in {"AUTHENTICATING", "LOGIN_REQUIRED"}

SessionsInv == Sessions!TypeOK /\ CapturesInv /\ FreshInv

\* What the table does to the states, event by event.
LEMMA Table ==
  ASSUME NEW s \in Sessions!State
  PROVE  /\ Sessions!Applied(s, "LOGIN_STARTED") = "AUTHENTICATING"
         /\ Sessions!Applied(s, "LOGIN_CONFIRMED")
              = IF s \in {"AUTHENTICATING", "LOGIN_REQUIRED"} THEN "AUTHENTICATED" ELSE s
         /\ Sessions!Applied(s, "LOGIN_CANCELLED")
              = IF s = "AUTHENTICATING" THEN "LOGIN_REQUIRED" ELSE s
         /\ Sessions!Applied(s, "VERIFIED_LIVE")
              = IF s \in Sessions!USABLE_STATES THEN "READY" ELSE s
         /\ Sessions!Applied(s, "VERIFIED_DEAD")
              = IF s \in Sessions!USABLE_STATES THEN "EXPIRED" ELSE s
         /\ Sessions!Applied(s, "EXPIRY_ACKNOWLEDGED")
              = IF s = "EXPIRED" THEN "REAUTH_REQUIRED" ELSE s
         /\ Sessions!Applied(s, "STATE_CORRUPTED")
              = IF s \in Sessions!USABLE_STATES THEN "REAUTH_REQUIRED" ELSE s
BY DEF Sessions!Applied, Sessions!CanApply, Sessions!Transitions, Sessions!State,
       Sessions!USABLE_STATES

\* No event leads out of the table, and an answer of the site makes a usable login unusable
\* only when it is dead.
LEMMA Answers ==
  ASSUME NEW c, life \in Sessions!State, Sessions!Verified(c)
  PROVE  /\ life' \in Sessions!State /\ recent' = TRUE
         /\ fresh' = (fresh /\ c \notin dead)
         /\ c \notin dead =>
              life' = IF life \in Sessions!USABLE_STATES THEN "READY" ELSE life
<1>1. \A s \in Sessions!State : Sessions!Applied(s, "VERIFIED_DEAD") \in Sessions!State
  BY Table DEF Sessions!State
<1>2. \A s \in Sessions!State : Sessions!Applied(s, "EXPIRY_ACKNOWLEDGED") \in Sessions!State
  BY Table DEF Sessions!State
<1>3. Sessions!Applied(life, "VERIFIED_LIVE")
        = IF life \in Sessions!USABLE_STATES THEN "READY" ELSE life
  BY Table
<1> QED BY <1>1, <1>2, <1>3 DEF Sessions!Verified, Sessions!State

LEMMA CapturesStep ==
  ASSUME SessionsInv, Sessions!Next
  PROVE  CapturesInv'
<1> USE DEF CapturesInv, Sessions!RowHasItsFile, Sessions!NoSave, Sessions!None
<1>0. /\ CapturesInv /\ made \in Nat
      /\ stored \in [status : {"none", "available", "expired", "corrupted"}, of : Nat]
      /\ save \in [prev : Nat, new : Nat]
  <2>1. MaxCaptures \in Nat
    BY SitesAssumption
  <2> QED BY <2>1 DEF SessionsInv, Sessions!TypeOK
<1>1. CASE Sessions!ConfirmWindow
  <2>1. CASE UNCHANGED <<made, files, stored>>
    BY <1>0, <1>1, <2>1 DEF Sessions!ConfirmWindow
  <2>2. CASE /\ made' = made + 1 /\ files' = (files \cup {made + 1}) \ {stored.of}
             /\ stored' = [status |-> "available", of |-> made + 1]
    <3>1. stored'.of = made + 1 /\ stored.of # made + 1
      BY <1>0, <2>2
    <3>2. UNCHANGED save /\ (save # Sessions!NoSave => save.new # made + 1)
      BY <1>0, <1>1 DEF Sessions!ConfirmWindow
    <3>3. files' \subseteq 1..made'
      <4>1. 1..made \subseteq 1..(made + 1) /\ made + 1 \in 1..(made + 1)
        BY <1>0
      <4> QED BY <1>0, <2>2, <4>1
    <3>4. save # Sessions!NoSave => save.new \in files' \ {stored'.of, save.prev}
      BY <1>0, <2>2, <3>1, <3>2
    <3>5. stored'.of \in files'
      BY <2>2, <3>1
    <3> QED BY <1>0, <2>2, <3>1, <3>2, <3>3, <3>4, <3>5
  <2> QED BY <1>1, <2>1, <2>2 DEF Sessions!ConfirmWindow
<1>2. CASE Sessions!StatusAnswer
  <2>1. stored' \in {stored, [stored EXCEPT !.status = "expired"]}
    BY <1>2 DEF Sessions!StatusAnswer
  <2>2. stored'.of = stored.of /\ (stored'.status # "none" => stored.status # "none")
    BY <1>0, <1>2, <2>1 DEF Sessions!StatusAnswer
  <2> QED BY <1>0, <1>2, <2>2 DEF Sessions!StatusAnswer
<1>3. CASE Sessions!RestoreFile
  <2>1. stored' \in {stored, [stored EXCEPT !.status = "available"],
                     [stored EXCEPT !.status = "corrupted"]}
    BY <1>3 DEF Sessions!RestoreFile
  <2>2. stored'.of = stored.of /\ (stored'.status # "none" => stored.status # "none")
    BY <1>0, <1>3, <2>1 DEF Sessions!RestoreFile
  <2> QED BY <1>0, <1>3, <2>2 DEF Sessions!RestoreFile
<1>4. CASE Sessions!SweepAnswer
  <2>1. stored' \in {stored, [stored EXCEPT !.status = "expired"]}
    BY <1>4 DEF Sessions!SweepAnswer
  <2>2. stored'.of = stored.of /\ (stored'.status # "none" => stored.status # "none")
    BY <1>0, <1>4, <2>1 DEF Sessions!SweepAnswer
  <2> QED BY <1>0, <1>4, <2>2 DEF Sessions!SweepAnswer
<1>5. CASE Sessions!SaveFile
  <2>1. /\ save'.prev = stored.of /\ save'.new = made + 1 /\ made' = made + 1
        /\ files' = files \cup {made + 1} /\ UNCHANGED stored
    BY <1>5 DEF Sessions!SaveFile
  <2> QED BY <1>0, <2>1
<1>6. CASE Sessions!SaveCommit
  <2>1. /\ stored'.of = save.new /\ save' = Sessions!NoSave /\ files' = files \ {save.prev}
        /\ save.new \in files \ {save.prev} /\ UNCHANGED made
    BY <1>0, <1>6 DEF Sessions!SaveCommit
  <2>2. save.new <= made
    BY <1>0, <2>1
  <2> QED BY <1>0, <2>1, <2>2
<1>7. CASE Sessions!SaveFails
  BY <1>0, <1>7 DEF Sessions!SaveFails
<1>8. CASE Sessions!Purge
  <2>1. /\ stored'.of = 0 /\ stored'.status = "none" /\ files' = files \ {stored.of}
        /\ UNCHANGED <<made, save>>
    BY <1>8 DEF Sessions!Purge, Sessions!asking
  <2>2. 0 <= made /\ (save # Sessions!NoSave => save.new # 0)
    BY <1>0
  <2>3. files' \subseteq 1..made'
    BY <1>0, <2>1
  <2>4. save' # Sessions!NoSave => save'.new \in files' \ {stored'.of, save'.prev}
    BY <1>0, <2>1, <2>2
  <2> QED BY <2>1, <2>2, <2>3, <2>4
<1>9. ASSUME UNCHANGED <<stored, files, made, save>>
      PROVE  CapturesInv'
  BY <1>0, <1>9
<1>10. ASSUME \/ Sessions!StartLogin \/ Sessions!InWindow \/ Sessions!RestartService
             \/ Sessions!Grace \/ Sessions!CancelLogin \/ Sessions!Reconcile
             \/ Sessions!ConfirmState \/ Sessions!ConfirmVerify \/ Sessions!StatusLoad
             \/ Sessions!StatusUnknown \/ Sessions!RestoreRow \/ Sessions!SiteDrops
      PROVE  UNCHANGED <<stored, files, made, save>>
  BY <1>10
  DEF Sessions!StartLogin, Sessions!InWindow, Sessions!RestartService, Sessions!Grace,
      Sessions!CancelLogin, Sessions!Reconcile, Sessions!ConfirmState, Sessions!ConfirmVerify,
      Sessions!StatusLoad, Sessions!StatusUnknown, Sessions!RestoreRow, Sessions!SiteDrops,
      Sessions!credential, Sessions!asking
<1> QED
  BY <1>1, <1>2, <1>3, <1>4, <1>5, <1>6, <1>7, <1>8, <1>9, <1>10 DEF Sessions!Next

LEMMA FreshStep ==
  ASSUME SessionsInv, Sessions!Next
  PROVE  FreshInv'
<1> USE DEF FreshInv, Sessions!USABLE_STATES
<1>0. life \in Sessions!State /\ FreshInv /\ fresh \in BOOLEAN
  BY DEF SessionsInv, Sessions!TypeOK
<1>1. CASE Sessions!StartLogin
  BY <1>1 DEF Sessions!StartLogin
<1>2. CASE Sessions!CancelLogin \/ Sessions!Reconcile
  <2>1. life' = life \/ (life = "AUTHENTICATING" /\ life' = Sessions!Cancelled)
    <3>1. life' = IF life = "AUTHENTICATING" THEN Sessions!Cancelled ELSE life
      BY <1>2 DEF Sessions!CancelLogin, Sessions!Reconcile
    <3> QED BY <3>1
  <2>2. life = "AUTHENTICATING" => Sessions!Cancelled \in {"AUTHENTICATED", "LOGIN_REQUIRED"}
    BY <1>0, Table DEF Sessions!Cancelled
  <2>3. UNCHANGED <<fresh, confirm>>
    BY <1>2 DEF Sessions!CancelLogin, Sessions!Reconcile, Sessions!asking
  <2> QED BY <1>0, <2>1, <2>2, <2>3
<1>3. CASE Sessions!ConfirmWindow
  BY <1>0, <1>3 DEF Sessions!ConfirmWindow
<1>4. CASE Sessions!ConfirmState
  BY <1>0, <1>4, Table DEF Sessions!ConfirmState
<1>5. CASE Sessions!ConfirmVerify \/ Sessions!StatusAnswer
  <2>1. UNCHANGED <<life, fresh>> \/ \E c : Sessions!Verified(c)
    BY <1>5 DEF Sessions!ConfirmVerify, Sessions!StatusAnswer
  <2>2. confirm = "saved" => UNCHANGED confirm
    BY <1>5 DEF Sessions!ConfirmVerify, Sessions!StatusAnswer
  <2>3. CASE UNCHANGED <<life, fresh>>
    BY <1>0, <2>2, <2>3
  <2>4. ASSUME NEW c, Sessions!Verified(c)
        PROVE  FreshInv'
    BY <1>0, <2>2, <2>4, Answers
  <2> QED BY <2>1, <2>3, <2>4
<1>6. CASE Sessions!StatusLoad
  BY <1>0, <1>6 DEF Sessions!StatusLoad
<1>7. ASSUME UNCHANGED <<life, fresh, confirm>>
      PROVE  FreshInv'
  BY <1>0, <1>7
<1>8. ASSUME \/ Sessions!InWindow \/ Sessions!RestartService \/ Sessions!Grace
             \/ Sessions!StatusUnknown \/ Sessions!RestoreRow \/ Sessions!RestoreFile
             \/ Sessions!SweepAnswer \/ Sessions!SaveFile \/ Sessions!SaveCommit
             \/ Sessions!SaveFails \/ Sessions!Purge \/ Sessions!SiteDrops
      PROVE  UNCHANGED <<life, fresh, confirm>>
  BY <1>8
  DEF Sessions!InWindow, Sessions!RestartService, Sessions!Grace, Sessions!StatusUnknown,
      Sessions!RestoreRow, Sessions!RestoreFile, Sessions!SweepAnswer, Sessions!SaveFile,
      Sessions!SaveCommit, Sessions!SaveFails, Sessions!Purge, Sessions!SiteDrops, Sessions!asking
<1> QED BY <1>1, <1>2, <1>3, <1>4, <1>5, <1>6, <1>7, <1>8 DEF Sessions!Next

LEMMA SessionTypesStep ==
  ASSUME SessionsInv, Sessions!Next
  PROVE  Sessions!TypeOK'
<1>0. /\ Sessions!TypeOK /\ MaxCaptures \in Nat
      /\ \A n \in 0..MaxCaptures : n < MaxCaptures => n + 1 \in 1..MaxCaptures
  BY SitesAssumption DEF SessionsInv
<1> USE DEF Sessions!TypeOK, Sessions!Capture
<1>1. life' \in Sessions!State
  <2>1. CASE UNCHANGED life \/ \E c : Sessions!Verified(c)
    BY <1>0, <2>1, Answers
  <2>2. CASE life' \in {Sessions!Applied(life, e) :
                         e \in {"LOGIN_STARTED", "LOGIN_CONFIRMED", "LOGIN_CANCELLED",
                                "STATE_CORRUPTED"}}
    BY <1>0, <2>2, Table DEF Sessions!State
  <2> QED
    BY <2>1, <2>2
    DEF Sessions!Next, Sessions!StartLogin, Sessions!InWindow, Sessions!RestartService,
        Sessions!Grace, Sessions!CancelLogin, Sessions!Reconcile, Sessions!Cancelled,
        Sessions!ConfirmWindow, Sessions!ConfirmState, Sessions!ConfirmVerify,
        Sessions!StatusLoad, Sessions!StatusAnswer, Sessions!StatusUnknown,
        Sessions!RestoreRow, Sessions!RestoreFile, Sessions!SweepAnswer, Sessions!SaveFile,
        Sessions!SaveCommit, Sessions!SaveFails, Sessions!Purge, Sessions!SiteDrops
<1> USE DEF Sessions!Next, Sessions!StartLogin, Sessions!InWindow, Sessions!RestartService,
            Sessions!Grace, Sessions!CancelLogin, Sessions!Reconcile, Sessions!ConfirmWindow,
            Sessions!ConfirmState, Sessions!ConfirmVerify, Sessions!StatusLoad,
            Sessions!StatusAnswer, Sessions!StatusUnknown, Sessions!RestoreRow,
            Sessions!RestoreFile, Sessions!SweepAnswer, Sessions!SaveFile, Sessions!SaveCommit,
            Sessions!SaveFails, Sessions!Purge, Sessions!SiteDrops, Sessions!credential,
            Sessions!asking
<1>2. made' \in 0..MaxCaptures
  BY <1>0
<1>3. stored' \in [status : {"none", "available", "expired", "corrupted"}, of : 0..MaxCaptures]
  <2>1. \/ UNCHANGED stored
        \/ Sessions!ConfirmWindow /\ stored' = [status |-> "available", of |-> made + 1]
                                  /\ made < MaxCaptures
        \/ Sessions!SaveCommit /\ stored' = [status |-> "available", of |-> save.new]
        \/ stored' = [status |-> "none", of |-> 0]
        \/ \E st \in {"expired", "corrupted", "available"} : stored' = [stored EXCEPT !.status = st]
    BY <1>0 DEF Sessions!None
  <2> QED BY <1>0, <2>1
<1>4. save' \in [prev : 0..MaxCaptures, new : 0..MaxCaptures]
  <2>1. \/ UNCHANGED save
        \/ save' = [prev |-> stored.of, new |-> made + 1] /\ made < MaxCaptures
        \/ save' = [prev |-> 0, new |-> 0]
    BY <1>0 DEF Sessions!NoSave, Sessions!None
  <2> QED BY <1>0, <2>1
<1>5. files' \subseteq Sessions!Capture
  <2>1. 1..made' \subseteq 1..MaxCaptures
    BY <1>0, <1>2
  <2> QED BY <2>1, CapturesStep DEF CapturesInv
<1>6. dead' \subseteq Sessions!Capture
  <2>1. UNCHANGED dead \/ (dead' = dead \cup {stored.of} /\ stored.of \in Sessions!Capture)
    OBVIOUS
  <2> QED BY <1>0, <2>1
<1>7. {restore', probe', sweep'} \subseteq 0..MaxCaptures
  <2>1. restore' \in {restore, stored.of, 0} /\ probe' \in {probe, stored.of, 0}
    BY DEF Sessions!None
  <2>2. sweep' \in {sweep, restore, 0}
    BY DEF Sessions!None
  <2> QED BY <1>0, <2>1, <2>2
<1>8. /\ window' \in {"none", "open", "signed", "closed"}
      /\ confirm' \in {"idle", "saved", "verify"}
  BY <1>0 DEF Sessions!Opened
<1>9. recent' \in BOOLEAN /\ fresh' \in BOOLEAN
  BY <1>0, Answers
<1> HIDE DEF Sessions!Next, Sessions!StartLogin, Sessions!InWindow, Sessions!RestartService,
             Sessions!Grace, Sessions!CancelLogin, Sessions!Reconcile, Sessions!ConfirmWindow,
             Sessions!ConfirmState, Sessions!ConfirmVerify, Sessions!StatusLoad,
             Sessions!StatusAnswer, Sessions!StatusUnknown, Sessions!RestoreRow,
             Sessions!RestoreFile, Sessions!SweepAnswer, Sessions!SaveFile, Sessions!SaveCommit,
             Sessions!SaveFails, Sessions!Purge, Sessions!SiteDrops, Sessions!credential,
             Sessions!asking
<1> QED BY <1>1, <1>2, <1>3, <1>4, <1>5, <1>6, <1>7, <1>8, <1>9

LEMMA SessionsAlways == Spec => []SessionsInv
<1>1. Init => SessionsInv
  <2>1. MaxCaptures \in Nat /\ (Init => Sessions!Init)
    BY SitesAssumption DEF Init
  <2>2. ASSUME Sessions!Init PROVE Sessions!TypeOK
    <3>1. 0 \in 0..MaxCaptures
      BY <2>1
    <3>2. /\ stored \in [status : {"none", "available", "expired", "corrupted"}, of : 0..MaxCaptures]
          /\ save \in [prev : 0..MaxCaptures, new : 0..MaxCaptures]
      BY <2>2, <3>1 DEF Sessions!Init, Sessions!None, Sessions!NoSave
    <3> QED BY <2>2, <3>1, <3>2 DEF Sessions!Init, Sessions!TypeOK, Sessions!State, Sessions!None
  <2>3. Sessions!Init => CapturesInv /\ FreshInv
    BY DEF Sessions!Init, CapturesInv, FreshInv, Sessions!None, Sessions!RowHasItsFile
  <2> QED BY <2>1, <2>2, <2>3 DEF SessionsInv
<1>2. SessionsInv /\ [Next]_vars => SessionsInv'
  <2>1. CASE Sessions!Next /\ SessionsInv
    BY <2>1, CapturesStep, FreshStep, SessionTypesStep DEF SessionsInv
  <2>2. CASE UNCHANGED sessionVars /\ SessionsInv
    BY <2>2
    DEF SessionsInv, sessionVars, Sessions!TypeOK, CapturesInv, FreshInv, Sessions!RowHasItsFile
  <2> QED BY <2>1, <2>2 DEF Next, vars
<1> QED BY <1>1, <1>2, PTL DEF Spec

\* A login that the browser service has confirmed is usable once the request is through,
\* and the capture on record has its file: whatever logins, saves of the worker, probes
\* and restarts overlap.
THEOREM LoginsStayKept == Spec => []LoginsAreKept
<1>1. SessionsInv => LoginsAreKept
  BY DEF SessionsInv, CapturesInv, FreshInv, LoginsAreKept, Sessions!LoginsAreKept,
         Sessions!ConfirmedIsUsable
<1> QED BY <1>1, SessionsAlways, PTL

-------------------------------------------------------------------------------
(* Recipes                                                                  *)

\* What is verified or active has returned results, and so has what runs; a draft that is
\* being saved will be the next version, and a version that is tested is there.
ProvedInv ==
  /\ \A v \in DOMAIN recipes : recipes[v].verified \/ recipes[v].status = "active" => v \in proved
  /\ saving # Recipes!Idle => /\ saving.read.version = Len(recipes) + 1
                             /\ Len(recipes) < MaxVersions
  /\ testing # Recipes!Idle => testing.version \in DOMAIN recipes
  /\ Recipes!OnlyProvedRecipesRun

\* A window that is opened or recorded is not about to close, and only one is.
WindowsInv ==
  /\ Recipes!WindowsAreOwned
  /\ opening # {} => active = {}
  /\ (opening \cup active) \cap closing = {}

RecipesInv == Recipes!SrTypeOK /\ ProvedInv /\ WindowsInv

LEMMA WindowsStep ==
  ASSUME WindowsInv, Recipes!SrNext
  PROVE  WindowsInv'
<1> USE DEF WindowsInv, Recipes!WindowsAreOwned, Recipes!Locked
<1>1. ASSUME NEW w, Recipes!StartRecording(w) PROVE WindowsInv'
  BY <1>1 DEF Recipes!StartRecording, Recipes!CanStart
<1>2. ASSUME NEW w, Recipes!Closed(w) PROVE WindowsInv'
  BY <1>2 DEF Recipes!Closed
<1>3. CASE Recipes!Opened
  BY <1>3 DEF Recipes!Opened
<1>4. CASE Recipes!StopRecording
  BY <1>4 DEF Recipes!StopRecording
<1>5. CASE UNCHANGED Recipes!recording
  BY <1>5 DEF Recipes!recording
<1> QED
  BY <1>1, <1>2, <1>3, <1>4, <1>5
  DEF Recipes!SrNext, Recipes!EditSite, Recipes!PutDraft, Recipes!SaveWrite, Recipes!LearnAsk,
      Recipes!LearnDone, Recipes!TestDone, Recipes!SearchStart, Recipes!SearchEnd,
      Recipes!TestAsk, Recipes!Activate, Recipes!Archive

\* Another status for some versions changes nothing else.
LEMMA WithStatusFacts ==
  ASSUME Recipes!SrTypeOK, NEW vs, NEW st \in {"draft", "active", "archived"}
  PROVE  LET new == Recipes!WithStatus(vs, st)
         IN  /\ new \in Seq(Recipes!Recipe) /\ Len(new) = Len(recipes)
             /\ DOMAIN new = DOMAIN recipes
             /\ \A v \in DOMAIN recipes :
                  /\ new[v].verified = recipes[v].verified
                  /\ new[v].status = IF v \in vs THEN st ELSE recipes[v].status
<1> DEFINE F(v) == IF v \in vs THEN [recipes[v] EXCEPT !.status = st] ELSE recipes[v]
           new == [v \in DOMAIN recipes |-> F(v)]
<1>1. recipes \in Seq(Recipes!Recipe)
  BY DEF Recipes!SrTypeOK
<1>2. \A v \in DOMAIN recipes : recipes[v] \in Recipes!Recipe
  BY <1>1
<1>3. \A v \in DOMAIN recipes :
        /\ F(v) \in Recipes!Recipe /\ F(v).verified = recipes[v].verified
        /\ F(v).status = IF v \in vs THEN st ELSE recipes[v].status
  BY <1>2 DEF Recipes!Recipe
<1> HIDE DEF F
<1>4. new \in Seq(Recipes!Recipe) /\ Len(new) = Len(recipes) /\ DOMAIN new = DOMAIN recipes
  BY <1>1, <1>3
<1>5. Recipes!WithStatus(vs, st) = new
  BY DEF Recipes!WithStatus, F
<1> QED BY <1>3, <1>4, <1>5

\* The versions stay versions, with what is proved.
VersionsOK ==
  /\ recipes \in Seq(Recipes!Recipe) /\ Len(recipes) <= MaxVersions
  /\ proved \subseteq Recipes!Version
  /\ \A v \in DOMAIN recipes : recipes[v].verified \/ recipes[v].status = "active" => v \in proved

LEMMA VersionsStep ==
  ASSUME RecipesInv, Recipes!SrNext
  PROVE  /\ VersionsOK' /\ proved \subseteq proved'
         /\ ~Recipes!SaveWrite => Len(recipes') = Len(recipes)
         /\ Recipes!SaveWrite => saving' = Recipes!Idle
         /\ Len(recipes) <= Len(recipes')
<1>0. /\ Recipes!SrTypeOK /\ VersionsOK /\ MaxVersions \in Nat
      /\ Len(recipes) \in Nat /\ DOMAIN recipes = 1..Len(recipes)
  BY SitesAssumption DEF RecipesInv, ProvedInv, VersionsOK, Recipes!SrTypeOK
<1> DEFINE Safe(v, r) == r.verified \/ r.status = "active" => v \in proved
<1>1. CASE UNCHANGED <<recipes, proved>>
  <2>1. Recipes!SaveWrite => saving' = Recipes!Idle
    BY DEF Recipes!SaveWrite
  <2> QED BY <1>0, <1>1, <2>1 DEF VersionsOK
<1>2. CASE Recipes!SaveWrite
  <2>1. /\ saving # Recipes!Idle /\ saving.pc = "read" /\ saving.read \in Recipes!Read
    BY <1>0, <1>2 DEF Recipes!SrTypeOK, Recipes!SaveWrite, Recipes!Idle
  <2> DEFINE old == Recipes!WithStatus(saving.read.drafts, "archived")
             new == [host |-> saving.read.host, status |-> "draft", verified |-> saving.read.verified]
  <2>2. /\ old \in Seq(Recipes!Recipe) /\ Len(old) = Len(recipes)
        /\ \A v \in DOMAIN recipes : Safe(v, old[v])
    BY <1>0, WithStatusFacts DEF VersionsOK
  <2>3. new \in Recipes!Recipe /\ new.status = "draft" /\ new.verified = saving.read.verified
    BY <2>1 DEF Recipes!Read, Recipes!Recipe
  <2>4. /\ recipes' = Append(old, new)
        /\ proved' = proved \cup (IF saving.read.verified THEN {saving.read.version} ELSE {})
    BY <1>2 DEF Recipes!SaveWrite
  <2>5. saving.read.version = Len(recipes) + 1 /\ Len(recipes) < MaxVersions
    BY <2>1 DEF RecipesInv, ProvedInv
  <2> HIDE DEF old, new
  <2>6. /\ recipes' \in Seq(Recipes!Recipe) /\ Len(recipes') = Len(recipes) + 1
        /\ DOMAIN recipes' = 1..(Len(recipes) + 1)
        /\ \A v \in 1..Len(recipes) : recipes'[v] = old[v]
        /\ recipes'[Len(recipes) + 1] = new
    BY <1>0, <2>2, <2>3, <2>4
  <2>7. proved \subseteq proved' /\ proved' \subseteq Recipes!Version
    <3>1. saving.read.version \in 1..MaxVersions
      BY <1>0, <2>5
    <3> QED BY <1>0, <2>4, <3>1 DEF VersionsOK, Recipes!Version
  <2>8. \A v \in DOMAIN recipes' :
          recipes'[v].verified \/ recipes'[v].status = "active" => v \in proved'
    BY <1>0, <2>2, <2>3, <2>4, <2>5, <2>6, <2>7
  <2> QED BY <1>0, <1>2, <2>5, <2>6, <2>7, <2>8 DEF VersionsOK, Recipes!SaveWrite
<1>3. ASSUME Recipes!TestDone, ~UNCHANGED <<recipes, proved>>
      PROVE  VersionsOK' /\ proved \subseteq proved' /\ Len(recipes') = Len(recipes)
  <2> DEFINE t == testing.version
  <2>1. PICK results \in BOOLEAN :
          /\ recipes' = [recipes EXCEPT ![t].verified = results]
          /\ proved' = proved \cup (IF results THEN {t} ELSE {})
    BY <1>3 DEF Recipes!TestDone, Recipes!Verification
  <2>2. t \in DOMAIN recipes
    BY <1>3 DEF Recipes!TestDone, Recipes!Idle, RecipesInv, ProvedInv
  <2>3. recipes[t] \in Recipes!Recipe
    BY <1>0, <2>2 DEF VersionsOK
  <2> DEFINE r == [recipes[t] EXCEPT !.verified = results]
  <2>4. r \in Recipes!Recipe /\ r.verified = results /\ r.status = recipes[t].status
    BY <2>3 DEF Recipes!Recipe
  <2>5. recipes' = [recipes EXCEPT ![t] = r]
    BY <2>1
  <2> HIDE DEF r, t
  <2>6. recipes' \in Seq(Recipes!Recipe) /\ Len(recipes') = Len(recipes)
        /\ DOMAIN recipes' = DOMAIN recipes
        /\ \A v \in DOMAIN recipes : recipes'[v] = IF v = t THEN r ELSE recipes[v]
    BY <1>0, <2>2, <2>4, <2>5 DEF VersionsOK
  <2>7. t \in Recipes!Version
    BY <1>0, <2>2 DEF VersionsOK, Recipes!Version
  <2>8. \A v \in DOMAIN recipes :
          recipes'[v].verified \/ recipes'[v].status = "active" => v \in proved'
    BY <1>0, <2>1, <2>4, <2>6 DEF VersionsOK
  <2> QED BY <1>0, <2>1, <2>6, <2>7, <2>8 DEF VersionsOK
<1>4. ASSUME NEW v \in DOMAIN recipes, Recipes!Activate(v) \/ Recipes!Archive(v)
      PROVE  VersionsOK' /\ proved \subseteq proved' /\ Len(recipes') = Len(recipes)
  <2>1. PICK vs : \/ recipes' = Recipes!WithStatus(vs, "archived")
                  \/ /\ recipes' = [Recipes!WithStatus(vs, "archived") EXCEPT ![v].status = "active"]
                     /\ recipes[v].verified
    BY <1>4 DEF Recipes!Activate, Recipes!Archive
  <2> DEFINE old == Recipes!WithStatus(vs, "archived")
             r   == [old[v] EXCEPT !.status = "active"]
  <2>2. /\ old \in Seq(Recipes!Recipe) /\ Len(old) = Len(recipes) /\ DOMAIN old = DOMAIN recipes
        /\ \A w \in DOMAIN recipes : Safe(w, old[w]) /\ old[w].verified = recipes[w].verified
    BY <1>0, WithStatusFacts DEF VersionsOK
  <2>3. UNCHANGED proved
    BY <1>4 DEF Recipes!Activate, Recipes!Archive
  <2>4. recipes' = old \/ (recipes' = [old EXCEPT ![v] = r] /\ recipes[v].verified)
    BY <2>1
  <2>5. old[v] \in Recipes!Recipe
    BY <1>4, <2>2
  <2>6. r \in Recipes!Recipe /\ r.status = "active" /\ r.verified = recipes[v].verified
    BY <1>4, <2>2, <2>5 DEF Recipes!Recipe
  <2>7. recipes[v].verified => v \in proved
    BY <1>0, <1>4 DEF VersionsOK
  <2> HIDE DEF old, r
  <2>8. /\ recipes' \in Seq(Recipes!Recipe) /\ Len(recipes') = Len(recipes)
        /\ DOMAIN recipes' = DOMAIN recipes
        /\ \A w \in DOMAIN recipes : recipes'[w] = old[w]
                                      \/ (w = v /\ recipes[v].verified)
    BY <1>0, <1>4, <2>2, <2>4, <2>6
  <2>9. \A w \in DOMAIN recipes :
          recipes'[w].verified \/ recipes'[w].status = "active" => w \in proved
    BY <2>2, <2>7, <2>8
  <2> QED BY <1>0, <2>3, <2>8, <2>9 DEF VersionsOK
<1>5. Recipes!SaveWrite \/ Recipes!TestDone \/ UNCHANGED <<recipes, proved>>
      \/ \E v \in DOMAIN recipes : Recipes!Activate(v) \/ Recipes!Archive(v)
  BY DEF Recipes!SrNext, Recipes!EditSite, Recipes!PutDraft, Recipes!LearnAsk,
         Recipes!LearnDone, Recipes!SearchStart, Recipes!SearchEnd, Recipes!TestAsk,
         Recipes!StartRecording, Recipes!Closed, Recipes!Opened, Recipes!StopRecording
<1> QED BY <1>0, <1>1, <1>2, <1>3, <1>4, <1>5

\* What each request has read is still so when it is through.
SavingOK ==
  \/ saving = Recipes!Idle
  \/ /\ saving \in [pc : {"read"}, read : Recipes!Read]
     /\ saving.read.version = Len(recipes) + 1 /\ Len(recipes) < MaxVersions
LearningOK == learning = Recipes!Idle \/ learning \in [pc : {"asked"}, hosts : SUBSET Host]
TestingOK ==
  \/ testing = Recipes!Idle
  \/ /\ testing \in [pc : {"asked"}, version : Recipes!Version, hosts : SUBSET Host]
     /\ testing.version \in DOMAIN recipes
SearchOK ==
  \/ search = Recipes!Idle
  \/ search \in [pc : {"running"}, version : Recipes!Version] /\ search.version \in proved

\* Which variables a step writes.
LEMMA RecipeFrames ==
  ASSUME Recipes!SrNext
  PROVE  /\ (\E hs \in SUBSET Host : Recipes!EditSite(hs)) \/ UNCHANGED <<hosts, edits>>
         /\ \/ \E host \in Host : Recipes!PutDraft(host)
            \/ Recipes!SaveWrite \/ Recipes!LearnDone
            \/ UNCHANGED saving /\ ~Recipes!SaveWrite
         /\ Recipes!LearnAsk \/ Recipes!LearnDone \/ UNCHANGED learning
         /\ \/ \E v \in DOMAIN recipes : Recipes!TestAsk(v)
            \/ Recipes!TestDone \/ UNCHANGED testing
         /\ Recipes!SearchStart \/ Recipes!SearchEnd \/ UNCHANGED search
<1> DEFINE Edited == UNCHANGED <<hosts, edits>>
           Others == UNCHANGED <<learning, testing, search>>
<1>1. ASSUME NEW hs, Recipes!EditSite(hs)
      PROVE  Others /\ UNCHANGED saving
  BY <1>1 DEF Recipes!EditSite, Recipes!requests
<1>2. ASSUME NEW host, Recipes!PutDraft(host)
      PROVE  Edited /\ Others
  BY <1>2 DEF Recipes!PutDraft
<1>3. CASE Recipes!SaveWrite
  BY <1>3 DEF Recipes!SaveWrite
<1>4. CASE Recipes!LearnAsk \/ Recipes!LearnDone
  BY <1>4 DEF Recipes!LearnAsk, Recipes!LearnDone
<1>5. CASE Recipes!TestDone \/ Recipes!SearchStart \/ Recipes!SearchEnd
  BY <1>5 DEF Recipes!TestDone, Recipes!SearchStart, Recipes!SearchEnd
<1>6. ASSUME NEW v \in DOMAIN recipes, Recipes!TestAsk(v)
      PROVE  Edited /\ UNCHANGED <<saving, learning, search>>
  BY <1>6 DEF Recipes!TestAsk
<1>7. ASSUME NEW v, Recipes!Activate(v) \/ Recipes!Archive(v)
      PROVE  Edited /\ Others /\ UNCHANGED saving
  BY <1>7 DEF Recipes!Activate, Recipes!Archive, Recipes!requests
<1>8. ASSUME NEW w, Recipes!StartRecording(w) \/ Recipes!Closed(w)
      PROVE  Edited /\ Others /\ UNCHANGED saving
  BY <1>8 DEF Recipes!StartRecording, Recipes!Closed, Recipes!requests
<1>9. CASE Recipes!Opened \/ Recipes!StopRecording
  BY <1>9 DEF Recipes!Opened, Recipes!StopRecording, Recipes!requests
<1> QED
  BY <1>1, <1>2, <1>3, <1>4, <1>5, <1>6, <1>7, <1>8, <1>9 DEF Recipes!SrNext

LEMMA RecipesStep ==
  ASSUME RecipesInv, Recipes!SrNext
  PROVE  RecipesInv'
<1>0. /\ Recipes!SrTypeOK /\ VersionsOK /\ ProvedInv /\ WindowsInv
      /\ MaxVersions \in Nat /\ MaxEdits \in Nat /\ Len(recipes) \in Nat /\ Len(recipes') \in Nat
      /\ DOMAIN recipes = 1..Len(recipes) /\ DOMAIN recipes' = 1..Len(recipes')
  BY SitesAssumption, VersionsStep DEF RecipesInv, ProvedInv, VersionsOK, Recipes!SrTypeOK
<1>1. DOMAIN recipes \subseteq DOMAIN recipes' /\ DOMAIN recipes \subseteq Recipes!Version
  <2>1. Len(recipes) <= MaxVersions /\ Len(recipes) <= Len(recipes')
    BY <1>0, VersionsStep DEF VersionsOK
  <2> QED BY <1>0, <2>1 DEF Recipes!Version
<1>2. SavingOK'
  <2>1. ASSUME NEW host \in Host, NEW verified \in BOOLEAN, Recipes!SaveRead(host, verified),
               UNCHANGED recipes
        PROVE  SavingOK'
    <3> DEFINE drafts == {v \in DOMAIN recipes : recipes[v].status = "draft"}
               r == [host |-> host, verified |-> verified, version |-> Len(recipes) + 1,
                     drafts |-> drafts]
    <3>1. saving' = [pc |-> "read", read |-> r] /\ Len(recipes) < MaxVersions
      BY <2>1 DEF Recipes!SaveRead
    <3>2. drafts \subseteq Recipes!Version
      BY <1>1
    <3>3. Len(recipes) + 1 \in 1..(MaxVersions + 1)
      BY <1>0, <3>1
    <3>4. r \in Recipes!Read /\ r.version = Len(recipes) + 1
      BY <3>2, <3>3 DEF Recipes!Read
    <3> HIDE DEF r
    <3> QED BY <2>1, <3>1, <3>4 DEF SavingOK
  <2>2. CASE \E host \in Host : Recipes!PutDraft(host)
    BY <2>1, <2>2 DEF Recipes!PutDraft
  <2>3. CASE Recipes!LearnDone /\ ~UNCHANGED saving
    <3>1. ASSUME NEW learnt \in Recipes!Learnt(learning.hosts), learning.pc = "asked"
          PROVE  learnt.host \in Host /\ learnt.results \in BOOLEAN
      BY <1>0, <3>1 DEF Recipes!SrTypeOK, Recipes!Learnt, Recipes!Idle
    <3> QED BY <2>1, <2>3, <3>1 DEF Recipes!LearnDone
  <2>4. CASE Recipes!SaveWrite
    BY <2>4, VersionsStep DEF SavingOK
  <2>5. CASE UNCHANGED saving /\ ~Recipes!SaveWrite
    BY <1>0, <2>5, VersionsStep DEF ProvedInv, Recipes!SrTypeOK, SavingOK
  <2> QED BY <2>2, <2>3, <2>4, <2>5, RecipeFrames
<1>3. LearningOK'
  BY <1>0, RecipeFrames DEF Recipes!SrTypeOK, Recipes!LearnAsk, Recipes!LearnDone, LearningOK
<1>4. TestingOK'
  <2>1. ASSUME NEW v \in DOMAIN recipes, Recipes!TestAsk(v)
        PROVE  TestingOK'
    <3>1. testing' = [pc |-> "asked", version |-> v, hosts |-> hosts]
      BY <2>1 DEF Recipes!TestAsk
    <3> QED BY <1>0, <1>1, <3>1 DEF Recipes!SrTypeOK, TestingOK
  <2>2. CASE Recipes!TestDone
    BY <2>2 DEF Recipes!TestDone, TestingOK
  <2>3. CASE UNCHANGED testing
    BY <1>0, <1>1, <2>3 DEF ProvedInv, Recipes!SrTypeOK, TestingOK
  <2> QED BY <2>1, <2>2, <2>3, RecipeFrames
<1>5. SearchOK'
  <2>1. CASE Recipes!SearchStart
    <3>1. PICK v \in DOMAIN recipes : /\ recipes[v].status = "active"
                                      /\ search' = [pc |-> "running", version |-> v]
      BY <2>1 DEF Recipes!SearchStart
    <3>2. v \in proved' /\ v \in Recipes!Version
      BY <1>0, <1>1, <3>1, VersionsStep DEF VersionsOK
    <3> QED BY <3>1, <3>2 DEF SearchOK
  <2>2. CASE Recipes!SearchEnd
    BY <2>2 DEF Recipes!SearchEnd, SearchOK
  <2>3. CASE UNCHANGED search
    BY <1>0, <2>3, VersionsStep
    DEF ProvedInv, Recipes!OnlyProvedRecipesRun, Recipes!SrTypeOK, SearchOK
  <2> QED BY <2>1, <2>2, <2>3, RecipeFrames
<1>6. hosts' \subseteq Host /\ hosts' # {} /\ edits' \in 0..MaxEdits
  <2>1. ASSUME NEW hs \in SUBSET Host, Recipes!EditSite(hs)
        PROVE  <1>6!:
    <3>1. hs \notin {{}, hosts} /\ edits < MaxEdits /\ hosts' = hs /\ edits' = edits + 1
      BY <2>1 DEF Recipes!EditSite
    <3> QED BY <1>0, <2>1, <3>1 DEF Recipes!SrTypeOK
  <2> QED BY <1>0, <2>1, RecipeFrames DEF Recipes!SrTypeOK
<1>7. /\ windows' \subseteq Window /\ closing' \subseteq Window
      /\ active' \subseteq Window /\ opening' \subseteq Window
  BY <1>0
  DEF Recipes!SrTypeOK, Recipes!SrNext, Recipes!EditSite, Recipes!PutDraft, Recipes!SaveWrite,
      Recipes!LearnAsk, Recipes!LearnDone, Recipes!TestDone, Recipes!SearchStart,
      Recipes!SearchEnd, Recipes!TestAsk, Recipes!Activate, Recipes!Archive,
      Recipes!StartRecording, Recipes!Closed, Recipes!Opened, Recipes!StopRecording,
      Recipes!recording
<1>8. Recipes!SrTypeOK'
  BY <1>2, <1>3, <1>4, <1>5, <1>6, <1>7, VersionsStep
  DEF VersionsOK, Recipes!SrTypeOK, SavingOK, LearningOK, TestingOK, SearchOK
<1>9. ProvedInv'
  BY <1>2, <1>4, <1>5, VersionsStep
  DEF VersionsOK, ProvedInv, Recipes!OnlyProvedRecipesRun, SavingOK, TestingOK, SearchOK
<1> QED BY <1>0, <1>8, <1>9, WindowsStep DEF RecipesInv

LEMMA RecipesAlways == Spec => []RecipesInv
<1>1. Init => RecipesInv
  <2>1. MaxVersions \in Nat /\ MaxEdits \in Nat /\ Host # {} /\ (Init => Recipes!SrInit)
    BY SitesAssumption DEF Init
  <2>2. ASSUME Recipes!SrInit PROVE Recipes!SrTypeOK
    BY <2>1, <2>2 DEF Recipes!SrInit, Recipes!SrTypeOK
  <2>3. Recipes!SrInit => ProvedInv /\ WindowsInv
    BY DEF Recipes!SrInit, ProvedInv, WindowsInv, Recipes!OnlyProvedRecipesRun,
           Recipes!WindowsAreOwned
  <2> QED BY <2>1, <2>2, <2>3 DEF RecipesInv
<1>2. RecipesInv /\ [Next]_vars => RecipesInv'
  <2>1. CASE Recipes!SrNext /\ RecipesInv
    BY <2>1, RecipesStep
  <2>2. CASE UNCHANGED recipeVars /\ RecipesInv
    BY <2>2
    DEF RecipesInv, recipeVars, Recipes!SrTypeOK, ProvedInv, WindowsInv,
        Recipes!OnlyProvedRecipesRun, Recipes!WindowsAreOwned
  <2> QED BY <2>1, <2>2 DEF Next, vars
<1> QED BY <1>1, <1>2, PTL DEF Spec

\* A recipe runs in searches only after it has worked, and every recording window ends:
\* across drafts that are saved while others are activated, tests that end late, and
\* windows that are stopped while another is wanted.
THEOREM RecordingsStaySafe == Spec => []RecordingsAreSafe
<1>1. RecipesInv => RecordingsAreSafe
  BY DEF RecipesInv, ProvedInv, WindowsInv, RecordingsAreSafe, Recipes!RecordingsAreSafe
<1> QED BY <1>1, RecipesAlways, PTL

-------------------------------------------------------------------------------
(* Discovery                                                                *)

\* A search that asks about no page has none in hand.
DiscoveryInv ==
  /\ Discovery(LinkedIn, Board)!SdTypeOK
  /\ Discovery(LinkedIn, Board)!SubmittedIsOnRecord
  /\ discovery.pc # "extracting" => discovery.at = {}

\* What may have been sent can be marked as sent.
LEMMA PreSubmissionIsMarked ==
  ASSUME NEW s \in Discovery(LinkedIn, Board)!PRE_SUBMISSION
  PROVE  Discovery(LinkedIn, Board)!check_transition(s, "submitted", "system") # "illegal"
BY DEF Discovery!check_transition, Discovery!PRE_SUBMISSION, Discovery!TRANSITIONS,
       Discovery!EXITS, Discovery!HUMAN_ONLY, Discovery!TRACKING, Discovery!EMAIL_EXTRA

\* Whoever writes that applications were sent leaves them on record.
LEMMA WrittenIsOnRecord ==
  ASSUME NEW L, NEW B, NEW S \in SUBSET Vacancy, NEW of \in [Vacancy -> Discovery(L, B)!Status \cup {"absent"}],
         \A v \in Vacancy : of[v] \in Discovery(L, B)!SUBMISSION_IMPLIED => v \in confirmed,
         confirmed \subseteq Vacancy,
         Discovery(L, B)!WriteSubmitted(of, S)
  PROVE  /\ status' \in [Vacancy -> Discovery(L, B)!Status \cup {"absent"}]
         /\ confirmed' \subseteq Vacancy
         /\ \A v \in Vacancy : status'[v] \in Discovery(L, B)!SUBMISSION_IMPLIED => v \in confirmed'
         /\ \A v \in S : status'[v] = "submitted"
         /\ \A v \in Vacancy \ S : status'[v] = of[v]
BY DEF Discovery!WriteSubmitted, Discovery!SUBMISSION_IMPLIED, Discovery!Status,
       Discovery!POST_SUBMISSION

LEMMA DiscoveryStep ==
  ASSUME NEW L \in SUBSET Vacancy, NEW B, DiscoveryInv, Discovery(L, B)!SdNext
  PROVE  DiscoveryInv'
<1> DEFINE Statuses == Discovery(L, B)!Status \cup {"absent"}
           Recorded(of, known) ==
             \A v \in Vacancy : of[v] \in Discovery(L, B)!SUBMISSION_IMPLIED => v \in known
           Rows   == status \in [Vacancy -> Statuses] /\ confirmed \subseteq Vacancy
                     /\ Recorded(status, confirmed)
           Asking == /\ discovery \in [pc : {"idle", "staging", "extracting"},
                                       hits : SUBSET Vacancy, at : SUBSET Vacancy]
                     /\ discovery.pc # "extracting" => discovery.at = {}
           Syncs  == syncing \in [pc : {"idle", "open"}, read : [Vacancy -> Statuses],
                                  todo : SUBSET Vacancy, at : SUBSET Vacancy, marks : SUBSET Vacancy]
           Rest   == vacancies \subseteq Vacancy /\ sent \subseteq Vacancy /\ banned \in BOOLEAN
<1>1. DiscoveryInv <=> Rows /\ Asking /\ Syncs /\ Rest
  BY DEF DiscoveryInv, Discovery!SdTypeOK, Discovery!SubmittedIsOnRecord, Discovery!Absent,
         Discovery!Status, Discovery!SUBMISSION_IMPLIED, Discovery!PRE_SUBMISSION,
         Discovery!POST_SUBMISSION, Discovery!TRACKING
<1>2. DiscoveryInv' <=> Rows' /\ Asking' /\ Syncs' /\ Rest'
  BY DEF DiscoveryInv, Discovery!SdTypeOK, Discovery!SubmittedIsOnRecord, Discovery!Absent,
         Discovery!Status, Discovery!SUBMISSION_IMPLIED, Discovery!PRE_SUBMISSION,
         Discovery!POST_SUBMISSION, Discovery!TRACKING
<1>3. CASE Discovery(L, B)!StartSearch
  BY <1>1, <1>2, <1>3 DEF Discovery!StartSearch, Discovery!NoSearch, Discovery!Found
<1>4. ASSUME NEW v \in Vacancy, Discovery(L, B)!StageOne(v)
      PROVE  DiscoveryInv'
  BY <1>1, <1>2, <1>4 DEF Discovery!StageOne
<1>5. CASE Discovery(L, B)!StageRead
  <2>1. Asking' /\ Syncs' /\ UNCHANGED <<sent, banned>>
    BY <1>1, <1>5 DEF Discovery!StageRead
  <2>2. PICK v \in discovery.at, read \in BOOLEAN :
          LET prepared == [status EXCEPT ![v] = IF @ = "absent" THEN "awaiting_review" ELSE @]
              shown    == IF read /\ v \in L \cap sent THEN {v} \cup Discovery(L, B)!Postings ELSE {}
          IN  /\ vacancies' = Discovery(L, B)!Kept(v, read)
              /\ \/ UNCHANGED <<status, confirmed>>
                 \/ Discovery(L, B)!WriteSubmitted(prepared, Discovery(L, B)!Markable(prepared, shown))
    BY <1>5 DEF Discovery!StageRead, Discovery!Absent
  <2> DEFINE prepared == [status EXCEPT ![v] = IF @ = "absent" THEN "awaiting_review" ELSE @]
             shown    == IF read /\ v \in L \cap sent THEN {v} \cup Discovery(L, B)!Postings ELSE {}
             marked   == Discovery(L, B)!Markable(prepared, shown)
  <2>3. v \in Vacancy
    BY <1>1, <2>2
  <2>4. vacancies' \subseteq Vacancy
    BY <1>1, <2>2, <2>3 DEF Discovery!Kept
  <2>5. prepared \in [Vacancy -> Statuses] /\ Recorded(prepared, confirmed)
    BY <1>1, <2>3
    DEF Discovery!Status, Discovery!PRE_SUBMISSION, Discovery!SUBMISSION_IMPLIED, Discovery!TRACKING
  <2>6. marked \in SUBSET Vacancy
    BY <2>3 DEF Discovery!Markable, Discovery!Postings
  <2>7. UNCHANGED <<status, confirmed>> \/ Discovery(L, B)!WriteSubmitted(prepared, marked)
    BY <2>2
  <2> HIDE DEF prepared, marked
  <2>8. Rows'
    BY <1>1, <2>5, <2>6, <2>7, WrittenIsOnRecord
  <2> QED BY <1>1, <1>2, <2>1, <2>4, <2>8
<1>6. CASE Discovery(L, B)!EndSearch
  BY <1>1, <1>2, <1>6 DEF Discovery!EndSearch, Discovery!NoSearch
<1>7. CASE Discovery(L, B)!SyncStart
  <2> DEFINE todo == {v \in Vacancy \ B : status[v] \notin Discovery(L, B)!TerminalForSync \cup {"absent"}}
             read == [v \in Vacancy |-> IF v \in todo THEN status[v] ELSE "absent"]
  <2>1. /\ syncing' = [pc |-> "open", read |-> read, todo |-> todo, at |-> {}, marks |-> {}]
        /\ UNCHANGED <<vacancies, status, confirmed, sent, banned, discovery>>
    BY <1>7 DEF Discovery!SyncStart, Discovery!NoSync, Discovery!Absent
  <2>2. read \in [Vacancy -> Statuses] /\ todo \in SUBSET Vacancy
    BY <1>1
  <2> HIDE DEF read, todo
  <2> QED BY <1>1, <1>2, <2>1, <2>2
<1>8. ASSUME NEW v \in Vacancy, Discovery(L, B)!SyncAsk(v)
      PROVE  DiscoveryInv'
  BY <1>1, <1>2, <1>8 DEF Discovery!SyncAsk
<1>9. CASE Discovery(L, B)!SyncAnswer
  <2>1. PICK v \in syncing.at :
          \/ syncing' = [syncing EXCEPT !.at = {}]
          \/ syncing' = [syncing EXCEPT !.at = {},
                           !.marks = @ \cup Discovery(L, B)!Markable(syncing.read, {v})]
    BY <1>9 DEF Discovery!SyncAnswer
  <2>2. Discovery(L, B)!Markable(syncing.read, {v}) \subseteq Vacancy
    BY <1>1 DEF Discovery!Markable
  <2>3. UNCHANGED <<vacancies, status, confirmed, sent, banned, discovery>>
    BY <1>9 DEF Discovery!SyncAnswer
  <2> DEFINE found == Discovery(L, B)!Markable(syncing.read, {v})
  <2> DEFINE Sync == [pc : {"idle", "open"}, read : [Vacancy -> Statuses],
                      todo : SUBSET Vacancy, at : SUBSET Vacancy, marks : SUBSET Vacancy]
  <2>4. /\ [syncing EXCEPT !.at = {}] \in Sync
        /\ \A marks \in SUBSET Vacancy : [syncing EXCEPT !.at = {}, !.marks = marks] \in Sync
    BY <1>1
  <2>5. syncing.marks \cup found \in SUBSET Vacancy
    BY <1>1, <2>2
  <2>6. syncing' \in {[syncing EXCEPT !.at = {}],
                     [syncing EXCEPT !.at = {}, !.marks = syncing.marks \cup found]}
    BY <2>1
  <2> HIDE DEF Sync, found
  <2>7. syncing' \in Sync
    BY <2>4, <2>5, <2>6
  <2> QED BY <1>1, <1>2, <2>3, <2>7 DEF Sync
<1>10. CASE Discovery(L, B)!SyncCommit
  <2>1. /\ Discovery(L, B)!WriteSubmitted(status, syncing.marks)
        /\ syncing' = Discovery(L, B)!NoSync
        /\ UNCHANGED <<vacancies, sent, banned, discovery>>
    BY <1>10 DEF Discovery!SyncCommit
  <2>2. Rows'
    BY <1>1, <2>1, WrittenIsOnRecord
  <2>3. Syncs'
    BY <2>1 DEF Discovery!NoSync, Discovery!Absent
  <2> QED BY <1>1, <1>2, <2>1, <2>2, <2>3
<1>11. ASSUME NEW v \in Vacancy, NEW target \in Moves, Discovery(L, B)!Move(v, target)
       PROVE  DiscoveryInv'
  <2>1. /\ status' = [status EXCEPT ![v] = target]
        /\ confirmed' = confirmed
             \cup (IF target \in Discovery(L, B)!SUBMISSION_IMPLIED THEN {v} ELSE {})
        /\ UNCHANGED <<vacancies, sent, banned, discovery, syncing>>
    BY <1>11 DEF Discovery!Move
  <2>2. target \in Statuses
    BY SitesAssumption
    DEF Discovery!Status, Discovery!PRE_SUBMISSION, Discovery!POST_SUBMISSION,
        Discovery!SUBMISSION_IMPLIED, Discovery!TRACKING
  <2>3. Rows'
    BY <1>1, <2>1, <2>2
  <2> QED BY <1>1, <1>2, <2>1, <2>3
<1>12. ASSUME NEW v \in Vacancy, Discovery(L, B)!ApplyOnSite(v)
       PROVE  DiscoveryInv'
  BY <1>1, <1>2, <1>12 DEF Discovery!ApplyOnSite
<1>13. CASE Discovery(L, B)!Blacklist
  BY <1>1, <1>2, <1>13 DEF Discovery!Blacklist
<1> QED
  BY <1>3, <1>4, <1>5, <1>6, <1>7, <1>8, <1>9, <1>10, <1>11, <1>12, <1>13 DEF Discovery!SdNext

LEMMA DiscoveryAlways == Spec => []DiscoveryInv
<1>1. Init => DiscoveryInv
  <2>1. ASSUME Discovery(LinkedIn, Board)!SdInit
        PROVE  Discovery(LinkedIn, Board)!SdTypeOK
    <3>1. discovery = [pc |-> "idle", hits |-> {}, at |-> {}]
      BY <2>1 DEF Discovery!SdInit, Discovery!NoSearch
    <3>2. syncing = [pc |-> "idle", read |-> [v \in Vacancy |-> "absent"], todo |-> {},
                     at |-> {}, marks |-> {}]
      BY <2>1 DEF Discovery!SdInit, Discovery!NoSync, Discovery!Absent
    <3>3. discovery \in [pc : {"idle", "staging", "extracting"}, hits : SUBSET Vacancy,
                        at : SUBSET Vacancy]
      BY <3>1
    <3>4. syncing \in [pc : {"idle", "open"},
                      read : [Vacancy -> Discovery(LinkedIn, Board)!Status \cup {"absent"}],
                      todo : SUBSET Vacancy, at : SUBSET Vacancy, marks : SUBSET Vacancy]
      BY <3>2
    <3> QED BY <2>1, <3>3, <3>4 DEF Discovery!SdInit, Discovery!SdTypeOK, Discovery!Absent
  <2>2. ASSUME Discovery(LinkedIn, Board)!SdInit
        PROVE  /\ Discovery(LinkedIn, Board)!SubmittedIsOnRecord
               /\ discovery.at = {}
    BY <2>2
    DEF Discovery!SdInit, Discovery!NoSearch, Discovery!Absent, Discovery!SubmittedIsOnRecord,
        Discovery!SUBMISSION_IMPLIED, Discovery!TRACKING
  <2> QED BY <2>1, <2>2 DEF Init, DiscoveryInv
<1>2. DiscoveryInv /\ [Next]_vars => DiscoveryInv'
  <2>1. CASE DiscoveryInv /\ Discovery(LinkedIn, Board)!SdNext
    BY <2>1, DiscoveryStep, SitesAssumption
  <2>2. CASE DiscoveryInv /\ Discovery(Mixed, Vacancy \ Mixed)!SdNext
    BY <2>2, DiscoveryStep, SitesAssumption
  <2>3. CASE DiscoveryInv /\ UNCHANGED discoveryVars
    BY <2>3
    DEF DiscoveryInv, discoveryVars, Discovery!SdTypeOK, Discovery!SubmittedIsOnRecord
  <2> QED BY <2>1, <2>2, <2>3 DEF Next, vars
<1> QED BY <1>1, <1>2, PTL DEF Spec

\* A posting that is marked, or has no application, is not open for a submission.
LEMMA SettlesStep ==
  ASSUME DiscoveryInv, Discovery(LinkedIn, Board)!SdNext
  PROVE  Discovery(LinkedIn, Board)!Settles
<1> USE DEF DiscoveryInv, Discovery!SdTypeOK
<1>0. LinkedIn \subseteq Vacancy
  BY SitesAssumption
<1> SUFFICES ASSUME NEW v \in LinkedIn, discovery.at = {v}, discovery'.at = {},
                    status[v] # "submitted", status'[v] = "submitted", NEW w \in LinkedIn
             PROVE  status'[w] \notin Discovery(LinkedIn, Board)!PRE_SUBMISSION
  BY DEF Discovery!Settles
<1>1. Discovery(LinkedIn, Board)!StageRead
  <2>1. discovery.pc = "extracting"
    BY DEF DiscoveryInv
  <2> QED
    BY <2>1
    DEF Discovery!SdNext, Discovery!StartSearch, Discovery!EndSearch, Discovery!StageOne,
        Discovery!SyncStart, Discovery!SyncAnswer, Discovery!SyncCommit, Discovery!SyncAsk,
        Discovery!ApplyOnSite, Discovery!Move, Discovery!Blacklist
<1> DEFINE prepared == [status EXCEPT ![v] = IF @ = "absent" THEN "awaiting_review" ELSE @]
<1>2. PICK read \in BOOLEAN :
        LET shown == IF read /\ v \in LinkedIn \cap sent
                     THEN {v} \cup Discovery(LinkedIn, Board)!Postings ELSE {}
        IN  status' = [u \in Vacancy |->
                        IF u \in Discovery(LinkedIn, Board)!Markable(prepared, shown)
                        THEN "submitted" ELSE prepared[u]]
  <2>1. ~UNCHANGED status
    OBVIOUS
  <2>2. PICK u \in discovery.at, read \in BOOLEAN :
          LET of    == [status EXCEPT ![u] = IF @ = "absent" THEN "awaiting_review" ELSE @]
              shown == IF read /\ u \in LinkedIn \cap sent
                       THEN {u} \cup Discovery(LinkedIn, Board)!Postings ELSE {}
          IN  Discovery(LinkedIn, Board)!WriteSubmitted(of,
                Discovery(LinkedIn, Board)!Markable(of, shown))
    BY <1>1, <2>1 DEF Discovery!StageRead, Discovery!Absent
  <2>3. u = v
    OBVIOUS
  <2> QED BY <2>2, <2>3 DEF Discovery!WriteSubmitted
<1> DEFINE shown  == IF read /\ v \in LinkedIn \cap sent
                     THEN {v} \cup Discovery(LinkedIn, Board)!Postings ELSE {}
           marked == Discovery(LinkedIn, Board)!Markable(prepared, shown)
<1>3. v \in marked
  <2>1. status[v] \in Discovery(LinkedIn, Board)!Status \cup {"absent"} /\ prepared[v] # "submitted"
    BY <1>0 DEF Discovery!Absent
  <2> QED BY <1>0, <1>2, <2>1
<1>4. shown = {v} \cup Discovery(LinkedIn, Board)!Postings
  BY <1>3 DEF Discovery!Markable
<1>5. CASE w \in shown
  BY <1>0, <1>2, <1>5, PreSubmissionIsMarked DEF Discovery!Markable, Discovery!PRE_SUBMISSION
<1>6. CASE w \notin shown
  BY <1>0, <1>2, <1>4, <1>6
  DEF Discovery!Postings, Discovery!Markable, Discovery!PRE_SUBMISSION, Discovery!Absent
<1> QED BY <1>5, <1>6

\* No job that was applied for invites a second application: a status that says so is on
\* record, and a search that reads it on LinkedIn leaves no posting of the job open,
\* whatever the sync, the person and the mail do meanwhile.
THEOREM NoSecondInvitation == Spec => NeverInvitedTwice
<1>1. DiscoveryInv => Discovery(LinkedIn, Board)!SubmittedIsOnRecord
  BY DEF DiscoveryInv
<1>2. DiscoveryInv /\ [Next]_vars => [part = "discovery" => Discovery(LinkedIn, Board)!Settles]_vars
  BY SettlesStep DEF Next
<1> QED BY <1>1, <1>2, DiscoveryAlways, PTL DEF Spec, NeverInvitedTwice

-------------------------------------------------------------------------------
(* The mailbox                                                              *)

Sync == [pc : {"idle", "fetch", "next", "asked", "done"}, path : {"mailbox", "file"},
         batch : Seq(Message), at : Nat, window : SUBSET Message,
         created : Nat, duplicates : Nat, failed : Nat, broken : BOOLEAN, runs : 0..MaxRuns]

Event == [text : Mail!Text, app : Application \cup {NoOne}]

Known(evs, m) == \E e \in evs : e.text = Mail!TextOf("mailbox", m)

\* As long as a synchronisation has no failure, what it is to keep is what it has fetched,
\* and it knows what it has gone through.
Goes(s, evs) ==
  /\ s.pc \in {"next", "asked"} => /\ s.created + s.duplicates + s.failed = s.at - 1
                                  /\ s.at - 1 <= Len(s.batch)
  /\ s.pc = "asked" => s.at <= Len(s.batch)
  /\ s.pc = "fetch" => /\ s.path = "mailbox" /\ s.at = 1
                       /\ s.created = 0 /\ s.duplicates = 0 /\ s.failed = 0
  /\ s.path = "file" => s.window = {}
  /\ s.path = "mailbox" /\ s.failed = 0 =>
       /\ s.window \subseteq {s.batch[i] : i \in DOMAIN s.batch}
       /\ \A i \in DOMAIN s.batch : i < s.at => Known(evs, s.batch[i])
  /\ s.pc = "done" /\ s.failed = 0 => s.at > Len(s.batch)

MailInv ==
  /\ mailbox \in Seq(Message) /\ integration \in {"none", "enabled", "disabled"}
  /\ events \subseteq Event
  /\ \A e, f \in events : e.text = f.text => e = f
  /\ sync \in [Request -> Sync] /\ \A r \in Request : Goes(sync[r], events)

\* No text is forgotten.
Grows == \A e \in events : \E f \in events' : f.text = e.text

LEMMA GoesOn ==
  ASSUME MailInv, Grows, NEW r \in Request, NEW s \in Sync, Mail!Step(r, s), Goes(s, events')
  PROVE  sync' \in [Request -> Sync] /\ \A q \in Request : Goes(sync'[q], events')
<1>1. \A m : Known(events, m) => Known(events', m)
  BY DEF Grows, Known
<1>2. ASSUME NEW q \in Request
      PROVE  Goes(sync[q], events')
  BY <1>1, <1>2 DEF MailInv, Goes
<1>3. \A q \in Request : sync'[q] = IF q = r THEN s ELSE sync[q]
  BY DEF MailInv, Mail!Step
<1> QED BY <1>2, <1>3 DEF MailInv, Mail!Step

\* What the matcher names is an application, or none.
LEMMA MatchesAreApplications ==
  Mail!Matches \subseteq Application \cup {NoOne}
<1>1. ASSUME NEW S \in SUBSET Application, Mail!Cardinality(S) = 1
      PROVE  Mail!Only(S) \in Application
  <2>1. Mail!Cardinality(S) = Cardinality(S)
    BY Zenon DEF Mail!Cardinality, Cardinality
  <2>2. S # {}
    BY <1>1, <2>1, FS_EmptySet
  <2> QED BY <2>2 DEF Mail!Only
<1>2. \A S, T \in SUBSET Application : Mail!Mentioned(S, T) \in Application \cup {NoOne}
  BY <1>1 DEF Mail!Mentioned
<1>3. ASSUME NEW named \in SUBSET Application, NEW titles \in SUBSET Application,
             NEW companies \in SUBSET Application, NEW found \in Application \cup {NoOne}
      PROVE  Mail!Matched(named, titles, companies, found) \in Application \cup {NoOne}
  BY <1>1, <1>2 DEF Mail!Matched
<1> QED BY <1>3 DEF Mail!Matches

\* A request that begins has nothing to keep yet.
Fresh(s) == s.at = 1 /\ s.window = {} /\ s.created = 0 /\ s.duplicates = 0

LEMMA BeginningsGo ==
  ASSUME NEW s \in Sync, Fresh(s), NEW evs,
         \/ s.pc = "idle" /\ s.failed = 0
         \/ s.pc = "fetch" /\ s.path = "mailbox" /\ s.failed = 0
         \/ s.pc = "next" /\ s.path = "file" /\ s.failed = 0
         \/ s.pc = "done" /\ s.path = "file" /\ s.failed = 1
  PROVE  Goes(s, evs)
<1>1. Len(s.batch) \in Nat /\ DOMAIN s.batch = 1..Len(s.batch)
  BY DEF Sync
<1> QED BY <1>1 DEF Goes, Fresh

LEMMA NobodyBegins ==
  ASSUME NEW n \in 0..MaxRuns
  PROVE  \E s \in Sync : /\ s = [Mail!NoSync EXCEPT !.runs = n]
                         /\ Fresh(s) /\ s.pc = "idle" /\ s.path = "mailbox" /\ s.failed = 0
<1> DEFINE s == [Mail!NoSync EXCEPT !.runs = n]
<1>1. <<>> \in Seq(Message)
  OBVIOUS
<1>2. s \in Sync
  BY <1>1 DEF Mail!NoSync, Sync
<1>3. Fresh(s) /\ s.pc = "idle" /\ s.path = "mailbox" /\ s.failed = 0
  BY DEF Mail!NoSync, Fresh
<1> QED BY <1>2, <1>3

LEMMA RequestsBegin ==
  ASSUME NEW n \in 0..MaxRuns, NEW path \in {"mailbox", "file"}
  PROVE  \E s \in Sync : /\ s = [Mail!NoSync EXCEPT !.pc = "fetch", !.path = path, !.runs = n]
                         /\ Fresh(s) /\ s.pc = "fetch" /\ s.path = path /\ s.failed = 0
<1> DEFINE s == [Mail!NoSync EXCEPT !.pc = "fetch", !.path = path, !.runs = n]
<1>1. <<>> \in Seq(Message)
  OBVIOUS
<1>2. s \in Sync
  BY <1>1 DEF Mail!NoSync, Sync
<1>3. Fresh(s) /\ s.pc = "fetch" /\ s.path = path /\ s.failed = 0
  BY DEF Mail!NoSync, Fresh
<1> QED BY <1>2, <1>3

LEMMA ImportsBegin ==
  ASSUME NEW s \in Sync, Fresh(s), s.failed = 0, s.path = "file", NEW batch \in Seq(Message)
  PROVE  /\ \E t \in Sync : /\ t = [s EXCEPT !.pc = "next", !.batch = batch]
                            /\ \A evs : Goes(t, evs)
         /\ \E t \in Sync : /\ t = [s EXCEPT !.pc = "done", !.failed = 1]
                            /\ \A evs : Goes(t, evs)
<1>1. /\ [s EXCEPT !.pc = "next", !.batch = batch] \in Sync
      /\ [s EXCEPT !.pc = "done", !.failed = 1] \in Sync
  BY DEF Sync
<1>2. PICK t \in Sync, u \in Sync : /\ t = [s EXCEPT !.pc = "next", !.batch = batch]
                                    /\ u = [s EXCEPT !.pc = "done", !.failed = 1]
  BY <1>1
<1>3. /\ Fresh(t) /\ t.pc = "next" /\ t.path = "file" /\ t.failed = 0
      /\ Fresh(u) /\ u.pc = "done" /\ u.path = "file" /\ u.failed = 1
  BY <1>2 DEF Fresh, Sync
<1>4. \A evs : Goes(t, evs) /\ Goes(u, evs)
  BY <1>3, BeginningsGo
<1> QED BY <1>2, <1>4

\* What remains of the mailbox when the mailbox is cut off, and when a message is passed over.
LEMMA FetchedAreMessages ==
  ASSUME mailbox \in Seq(Message), MaxFetched \in Nat
  PROVE  LET newest == Mail!Recent(mailbox)
         IN  /\ newest \in Seq(Message) /\ newest = Mail!LastOf(mailbox, MaxFetched)
             /\ \A i \in DOMAIN newest : Mail!RemoveAt(newest, i) \in Seq(Message)
<1> DEFINE newest == Mail!Recent(mailbox)
<1>1. newest = Mail!LastOf(mailbox, MaxFetched)
  BY DEF Mail!Recent
<1>2. newest \in Seq(Message)
  BY <1>1 DEF Mail!LastOf
<1> HIDE DEF newest
<1>3. \A i \in DOMAIN newest : Mail!RemoveAt(newest, i) \in Seq(Message)
  BY <1>2 DEF Mail!RemoveAt
<1> QED BY <1>1, <1>2, <1>3 DEF newest

\* One message further.
LEMMA OneFurther ==
  ASSUME NEW s \in Sync
  PROVE  /\ \A at, n \in Nat :
              /\ [s EXCEPT !.pc = "next", !.at = at, !.created = n] \in Sync
              /\ [s EXCEPT !.pc = "next", !.at = at, !.duplicates = n] \in Sync
              /\ [s EXCEPT !.pc = "next", !.at = at, !.failed = n] \in Sync
              /\ [s EXCEPT !.pc = "next", !.at = at, !.failed = n, !.broken = TRUE] \in Sync
         /\ [s EXCEPT !.pc = "asked"] \in Sync /\ [s EXCEPT !.pc = "done"] \in Sync
BY DEF Sync

LEMMA IngestStep ==
  ASSUME MailInv, NEW r \in Request, Mail!Ingest(r)
  PROVE  MailInv'
<1> DEFINE s == sync[r]
           m == s.batch[s.at]
           text == Mail!TextOf(s.path, m)
           known == {e \in events : e.text = text}
<1>0. /\ s \in Sync /\ Goes(s, events) /\ s.pc = "asked"
      /\ m = Mail!Current(r)
  BY DEF MailInv, Mail!Ingest, Mail!Current
<1>1. /\ s.at \in Nat /\ s.batch \in Seq(Message) /\ s.path \in {"mailbox", "file"}
      /\ s.created \in Nat /\ s.duplicates \in Nat /\ s.failed \in Nat
  BY <1>0 DEF Sync
<1>2. /\ s.created + s.duplicates + s.failed = s.at - 1 /\ s.at - 1 <= Len(s.batch)
      /\ s.at <= Len(s.batch) /\ s.at \in DOMAIN s.batch /\ m \in Message
  <2>1. /\ s.created + s.duplicates + s.failed = s.at - 1 /\ s.at - 1 <= Len(s.batch)
        /\ s.at <= Len(s.batch)
    BY <1>0 DEF Goes
  <2>2. s.at >= 1 /\ Len(s.batch) \in Nat /\ DOMAIN s.batch = 1..Len(s.batch)
    <3>1. PICK a \in Nat, b \in Nat, c \in Nat, n \in Nat :
            a = s.created /\ b = s.duplicates /\ c = s.failed /\ n = s.at
      BY <1>1
    <3>2. a + b + c = n - 1
      BY <2>1, <3>1
    <3>3. n >= 1
      BY <3>2
    <3> QED BY <1>1, <3>1, <3>3
  <2>3. s.at \in DOMAIN s.batch
    BY <1>1, <2>1, <2>2
  <2> QED BY <1>1, <2>1, <2>3
<1>3. /\ s.created + (s.duplicates + 1) + s.failed = s.at
       /\ (s.created + 1) + s.duplicates + s.failed = s.at
       /\ s.created + s.duplicates + (s.failed + 1) = s.at /\ s.failed + 1 # 0
       /\ s.at + 1 \in Nat /\ s.created + 1 \in Nat /\ s.duplicates + 1 \in Nat
       /\ s.failed + 1 \in Nat
  <2>1. PICK a \in Nat, b \in Nat, c \in Nat, n \in Nat :
          a = s.created /\ b = s.duplicates /\ c = s.failed /\ n = s.at
    BY <1>1
  <2>2. a + b + c = n - 1
    BY <1>2, <2>1
  <2>3. /\ a + (b + 1) + c = n /\ (a + 1) + b + c = n /\ a + b + (c + 1) = n /\ c + 1 # 0
        /\ n + 1 \in Nat /\ a + 1 \in Nat /\ b + 1 \in Nat /\ c + 1 \in Nat
    BY <2>2
  <2> QED BY <2>1, <2>3
<1>4. text \in Mail!Text
  BY <1>1, <1>2 DEF Mail!Text
<1>5. UNCHANGED <<mailbox, integration>>
  BY DEF Mail!Ingest
\* Whatever is added, the message has its event, or the synchronisation a failure.
<1>6. ASSUME NEW t \in Sync, Mail!Step(r, t), t.pc = "next", t.path = s.path, t.batch = s.batch,
             t.window = s.window, t.at = s.at + 1,
             t.created + t.duplicates + t.failed = s.at,
             t.failed = 0 => s.failed = 0 /\ \E e \in events' : e.text = text,
             Grows, events' \subseteq Event, \A e, f \in events' : e.text = f.text => e = f
      PROVE  MailInv'
  <2>1. \A i \in DOMAIN s.batch : i < t.at => i < s.at \/ i = s.at
    BY <1>1, <1>6
  <2>2. t.path = "mailbox" /\ t.failed = 0 =>
          \A i \in DOMAIN t.batch : i < t.at => Known(events', t.batch[i])
    BY <1>0, <1>6, <2>1 DEF Goes, Known, Grows
  <2>3. Goes(t, events')
    BY <1>0, <1>1, <1>2, <1>6, <2>2 DEF Goes
  <2> QED BY <1>5, <1>6, <2>3, GoesOn DEF MailInv
<1>7. PICK app \in Mail!Matches :
        \/ /\ known # {}
           /\ events' = {[e EXCEPT !.app = IF e \in known /\ @ = NoOne THEN app ELSE @] : e \in events}
           /\ Mail!Step(r, [s EXCEPT !.pc = "next", !.at = @ + 1, !.duplicates = @ + 1])
        \/ /\ known = {}
           /\ events' = events \cup {[text |-> text, app |-> app]}
           /\ Mail!Step(r, [s EXCEPT !.pc = "next", !.at = @ + 1, !.created = @ + 1])
        \/ /\ Mail!Step(r, [s EXCEPT !.pc = "next", !.at = @ + 1, !.failed = @ + 1, !.broken = TRUE])
           /\ UNCHANGED events
  BY <1>0 DEF Mail!Ingest, Mail!Onward, Mail!Failed
<1>8. app \in Application \cup {NoOne}
  BY MatchesAreApplications
<1>9. \A e, f \in events : e.text = f.text => e = f
  BY DEF MailInv
<1>10. CASE /\ known # {}
           /\ events' = {[e EXCEPT !.app = IF e \in known /\ @ = NoOne THEN app ELSE @] : e \in events}
           /\ Mail!Step(r, [s EXCEPT !.pc = "next", !.at = @ + 1, !.duplicates = @ + 1])
  <2> DEFINE F(e) == [e EXCEPT !.app = IF e \in known /\ @ = NoOne THEN app ELSE @]
             t    == [s EXCEPT !.pc = "next", !.at = @ + 1, !.duplicates = @ + 1]
  <2>1. \A e \in events : F(e) \in Event /\ F(e).text = e.text
    BY <1>8 DEF MailInv, Event
  <2>2. t \in Sync
    BY <1>0, <1>1, <1>3, OneFurther
  <2>3. /\ t.pc = "next" /\ t.path = s.path /\ t.batch = s.batch /\ t.window = s.window
        /\ t.at = s.at + 1 /\ t.created = s.created /\ t.duplicates = s.duplicates + 1
        /\ t.failed = s.failed
    BY <1>0 DEF Sync
  <2>4. events' = {F(e) : e \in events} /\ Mail!Step(r, t)
    BY <1>10
  <2> HIDE DEF F, t
  <2>5. Grows /\ events' \subseteq Event /\ \E e \in events' : e.text = text
    BY <1>10, <2>1, <2>4 DEF Grows
  <2>6. \A e, f \in events' : e.text = f.text => e = f
    BY <1>9, <2>1, <2>4
  <2>7. t.created + t.duplicates + t.failed = s.at
    BY <1>3, <2>3
  <2> QED BY <1>6, <2>2, <2>3, <2>4, <2>5, <2>6, <2>7
<1>11. CASE /\ known = {}
            /\ events' = events \cup {[text |-> text, app |-> app]}
            /\ Mail!Step(r, [s EXCEPT !.pc = "next", !.at = @ + 1, !.created = @ + 1])
  <2> DEFINE new == [text |-> text, app |-> app]
             t   == [s EXCEPT !.pc = "next", !.at = @ + 1, !.created = @ + 1]
  <2>1. new \in Event /\ new.text = text /\ events \subseteq Event
    BY <1>4, <1>8 DEF MailInv, Event
  <2>2. t \in Sync
    BY <1>0, <1>1, <1>3, OneFurther
  <2>3. /\ t.pc = "next" /\ t.path = s.path /\ t.batch = s.batch /\ t.window = s.window
        /\ t.at = s.at + 1 /\ t.created = s.created + 1 /\ t.duplicates = s.duplicates
        /\ t.failed = s.failed
    BY <1>0 DEF Sync
  <2>4. events' = events \cup {new} /\ Mail!Step(r, t) /\ \A e \in events : e.text # text
    BY <1>11
  <2> HIDE DEF new, t
  <2>5. Grows /\ events' \subseteq Event /\ \E e \in events' : e.text = text
    BY <2>1, <2>4 DEF Grows
  <2>6. \A e, f \in events' : e.text = f.text => e = f
    BY <1>9, <2>1, <2>4
  <2>7. t.created + t.duplicates + t.failed = s.at
    BY <1>3, <2>3
  <2> QED BY <1>6, <2>2, <2>3, <2>4, <2>5, <2>6, <2>7
<1>12. CASE /\ Mail!Step(r, [s EXCEPT !.pc = "next", !.at = @ + 1, !.failed = @ + 1, !.broken = TRUE])
            /\ UNCHANGED events
  <2> DEFINE t == [s EXCEPT !.pc = "next", !.at = @ + 1, !.failed = @ + 1, !.broken = TRUE]
  <2>1. t \in Sync
    BY <1>0, <1>1, <1>3, OneFurther
  <2>2. /\ t.pc = "next" /\ t.path = s.path /\ t.batch = s.batch /\ t.window = s.window
        /\ t.at = s.at + 1 /\ t.created = s.created /\ t.duplicates = s.duplicates
        /\ t.failed = s.failed + 1
    BY <1>0 DEF Sync
  <2>3. Mail!Step(r, t) /\ UNCHANGED events
    BY <1>12
  <2> HIDE DEF t
  <2>4. t.created + t.duplicates + t.failed = s.at /\ t.failed # 0
    BY <1>3, <2>2
  <2>5. Grows /\ events' \subseteq Event
    BY <2>3 DEF Grows, MailInv
  <2>6. \A e, f \in events' : e.text = f.text => e = f
    BY <1>9, <2>3
  <2> QED BY <1>6, <2>1, <2>2, <2>3, <2>4, <2>5, <2>6
<1> QED BY <1>7, <1>10, <1>11, <1>12

LEMMA MailStep ==
  ASSUME MailInv, Mail!EsNext
  PROVE  MailInv'
<1>0. /\ {MaxRuns, MaxFetched} \subseteq Nat
      /\ \A chosen \in Uploads : Mail!Imported(chosen) \in Seq(Message)
  BY SitesAssumption
\* A step of one request that writes no event.
<1>1. ASSUME NEW r \in Request, NEW s \in Sync, Mail!Step(r, s), Goes(s, events),
             UNCHANGED <<mailbox, integration, events>>
      PROVE  MailInv'
  <2>1. Grows /\ Goes(s, events')
    BY <1>1 DEF Grows
  <2> QED BY <1>1, <2>1, GoesOn DEF MailInv
<1>2. CASE Mail!Arrives
  <2>1. mailbox' \in Seq(Message)
    BY <1>2 DEF Mail!Arrives, MailInv
  <2> QED BY <1>2, <2>1 DEF Mail!Arrives, MailInv
<1>3. CASE Mail!SaveIntegration
  BY <1>3 DEF Mail!SaveIntegration, MailInv
<1>4. CASE Mail!ApiRestarts
  <2>1. \A r \in Request : sync'[r] = [Mail!NoSync EXCEPT !.runs = sync[r].runs]
    BY <1>4 DEF Mail!ApiRestarts
  <2>2. \A r \in Request : sync[r].runs \in 0..MaxRuns
    BY DEF MailInv, Sync
  <2>3. ASSUME NEW r \in Request
        PROVE  sync'[r] \in Sync /\ Goes(sync'[r], events)
    <3>1. PICK s \in Sync : /\ s = [Mail!NoSync EXCEPT !.runs = sync[r].runs]
                            /\ Fresh(s) /\ s.pc = "idle" /\ s.path = "mailbox" /\ s.failed = 0
      BY <2>2, NobodyBegins
    <3> QED BY <2>1, <3>1, BeginningsGo
  <2>4. sync' \in [Request -> Sync] /\ UNCHANGED <<mailbox, integration, events>>
    BY <1>4, <2>3 DEF Mail!ApiRestarts
  <2> QED BY <2>3, <2>4 DEF MailInv
<1>5. ASSUME NEW r \in Request, Mail!Start(r) \/ Mail!Import(r)
      PROVE  MailInv'
  <2> DEFINE runs == sync[r].runs + 1
  <2>1. runs \in 0..MaxRuns
    <3>1. sync[r].runs \in 0..MaxRuns /\ sync[r].runs < MaxRuns
      BY <1>5 DEF Mail!Start, Mail!Import, Mail!Idle, MailInv, Sync
    <3> QED BY <1>0, <3>1
  <2> HIDE DEF runs
  <2>2. PICK t \in Sync : Mail!Step(r, t) /\ Goes(t, events)
    <3>1. ASSUME NEW path \in {"mailbox", "file"}
          PROVE  \E s \in Sync : /\ s = Mail!Begins(r, path) /\ Fresh(s)
                                 /\ s.pc = "fetch" /\ s.path = path /\ s.failed = 0
      <4>1. PICK n \in 0..MaxRuns : n = sync[r].runs + 1
        BY <2>1 DEF runs
      <4>2. Mail!Begins(r, path) = [Mail!NoSync EXCEPT !.pc = "fetch", !.path = path, !.runs = n]
        BY <4>1 DEF Mail!Begins
      <4>3. PICK s \in Sync : /\ s = [Mail!NoSync EXCEPT !.pc = "fetch", !.path = path, !.runs = n]
                              /\ Fresh(s) /\ s.pc = "fetch" /\ s.path = path /\ s.failed = 0
        BY RequestsBegin
      <4> QED BY <4>2, <4>3
    <3>2. CASE Mail!Start(r)
      <4>1. PICK s \in Sync : /\ s = Mail!Begins(r, "mailbox") /\ Fresh(s)
                              /\ s.pc = "fetch" /\ s.path = "mailbox" /\ s.failed = 0
        BY <3>1
      <4> QED BY <3>2, <4>1, BeginningsGo DEF Mail!Start
    <3>3. CASE Mail!Import(r)
      <4>1. PICK s \in Sync : /\ s = Mail!Begins(r, "file") /\ Fresh(s)
                              /\ s.pc = "fetch" /\ s.path = "file" /\ s.failed = 0
        BY <3>1
      <4>2. CASE Mail!Step(r, [s EXCEPT !.pc = "done", !.failed = 1])
        <5>1. <<>> \in Seq(Message)
          OBVIOUS
        <5>2. PICK t \in Sync : /\ t = [s EXCEPT !.pc = "done", !.failed = 1]
                                /\ \A evs : Goes(t, evs)
          BY <4>1, <5>1, ImportsBegin
        <5> QED BY <4>2, <5>2
      <4>3. ASSUME NEW chosen \in Uploads,
                   Mail!Step(r, [s EXCEPT !.pc = "next", !.batch = Mail!Imported(chosen)])
            PROVE  \E t \in Sync : Mail!Step(r, t) /\ Goes(t, events)
        <5>1. PICK batch \in Seq(Message) : batch = Mail!Imported(chosen)
          BY <1>0
        <5>2. PICK t \in Sync : /\ t = [s EXCEPT !.pc = "next", !.batch = batch]
                                /\ \A evs : Goes(t, evs)
          BY <4>1, ImportsBegin
        <5> QED BY <4>3, <5>1, <5>2
      <4> QED BY <3>3, <4>1, <4>2, <4>3 DEF Mail!Import
    <3> QED BY <1>5, <3>2, <3>3
  <2>3. UNCHANGED <<mailbox, integration, events>>
    BY <1>5 DEF Mail!Start, Mail!Import
  <2> QED BY <1>1, <2>2, <2>3
<1>6. ASSUME NEW r \in Request, Mail!Fetch(r)
      PROVE  MailInv'
  <2> DEFINE newest == Mail!Recent(mailbox)
             s      == sync[r]
  <2>1. PICK batch \in {newest} \cup {Mail!RemoveAt(newest, i) : i \in DOMAIN newest} :
          Mail!Step(r, [s EXCEPT !.pc = "next", !.batch = batch,
                          !.window = Mail!Range(Mail!LastOf(mailbox, MaxFetched))
                                       \ (Mail!Range(newest) \ Mail!Range(batch))])
    BY <1>6 DEF Mail!Fetch
  <2> DEFINE kept == Mail!Range(Mail!LastOf(mailbox, MaxFetched))
                       \ (Mail!Range(newest) \ Mail!Range(batch))
             t    == [s EXCEPT !.pc = "next", !.batch = batch, !.window = kept]
  <2>2. batch \in Seq(Message) /\ newest = Mail!LastOf(mailbox, MaxFetched)
    BY <1>0, FetchedAreMessages DEF MailInv
  <2>3. kept \in SUBSET Message /\ kept \subseteq {batch[i] : i \in DOMAIN batch}
    BY <2>2 DEF Mail!Range
  <2>4. s \in Sync /\ Goes(s, events) /\ s.pc = "fetch"
    BY <1>6 DEF Mail!Fetch, MailInv
  <2> HIDE DEF kept
  <2>5. t \in Sync
    BY <2>2, <2>3, <2>4 DEF Sync
  <2>6. /\ t.pc = "next" /\ t.batch = batch /\ t.window = kept /\ t.path = s.path
        /\ t.at = 1 /\ t.created = 0 /\ t.duplicates = 0 /\ t.failed = 0
    BY <2>4 DEF Sync, Goes
  <2>7. Mail!Step(r, t)
    BY <2>1 DEF kept
  <2> HIDE DEF t
  <2>8. Len(batch) \in Nat /\ DOMAIN batch = 1..Len(batch) /\ s.path = "mailbox"
    BY <2>2, <2>4 DEF Goes
  <2>9. Goes(t, events)
    BY <2>3, <2>6, <2>8 DEF Goes
  <2> QED BY <1>1, <1>6, <2>5, <2>7, <2>9 DEF Mail!Fetch
<1>7. ASSUME NEW r \in Request, Mail!FetchFails(r) \/ Mail!Classify(r) \/ Mail!Summary(r)
      PROVE  MailInv'
  <2> DEFINE s == sync[r]
  <2>1. s \in Sync /\ Goes(s, events) /\ UNCHANGED <<mailbox, integration, events>>
    BY <1>7 DEF MailInv, Mail!FetchFails, Mail!Classify, Mail!Summary
  <2>2. /\ s.at \in Nat /\ s.failed \in Nat /\ s.created \in Nat /\ s.duplicates \in Nat
        /\ s.path \in {"mailbox", "file"} /\ Len(s.batch) \in Nat
        /\ DOMAIN s.batch = 1..Len(s.batch)
    BY <2>1 DEF Sync
  <2>3. CASE Mail!FetchFails(r)
    <3> DEFINE t == [s EXCEPT !.pc = "done", !.failed = 1]
    <3>1. Mail!Step(r, t) /\ s.pc = "fetch"
      BY <2>3 DEF Mail!FetchFails
    <3>2. t \in Sync
      BY <2>1 DEF Sync
    <3>3. t.pc = "done" /\ t.failed = 1 /\ t.path = "mailbox"
      BY <2>1, <3>1 DEF Sync, Goes
    <3> HIDE DEF t
    <3>4. Goes(t, events)
      BY <3>3 DEF Goes
    <3> QED BY <1>1, <2>1, <3>1, <3>2, <3>4
  <2>4. CASE Mail!Classify(r) /\ ~s.broken
    <3> DEFINE t == [s EXCEPT !.pc = "asked"]
    <3>1. Mail!Step(r, t) /\ s.pc = "next" /\ s.at <= Len(s.batch)
      BY <2>4 DEF Mail!Classify
    <3>2. t \in Sync
      BY <2>1, OneFurther
    <3>3. /\ t.pc = "asked" /\ t.path = s.path /\ t.batch = s.batch /\ t.at = s.at
          /\ t.window = s.window /\ t.created = s.created /\ t.duplicates = s.duplicates
          /\ t.failed = s.failed
      BY <2>1 DEF Sync
    <3> HIDE DEF t
    <3>4. Goes(t, events)
      BY <2>1, <3>1, <3>3 DEF Goes
    <3> QED BY <1>1, <2>1, <3>1, <3>2, <3>4
  <2>5. CASE Mail!Classify(r) /\ s.broken
    <3> DEFINE t == [s EXCEPT !.pc = "next", !.at = @ + 1, !.failed = @ + 1]
    <3>1. Mail!Step(r, t) /\ s.pc = "next" /\ s.at <= Len(s.batch)
      BY <2>5 DEF Mail!Classify, Mail!Failed, Mail!Onward
    <3>2. PICK a \in Nat, b \in Nat, c \in Nat, n \in Nat :
            a = s.created /\ b = s.duplicates /\ c = s.failed /\ n = s.at
      BY <2>2
    <3>3. a + b + c = n - 1
      BY <2>1, <3>1, <3>2 DEF Goes
    <3>4. a + b + (c + 1) = (n + 1) - 1 /\ c + 1 # 0 /\ n + 1 \in Nat /\ c + 1 \in Nat
      BY <3>3
    <3>5. t \in Sync
      BY <2>1, <3>2, <3>4, OneFurther
    <3>6. /\ t.pc = "next" /\ t.path = s.path /\ t.batch = s.batch /\ t.at = n + 1
          /\ t.window = s.window /\ t.created = a /\ t.duplicates = b /\ t.failed = c + 1
      BY <2>1, <3>2 DEF Sync
    <3> HIDE DEF t
    <3>7. t.at - 1 <= Len(t.batch)
      BY <2>2, <3>1, <3>2, <3>6
    <3>8. Goes(t, events)
      BY <2>1, <3>4, <3>6, <3>7 DEF Goes
    <3> QED BY <1>1, <2>1, <3>1, <3>5, <3>8
  <2>6. CASE Mail!Summary(r)
    <3> DEFINE t == [s EXCEPT !.pc = "done"]
    <3>1. Mail!Step(r, t) /\ s.pc = "next" /\ s.at > Len(s.batch)
      BY <2>6 DEF Mail!Summary
    <3>2. t \in Sync
      BY <2>1, OneFurther
    <3>3. /\ t.pc = "done" /\ t.path = s.path /\ t.batch = s.batch /\ t.at = s.at
          /\ t.window = s.window /\ t.failed = s.failed
      BY <2>1 DEF Sync
    <3> HIDE DEF t
    <3>4. Goes(t, events)
      BY <2>1, <3>1, <3>3 DEF Goes
    <3> QED BY <1>1, <2>1, <3>1, <3>2, <3>4
  <2> QED BY <1>7, <2>3, <2>4, <2>5, <2>6
<1> QED
  BY <1>2, <1>3, <1>4, <1>5, <1>6, <1>7, IngestStep DEF Mail!EsNext

LEMMA MailAlways == Spec => []MailInv
<1>1. Init => MailInv
  <2> SUFFICES ASSUME Mail!EsInit
               PROVE  MailInv
    BY DEF Init
  <2>1. <<>> \in Seq(Message) /\ 0 \in 0..MaxRuns
    BY SitesAssumption
  <2>2. Mail!NoSync \in Sync
    BY <2>1 DEF Mail!NoSync, Sync
  <2>3. Goes(Mail!NoSync, events)
    BY <2>2, BeginningsGo DEF Mail!NoSync, Fresh
  <2> QED BY <2>1, <2>2, <2>3 DEF Mail!EsInit, MailInv
<1>2. MailInv /\ [Next]_vars => MailInv'
  <2>1. MailInv /\ UNCHANGED mailVars => MailInv'
    BY DEF MailInv, mailVars
  <2> QED BY <2>1, MailStep DEF Next, vars
<1> QED BY <1>1, <1>2, PTL DEF Spec

\* A synchronisation of the mailbox that reports no failure has an event for each of the
\* newest messages the mailbox held, with any number of requests, messages and files, and
\* no text ever has two events.
THEOREM MailboxStaysKept == Spec => []MailboxIsKept
<1>1. MailInv => MailboxIsKept
  <2> SUFFICES ASSUME MailInv, NEW r \in Request, sync[r].pc = "done", sync[r].failed = 0,
                      NEW m \in sync[r].window
               PROVE  Known(events, m)
    BY DEF MailInv, MailboxIsKept, Mail!MailboxIsKept, Mail!Stored, Known
  <2>1. sync[r] \in Sync /\ Goes(sync[r], events)
    BY DEF MailInv
  <2>2. sync[r].path = "mailbox" /\ sync[r].at > Len(sync[r].batch)
    BY <2>1 DEF Goes, Sync
  <2>3. PICK i \in DOMAIN sync[r].batch : m = sync[r].batch[i]
    BY <2>1, <2>2 DEF Goes
  <2>4. i < sync[r].at
    BY <2>1, <2>2, <2>3 DEF Sync
  <2> QED BY <2>1, <2>2, <2>3, <2>4 DEF Goes
<1> QED BY <1>1, MailAlways, PTL

-------------------------------------------------------------------------------
(* The index of the evidence                                                *)

\* The best of a finite set: some of it, and all of it or as many as are wanted.
LEMMA TopIsOfIt ==
  ASSUME NEW S, IsFiniteSet(S), NEW T \in Index!Top(S)
  PROVE  T \subseteq S /\ (T = {} => S = {})
<1>1. Index!Cardinality(S) = Cardinality(S) /\ Index!Cardinality(T) = Cardinality(T)
  BY Zenon DEF Index!Cardinality, Cardinality
<1>2. T \subseteq S /\ Cardinality(T) = IF Cardinality(S) < Limit THEN Cardinality(S) ELSE Limit
  BY <1>1 DEF Index!Top
<1>3. Cardinality(S) \in Nat /\ Cardinality({}) = 0 /\ (Cardinality(S) = 0 <=> S = {})
  BY FS_EmptySet, FS_CardinalityType
<1> QED BY <1>2, <1>3, SitesAssumption

Doc     == [there : BOOLEAN, has : SUBSET Evidence]
Rebuild == [pc : {"idle", "read", "index", "commit", "cleanup"},
            index : 0..EvidenceIndices, todo : SUBSET Evidence]
Retrieval == [pc : {"idle", "create", "switch", "extract", "index", "lexical", "dense",
                    "fuse", "done"},
              cv : Index!Cv, index : 0..EvidenceIndices, todo : SUBSET Evidence,
              lexical : SUBSET Evidence, dense : SUBSET Evidence]

\* EvidenceIndex's type invariant, with the sets of its records named.
EvidenceInv ==
  /\ evidence \in [Evidence -> {"unknown", "stored", "deleted"}]
  /\ indices \in [Index!Index -> Doc]
  /\ evidenceAlias \in 0..EvidenceIndices
  /\ evidenceAlias # 0 => indices[evidenceAlias].there
  /\ rebuild \in Rebuild
  /\ rebuild.pc # "idle" => rebuild.index # 0
  /\ rebuild.pc \in {"read", "index"} => indices[rebuild.index].there
  /\ retrieval \in [Run -> Retrieval]
  /\ got \in [Run -> SUBSET Evidence]

LEMMA RetrievalsStay ==
  /\ Index!NoRun \in Retrieval
  /\ \A s \in Retrieval, pc \in {"idle", "create", "switch", "extract", "index", "lexical",
                                 "dense", "fuse", "done"} :
       /\ [s EXCEPT !.pc = pc] \in Retrieval
       /\ \A x \in 0..EvidenceIndices : [s EXCEPT !.pc = pc, !.index = x] \in Retrieval
       /\ \A c \in Index!Cv : [s EXCEPT !.cv = c, !.pc = pc] \in Retrieval
       /\ \A S \in SUBSET Evidence : /\ [s EXCEPT !.pc = pc, !.todo = S] \in Retrieval
                                     /\ [s EXCEPT !.pc = pc, !.lexical = S] \in Retrieval
                                     /\ [s EXCEPT !.pc = pc, !.dense = S] \in Retrieval
  /\ \A s \in Retrieval, S \in SUBSET Evidence : [s EXCEPT !.todo = @ \ S] \in Retrieval
<1>1. Index!NoRun \in Retrieval
  <2>1. (CHOOSE c \in Index!Cv : TRUE) \in Index!Cv
    BY SitesAssumption DEF Index!Cv
  <2>2. 0 \in 0..EvidenceIndices
    BY SitesAssumption
  <2> DEFINE chosen == CHOOSE c \in Index!Cv : TRUE
  <2> HIDE DEF chosen
  <2>3. [pc |-> "idle", cv |-> chosen, index |-> 0, todo |-> {}, lexical |-> {}, dense |-> {}]
          \in Retrieval
    BY <2>1, <2>2 DEF Retrieval, chosen
  <2> QED BY <2>3 DEF Index!NoRun, chosen
<1>2. ASSUME NEW s \in Retrieval,
             NEW pc \in {"idle", "create", "switch", "extract", "index", "lexical",
                         "dense", "fuse", "done"}
      PROVE  /\ [s EXCEPT !.pc = pc] \in Retrieval
             /\ \A x \in 0..EvidenceIndices : [s EXCEPT !.pc = pc, !.index = x] \in Retrieval
             /\ \A c \in Index!Cv : [s EXCEPT !.cv = c, !.pc = pc] \in Retrieval
             /\ \A S \in SUBSET Evidence : /\ [s EXCEPT !.pc = pc, !.todo = S] \in Retrieval
                                           /\ [s EXCEPT !.pc = pc, !.lexical = S] \in Retrieval
                                           /\ [s EXCEPT !.pc = pc, !.dense = S] \in Retrieval
  BY DEF Retrieval
<1>3. ASSUME NEW s \in Retrieval, NEW S \in SUBSET Evidence
      PROVE  [s EXCEPT !.todo = @ \ S] \in Retrieval
  BY DEF Retrieval
<1> QED BY <1>1, <1>2, <1>3

LEMMA EvidenceStep ==
  ASSUME EvidenceInv, Index!EiNext
  PROVE  EvidenceInv'
\* A step of one retrieval that leaves the indices and the rebuild alone.
<1>1. ASSUME NEW r \in Run, NEW s \in Retrieval, retrieval' = [retrieval EXCEPT ![r] = s],
             evidence' \in [Evidence -> {"unknown", "stored", "deleted"}],
             got' \in [Run -> SUBSET Evidence], UNCHANGED <<indices, evidenceAlias, rebuild>>
      PROVE  EvidenceInv'
  BY <1>1 DEF EvidenceInv
\* A step of the rebuild that leaves the rest alone.
<1>2. ASSUME NEW s \in Rebuild, rebuild' = s, s.pc = "idle" \/ s.index # 0,
             s.pc \in {"read", "index"} => indices[s.index].there,
             UNCHANGED <<evidence, indices, evidenceAlias, retrieval, got>>
      PROVE  EvidenceInv'
  BY <1>2 DEF EvidenceInv
<1>3. ASSUME NEW r \in Run, Index!EnsureIndex(r)
      PROVE  EvidenceInv'
  <2>1. PICK c \in Index!Cv :
          retrieval' = [retrieval EXCEPT ![r] =
                         [Index!NoRun EXCEPT !.cv = c,
                            !.pc = IF evidenceAlias = 0 THEN "create" ELSE "extract"]]
    BY <1>3 DEF Index!EnsureIndex, Index!Then
  <2>2. got' \in [Run -> SUBSET Evidence]
    BY <1>3 DEF Index!EnsureIndex, EvidenceInv
  <2>3. [Index!NoRun EXCEPT !.cv = c, !.pc = IF evidenceAlias = 0 THEN "create" ELSE "extract"]
          \in Retrieval
    BY RetrievalsStay
  <2> QED BY <1>1, <1>3, <2>1, <2>2, <2>3 DEF Index!EnsureIndex, EvidenceInv
<1>4. ASSUME NEW r \in Run, Index!CreateFirst(r)
      PROVE  EvidenceInv'
  <2>1. PICK x \in Index!Free :
          /\ indices' = [indices EXCEPT ![x] = [there |-> TRUE, has |-> {}]]
          /\ retrieval' = [retrieval EXCEPT ![r] =
                            [retrieval[r] EXCEPT !.pc = "switch", !.index = x]]
    BY <1>4 DEF Index!CreateFirst, Index!CreateIndex, Index!Then
  <2>2. x \in Index!Index /\ x \in 0..EvidenceIndices
    BY SitesAssumption DEF Index!Free, Index!Index
  <2>3. [retrieval[r] EXCEPT !.pc = "switch", !.index = x] \in Retrieval
    BY <2>2, RetrievalsStay DEF EvidenceInv
  <2>4. [there |-> TRUE, has |-> {}] \in Doc
    BY DEF Doc
  <2>5. \A y \in Index!Index : indices[y].there => indices'[y].there
    BY <2>1, <2>2 DEF EvidenceInv
  <2> QED
    BY <1>4, <2>1, <2>2, <2>3, <2>4, <2>5, SitesAssumption
    DEF Index!CreateFirst, EvidenceInv, Index!Index, Rebuild
<1>5. ASSUME NEW r \in Run, Index!SwitchFirst(r)
      PROVE  EvidenceInv'
  <2>1. [retrieval[r] EXCEPT !.pc = "extract"] \in Retrieval
    BY RetrievalsStay DEF EvidenceInv
  <2>2. retrieval[r].index \in 0..EvidenceIndices
    BY DEF EvidenceInv, Retrieval
  <2> QED
    BY <1>5, <2>1, <2>2
    DEF Index!SwitchFirst, Index!SwitchAliases, Index!To, Index!Then, EvidenceInv
<1>6. ASSUME NEW r \in Run, Index!Extract(r)
      PROVE  EvidenceInv'
  <2>1. PICK new \in SUBSET Evidence :
          /\ evidence' = [e \in Evidence |-> IF e \in new THEN "stored" ELSE evidence[e]]
          /\ retrieval' = [retrieval EXCEPT ![r] =
                            [retrieval[r] EXCEPT !.pc = "index",
                               !.todo = Index!Current(retrieval[r].cv) \cup (new \cap IsVerified)]]
    BY <1>6 DEF Index!Extract, Index!Then
  <2>2. Index!Current(retrieval[r].cv) \cup (new \cap IsVerified) \in SUBSET Evidence
    BY DEF Index!Current, Index!Stored
  <2>3. [retrieval[r] EXCEPT !.pc = "index",
           !.todo = Index!Current(retrieval[r].cv) \cup (new \cap IsVerified)] \in Retrieval
    BY <2>2, RetrievalsStay DEF EvidenceInv
  <2>4. evidence' \in [Evidence -> {"unknown", "stored", "deleted"}]
    BY <2>1 DEF EvidenceInv
  <2> QED BY <1>1, <1>6, <2>1, <2>3, <2>4 DEF Index!Extract, EvidenceInv
\* Documents that are added to an index leave it where it is.
<1>7. ASSUME NEW x \in 1..EvidenceIndices, NEW S \in SUBSET Evidence,
             Index!IndexDocuments(x, S)
      PROVE  /\ indices' \in [Index!Index -> Doc]
             /\ \A y \in Index!Index : indices[y].there <=> indices'[y].there
  BY <1>7 DEF Index!IndexDocuments, EvidenceInv, Doc, Index!Index
<1>8. ASSUME NEW r \in Run, Index!IndexBatch(r)
      PROVE  EvidenceInv'
  <2>1. PICK batch \in Index!Batch(retrieval[r].todo) :
          /\ Index!IndexDocuments(evidenceAlias, batch)
          /\ retrieval' = [retrieval EXCEPT ![r] = [retrieval[r] EXCEPT !.todo = @ \ batch]]
    BY <1>8 DEF Index!IndexBatch, Index!Then
  <2>2. retrieval[r] \in Retrieval
    BY DEF EvidenceInv
  <2>3. batch \in SUBSET Evidence
    BY <2>2 DEF Index!Batch, Retrieval
  <2>4. [retrieval[r] EXCEPT !.todo = @ \ batch] \in Retrieval
    BY <2>2, <2>3, RetrievalsStay
  <2>5. evidenceAlias \in 1..EvidenceIndices
    BY <1>8, SitesAssumption DEF Index!IndexBatch, EvidenceInv
  <2>6. /\ indices' \in [Index!Index -> Doc]
        /\ \A y \in Index!Index : indices[y].there <=> indices'[y].there
    BY <1>7, <2>1, <2>3, <2>5
  <2> QED
    BY <1>8, <2>1, <2>4, <2>6, SitesAssumption
    DEF Index!IndexBatch, EvidenceInv, Rebuild, Index!Index
<1>9. ASSUME NEW r \in Run, Index!Indexed(r) \/ Index!RunBreaks(r)
      PROVE  EvidenceInv'
  <2>1. \A pc \in {"lexical", "idle"} : [retrieval[r] EXCEPT !.pc = pc] \in Retrieval
    BY RetrievalsStay DEF EvidenceInv
  <2> QED
    BY <1>1, <1>9, <2>1
    DEF Index!Indexed, Index!RunBreaks, Index!To, Index!Then, EvidenceInv
\* What a search gives is evidence.
<1>10. /\ \A c : /\ Index!SearchBm25(c) \subseteq SUBSET Evidence
                 /\ Index!SearchKnn(c) \subseteq SUBSET Evidence
                 /\ Index!SearchLexical(c) \subseteq SUBSET Evidence
       /\ \A r \in Run : Index!Fused(r) \subseteq SUBSET Evidence
  <2>1. \A S \in SUBSET Evidence : Index!Top(S) \subseteq SUBSET Evidence
    BY DEF Index!Top
  <2>2. \A c : Index!Documents(c) \subseteq Evidence /\ Index!Current(c) \subseteq Evidence
    BY SitesAssumption
    DEF Index!Documents, Index!Current, Index!Stored, EvidenceInv, Doc, Index!Index
  <2> QED
    BY <2>1, <2>2
    DEF Index!SearchBm25, Index!SearchKnn, Index!SearchLexical, Index!Fused, Index!Loaded
<1>11. ASSUME NEW r \in Run, NEW found \in SUBSET Evidence, Index!Retrieved(r, found),
              UNCHANGED <<evidence, indices, evidenceAlias, rebuild>>
       PROVE  EvidenceInv'
  <2>1. [retrieval[r] EXCEPT !.pc = "done"] \in Retrieval
    BY RetrievalsStay DEF EvidenceInv
  <2>2. got' \in [Run -> SUBSET Evidence]
    BY <1>11 DEF Index!Retrieved, EvidenceInv
  <2> QED
    BY <1>1, <1>11, <2>1, <2>2 DEF Index!Retrieved, Index!To, Index!Then, EvidenceInv
<1>12. ASSUME NEW r \in Run, Index!AskLexical(r)
       PROVE  EvidenceInv'
  <2>1. \A found \in SUBSET Evidence :
          [retrieval[r] EXCEPT !.pc = "dense", !.lexical = found] \in Retrieval
    BY RetrievalsStay DEF EvidenceInv
  <2>2. CASE \E found \in Index!SearchLexical(retrieval[r].cv) : Index!Retrieved(r, found)
    BY <1>10, <1>11, <1>12, <2>2 DEF Index!AskLexical
  <2>3. CASE \E found \in SUBSET Evidence :
               /\ retrieval' = [retrieval EXCEPT ![r] =
                                 [retrieval[r] EXCEPT !.pc = "dense", !.lexical = found]]
               /\ UNCHANGED got
    BY <1>1, <1>12, <2>1, <2>3 DEF Index!AskLexical, EvidenceInv
  <2> QED BY <1>10, <1>12, <2>2, <2>3 DEF Index!AskLexical, Index!Then
<1>13. ASSUME NEW r \in Run, Index!AskDense(r)
       PROVE  EvidenceInv'
  <2>1. \A found \in SUBSET Evidence :
          [retrieval[r] EXCEPT !.pc = "fuse", !.dense = found] \in Retrieval
    BY RetrievalsStay DEF EvidenceInv
  <2>2. PICK found \in SUBSET Evidence :
          retrieval' = [retrieval EXCEPT ![r] = [retrieval[r] EXCEPT !.pc = "fuse", !.dense = found]]
    BY <1>10, <1>13 DEF Index!AskDense, Index!Then
  <2> QED BY <1>1, <1>13, <2>1, <2>2 DEF Index!AskDense, EvidenceInv
<1>14. ASSUME NEW r \in Run, Index!Fuse(r)
       PROVE  EvidenceInv'
  BY <1>10, <1>11, <1>14 DEF Index!Fuse
<1>15. ASSUME NEW c \in Index!Cv, Index!DeleteCv(c)
       PROVE  EvidenceInv'
  BY <1>15 DEF Index!DeleteCv, EvidenceInv
<1>16. CASE Index!RebuildStart
  <2>1. PICK x \in Index!Free :
          /\ indices' = [indices EXCEPT ![x] = [there |-> TRUE, has |-> {}]]
          /\ rebuild' = [pc |-> "read", index |-> x, todo |-> {}]
    BY <1>16 DEF Index!RebuildStart, Index!CreateIndex, Index!Resting
  <2>2. x \in Index!Index /\ x \in 0..EvidenceIndices /\ x # 0
    BY SitesAssumption DEF Index!Free, Index!Index
  <2>3. [there |-> TRUE, has |-> {}] \in Doc
    BY DEF Doc
  <2>4. indices' \in [Index!Index -> Doc] /\ indices'[x].there
    BY <2>1, <2>2, <2>3 DEF EvidenceInv
  <2>5. rebuild' \in Rebuild /\ rebuild'.index = x
    BY <2>1, <2>2 DEF Rebuild
  <2>6. evidenceAlias # 0 => indices'[evidenceAlias].there
    BY <2>1, <2>2, SitesAssumption DEF EvidenceInv, Index!Index
  <2> QED BY <1>16, <2>2, <2>4, <2>5, <2>6 DEF Index!RebuildStart, EvidenceInv
<1>17. CASE Index!RebuildRead
  <2> DEFINE all == UNION {Index!Current(c) : c \in Index!Cv}
             s   == [rebuild EXCEPT !.pc = "index", !.todo = all]
  <2>1. all \in SUBSET Evidence
    BY DEF Index!Current, Index!Stored
  <2>2. rebuild' = s /\ rebuild.pc = "read"
    BY <1>17 DEF Index!RebuildRead
  <2> HIDE DEF all
  <2>3. s \in Rebuild /\ s.index = rebuild.index
    BY <2>1 DEF EvidenceInv, Rebuild
  <2> QED BY <1>2, <1>17, <2>2, <2>3 DEF Index!RebuildRead, EvidenceInv
<1>18. CASE Index!RebuildBatch
  <2>1. PICK batch \in Index!Batch(rebuild.todo) :
          /\ Index!IndexDocuments(rebuild.index, batch)
          /\ rebuild' = [rebuild EXCEPT !.todo = @ \ batch]
    BY <1>18 DEF Index!RebuildBatch
  <2>2. rebuild.pc = "index" /\ rebuild \in Rebuild /\ rebuild.index # 0
    BY <1>18 DEF Index!RebuildBatch, EvidenceInv
  <2>3. batch \in SUBSET Evidence /\ rebuild.index \in 1..EvidenceIndices
    BY <2>2, SitesAssumption DEF Index!Batch, Rebuild
  <2>4. /\ indices' \in [Index!Index -> Doc]
        /\ \A y \in Index!Index : indices[y].there <=> indices'[y].there
    BY <1>7, <2>1, <2>3
  <2>5. rebuild' \in Rebuild /\ rebuild'.index = rebuild.index /\ rebuild'.pc = "index"
    BY <2>1, <2>2 DEF Rebuild
  <2> QED
    BY <1>18, <2>2, <2>3, <2>4, <2>5, SitesAssumption
    DEF Index!RebuildBatch, EvidenceInv, Index!Index
<1>19. CASE Index!RebuildSwitch
  <2>1. PICK pc \in {"commit", "cleanup"} : rebuild' = [rebuild EXCEPT !.pc = pc]
    BY <1>19 DEF Index!RebuildSwitch
  <2>2. rebuild' \in Rebuild /\ rebuild'.index = rebuild.index /\ rebuild'.pc = pc
    BY <2>1 DEF Rebuild, EvidenceInv
  <2> QED
    BY <1>19, <2>1, <2>2
    DEF Index!RebuildSwitch, Index!SwitchAliases, EvidenceInv, Rebuild
<1>20. CASE Index!RebuildCommit \/ Index!RebuildFails
  <2>1. Index!Resting \in Rebuild /\ Index!Resting.pc = "idle"
    BY SitesAssumption DEF Index!Resting, Rebuild
  <2>2. /\ [rebuild EXCEPT !.pc = "cleanup"] \in Rebuild
        /\ [rebuild EXCEPT !.pc = "cleanup"].index = rebuild.index
        /\ [rebuild EXCEPT !.pc = "cleanup"].pc = "cleanup"
    BY DEF Rebuild, EvidenceInv
  <2>3. rebuild.index # 0
    BY <1>20 DEF Index!RebuildCommit, Index!RebuildFails, EvidenceInv
  <2> QED
    BY <1>2, <1>20, <2>1, <2>2, <2>3 DEF Index!RebuildCommit, Index!RebuildFails
<1>21. CASE Index!RebuildCleanup
  <2>1. Index!Resting \in Rebuild /\ Index!Resting.pc = "idle"
    BY SitesAssumption DEF Index!Resting, Rebuild
  <2>2. CASE UNCHANGED <<indices, evidenceAlias>>
    BY <1>2, <1>21, <2>1, <2>2 DEF Index!RebuildCleanup
  <2>3. CASE Index!DeleteIndex(rebuild.index)
    <3>1. Index!NoIndex \in Doc /\ 0 \in 0..EvidenceIndices
      BY SitesAssumption DEF Index!NoIndex, Doc
    <3>2. rebuild.index \in Index!Index
      BY <1>21, SitesAssumption DEF Index!RebuildCleanup, EvidenceInv, Rebuild, Index!Index
    <3> QED
      BY <1>21, <2>1, <2>3, <3>1, <3>2, SitesAssumption
      DEF Index!DeleteIndex, Index!RebuildCleanup, EvidenceInv, Index!Index
  <2> QED BY <1>21, <2>2, <2>3 DEF Index!RebuildCleanup
<1> QED
  BY <1>3, <1>4, <1>5, <1>6, <1>8, <1>9, <1>12, <1>13, <1>14, <1>15, <1>16, <1>17, <1>18,
     <1>19, <1>20, <1>21 DEF Index!EiNext

LEMMA EvidenceAlways == Spec => []EvidenceInv
<1>1. Init => EvidenceInv
  <2> SUFFICES ASSUME Index!EiInit
               PROVE  EvidenceInv
    BY DEF Init
  <2>1. Index!NoIndex \in Doc /\ Index!NoRun \in Retrieval
    BY RetrievalsStay DEF Index!NoIndex, Doc
  <2>2. Index!Resting \in Rebuild /\ Index!Resting.pc = "idle" /\ 0 \in 0..EvidenceIndices
    BY SitesAssumption DEF Index!Resting, Rebuild
  <2> QED BY <2>1, <2>2 DEF Index!EiInit, EvidenceInv
<1>2. EvidenceInv /\ [Next]_vars => EvidenceInv'
  <2>1. EvidenceInv /\ UNCHANGED indexVars => EvidenceInv'
    BY DEF EvidenceInv, indexVars
  <2> QED BY <2>1, EvidenceStep DEF Next, vars
<1> QED BY <1>1, <1>2, PTL DEF Spec

\* What one step of a retrieval that ends gives: of the current evidence, and none only when
\* the database has none with a word of the requirement.
LEMMA RetrievedStep ==
  ASSUME EvidenceInv, Index!EiNext, NEW r \in Run,
         retrieval[r].pc # "done", retrieval'[r].pc = "done"
  PROVE  /\ got'[r] \subseteq Index!Current(retrieval[r].cv)
         /\ got'[r] = {} => Index!Current(retrieval[r].cv) \cap Similar = {}
<1> DEFINE current == Index!Current(retrieval[r].cv)
<1>1. IsFiniteSet(current) /\ IsFiniteSet(current \cap Similar)
  <2>1. current \subseteq Evidence
    BY DEF Index!Current, Index!Stored
  <2> QED BY <2>1, FS_Subset, SitesAssumption
\* Only the end of a retrieval makes it done.
<1>2. PICK found : /\ Index!Retrieved(r, found)
                   /\ \/ found \in Index!SearchLexical(retrieval[r].cv)
                      \/ found \in Index!Fused(r)
  <2>1. PICK q \in Run : \/ Index!EnsureIndex(q) \/ Index!CreateFirst(q) \/ Index!SwitchFirst(q)
                         \/ Index!Extract(q) \/ Index!IndexBatch(q) \/ Index!Indexed(q)
                         \/ Index!RunBreaks(q) \/ Index!AskLexical(q) \/ Index!AskDense(q)
                         \/ Index!Fuse(q)
    BY DEF Index!EiNext, Index!DeleteCv, Index!RebuildStart, Index!RebuildRead,
           Index!RebuildBatch, Index!RebuildSwitch, Index!RebuildCommit, Index!RebuildFails,
           Index!RebuildCleanup
  <2>2. \A s : retrieval' = [retrieval EXCEPT ![q] = s] => q = r /\ s.pc = "done"
    BY DEF EvidenceInv
  <2>3. retrieval[q] \in Retrieval /\ Index!NoRun \in Retrieval
    BY RetrievalsStay DEF EvidenceInv
  <2>4. CASE Index!AskLexical(q)
    <3>1. \A found : [retrieval[q] EXCEPT !.pc = "dense", !.lexical = found].pc # "done"
      BY <2>3 DEF Retrieval
    <3> QED BY <2>2, <2>4, <3>1 DEF Index!AskLexical, Index!Then, Index!Retrieved, Index!To
  <2>5. CASE Index!Fuse(q)
    BY <2>2, <2>5 DEF Index!Fuse, Index!Retrieved, Index!To, Index!Then
  <2>6. CASE Index!EnsureIndex(q)
    <3>1. \A c, pc : [Index!NoRun EXCEPT !.cv = c, !.pc = pc].pc = pc
      BY <2>3 DEF Retrieval
    <3> QED BY <2>2, <2>6, <3>1 DEF Index!EnsureIndex, Index!Then
  <2>7. CASE Index!CreateFirst(q)
    <3>1. \A x : [retrieval[q] EXCEPT !.pc = "switch", !.index = x].pc = "switch"
      BY <2>3 DEF Retrieval
    <3> QED BY <2>2, <2>7, <3>1 DEF Index!CreateFirst, Index!Then
  <2>8. CASE Index!SwitchFirst(q) \/ Index!Indexed(q) \/ Index!RunBreaks(q)
    <3>1. \A pc : [retrieval[q] EXCEPT !.pc = pc].pc = pc
      BY <2>3 DEF Retrieval
    <3>2. PICK pc \in {"extract", "lexical", "idle"} :
            retrieval' = [retrieval EXCEPT ![q] = [retrieval[q] EXCEPT !.pc = pc]]
      BY <2>8 DEF Index!SwitchFirst, Index!Indexed, Index!RunBreaks, Index!To, Index!Then
    <3> QED BY <2>2, <3>1, <3>2
  <2>9. CASE Index!Extract(q)
    <3>1. \A S : [retrieval[q] EXCEPT !.pc = "index", !.todo = S].pc = "index"
      BY <2>3 DEF Retrieval
    <3> QED BY <2>2, <2>9, <3>1 DEF Index!Extract, Index!Then
  <2>10. CASE Index!IndexBatch(q)
    <3>1. \A S : [retrieval[q] EXCEPT !.todo = @ \ S].pc = "index"
      BY <2>3, <2>10 DEF Retrieval, Index!IndexBatch, Index!At
    <3> QED BY <2>2, <2>10, <3>1 DEF Index!IndexBatch, Index!Then
  <2>11. CASE Index!AskDense(q)
    <3>1. \A S : [retrieval[q] EXCEPT !.pc = "fuse", !.dense = S].pc = "fuse"
      BY <2>3 DEF Retrieval
    <3> QED BY <2>2, <2>11, <3>1 DEF Index!AskDense, Index!Then
  <2> QED BY <2>1, <2>4, <2>5, <2>6, <2>7, <2>8, <2>9, <2>10, <2>11
<1>3. got'[r] = found
  BY <1>2 DEF Index!Retrieved, EvidenceInv
<1>4. \A T \in Index!SearchLexical(retrieval[r].cv) :
        T \subseteq current /\ (T = {} => current \cap Similar = {})
  BY <1>1, TopIsOfIt DEF Index!SearchLexical
<1>5. CASE found \in Index!SearchLexical(retrieval[r].cv)
  BY <1>3, <1>4, <1>5
<1>6. CASE found \in Index!Fused(r) /\ Index!Loaded(r) # {}
  <2>1. Index!Loaded(r) \subseteq current /\ IsFiniteSet(Index!Loaded(r))
    BY <1>1, FS_Subset DEF Index!Loaded
  <2>2. found \subseteq Index!Loaded(r) /\ found # {}
    BY <1>6, <2>1, TopIsOfIt DEF Index!Fused
  <2> QED BY <1>3, <2>1, <2>2
<1>7. CASE found \in Index!Fused(r) /\ Index!Loaded(r) = {}
  BY <1>5, <1>7 DEF Index!Fused
<1> QED BY <1>2, <1>5, <1>6, <1>7

\* Whatever the index has lost, kept of deleted rows or never got, a retrieval ends with
\* current evidence of its resume only, and with none only when the database has none to
\* offer, for any evidence, runs, limit and failures of the calls.
THEOREM RetrievalsAreCurrent == Spec => RetrievedIsCurrent
<1>1. EvidenceInv /\ [Next]_vars =>
        [\A r \in Run : retrieval[r].pc # "done" /\ retrieval'[r].pc = "done" =>
           /\ got'[r] \subseteq Index!Current(retrieval[r].cv)
           /\ got'[r] = {} => Index!Current(retrieval[r].cv) \cap Similar = {}]_(Index!eiVars)
  BY RetrievedStep DEF Next, vars, indexVars, Index!eiVars
<1> QED
  BY <1>1, EvidenceAlways, PTL DEF Spec, RetrievedIsCurrent, Index!RetrievedIsCurrent

-------------------------------------------------------------------------------
(* The search of the saved vacancies                                        *)

Asked == [pc : Search!Building \cup {"idle", "rrf", "bm25", "knn", "list", "done"},
          index : 0..VacancyIndices, todo : SUBSET Vacancy, named : BOOLEAN,
          ids : SUBSET Vacancy, failed : BOOLEAN, shown : SUBSET Vacancy]

\* A request that makes the retriever is the one that this process has begun with, and the
\* index it fills has, or will get, whatever the aliases show.
Fits(s) ==
  /\ s.pc \in Search!Building => attempted
  /\ s.pc \in {"read", "index"} => s.index \in 1..used
  /\ s.pc = "index" => /\ s.todo \subseteq saved
                       /\ Search!Indexed \subseteq searchIndices[s.index] \cup s.todo

SearchInv ==
  /\ saved \subseteq Vacancy /\ searchIndices \in [1..VacancyIndices -> SUBSET saved]
  /\ used \in 0..VacancyIndices /\ searchAlias \in 0..used
  /\ attempted \in BOOLEAN /\ retriever \in BOOLEAN /\ starts \in 1..MaxStarts
  /\ searching \in [Request -> Asked] /\ \A q \in Request : Fits(searching[q])
  /\ \A q, p \in Request :
       searching[q].pc \in Search!Building /\ searching[p].pc \in Search!Building => q = p

\* What can become of a request's record.
LEMMA AskedGoesOn ==
  \A s \in Asked, S \in SUBSET Vacancy :
    /\ [s EXCEPT !.todo = @ \ S] \in Asked /\ [s EXCEPT !.todo = @ \ S].pc = s.pc
    /\ [s EXCEPT !.todo = @ \ S].index = s.index
    /\ [s EXCEPT !.todo = @ \ S].todo = s.todo \ S
BY DEF Asked, Search!Building

LEMMA AskedFinds ==
  \A s \in Asked, S \in SUBSET Vacancy :
    /\ [s EXCEPT !.pc = "knn", !.ids = S] \in Asked
    /\ [s EXCEPT !.pc = "knn", !.ids = S].pc = "knn"
    /\ [s EXCEPT !.pc = "done", !.shown = S] \in Asked
    /\ [s EXCEPT !.pc = "done", !.shown = S].pc = "done"
BY DEF Asked, Search!Building

LEMMA NobodyAsks ==
  /\ Search!NoAsk \in Asked /\ Search!NoAsk.pc = "idle"
  /\ \A pc : [Search!NoAsk EXCEPT !.pc = pc].pc = pc
<1>1. 0 \in 0..VacancyIndices
  BY SitesAssumption
<1> QED BY <1>1 DEF Search!NoAsk, Asked, Search!Building

LEMMA SearchStep ==
  ASSUME SearchInv, Search!VsNext
  PROVE  SearchInv' /\ (searchAlias # 0 => Search!Indexed \subseteq Search!Indexed')
<1> DEFINE Kept == SearchInv' /\ (searchAlias # 0 => Search!Indexed \subseteq Search!Indexed')
\* A step of one request that leaves the index alone, and does not begin to make a retriever.
<1>1. ASSUME NEW q \in Request, NEW s \in Asked, searching' = [searching EXCEPT ![q] = s],
             UNCHANGED <<saved, Search!index, Search!process>>,
             s.pc \in Search!Building => searching[q].pc \in Search!Building /\ Fits(s)
      PROVE  Kept
  <2>1. UNCHANGED <<searchIndices, searchAlias, used, attempted, retriever, starts>>
    BY <1>1 DEF Search!index, Search!process
  <2>2. Fits(s)'
    BY <1>1, <2>1 DEF Fits, Search!Indexed, Search!Building
  <2>3. \A p \in Request : Fits(searching[p])'
    BY <1>1, <2>1, <2>2 DEF SearchInv, Fits, Search!Indexed
  <2>4. \A p, o \in Request :
          searching'[p].pc \in Search!Building /\ searching'[o].pc \in Search!Building => p = o
    BY <1>1 DEF SearchInv
  <2>5. searching' \in [Request -> Asked] /\ Search!Indexed' = Search!Indexed
    BY <1>1, <2>1 DEF SearchInv, Search!Indexed
  <2> QED BY <1>1, <2>1, <2>3, <2>4, <2>5 DEF SearchInv
<1>2. ASSUME NEW q \in Request
      PROVE  searching[q] \in Asked /\ Fits(searching[q])
  BY DEF SearchInv
\* What the aliases show is saved.
<1>3. Search!Indexed \subseteq saved /\ Search!Indexed \subseteq Vacancy /\ saved \subseteq Vacancy
  BY SitesAssumption DEF SearchInv, Search!Indexed
<1>4. ASSUME NEW q \in Request, Search!Ask(q)
      PROVE  Kept
  <2>1. PICK pc \in {"ensure", "rrf", "list"} :
          /\ searching' = [searching EXCEPT ![q] = [Search!NoAsk EXCEPT !.pc = pc]]
          /\ attempted' = TRUE /\ (pc = "ensure" => ~attempted)
    BY <1>4 DEF Search!Ask, Search!Then
  <2>2. PICK s \in Asked : s = [Search!NoAsk EXCEPT !.pc = pc] /\ s.pc = pc
    <3>1. [Search!NoAsk EXCEPT !.pc = pc] \in Asked /\ [Search!NoAsk EXCEPT !.pc = pc].pc = pc
      BY NobodyAsks DEF Asked, Search!Building
    <3> QED BY <3>1
  <2>3. searching' = [searching EXCEPT ![q] = s]
    BY <2>1, <2>2
  <2>4. UNCHANGED <<saved, searchIndices, searchAlias, used, retriever, starts>>
    BY <1>4 DEF Search!Ask, Search!index
  <2>5. ~attempted => \A p \in Request : searching[p].pc \notin Search!Building
    BY DEF SearchInv, Fits
  <2>6. Fits(s)'
    BY <2>1, <2>2 DEF Fits
  <2>7. \A p \in Request : Fits(searching[p])'
    <3>1. \A p \in Request : searching'[p] = IF p = q THEN s ELSE searching[p]
      BY <2>3 DEF SearchInv
    <3> QED BY <2>1, <2>4, <2>6, <3>1 DEF SearchInv, Fits, Search!Indexed
  <2>8. \A p, o \in Request :
          searching'[p].pc \in Search!Building /\ searching'[o].pc \in Search!Building => p = o
    BY <2>1, <2>2, <2>3, <2>5 DEF SearchInv, Search!Building
  <2>9. searching' \in [Request -> Asked] /\ Search!Indexed' = Search!Indexed
    BY <2>3, <2>4 DEF SearchInv, Search!Indexed
  <2> QED BY <2>1, <2>4, <2>7, <2>8, <2>9 DEF SearchInv
<1>5. ASSUME NEW q \in Request, Search!EnsureIndex(q)
      PROVE  Kept
  <2>1. PICK pc \in {"create", "rrf"} :
          searching' = [searching EXCEPT ![q] = [searching[q] EXCEPT !.pc = pc]]
    BY <1>5 DEF Search!EnsureIndex, Search!To, Search!Then
  <2>2. PICK s \in Asked : s = [searching[q] EXCEPT !.pc = pc] /\ s.pc = pc
    <3>1. [searching[q] EXCEPT !.pc = pc] \in Asked /\ [searching[q] EXCEPT !.pc = pc].pc = pc
      BY <1>2 DEF Asked, Search!Building
    <3> QED BY <3>1
  <2>3. /\ searching[q].pc \in Search!Building
        /\ UNCHANGED <<saved, searchIndices, attempted, starts>> /\ retriever' = TRUE
        /\ searchAlias # 0 => searchAlias' = searchAlias /\ used' = used
        /\ searchAlias = 0 => searchAlias' = used + 1 /\ used' = used + 1 /\ used < VacancyIndices
    BY <1>5 DEF Search!EnsureIndex, Search!At, Search!SwitchAliases, Search!Building
  <2>4. used' \in 0..VacancyIndices /\ searchAlias' \in 0..used' /\ used <= used'
    BY <2>3, SitesAssumption DEF SearchInv
  <2>5. \A p \in Request \ {q} : searching[p].pc \notin Search!Building
    BY <2>3 DEF SearchInv
  <2>6. \A p \in Request : Fits(searching[p])'
    <3>1. Fits(s)'
      BY <1>2, <2>2, <2>3 DEF Fits
    <3>2. \A p \in Request \ {q} : Fits(searching[p])'
      BY <2>1, <2>5 DEF SearchInv, Fits, Search!Building
    <3> QED BY <2>1, <2>2, <3>1, <3>2 DEF SearchInv
  <2>7. \A p, o \in Request :
          searching'[p].pc \in Search!Building /\ searching'[o].pc \in Search!Building => p = o
    BY <2>1, <2>5 DEF SearchInv
  <2>8. searching' \in [Request -> Asked]
    BY <2>1, <2>2 DEF SearchInv
  <2>9. searchAlias # 0 => Search!Indexed' = Search!Indexed
    BY <2>3 DEF Search!Indexed
  <2> QED BY <2>3, <2>4, <2>6, <2>7, <2>8, <2>9 DEF SearchInv
<1>6. ASSUME NEW q \in Request, Search!InitFails(q) \/ Search!RebuildFails(q) \/ Search!SearchRrf(q)
                                \/ Search!SearchBm25(q) \/ Search!SearchKnn(q) \/ Search!List(q)
      PROVE  Kept
  <2>1. PICK s \in Asked : /\ searching' = [searching EXCEPT ![q] = s]
                           /\ s.pc \notin Search!Building
    <3> DEFINE Out  == {"rrf", "bm25", "knn", "list", "done"}
               Ends == \E s \in Asked : /\ searching' = [searching EXCEPT ![q] = s]
                                        /\ s.pc \notin Search!Building
    <3>1. \A pc \in Out : pc \notin Search!Building
      BY DEF Search!Building
    <3>2. searching[q].ids \in SUBSET Vacancy
      BY <1>2 DEF Asked
    <3>3. ASSUME NEW pc \in Out,
                 searching' = [searching EXCEPT ![q] = [searching[q] EXCEPT !.pc = pc]]
          PROVE  Ends
      <4>1. [searching[q] EXCEPT !.pc = pc] \in Asked /\ [searching[q] EXCEPT !.pc = pc].pc = pc
        BY <1>2 DEF Asked, Search!Building
      <4> QED BY <3>1, <3>3, <4>1
    <3>4. ASSUME NEW S \in SUBSET Vacancy,
                 searching' = [searching EXCEPT ![q] = [searching[q] EXCEPT !.pc = "knn", !.ids = S]]
          PROVE  Ends
      <4>1. /\ [searching[q] EXCEPT !.pc = "knn", !.ids = S] \in Asked
            /\ [searching[q] EXCEPT !.pc = "knn", !.ids = S].pc = "knn"
        BY <1>2, AskedFinds
      <4> QED BY <3>1, <3>4, <4>1
    <3>5. ASSUME NEW S \in SUBSET Vacancy, NEW failed \in BOOLEAN, Search!Named(q, S, failed)
          PROVE  Ends
      <4>1. PICK s \in Asked :
              /\ s = [searching[q] EXCEPT !.pc = "list", !.named = TRUE, !.ids = S, !.failed = failed]
              /\ s.pc = "list"
        <5>1. PICK r \in Asked : r = searching[q]
          BY <1>2
        <5>2. [r EXCEPT !.pc = "list", !.named = TRUE, !.ids = S, !.failed = failed] \in Asked
          BY DEF Asked
        <5>3. [r EXCEPT !.pc = "list", !.named = TRUE, !.ids = S, !.failed = failed].pc = "list"
          BY DEF Asked
        <5> QED BY <5>1, <5>2, <5>3
      <4> QED BY <3>1, <3>5, <4>1 DEF Search!Named, Search!Then
    <3>6. CASE Search!InitFails(q) \/ Search!RebuildFails(q)
      BY <3>3, <3>6 DEF Search!InitFails, Search!RebuildFails, Search!To, Search!Then
    <3>7. CASE Search!SearchRrf(q)
      BY <1>3, <3>3, <3>5, <3>7 DEF Search!SearchRrf, Search!To, Search!Then
    <3>8. CASE Search!SearchBm25(q)
      BY <1>3, <3>4, <3>5, <3>8 DEF Search!SearchBm25, Search!Then
    <3>9. CASE Search!SearchKnn(q)
      <4>1. PICK S \in SUBSET Vacancy : Search!Named(q, S, FALSE)
        BY <1>3, <3>2, <3>9 DEF Search!SearchKnn
      <4> QED BY <3>5, <4>1
    <3>10. CASE Search!List(q)
      <4>1. PICK S \in SUBSET Vacancy :
              searching' = [searching EXCEPT ![q] = [searching[q] EXCEPT !.pc = "done", !.shown = S]]
        BY <1>3, <3>2, <3>10 DEF Search!List, Search!Then
      <4>2. /\ [searching[q] EXCEPT !.pc = "done", !.shown = S] \in Asked
            /\ [searching[q] EXCEPT !.pc = "done", !.shown = S].pc = "done"
        BY <1>2, AskedFinds
      <4> QED BY <3>1, <4>1, <4>2
    <3> QED BY <1>6, <3>6, <3>7, <3>8, <3>9, <3>10
  <2>2. UNCHANGED <<saved, Search!index, Search!process>>
    BY <1>6 DEF Search!InitFails, Search!RebuildFails, Search!SearchRrf, Search!SearchBm25,
                Search!SearchKnn, Search!List
  <2> QED BY <1>1, <2>1, <2>2
\* What the request that makes the retriever does to the index.
<1>7. ASSUME NEW q \in Request, NEW s \in Asked, searching' = [searching EXCEPT ![q] = s],
             searching[q].pc \in Search!Building, Fits(s)',
             UNCHANGED <<saved, Search!process>>,
             searchIndices' \in [1..VacancyIndices -> SUBSET saved],
             used' \in 0..VacancyIndices, searchAlias' \in 0..used'
      PROVE  SearchInv'
  <2>1. \A p \in Request \ {q} : searching[p].pc \notin Search!Building
    BY <1>7 DEF SearchInv
  <2>2. \A p \in Request : Fits(searching[p])'
    BY <1>7, <2>1 DEF SearchInv, Fits, Search!Building
  <2>3. \A p, o \in Request :
          searching'[p].pc \in Search!Building /\ searching'[o].pc \in Search!Building => p = o
    BY <1>7, <2>1 DEF SearchInv
  <2> QED BY <1>7, <2>2, <2>3 DEF SearchInv, Search!process
<1>8. ASSUME NEW q \in Request, Search!CreateIndex(q)
      PROVE  Kept
  <2>1. /\ searching' = [searching EXCEPT ![q] =
                          [searching[q] EXCEPT !.pc = "read", !.index = used + 1]]
        /\ searching[q].pc = "create" /\ searching[q].pc \in Search!Building
        /\ used' = used + 1 /\ used < VacancyIndices
        /\ UNCHANGED <<saved, searchIndices, searchAlias, Search!process>>
    BY <1>8 DEF Search!CreateIndex, Search!Then, Search!At, Search!Building
  <2>2. /\ used' \in 0..VacancyIndices /\ used + 1 \in 1..used' /\ searchAlias' \in 0..used'
        /\ used + 1 \in 0..VacancyIndices
    BY <2>1, SitesAssumption DEF SearchInv
  <2>3. PICK s \in Asked : /\ s = [searching[q] EXCEPT !.pc = "read", !.index = used + 1]
                           /\ s.pc = "read" /\ s.index = used + 1
    <3>1. PICK r \in Asked, n \in 0..VacancyIndices : r = searching[q] /\ n = used + 1
      BY <1>2, <2>2
    <3>2. /\ [r EXCEPT !.pc = "read", !.index = n] \in Asked
          /\ [r EXCEPT !.pc = "read", !.index = n].pc = "read"
          /\ [r EXCEPT !.pc = "read", !.index = n].index = n
      BY DEF Asked, Search!Building
    <3> QED BY <3>1, <3>2
  <2>4. Fits(s)'
    BY <1>2, <2>1, <2>2, <2>3 DEF Fits, Search!process
  <2>5. Search!Indexed' = Search!Indexed
    BY <2>1 DEF Search!Indexed
  <2>6. searchIndices' \in [1..VacancyIndices -> SUBSET saved]
    BY <2>1 DEF SearchInv
  <2> QED BY <1>7, <2>1, <2>2, <2>3, <2>4, <2>5, <2>6
<1>9. ASSUME NEW q \in Request, Search!ReadRows(q)
      PROVE  Kept
  <2>1. /\ searching' = [searching EXCEPT ![q] =
                          [searching[q] EXCEPT !.pc = "index", !.todo = saved]]
        /\ searching[q].pc = "read" /\ searching[q].pc \in Search!Building
        /\ UNCHANGED <<saved, Search!index, Search!process>>
    BY <1>9 DEF Search!ReadRows, Search!Then, Search!At, Search!Building
  <2>2. PICK s \in Asked : /\ s = [searching[q] EXCEPT !.pc = "index", !.todo = saved]
                           /\ s.pc = "index" /\ s.todo = saved /\ s.index = searching[q].index
    <3>1. PICK r \in Asked, S \in SUBSET Vacancy : r = searching[q] /\ S = saved
      BY <1>2, <1>3
    <3>2. /\ [r EXCEPT !.pc = "index", !.todo = S] \in Asked
          /\ [r EXCEPT !.pc = "index", !.todo = S].pc = "index"
          /\ [r EXCEPT !.pc = "index", !.todo = S].todo = S
          /\ [r EXCEPT !.pc = "index", !.todo = S].index = r.index
      BY DEF Asked, Search!Building
    <3> QED BY <3>1, <3>2
  <2>3. Fits(s)
    BY <1>2, <1>3, <2>1, <2>2 DEF Fits
  <2> QED BY <1>1, <2>1, <2>2, <2>3
<1>10. ASSUME NEW q \in Request, Search!IndexBatch(q)
       PROVE  Kept
  <2> DEFINE r == searching[q]
  <2>1. PICK batch \in SUBSET r.todo :
          /\ searchIndices' = [searchIndices EXCEPT ![r.index] = @ \cup batch]
          /\ searching' = [searching EXCEPT ![q] = [r EXCEPT !.todo = @ \ batch]]
    BY <1>10 DEF Search!IndexBatch, Search!Then
  <2>2. /\ r.pc = "index" /\ r.pc \in Search!Building
        /\ UNCHANGED <<saved, searchAlias, used, Search!process>>
    BY <1>10 DEF Search!IndexBatch, Search!At, Search!Building
  <2>3. /\ r.todo \subseteq saved /\ r.index \in 1..used /\ r.index \in 1..VacancyIndices
        /\ Search!Indexed \subseteq searchIndices[r.index] \cup r.todo /\ attempted
    BY <1>2, <2>2, SitesAssumption DEF Fits, SearchInv, Search!Building
  <2>4. PICK s \in Asked : /\ s = [r EXCEPT !.todo = @ \ batch] /\ s.pc = "index"
                           /\ s.todo = r.todo \ batch /\ s.index = r.index
    <3>1. batch \in SUBSET Vacancy /\ r \in Asked
      BY <1>2, <1>3, <2>3
    <3>2. /\ [r EXCEPT !.todo = @ \ batch] \in Asked
          /\ [r EXCEPT !.todo = @ \ batch].pc = "index"
          /\ [r EXCEPT !.todo = @ \ batch].todo = r.todo \ batch
          /\ [r EXCEPT !.todo = @ \ batch].index = r.index
      BY <2>2, <3>1, AskedGoesOn
    <3> QED BY <3>2
  <2>5. searchIndices' \in [1..VacancyIndices -> SUBSET saved]
    BY <2>1, <2>3 DEF SearchInv
  <2>6. /\ searchIndices'[r.index] = searchIndices[r.index] \cup batch
        /\ \A x \in 1..VacancyIndices : searchIndices[x] \subseteq searchIndices'[x]
        /\ \A x \in 1..VacancyIndices : x # r.index => searchIndices[x] = searchIndices'[x]
    BY <2>1, <2>3 DEF SearchInv
  <2>7. searchAlias # 0 => searchAlias \in 1..VacancyIndices
    BY SitesAssumption DEF SearchInv
  <2>8. Search!Indexed \subseteq Search!Indexed' /\ Search!Indexed' \subseteq Search!Indexed \cup searchIndices'[r.index]
    BY <2>2, <2>6, <2>7 DEF Search!Indexed
  <2>9. Fits(s)'
    BY <2>2, <2>3, <2>4, <2>6, <2>8 DEF Fits, Search!process
  <2>10. used' \in 0..VacancyIndices /\ searchAlias' \in 0..used'
    BY <2>2 DEF SearchInv
  <2> QED BY <1>7, <2>1, <2>2, <2>4, <2>5, <2>8, <2>9, <2>10
<1>11. ASSUME NEW q \in Request, Search!Switch(q)
       PROVE  Kept
  <2>1. /\ searching' = [searching EXCEPT ![q] = [searching[q] EXCEPT !.pc = "rrf"]]
        /\ searching[q].pc = "index" /\ searching[q].pc \in Search!Building
        /\ searching[q].todo = {} /\ searchAlias' = searching[q].index
        /\ UNCHANGED <<saved, searchIndices, used, Search!process>>
    BY <1>11
    DEF Search!Switch, Search!To, Search!Then, Search!At, Search!SwitchAliases, Search!Building
  <2>2. PICK s \in Asked : s = [searching[q] EXCEPT !.pc = "rrf"] /\ s.pc = "rrf"
    <3>1. PICK r \in Asked : r = searching[q]
      BY <1>2
    <3>2. [r EXCEPT !.pc = "rrf"] \in Asked /\ [r EXCEPT !.pc = "rrf"].pc = "rrf"
      BY DEF Asked, Search!Building
    <3> QED BY <3>1, <3>2
  <2>3. Fits(s)'
    BY <2>2 DEF Fits, Search!Building
  <2>4. /\ searching[q].index \in 1..used
        /\ Search!Indexed \subseteq searchIndices[searching[q].index]
    BY <1>2, <2>1 DEF Fits
  <2>5. searchAlias' \in 0..used' /\ searchAlias' # 0 /\ used' \in 0..VacancyIndices
    BY <2>1, <2>4, SitesAssumption DEF SearchInv
  <2>6. Search!Indexed' = searchIndices[searching[q].index]
    BY <2>1, <2>5 DEF Search!Indexed
  <2>7. searchIndices' \in [1..VacancyIndices -> SUBSET saved]
    BY <2>1 DEF SearchInv
  <2> QED BY <1>7, <2>1, <2>2, <2>3, <2>4, <2>5, <2>6, <2>7
<1>12. ASSUME NEW v \in Vacancy, Search!Save(v)
       PROVE  Kept
  <2>1. /\ saved' = saved \cup {v}
        /\ UNCHANGED <<searchIndices, searchAlias, used, attempted, retriever, starts, searching>>
    BY <1>12 DEF Search!Save, Search!index, Search!process
  <2>2. searchIndices' \in [1..VacancyIndices -> SUBSET saved']
    BY <2>1 DEF SearchInv
  <2>3. \A p \in Request : Fits(searching[p])'
    BY <2>1 DEF SearchInv, Fits, Search!Indexed
  <2>4. Search!Indexed' = Search!Indexed
    BY <2>1 DEF Search!Indexed
  <2> QED BY <2>1, <2>2, <2>3, <2>4 DEF SearchInv
<1>13. CASE Search!Restart
  <2>1. /\ starts < MaxStarts /\ starts' = starts + 1
        /\ attempted' = FALSE /\ retriever' = FALSE /\ searching' = [q \in Request |-> Search!NoAsk]
        /\ UNCHANGED <<saved, searchIndices, searchAlias, used>>
    BY <1>13 DEF Search!Restart, Search!index
  <2>2. starts' \in 1..MaxStarts
    BY <2>1, SitesAssumption DEF SearchInv
  <2>3. \A q \in Request : searching'[q] \in Asked /\ searching'[q].pc = "idle"
    BY <2>1, NobodyAsks
  <2>4. \A p \in Request : Fits(searching[p])'
    BY <2>3 DEF Fits, Search!Building
  <2>5. Search!Indexed' = Search!Indexed
    BY <2>1 DEF Search!Indexed
  <2>6. searching' \in [Request -> Asked]
    BY <2>1, NobodyAsks
  <2> QED BY <2>1, <2>2, <2>3, <2>4, <2>5, <2>6 DEF SearchInv, Search!Building
<1> QED
  BY <1>4, <1>5, <1>6, <1>8, <1>9, <1>10, <1>11, <1>12, <1>13 DEF Search!VsNext

LEMMA SearchAlways == Spec => []SearchInv
<1>1. Init => SearchInv
  <2> SUFFICES ASSUME Search!VsInit
               PROVE  SearchInv
    BY DEF Init
  <2>1. 1 \in 1..MaxStarts /\ 0 \in 0..VacancyIndices /\ 0 \in 0..0
    BY SitesAssumption
  <2> QED BY <2>1, NobodyAsks DEF Search!VsInit, SearchInv, Fits, Search!Building
<1>2. SearchInv /\ [Next]_vars => SearchInv'
  <2>1. SearchInv /\ UNCHANGED searchVars => SearchInv'
    BY DEF SearchInv, searchVars, Fits, Search!Indexed
  <2> QED BY <2>1, SearchStep DEF Next, vars
<1> QED BY <1>1, <1>2, PTL DEF Spec

\* No vacancy leaves the index that the aliases show, whatever rebuilds fail, are cut short
\* by restarts or overlap with requests, for any number of each.
THEOREM IndexOnlyGrows == Spec => NothingLeavesTheIndex
<1>1. SearchInv /\ [Next]_vars =>
        [searchAlias # 0 => searchIndices[searchAlias] \subseteq searchIndices'[searchAlias']]_(Search!vsVars)
  <2> SUFFICES ASSUME SearchInv, Search!VsNext, searchAlias # 0
               PROVE  searchIndices[searchAlias] \subseteq searchIndices'[searchAlias']
    BY DEF Next, vars, searchVars, Search!vsVars
  <2>1. SearchInv' /\ Search!Indexed \subseteq Search!Indexed'
    BY SearchStep
  <2>2. searchIndices[searchAlias] \subseteq Search!Indexed'
    BY <2>1 DEF Search!Indexed
  <2> QED BY <2>2 DEF Search!Indexed
<1> QED
  BY <1>1, SearchAlways, PTL DEF Spec, NothingLeavesTheIndex, Search!NothingLeavesTheIndex

-------------------------------------------------------------------------------
(* The six parts                                                            *)

LEMMA TypesFollow ==
  ASSUME MailInv, EvidenceInv, SearchInv
  PROVE  Mail!EsTypeOK /\ Index!EiTypeOK /\ Search!VsTypeOK
<1>1. Mail!EsTypeOK
  <2>1. \A r \in Request : sync[r].pc \in {"next", "asked"} =>
          LET s == sync[r]
          IN  s.created + s.duplicates + s.failed = s.at - 1 /\ s.at - 1 <= Len(s.batch)
    BY DEF MailInv, Goes
  <2> QED BY <2>1 DEF MailInv, Sync, Event, Mail!EsTypeOK
<1>2. Index!EiTypeOK
  BY DEF EvidenceInv, Doc, Rebuild, Retrieval, Index!EiTypeOK
<1>3. Search!VsTypeOK
  <2>1. searchIndices \in [1..VacancyIndices -> SUBSET Vacancy]
    BY DEF SearchInv
  <2> QED BY <2>1 DEF SearchInv, Asked, Search!VsTypeOK
<1> QED BY <1>1, <1>2, <1>3

\* Every part keeps its types, for any sites, messages, evidence and vacancies.
THEOREM SitesTypes == Spec => []TypesOK
<1>1. SessionsInv /\ RecipesInv /\ DiscoveryInv /\ MailInv /\ EvidenceInv /\ SearchInv => TypesOK
  BY TypesFollow DEF SessionsInv, RecipesInv, DiscoveryInv, TypesOK
<1> QED
  BY <1>1, SessionsAlways, RecipesAlways, DiscoveryAlways, MailAlways, EvidenceAlways,
     SearchAlways, PTL
===============================================================================
