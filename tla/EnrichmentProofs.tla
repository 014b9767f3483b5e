--------------------------- MODULE EnrichmentProofs ---------------------------
(***************************************************************************)
(* Theorems about the parts of Enrichment, for any number of applications, *)
(* drafting requests, sources, hits and calls.                             *)
(***************************************************************************)
EXTENDS Enrichment, Sequences, MatchingRunsProofs, FiniteSetTheorems

\* Every step is one of each part or leaves the part alone.
LEMMA PartSteps ==
  ASSUME [AllNext]_allVars
  PROVE  /\ [Next]_vars /\ [Materials!MdNext]_(Materials!mdVars)
         /\ [Stream!DsNext]_(Stream!dsVars) /\ [Models!McNext]_(Models!mcVars)
<1> USE DEF Materials!mdVars, Stream!dsVars, Models!mcVars, draftVars, streamVars, callVars
<1>1. CASE UNCHANGED allVars
  BY <1>1 DEF allVars
<1>2. CASE OfMatching /\ Next
  BY <1>2 DEF OfMatching
<1>3. CASE Moves("materials") /\ Materials!MdNext /\ UNCHANGED <<vars, streamVars, callVars>>
  BY <1>3
<1>4. CASE OfStream /\ Stream!DsNext
  BY <1>4 DEF OfStream
<1>5. CASE Moves("calls") /\ Models!McNext /\ UNCHANGED <<vars, draftVars, streamVars>>
  BY <1>5
<1> QED BY <1>1, <1>2, <1>3, <1>4, <1>5 DEF AllNext

-------------------------------------------------------------------------------
(* Materials                                                                *)

LEMMA DraftTyped ==
  /\ Materials!Idle \in [pc : {"idle", "read", "asked", "correcting", "writing"},
                         force : BOOLEAN, open : BOOLEAN, letter : Materials!Letter,
                         read : [Field -> Materials!Source]]
  /\ Materials!NoLetter \in Materials!Letter
  /\ Materials!Nothing \in [Field -> Materials!Source]
BY DEF Materials!Idle, Materials!NoLetter, Materials!Letter, Materials!Nothing, Materials!Source

LEMMA MaterialsTyped == Materials!MdTypeOK /\ [Materials!MdNext]_(Materials!mdVars) => Materials!MdTypeOK'
<1> DEFINE DraftType == [pc : {"idle", "read", "asked", "correcting", "writing"},
                       force : BOOLEAN, open : BOOLEAN, letter : Materials!Letter,
                       read : [Field -> Materials!Source]]
<1> SUFFICES ASSUME Materials!MdTypeOK, [Materials!MdNext]_(Materials!mdVars)
             PROVE  Materials!MdTypeOK'
  OBVIOUS
<1>1. /\ board \in BOOLEAN /\ open \in BOOLEAN /\ unseen \in BOOLEAN
      /\ letter \in Materials!Letter /\ answers \in [Field -> Materials!Source]
      /\ taken \in [Field -> Materials!Source] /\ drafts \in [Draft -> DraftType]
      /\ task \in {"review", "form", "apply", "taken", "failed"}
  BY DEF Materials!MdTypeOK
<1>2. SUFFICES /\ board' \in BOOLEAN /\ open' \in BOOLEAN /\ unseen' \in BOOLEAN
               /\ letter' \in Materials!Letter /\ answers' \in [Field -> Materials!Source]
               /\ taken' \in [Field -> Materials!Source] /\ drafts' \in [Draft -> DraftType]
               /\ task' \in {"review", "form", "apply", "taken", "failed"}
  BY DEF Materials!MdTypeOK
<1>3. Materials!Idle \in DraftType /\ Materials!NoLetter \in Materials!Letter
  BY DraftTyped
<1>4. ASSUME NEW d \in Draft, NEW r \in DraftType, drafts' = [drafts EXCEPT ![d] = r]
      PROVE  drafts' \in [Draft -> DraftType]
  BY <1>1, <1>4
<1>5. ASSUME NEW d \in Draft, Materials!Read(d) PROVE <1>2!1
  <2>1. PICK force \in BOOLEAN :
          drafts' = [drafts EXCEPT ![d] = [pc |-> "read", force |-> force, open |-> open,
                                           letter |-> letter, read |-> answers]]
    BY <1>5 DEF Materials!Read, Materials!Go
  <2>2. drafts' \in [Draft -> DraftType]
    BY <1>1, <1>4, <2>1
  <2> HIDE DEF DraftType
  <2> QED BY <1>1, <1>5, <2>2 DEF Materials!Read, Materials!application
<1>6. ASSUME NEW d \in Draft, Materials!Ask(d) \/ Materials!Answered(d) \/ Materials!ModelFails(d)
      PROVE  <1>2!1
  <2>1. drafts[d] \in DraftType BY <1>1
  <2>2. \E r \in DraftType : drafts' = [drafts EXCEPT ![d] = r]
    <3>1. CASE Materials!Ask(d)
      BY <1>3, <2>1, <3>1 DEF Materials!Ask, Materials!Go
    <3>2. CASE Materials!ModelFails(d)
      BY <1>3, <3>2 DEF Materials!ModelFails, Materials!Go
    <3>3. CASE Materials!Answered(d)
      BY <1>1, <1>3, <2>1, <3>3 DEF Materials!Answered, Materials!Go
    <3> QED BY <1>6, <3>1, <3>2, <3>3
  <2>3. UNCHANGED Materials!application
    BY <1>6 DEF Materials!Ask, Materials!Answered, Materials!ModelFails
  <2> HIDE DEF DraftType
  <2> QED BY <1>1, <1>4, <2>2, <2>3 DEF Materials!application
<1>7. ASSUME NEW d \in Draft, Materials!Write(d) PROVE <1>2!1
  <2>1. drafts' \in [Draft -> DraftType]
    BY <1>3, <1>4, <1>7 DEF Materials!Write, Materials!Go
  <2>2. answers' \in [Field -> Materials!Source] /\ unseen' \in BOOLEAN /\ letter' \in Materials!Letter
    BY <1>1, <1>7 DEF Materials!Write, Materials!Source, Materials!Letter
  <2> HIDE DEF DraftType
  <2> QED BY <1>1, <1>7, <2>1, <2>2 DEF Materials!Write
<1>8. CASE Materials!Edit
  <2>1. answers' \in [Field -> Materials!Source] /\ letter' \in Materials!Letter
    BY <1>1, <1>3, <1>8 DEF Materials!Edit, Materials!Source, Materials!Letter
  <2> HIDE DEF DraftType
  <2> QED BY <1>1, <1>8, <2>1 DEF Materials!Edit
<1>9. CASE Materials!Decide \/ Materials!Confirm \/ Materials!Prepare \/ Materials!Load
           \/ Materials!FillForm \/ Materials!Submitted
  <2> HIDE DEF DraftType
  <2> QED BY <1>1, <1>9 DEF Materials!Decide, Materials!Confirm, Materials!Prepare,
                            Materials!Load, Materials!FillForm, Materials!Submitted
<1>10. CASE UNCHANGED Materials!mdVars
  <2> HIDE DEF DraftType
  <2> QED BY <1>1, <1>10 DEF Materials!mdVars
<1> HIDE DEF DraftType
<1> QED BY <1>5, <1>6, <1>7, <1>8, <1>9, <1>10 DEF Materials!MdNext

\* Once the person has scheduled the task no answer of another's is there, nor comes.
DraftsInv ==
  /\ task \in {"apply", "form"} => Materials!Reviewed(answers)
  /\ SensitiveIsHuman

LEMMA DraftsStep ==
  Materials!MdTypeOK /\ DraftsInv /\ [Materials!MdNext]_(Materials!mdVars) => DraftsInv'
<1> SUFFICES ASSUME Materials!MdTypeOK, DraftsInv, [Materials!MdNext]_(Materials!mdVars)
             PROVE  DraftsInv'
  OBVIOUS
<1> USE DEF DraftsInv, SensitiveIsHuman, Materials!SensitiveIsHuman, Materials!Reviewed
<1>1. ASSUME NEW d \in Draft, Materials!Read(d) \/ Materials!Ask(d) \/ Materials!Answered(d)
                              \/ Materials!ModelFails(d)
      PROVE  DraftsInv'
  BY <1>1 DEF Materials!Read, Materials!Ask, Materials!Answered, Materials!ModelFails,
              Materials!application
<1>2. ASSUME NEW d \in Draft, Materials!Write(d) PROVE DraftsInv'
  <2>1. \A f \in Sensitive : answers'[f] = answers[f]
    BY <1>2, EnrichmentAssumption DEF Materials!Write, Materials!Filled
  <2> QED BY <1>2, <2>1 DEF Materials!Write
<1>3. CASE Materials!Edit
  <2>1. \A f \in Sensitive : answers'[f] = answers[f] \/ answers'[f] \in {"none", "person"}
    BY <1>3, EnrichmentAssumption DEF Materials!Edit
  <2> QED BY <1>3, <2>1 DEF Materials!Edit
<1>4. CASE Materials!Confirm \/ Materials!Prepare
  BY <1>4 DEF Materials!Confirm, Materials!Prepare, Materials!Gate
<1>5. CASE Materials!Decide \/ Materials!Load \/ Materials!FillForm \/ Materials!Submitted
  BY <1>5 DEF Materials!Decide, Materials!Load, Materials!FillForm, Materials!Submitted
<1>6. CASE UNCHANGED Materials!mdVars
  BY <1>6 DEF Materials!mdVars
<1> QED BY <1>1, <1>2, <1>3, <1>4, <1>5, <1>6 DEF Materials!MdNext

-------------------------------------------------------------------------------
(* Calls of models                                                          *)

CallType == [pc : {"idle", "route", "posted"} \cup Models!Over, todo : Seq(Models!Provider),
             format : Models!Format, again : BOOLEAN, posts : Nat,
             tried : BOOLEAN, transient : BOOLEAN,
             error : {"none", "refused", "other", "truncated", "invalid",
                      "ungrounded", "unavailable"}]

\* What a call may post to one provider: one request, one more in another format, one
\* more with a larger budget.
Budget(again, format) ==
  (IF again THEN 1 ELSE 0) + (IF format \in {"json_object", "plain"} THEN 2 ELSE 1)
Bounded(r) ==
  /\ r.posts <= Budget(r.again, r.format)
  /\ r.pc = "posted" => r.todo # <<>>

CallsInv == Models!McTypeOK /\ \A c \in Call : Bounded(call[c])

LEMMA CallTyped ==
  ASSUME CallsInv, NEW c \in Call
  PROVE  call[c] \in CallType /\ Bounded(call[c])
BY DEF CallsInv, Models!McTypeOK, CallType

LEMMA NoCallTyped == Models!NoCall \in CallType /\ Bounded(Models!NoCall)
BY DEF Models!NoCall, CallType, Bounded, Budget, Models!Provider, Models!Format

LEMMA RecordTyped ==
  ASSUME NEW r \in CallType
  PROVE  /\ [r EXCEPT !.pc = "posted", !.posts = @ + 1] \in CallType
         /\ \A f \in Models!Format : [r EXCEPT !.format = f] \in CallType
         /\ [r EXCEPT !.again = TRUE] \in CallType
<1>1. [r EXCEPT !.pc = "posted", !.posts = @ + 1] \in CallType
  <2>1. r.posts + 1 \in Nat BY DEF CallType
  <2>2. \A n \in Nat : [r EXCEPT !.pc = "posted", !.posts = n] \in CallType BY DEF CallType
  <2> QED BY <2>1, <2>2
<1>2. ASSUME NEW f \in Models!Format PROVE [r EXCEPT !.format = f] \in CallType
  BY DEF CallType
<1>3. [r EXCEPT !.again = TRUE] \in CallType
  BY DEF CallType
<1> QED BY <1>1, <1>2, <1>3

\* A call posts once more, ends, or goes to the next provider.
LEMMA PostTyped ==
  ASSUME NEW r \in CallType, r.todo # <<>>, r.posts + 1 <= Budget(r.again, r.format)
  PROVE  LET s == [r EXCEPT !.pc = "posted", !.posts = @ + 1] IN s \in CallType /\ Bounded(s)
<1> DEFINE s == [r EXCEPT !.pc = "posted", !.posts = @ + 1]
<1>1. s \in CallType BY RecordTyped
<1>2. s.posts = r.posts + 1 /\ s.again = r.again /\ s.format = r.format /\ s.todo = r.todo
  BY DEF CallType
<1> HIDE DEF s
<1>3. Bounded(s) BY <1>2, SMT DEF Bounded
<1> QED BY <1>1, <1>3 DEF s

LEMMA EndTyped ==
  ASSUME NEW r \in CallType, Bounded(r),
         NEW pc \in Models!Over,
         NEW error \in {"none", "refused", "other", "truncated", "invalid", "ungrounded"}
  PROVE  LET s == [r EXCEPT !.pc = pc, !.error = error] IN s \in CallType /\ Bounded(s)
<1> DEFINE s == [r EXCEPT !.pc = pc, !.error = error]
<1>1. s \in CallType BY DEF CallType
<1>2. /\ s.pc = pc /\ pc # "posted"
      /\ s.posts = r.posts /\ s.again = r.again /\ s.format = r.format
  BY DEF CallType, Models!Over
<1> HIDE DEF s
<1>3. Bounded(s) BY <1>2 DEF Bounded
<1> QED BY <1>1, <1>3 DEF s

LEMMA NextTyped ==
  ASSUME NEW r \in CallType, Bounded(r), r.todo # <<>>, NEW transient \in BOOLEAN,
         NEW error \in {"refused", "other"}
  PROVE  LET s == Models!NextProvider(r, transient, error) IN s \in CallType /\ Bounded(s)
<1> DEFINE s == Models!NextProvider(r, transient, error)
<1>1. Tail(r.todo) \in Seq(Models!Provider) BY DEF CallType
<1>2. s \in CallType BY <1>1 DEF CallType, Models!NextProvider
<1>3. s.posts = r.posts /\ s.again = r.again /\ s.format = r.format /\ s.pc = "route"
  BY DEF CallType, Models!NextProvider
<1> HIDE DEF s
<1>4. Bounded(s) BY <1>3, SMT DEF Bounded
<1> QED BY <1>2, <1>4 DEF s

\* One call moves.
LEMMA CallMoves ==
  ASSUME CallsInv, NEW c \in Call, NEW r \in CallType, Bounded(r), Models!Set(c, r),
         UNCHANGED <<chosen, larger, stage>>, schema' \in BOOLEAN
  PROVE  CallsInv'
BY DEF CallsInv, Models!McTypeOK, Models!Set, CallType

\* Whoever a stage asks is a provider.
LEMMA RoutersTyped ==
  ASSUME Models!McTypeOK, NEW p \in Models!Purpose
  PROVE  Models!Routers(p) \subseteq Seq(Models!Provider)
<1> DEFINE purposes == Models!Fallbacks(p)
           saved    == {i \in DOMAIN purposes : chosen[purposes[i]] # "none"}
           first    == CHOOSE i \in saved : \A j \in saved : i <= j
<1>1. \A i \in DOMAIN purposes : i \in 1..3 /\ purposes[i] \in Models!Purpose
  BY DEF Models!Fallbacks, Models!Purpose
<1>2. Models!Resolved(p) \in Models!Provider \cup {"none"}
  <2>1. CASE saved = {}
    BY <2>1 DEF Models!Resolved
  <2>2. CASE saved # {}
    <3>1. saved \subseteq 1..3 BY <1>1
    <3>2. \E i \in saved : \A j \in saved : i <= j
      <4> HIDE DEF saved
      <4>1. CASE 1 \in saved BY <3>1, <4>1
      <4>2. CASE 1 \notin saved /\ 2 \in saved BY <3>1, <4>2
      <4>3. CASE 1 \notin saved /\ 2 \notin saved
        <5>1. \A i \in saved : i = 3 BY <3>1, <4>3
        <5>2. PICK i \in saved : TRUE BY <2>2
        <5> QED BY <5>1, <5>2
      <4> QED BY <4>1, <4>2, <4>3
    <3>3. first \in saved
      <4> HIDE DEF saved
      <4> QED BY <3>2, Zenon
    <3>4. chosen[purposes[first]] \in Models!Provider
      <4> HIDE DEF first
      <4> QED BY <1>1, <3>3 DEF Models!McTypeOK
    <3>5. Models!Resolved(p) = chosen[purposes[first]]
      BY <2>2, Zenon DEF Models!Resolved
    <3> QED BY <3>4, <3>5
  <2> QED BY <2>1, <2>2
<1>3. Models!Environment \subseteq Seq(Models!Provider)
  BY DEF Models!Environment, Models!Provider
<1>4. ASSUME Models!Resolved(p) # "none"
      PROVE  <<Models!Resolved(p)>> \in Seq(Models!Provider)
  BY <1>2, <1>4
<1> QED BY <1>3, <1>4 DEF Models!Routers

LEMMA CallsStep == CallsInv /\ [Models!McNext]_(Models!mcVars) => CallsInv'
<1> SUFFICES ASSUME CallsInv, [Models!McNext]_(Models!mcVars) PROVE CallsInv'
  OBVIOUS
<1>1. Models!McTypeOK BY DEF CallsInv
<1>2. CASE Models!SavePreference
  BY <1>2 DEF CallsInv, Models!SavePreference, Models!McTypeOK
<1>3. CASE Models!StageStarts
  <2>1. PICK p \in Models!Purpose \ {"materials"} : \E router \in Models!Routers(p) :
          stage' = [purpose |-> p, router |-> router, number |-> stage.number + 1]
    BY <1>3 DEF Models!StageStarts
  <2>2. stage' \in [purpose : Models!Purpose \cup {"none"}, router : Seq(Models!Provider),
                    number : 0..MaxStages]
    BY <1>1, <1>3, <2>1, RoutersTyped, EnrichmentAssumption DEF Models!StageStarts, Models!McTypeOK
  <2>3. call' = [c \in Call |-> Models!NoCall] /\ schema' = TRUE /\ UNCHANGED <<chosen, larger>>
    BY <1>3 DEF Models!StageStarts, Models!settings
  <2> QED BY <1>1, <2>2, <2>3, NoCallTyped DEF CallsInv, Models!McTypeOK, CallType
<1>4. CASE Models!StageEnds
  BY <1>4 DEF CallsInv, Models!StageEnds, Models!McTypeOK, Models!settings
<1>5. ASSUME NEW c \in Call, Models!Ask(c) \/ Models!Try(c) \/ Models!TooDear(c) \/ Models!Unavailable(c)
      PROVE  CallsInv'
  <2> DEFINE r == call[c]
  <2>1. r \in CallType /\ Bounded(r) BY CallTyped
  <2>2. stage.router \in Seq(Models!Provider) /\ schema \in BOOLEAN
    BY <1>1 DEF Models!McTypeOK
  <2>3. UNCHANGED <<chosen, larger, stage, schema>>
    BY <1>5 DEF Models!Ask, Models!Try, Models!TooDear, Models!Unavailable, Models!settings
  <2>4. \E s \in CallType : Bounded(s) /\ Models!Set(c, s)
    <3>1. CASE Models!Ask(c)
      <4> DEFINE asks  == [Models!NoCall EXCEPT !.pc = "route", !.todo = stage.router]
                 knows == [Models!NoCall EXCEPT !.pc = "answered"]
      <4>1. asks \in CallType /\ Bounded(asks)
        BY <2>2, NoCallTyped DEF CallType, Bounded
      <4>2. knows \in CallType /\ Bounded(knows)
        BY NoCallTyped DEF CallType, Bounded, Models!Over
      <4>3. Models!Set(c, asks) \/ Models!Set(c, knows)
        BY <3>1 DEF Models!Ask
      <4> HIDE DEF asks, knows
      <4> QED BY <4>1, <4>2, <4>3
    <3>2. CASE Models!Try(c)
      <4>1. PICK f \in Models!FormatOf(Head(r.todo)) :
              Models!Post(c, [r EXCEPT !.format = f, !.posts = 0, !.again = FALSE])
        BY <3>2 DEF Models!Try
      <4>2. f \in Models!Format
        BY <4>1, Zenon DEF Models!FormatOf, Models!Format
      <4> DEFINE q == [r EXCEPT !.format = f, !.posts = 0, !.again = FALSE]
      <4>3. q \in CallType /\ q.posts = 0 /\ q.todo = r.todo
        BY <2>1, <4>2 DEF CallType
      <4>4. r.todo # <<>> /\ Models!Post(c, q)
        BY <3>2, <4>1 DEF Models!Try
      <4> HIDE DEF q
      <4>5. q.posts + 1 <= Budget(q.again, q.format)
        BY <4>3 DEF Budget
      <4> QED BY <4>3, <4>4, <4>5, PostTyped DEF Models!Post
    <3>3. CASE Models!TooDear(c)
      BY <2>1, <3>3, NextTyped DEF Models!TooDear
    <3>4. CASE Models!Unavailable(c)
      BY <2>1, <3>4 DEF Models!Unavailable, CallType, Bounded, Models!Over
    <3> QED BY <1>5, <3>1, <3>2, <3>3, <3>4
  <2> QED BY <2>2, <2>3, <2>4, CallMoves
<1>6. ASSUME NEW c \in Call,
             \/ Models!Answered(c) \/ Models!Broken(c) \/ Models!Refused(c)
             \/ Models!WithoutThinking(c) \/ Models!CutOff(c) \/ Models!NotJson(c)
      PROVE  CallsInv'
  <2> DEFINE r == call[c]
  <2>1. r \in CallType /\ Bounded(r) BY CallTyped
  <2>2. UNCHANGED <<chosen, larger, stage>> /\ schema' \in BOOLEAN
    BY <1>1, <1>6 DEF Models!Answered, Models!Broken, Models!Refused, Models!WithoutThinking,
                      Models!CutOff, Models!NotJson, Models!settings, Models!McTypeOK
  <2>3. \E s \in CallType : Bounded(s) /\ Models!Set(c, s)
    <3>1. CASE Models!Answered(c) \/ Models!NotJson(c)
      BY <2>1, <3>1, EndTyped DEF Models!Answered, Models!NotJson, Models!Fails, Models!Over
    <3>2. CASE Models!Broken(c)
      <4>1. r.todo # <<>> BY <2>1, <3>2 DEF Models!Broken, Bounded
      <4> QED BY <2>1, <3>2, <4>1, NextTyped, EndTyped DEF Models!Broken, Models!Fails, Models!Over
    <3>3. CASE Models!Refused(c)
      <4> DEFINE q == [r EXCEPT !.format = "json_object"]
      <4>1. r.todo # <<>> /\ r.format = "json_schema"
        BY <2>1, <3>3 DEF Models!Refused, Bounded
      <4>2. q \in CallType /\ q.todo # <<>> /\ q.posts + 1 <= Budget(q.again, q.format)
        <5>1. q \in CallType BY <2>1, RecordTyped DEF Models!Format
        <5>2. q.todo = r.todo /\ q.posts = r.posts /\ q.again = r.again /\ q.format = "json_object"
          BY <2>1 DEF CallType
        <5> HIDE DEF q
        <5>3. r.posts \in Nat /\ r.posts <= Budget(r.again, "json_schema")
          BY <2>1, <4>1 DEF Bounded, CallType
        <5> QED BY <4>1, <5>1, <5>2, <5>3, SMT DEF Budget
      <4>3. \/ Models!Post(c, q)
            \/ Models!Fails(c, "truncated")
            \/ Models!Set(c, Models!NextProvider(r, FALSE, "refused"))
        BY <3>3 DEF Models!Refused
      <4> HIDE DEF q
      <4> QED BY <2>1, <4>1, <4>2, <4>3, PostTyped, NextTyped, EndTyped
            DEF Models!Post, Models!Fails, Models!Over
    <3>4. CASE Models!WithoutThinking(c)
      <4> DEFINE q == [r EXCEPT !.format = "plain"]
      <4>1. r.todo # <<>> /\ r.format = "thinking" /\ Models!Post(c, q)
        BY <2>1, <3>4 DEF Models!WithoutThinking, Bounded
      <4>2. q \in CallType /\ q.todo # <<>> /\ q.posts + 1 <= Budget(q.again, q.format)
        <5>1. q \in CallType BY <2>1, RecordTyped DEF Models!Format
        <5>2. q.todo = r.todo /\ q.posts = r.posts /\ q.again = r.again /\ q.format = "plain"
          BY <2>1 DEF CallType
        <5> HIDE DEF q
        <5>3. r.posts \in Nat /\ r.posts <= Budget(r.again, "thinking")
          BY <2>1, <4>1 DEF Bounded, CallType
        <5> QED BY <4>1, <5>1, <5>2, <5>3, SMT DEF Budget
      <4> HIDE DEF q
      <4> QED BY <4>1, <4>2, PostTyped DEF Models!Post
    <3>5. CASE Models!CutOff(c)
      <4> DEFINE q == [r EXCEPT !.again = TRUE]
      <4>1. /\ r.todo # <<>>
            /\ (~r.again /\ Models!Post(c, q)) \/ Models!Fails(c, "truncated")
        BY <2>1, <3>5 DEF Models!CutOff, Bounded
      <4>2. ~r.again => q \in CallType /\ q.todo # <<>> /\ q.posts + 1 <= Budget(q.again, q.format)
        <5>1. q \in CallType BY <2>1, RecordTyped
        <5>2. q.todo = r.todo /\ q.posts = r.posts /\ q.again /\ q.format = r.format
          BY <2>1 DEF CallType
        <5> HIDE DEF q
        <5>3. r.posts \in Nat /\ r.posts <= Budget(r.again, r.format)
          BY <2>1 DEF Bounded, CallType
        <5> QED BY <4>1, <5>1, <5>2, <5>3, SMT DEF Budget
      <4> HIDE DEF q
      <4> QED BY <2>1, <4>1, <4>2, PostTyped, EndTyped DEF Models!Post, Models!Fails, Models!Over
    <3> QED BY <1>6, <3>1, <3>2, <3>3, <3>4, <3>5
  <2> QED BY <2>2, <2>3, CallMoves
<1>7. CASE UNCHANGED Models!mcVars
  BY <1>7 DEF Models!mcVars, CallsInv, Models!McTypeOK
<1> QED BY <1>2, <1>3, <1>4, <1>5, <1>6, <1>7 DEF Models!McNext

-------------------------------------------------------------------------------
(* The stream of a discovery                                                *)

StreamType ==
  /\ direct \in BOOLEAN
  /\ source \in [Site -> {"searching", "gathering", "closing", "finished", "cancelled"}]
  /\ hits \in [Site -> Seq({"waiting"} \cup Stream!Enriching \cup Stream!Over)]
  /\ \A s \in Site : Len(hits[s]) <= Hits[s]
  /\ profile \in {"none", "running", "ready", "failed"}
  /\ queue \in [Site -> Seq(Stream!Event)] /\ got \subseteq Stream!Event
  /\ stream \in {"open", "complete", "cancelling", "closed"}

LEMMA StreamTypes == Stream!DsTypeOK <=> StreamType
BY DEF Stream!DsTypeOK, StreamType, Stream!Ended

\* Whichever of the actions puts events into the queue, or moves an enrichment.
LEMMA PutTyped ==
  ASSUME StreamType, NEW s \in Site, NEW events \in Seq(Stream!Event), Stream!Put(s, events)
  PROVE  queue' \in [Site -> Seq(Stream!Event)]
BY DEF StreamType, Stream!Put

LEMMA EnrichTyped ==
  ASSUME StreamType, NEW s \in Site, NEW i \in DOMAIN hits[s],
         NEW pc \in {"waiting"} \cup Stream!Enriching \cup Stream!Over, Stream!Enrich(s, i, pc)
  PROVE  /\ hits' \in [Site -> Seq({"waiting"} \cup Stream!Enriching \cup Stream!Over)]
         /\ \A t \in Site : Len(hits'[t]) = Len(hits[t])
BY DEF StreamType, Stream!Enrich

LEMMA EventsTyped ==
  ASSUME NEW s \in Site, NEW i \in Nat
  PROVE  /\ \A kind \in {"vacancy", "materials", "matching", "source_error", "_source_finished"} :
              <<<<kind, s, i>>>> \in Seq(Stream!Event)
BY DEF Stream!Event

LEMMA HitTyped ==
  ASSUME StreamType, NEW s \in Site, NEW i \in DOMAIN hits[s], Stream!HitStep(s, i)
  PROVE  StreamType'
<1> USE DEF Stream!Enriching, Stream!Over
<1>1. i \in Nat BY DEF StreamType
<1>2. CASE Stream!Start(s, i)
  <2>1. \E pc \in {"profile", "drafting"} : Stream!Enrich(s, i, pc)
    BY <1>2 DEF Stream!Start
  <2>2. profile' \in {"none", "running", "ready", "failed"}
    BY <1>2 DEF Stream!Start, StreamType
  <2> QED BY <1>2, <2>1, <2>2, EnrichTyped DEF Stream!Start, StreamType
<1>3. CASE Stream!ProfileThere(s, i) \/ Stream!Raises(s, i)
  <2>1. Stream!Enrich(s, i, "drafting") \/ Stream!Enrich(s, i, "raised")
    BY <1>3 DEF Stream!ProfileThere, Stream!Raises
  <2> QED BY <1>3, <2>1, EnrichTyped DEF Stream!ProfileThere, Stream!Raises, StreamType
<1>4. CASE Stream!Materials(s, i) \/ Stream!Matching(s, i)
  <2>1. Stream!Enrich(s, i, "polling") \/ Stream!Enrich(s, i, "done")
    BY <1>4 DEF Stream!Materials, Stream!Matching
  <2>2. queue' \in [Site -> Seq(Stream!Event)]
    BY <1>1, <1>4, PutTyped, EventsTyped
      DEF Stream!Materials, Stream!Matching, Stream!Quiet, StreamType
  <2> QED BY <1>4, <2>1, <2>2, EnrichTyped DEF Stream!Materials, Stream!Matching, StreamType
<1> QED BY <1>2, <1>3, <1>4 DEF Stream!HitStep

\* The vacancies that are shown of a ranking, in their order.
LEMMA RankPuts ==
  ASSUME StreamType, NEW s \in Site, Stream!Rank(s)
  PROVE  \E n \in Nat : \E best \in [1..n -> DOMAIN hits[s]] :
           /\ n = IF Len(hits[s]) < Limit THEN Len(hits[s]) ELSE Limit
           /\ \A j, k \in 1..n : best[j] = best[k] => j = k
           /\ [j \in 1..n |-> <<"vacancy", s, best[j]>>] \in Seq(Stream!Event)
           /\ Stream!Put(s, [j \in 1..n |-> <<"vacancy", s, best[j]>>])
<1> DEFINE n == IF Len(hits[s]) < Limit THEN Len(hits[s]) ELSE Limit
<1>1. n \in Nat BY EnrichmentAssumption DEF StreamType
<1>2. PICK best \in [1..n -> DOMAIN hits[s]] :
        /\ \A j, k \in 1..n : best[j] = best[k] => j = k
        /\ Stream!Put(s, [j \in 1..n |-> <<"vacancy", s, best[j]>>])
  BY DEF Stream!Rank
<1> HIDE DEF n
<1>3. DOMAIN hits[s] \subseteq Nat BY DEF StreamType
<1>4. [j \in 1..n |-> <<"vacancy", s, best[j]>>] \in Seq(Stream!Event)
  <2> DEFINE Shown(j) == <<"vacancy", s, best[j]>>
  <2>1. \A j \in 1..n : Shown(j) \in Stream!Event
    BY <1>2, <1>3 DEF Stream!Event
  <2> HIDE DEF Shown
  <2>2. [j \in 1..n |-> Shown(j)] \in Seq(Stream!Event)
    BY <1>1, <2>1
  <2> QED BY <2>2 DEF Shown
<1>5. n = IF Len(hits[s]) < Limit THEN Len(hits[s]) ELSE Limit
  BY DEF n
<1> QED BY <1>1, <1>2, <1>4, <1>5

LEMMA SourceTyped ==
  ASSUME StreamType, NEW s \in Site, Stream!SourceStep(s)
  PROVE  StreamType'
<1>1. 0 \in Nat OBVIOUS
<1>2. CASE Stream!Stage(s)
  <2>1. Len(hits[s]) + 1 \in Nat /\ Hits[s] \in Nat
    BY EnrichmentAssumption DEF StreamType
  <2>2. queue' \in [Site -> Seq(Stream!Event)]
    BY <1>2, <2>1, PutTyped, EventsTyped DEF Stream!Stage, Stream!Quiet, StreamType
  <2>3. /\ hits' \in [Site -> Seq({"waiting"} \cup Stream!Enriching \cup Stream!Over)]
        /\ \A t \in Site : Len(hits'[t]) <= Hits[t]
    BY <1>2, <2>1, EnrichmentAssumption DEF Stream!Stage, StreamType
  <2> QED BY <1>2, <2>2, <2>3 DEF Stream!Stage, StreamType
<1>3. CASE Stream!Searched(s)
  BY <1>3 DEF Stream!Searched, Stream!Go, StreamType
<1>4. CASE Stream!Fails(s) \/ Stream!Close(s)
  <2>1. queue' \in [Site -> Seq(Stream!Event)]
    BY <1>1, <1>4, PutTyped, EventsTyped DEF Stream!Fails, Stream!Close
  <2> QED BY <1>4, <2>1 DEF Stream!Fails, Stream!Close, Stream!Go, StreamType
<1>5. CASE Stream!Rank(s)
  <2>1. queue' \in [Site -> Seq(Stream!Event)]
    BY <1>5, RankPuts, PutTyped
  <2> QED BY <1>5, <2>1 DEF Stream!Rank, Stream!Go, StreamType
<1> QED BY <1>2, <1>3, <1>4, <1>5 DEF Stream!SourceStep

LEMMA CancelTyped ==
  ASSUME StreamType, Stream!CancelSources
  PROVE  /\ source' \in [Site -> {"searching", "gathering", "closing", "finished", "cancelled"}]
         /\ hits' \in [Site -> Seq({"waiting"} \cup Stream!Enriching \cup Stream!Over)]
         /\ \A s \in Site : Len(hits'[s]) = Len(hits[s])
<1> DEFINE Then(pc) == CASE pc \in {"searching", "gathering"} -> "closing"
                         [] pc = "closing" -> "cancelled"
                         [] OTHER -> pc
<1>1. \A s \in Site : Then(source[s]) \in {"searching", "gathering", "closing", "finished", "cancelled"}
  BY DEF StreamType
<1>3. source' = [s \in Site |-> Then(source[s])]
  BY DEF Stream!CancelSources
<1>2. ASSUME NEW s \in Site
      PROVE  /\ Stream!Cancelled(s) \in Seq({"waiting"} \cup Stream!Enriching \cup Stream!Over)
             /\ Len(Stream!Cancelled(s)) = Len(hits[s])
  <2> DEFINE n == Len(hits[s])
             T == {"waiting"} \cup Stream!Enriching \cup Stream!Over
             To(i) == IF hits[s][i] \in Stream!Over THEN hits[s][i] ELSE "cancelled"
  <2>1. n \in Nat /\ DOMAIN hits[s] = 1..n BY DEF StreamType
  <2>2. \A i \in 1..n : To(i) \in T BY DEF Stream!Over
  <2>3. Stream!Cancelled(s) = [i \in 1..n |-> To(i)] BY <2>1 DEF Stream!Cancelled
  <2> HIDE DEF n, T, To
  <2>4. [i \in 1..n |-> To(i)] \in Seq(T) /\ Len([i \in 1..n |-> To(i)]) = n
    BY <2>1, <2>2
  <2> QED BY <2>3, <2>4 DEF n, T
<1> HIDE DEF Then
<1> QED BY <1>1, <1>2, <1>3 DEF Stream!CancelSources, StreamType

LEMMA StreamTyped == StreamType /\ [Stream!DsNext]_(Stream!dsVars) => StreamType'
<1> SUFFICES ASSUME StreamType, [Stream!DsNext]_(Stream!dsVars) PROVE StreamType'
  OBVIOUS
<1>1. ASSUME NEW s \in Site, Stream!Receive(s) PROVE StreamType'
  <2>1. Head(queue[s]) \in Stream!Event /\ Tail(queue[s]) \in Seq(Stream!Event)
    BY <1>1 DEF Stream!Receive, StreamType
  <2> QED BY <1>1, <2>1 DEF Stream!Receive, StreamType
<1>2. CASE Stream!ProfileIngested \/ Stream!Closed
  BY <1>2 DEF Stream!ProfileIngested, Stream!Closed, StreamType
<1>3. CASE Stream!Disconnect \/ Stream!CancelAgain
  <2>1. Stream!CancelSources /\ stream' = "cancelling" /\ UNCHANGED <<direct, profile, queue, got>>
    BY <1>3 DEF Stream!Disconnect, Stream!CancelAgain
  <2> QED BY <2>1, CancelTyped DEF StreamType
<1>4. CASE UNCHANGED Stream!dsVars
  BY <1>4 DEF Stream!dsVars, StreamType
<1> QED BY <1>1, <1>2, <1>3, <1>4, HitTyped, SourceTyped DEF Stream!DsNext, Stream!DsStep

\* The last event of a source, and what it has put into the queue so far.
Fin(s)     == <<"_source_finished", s, 0>>
Sent(s, e) == e \in got \/ \E k \in DOMAIN queue[s] : queue[s][k] = e

\* A source is finished when its enrichments are; nobody cancels them while the client
\* is there.
OverInv ==
  /\ \A s \in Site : source[s] = "finished" => Stream!AllOver(s)
  /\ stream \in {"open", "complete"} =>
       \A s \in Site : source[s] # "cancelled" /\ \A i \in DOMAIN hits[s] : hits[s][i] # "cancelled"

LEMMA OverHit ==
  ASSUME StreamType, OverInv, NEW s \in Site, NEW i \in DOMAIN hits[s], Stream!HitStep(s, i)
  PROVE  OverInv'
<1> USE DEF Stream!Over, Stream!Enriching
<1>1. \E pc \in Stream!Enriching \cup {"done", "raised"} : Stream!Enrich(s, i, pc)
  BY DEF Stream!HitStep, Stream!Start, Stream!ProfileThere, Stream!Materials, Stream!Matching,
         Stream!Raises
<1>2. hits[s][i] \notin Stream!Over /\ UNCHANGED <<source, stream>>
  BY DEF Stream!HitStep, Stream!Start, Stream!ProfileThere, Stream!Materials, Stream!Matching,
         Stream!Raises
<1>3. source[s] # "finished"
  BY <1>2 DEF OverInv, Stream!AllOver
<1>4. /\ \A t \in Site : t # s => hits'[t] = hits[t]
      /\ DOMAIN hits'[s] = DOMAIN hits[s]
      /\ \A j \in DOMAIN hits[s] : hits'[s][j] # "cancelled" \/ hits'[s][j] = hits[s][j]
  BY <1>1 DEF StreamType, Stream!Enrich
<1> QED BY <1>2, <1>3, <1>4 DEF OverInv, Stream!AllOver

LEMMA OverStep ==
  StreamType /\ OverInv /\ [Stream!DsNext]_(Stream!dsVars) => OverInv'
<1> SUFFICES ASSUME StreamType, OverInv, [Stream!DsNext]_(Stream!dsVars) PROVE OverInv'
  OBVIOUS
<1>1. ASSUME NEW s \in Site, Stream!Stage(s) PROVE OverInv'
  <2>1. /\ \A t \in Site : t # s => hits'[t] = hits[t]
        /\ \A j \in DOMAIN hits'[s] : hits'[s][j] = "waiting" \/ (j \in DOMAIN hits[s] /\ hits'[s][j] = hits[s][j])
    BY <1>1 DEF StreamType, Stream!Stage
  <2> QED BY <1>1, <2>1 DEF OverInv, Stream!AllOver, Stream!Stage
<1>2. ASSUME NEW s \in Site, Stream!Searched(s) \/ Stream!Fails(s) \/ Stream!Rank(s) \/ Stream!Close(s)
      PROVE  OverInv'
  BY <1>2 DEF OverInv, Stream!AllOver, Stream!Searched, Stream!Fails, Stream!Rank, Stream!Close,
              Stream!Go, StreamType
<1>3. ASSUME NEW s \in Site, Stream!Receive(s) PROVE OverInv'
  BY <1>3 DEF OverInv, Stream!AllOver, Stream!Receive
<1>4. CASE Stream!ProfileIngested \/ Stream!Closed \/ UNCHANGED Stream!dsVars
  BY <1>4 DEF OverInv, Stream!AllOver, Stream!ProfileIngested, Stream!Closed, Stream!dsVars
<1>5. CASE Stream!Disconnect \/ Stream!CancelAgain
  <2>1. Stream!CancelSources /\ stream' = "cancelling"
    BY <1>5 DEF Stream!Disconnect, Stream!CancelAgain
  <2>2. ASSUME NEW s \in Site, source'[s] = "finished"
        PROVE  source[s] = "finished" /\ hits'[s] = hits[s]
    <3>1. source'[s] = CASE source[s] \in {"searching", "gathering"} -> "closing"
                         [] source[s] = "closing" -> "cancelled"
                         [] OTHER -> source[s]
      BY <2>1 DEF Stream!CancelSources
    <3>2. source[s] \in {"searching", "gathering", "closing", "finished", "cancelled"}
      BY DEF StreamType
    <3>3. source[s] = "finished" BY <2>2, <3>1, <3>2
    <3> QED BY <2>1, <3>3 DEF Stream!CancelSources
  <2> QED BY <2>1, <2>2 DEF OverInv, Stream!AllOver
<1> QED BY <1>1, <1>2, <1>3, <1>4, <1>5, OverHit DEF Stream!DsNext, Stream!DsStep, Stream!SourceStep

-------------------------------------------------------------------------------
(* What a source has sent stays sent, and its last event comes last.        *)

LEMMA SentPut ==
  ASSUME StreamType, NEW s \in Site, NEW events \in Seq(Stream!Event), Stream!Put(s, events),
         UNCHANGED got
  PROVE  /\ \A t \in Site : t # s => queue'[t] = queue[t]
         /\ \A k \in DOMAIN queue[s] : k \in DOMAIN queue'[s] /\ queue'[s][k] = queue[s][k]
         /\ \A k \in DOMAIN queue'[s] :
              \/ k \in DOMAIN queue[s]
              \/ \E j \in DOMAIN events : k = Len(queue[s]) + j /\ queue'[s][k] = events[j]
         /\ Len(queue'[s]) = Len(queue[s]) + Len(events)
         /\ \A j \in DOMAIN events : Sent(s, events[j])'
<1>1. queue[s] \in Seq(Stream!Event) /\ queue' = [queue EXCEPT ![s] = queue[s] \o events]
  BY DEF StreamType, Stream!Put
<1>2. queue'[s] = queue[s] \o events /\ \A t \in Site : t # s => queue'[t] = queue[t]
  BY <1>1 DEF StreamType
<1>3. \A j \in DOMAIN events : Len(queue[s]) + j \in DOMAIN queue'[s] /\ queue'[s][Len(queue[s]) + j] = events[j]
  BY <1>1, <1>2
<1>4. /\ \A k \in DOMAIN queue[s] : k \in DOMAIN queue'[s] /\ queue'[s][k] = queue[s][k]
      /\ Len(queue'[s]) = Len(queue[s]) + Len(events)
  BY <1>1, <1>2
<1>5. ASSUME NEW k \in DOMAIN queue'[s], k \notin DOMAIN queue[s]
      PROVE  \E j \in DOMAIN events : k = Len(queue[s]) + j /\ queue'[s][k] = events[j]
  <2>1. k - Len(queue[s]) \in DOMAIN events
    BY <1>1, <1>2, <1>5
  <2> QED BY <1>1, <1>3, <1>5, <2>1
<1> QED BY <1>2, <1>3, <1>4, <1>5 DEF Sent

Delivery ==
  \A s \in Site :
    /\ Fin(s) \in got => queue[s] = <<>> /\ source[s] = "finished"
    /\ \A k \in DOMAIN queue[s] :
         /\ queue[s][k][2] = s
         /\ queue[s][k] = Fin(s) => k = Len(queue[s]) /\ source[s] = "finished"

LEMMA DeliveryPut ==
  ASSUME StreamType, Delivery, NEW s \in Site, NEW events \in Seq(Stream!Event),
         Stream!Put(s, events), UNCHANGED got, source[s] # "finished",
         \A t \in Site : source[t] = "finished" => source'[t] = "finished",
         \A j \in DOMAIN events : events[j][2] = s,
         \/ \A j \in DOMAIN events : events[j] # Fin(s)
         \/ Len(events) = 1 /\ source'[s] = "finished"
  PROVE  Delivery'
<1>1. ASSUME NEW t \in Site, t # s
      PROVE  /\ Fin(t) \in got' => queue'[t] = <<>> /\ source'[t] = "finished"
             /\ \A k \in DOMAIN queue'[t] :
                  /\ queue'[t][k][2] = t
                  /\ queue'[t][k] = Fin(t) => k = Len(queue'[t]) /\ source'[t] = "finished"
  BY <1>1, SentPut DEF Delivery
<1>2. Fin(s) \notin got
  BY DEF Delivery
<1>3. ASSUME NEW k \in DOMAIN queue'[s]
      PROVE  /\ queue'[s][k][2] = s
             /\ queue'[s][k] = Fin(s) => k = Len(queue'[s]) /\ source'[s] = "finished"
  <2>1. CASE k \in DOMAIN queue[s]
    <3>1. queue'[s][k] = queue[s][k] BY <2>1, SentPut
    <3> QED BY <2>1, <3>1 DEF Delivery
  <2>2. CASE k \notin DOMAIN queue[s]
    <3>1. PICK j \in DOMAIN events : k = Len(queue[s]) + j /\ queue'[s][k] = events[j]
      BY <1>3, <2>2, SentPut
    <3>2. Len(events) = 1 => j = 1 OBVIOUS
    <3> QED BY <3>1, <3>2, SentPut
  <2> QED BY <2>1, <2>2
<1> QED BY <1>1, <1>2, <1>3 DEF Delivery, Fin

LEMMA DeliveryPutsOne ==
  ASSUME StreamType, Delivery, NEW s \in Site, NEW n \in Nat,
         NEW kind \in {"vacancy", "materials", "matching", "source_error", "_source_finished"},
         Stream!Put(s, <<<<kind, s, n>>>>), UNCHANGED got, source[s] # "finished",
         \A t \in Site : source[t] = "finished" => source'[t] = "finished",
         <<kind, s, n>> = Fin(s) => source'[s] = "finished"
  PROVE  Delivery'
<1> DEFINE event == <<kind, s, n>>
<1>1. event \in Stream!Event /\ event[2] = s BY DEF Stream!Event
<1> HIDE DEF event
<1>2. <<event>> \in Seq(Stream!Event) /\ Len(<<event>>) = 1
      /\ \A j \in DOMAIN <<event>> : <<event>>[j] = event
  BY <1>1
<1>3. Stream!Put(s, <<event>>) /\ (event = Fin(s) => source'[s] = "finished") BY DEF event
<1> DEFINE events == <<event>>
<1>4. events \in Seq(Stream!Event) /\ Len(events) = 1 /\ Stream!Put(s, events)
      /\ \A j \in DOMAIN events : events[j][2] = s /\ events[j] = event
  BY <1>1, <1>2, <1>3
<1> HIDE DEF events
<1> QED BY <1>3, <1>4, DeliveryPut

LEMMA DeliveryStep ==
  StreamType /\ OverInv /\ Delivery /\ [Stream!DsNext]_(Stream!dsVars) => Delivery'
<1> SUFFICES ASSUME StreamType, OverInv, Delivery, [Stream!DsNext]_(Stream!dsVars)
             PROVE  Delivery'
  OBVIOUS
<1>1. \A t \in Site : source[t] = "finished" => source'[t] = "finished"
  <2>1. CASE Stream!CancelSources
    <3> SUFFICES ASSUME NEW t \in Site, source[t] = "finished" PROVE source'[t] = "finished"
      OBVIOUS
    <3>1. source'[t] = CASE source[t] \in {"searching", "gathering"} -> "closing"
                         [] source[t] = "closing" -> "cancelled"
                         [] OTHER -> source[t]
      BY <2>1 DEF Stream!CancelSources
    <3> QED BY <3>1
  <2>2. ASSUME NEW s \in Site, Stream!SourceStep(s)
        PROVE  \A t \in Site : source[t] = "finished" => source'[t] = "finished"
    BY <2>2 DEF Stream!SourceStep, Stream!Stage, Stream!Searched, Stream!Fails, Stream!Rank,
                Stream!Close, Stream!Go, StreamType
  <2>3. ASSUME NEW s \in Site, Stream!Receive(s) \/ \E i \in DOMAIN hits[s] : Stream!HitStep(s, i)
        PROVE  UNCHANGED source
    BY <2>3 DEF Stream!Receive, Stream!HitStep, Stream!Start, Stream!ProfileThere,
                Stream!Materials, Stream!Matching, Stream!Raises
  <2>4. CASE Stream!ProfileIngested \/ Stream!Closed \/ UNCHANGED Stream!dsVars
    BY <2>4 DEF Stream!ProfileIngested, Stream!Closed, Stream!dsVars
  <2> QED BY <2>1, <2>2, <2>3, <2>4
        DEF Stream!DsNext, Stream!DsStep, Stream!Disconnect, Stream!CancelAgain
<1>2. CASE UNCHANGED <<got, queue>>
  BY <1>1, <1>2 DEF Delivery
<1>3. ASSUME NEW s \in Site, NEW i \in DOMAIN hits[s], Stream!Materials(s, i) \/ Stream!Matching(s, i)
      PROVE  Delivery'
  <2>1. i \in Nat BY DEF StreamType
  <2>2. source[s] # "finished"
    BY <1>3 DEF OverInv, Stream!AllOver, Stream!Over, Stream!Materials, Stream!Matching
  <2>3. CASE direct
    BY <1>2, <1>3, <2>3 DEF Stream!Materials, Stream!Matching, Stream!Quiet
  <2>4. CASE ~direct
    <3>1. PICK kind \in {"materials", "matching"} : Stream!Put(s, <<<<kind, s, i>>>>)
      BY <1>3, <2>4 DEF Stream!Materials, Stream!Matching
    <3>2. UNCHANGED got BY <1>3 DEF Stream!Materials, Stream!Matching
    <3>3. <<kind, s, i>> # Fin(s) BY DEF Fin
    <3> QED BY <1>1, <2>1, <2>2, <3>1, <3>2, <3>3, DeliveryPutsOne
  <2> QED BY <2>3, <2>4
<1>4. ASSUME NEW s \in Site, Stream!Stage(s) \/ Stream!Fails(s) \/ Stream!Close(s)
      PROVE  Delivery'
  <2>1. source[s] # "finished" /\ UNCHANGED got
    BY <1>4 DEF Stream!Stage, Stream!Fails, Stream!Close
  <2>2. Len(hits[s]) + 1 \in Nat /\ 0 \in Nat BY DEF StreamType
  <2>3. CASE UNCHANGED queue
    BY <1>2, <2>1, <2>3
  <2>4. CASE Stream!Put(s, <<Fin(s)>>) /\ source'[s] = "finished"
    BY <1>1, <2>1, <2>2, <2>4, DeliveryPutsOne DEF Fin
  <2>5. ASSUME NEW kind \in {"vacancy", "source_error"}, NEW n \in Nat, Stream!Put(s, <<<<kind, s, n>>>>)
        PROVE  Delivery'
    <3>1. <<kind, s, n>> # Fin(s) BY DEF Fin
    <3> QED BY <1>1, <2>1, <2>5, <3>1, DeliveryPutsOne
  <2>6. CASE Stream!Stage(s)
    BY <2>2, <2>3, <2>5, <2>6 DEF Stream!Stage, Stream!Quiet
  <2>7. CASE Stream!Fails(s)
    BY <2>2, <2>5, <2>7 DEF Stream!Fails
  <2>8. CASE Stream!Close(s)
    BY <2>4, <2>8 DEF Stream!Close, Stream!Go, StreamType, Fin
  <2> QED BY <1>4, <2>6, <2>7, <2>8
<1>5. ASSUME NEW s \in Site, Stream!Rank(s) PROVE Delivery'
  <2>1. PICK n \in Nat : \E best \in [1..n -> DOMAIN hits[s]] :
          /\ [j \in 1..n |-> <<"vacancy", s, best[j]>>] \in Seq(Stream!Event)
          /\ Stream!Put(s, [j \in 1..n |-> <<"vacancy", s, best[j]>>])
    BY <1>5, RankPuts
  <2>2. PICK best \in [1..n -> DOMAIN hits[s]] :
          /\ [j \in 1..n |-> <<"vacancy", s, best[j]>>] \in Seq(Stream!Event)
          /\ Stream!Put(s, [j \in 1..n |-> <<"vacancy", s, best[j]>>])
    BY <2>1
  <2> DEFINE events == [j \in 1..n |-> <<"vacancy", s, best[j]>>]
  <2>3. \A j \in DOMAIN events : events[j][2] = s /\ events[j] # Fin(s)
    BY DEF Fin
  <2>4. source[s] # "finished" /\ UNCHANGED got
    BY <1>5 DEF Stream!Rank
  <2> HIDE DEF events
  <2>5. events \in Seq(Stream!Event) /\ Stream!Put(s, events)
    BY <2>2 DEF events
  <2> QED BY <1>1, <2>3, <2>4, <2>5, DeliveryPut
<1>6. ASSUME NEW s \in Site, Stream!Receive(s) PROVE Delivery'
  <2>1. queue[s] \in Seq(Stream!Event) /\ queue[s] # <<>> /\ got' = got \cup {Head(queue[s])}
    BY <1>6 DEF Stream!Receive, StreamType
  <2>2. queue' = [queue EXCEPT ![s] = Tail(queue[s])] /\ UNCHANGED source
    BY <1>6 DEF Stream!Receive
  <2>3. Head(queue[s]) = queue[s][1] /\ 1 \in DOMAIN queue[s]
    BY <2>1
  <2>4. /\ \A k \in DOMAIN Tail(queue[s]) : k + 1 \in DOMAIN queue[s] /\ Tail(queue[s])[k] = queue[s][k + 1]
        /\ Len(Tail(queue[s])) = Len(queue[s]) - 1
        /\ Len(queue[s]) = 1 => Tail(queue[s]) = <<>>
    <3>1. Tail(queue[s]) \in Seq(Stream!Event) /\ Len(Tail(queue[s])) = Len(queue[s]) - 1
      BY <2>1
    <3>2. \A k \in DOMAIN Tail(queue[s]) : k + 1 \in DOMAIN queue[s] /\ Tail(queue[s])[k] = queue[s][k + 1]
      BY <2>1
    <3> QED BY <3>1, <3>2
  <2>5. queue'[s] = Tail(queue[s]) /\ \A t \in Site : t # s => queue'[t] = queue[t]
    BY <2>2 DEF StreamType
  <2>6. \A t \in Site : t # s => Fin(t) # Head(queue[s])
    <3>1. queue[s][1][2] = s BY <2>3 DEF Delivery
    <3> QED BY <2>3, <3>1 DEF Fin
  <2>7. ASSUME NEW t \in Site, t # s
        PROVE  /\ Fin(t) \in got' => queue'[t] = <<>> /\ source'[t] = "finished"
               /\ \A k \in DOMAIN queue'[t] :
                    /\ queue'[t][k][2] = t
                    /\ queue'[t][k] = Fin(t) => k = Len(queue'[t]) /\ source'[t] = "finished"
    BY <2>1, <2>2, <2>5, <2>6, <2>7 DEF Delivery
  <2>8. Fin(s) \in got' => queue'[s] = <<>> /\ source'[s] = "finished"
    <3>1. Fin(s) \notin got BY <2>1 DEF Delivery
    <3>2. ASSUME Fin(s) = queue[s][1]
          PROVE  Len(queue[s]) = 1 /\ source[s] = "finished"
      BY <2>3, <3>2 DEF Delivery
    <3> QED BY <2>1, <2>2, <2>3, <2>4, <2>5, <3>1, <3>2
  <2>9. ASSUME NEW k \in DOMAIN queue'[s]
        PROVE  /\ queue'[s][k][2] = s
               /\ queue'[s][k] = Fin(s) => k = Len(queue'[s]) /\ source'[s] = "finished"
    <3>1. k + 1 \in DOMAIN queue[s] /\ queue'[s][k] = queue[s][k + 1]
      BY <2>4, <2>5
    <3>2. k \in Nat /\ Len(queue'[s]) = Len(queue[s]) - 1 /\ Len(queue[s]) \in Nat
      BY <2>1, <2>4, <2>5
    <3> QED BY <2>2, <3>1, <3>2 DEF Delivery
  <2> QED BY <2>7, <2>8, <2>9 DEF Delivery, Fin
<1>7. ASSUME NEW s \in Site, NEW i \in DOMAIN hits[s],
             Stream!Start(s, i) \/ Stream!ProfileThere(s, i) \/ Stream!Raises(s, i)
      PROVE  UNCHANGED <<got, queue>>
  BY <1>7 DEF Stream!Start, Stream!ProfileThere, Stream!Raises
<1>8. ASSUME \/ \E s \in Site : Stream!Searched(s)
             \/ Stream!ProfileIngested \/ Stream!Closed \/ Stream!Disconnect
             \/ Stream!CancelAgain \/ UNCHANGED Stream!dsVars
      PROVE  UNCHANGED <<got, queue>>
  BY <1>8 DEF Stream!Searched, Stream!ProfileIngested, Stream!Closed, Stream!Disconnect,
              Stream!CancelAgain, Stream!dsVars
<1> QED BY <1>2, <1>3, <1>4, <1>5, <1>6, <1>7, <1>8
      DEF Stream!DsNext, Stream!DsStep, Stream!HitStep, Stream!SourceStep

LEMMA SentStays ==
  ASSUME StreamType, [Stream!DsNext]_(Stream!dsVars)
  PROVE  \A s \in Site : \A e : Sent(s, e) => Sent(s, e)'
<1> SUFFICES ASSUME NEW s \in Site, NEW e, Sent(s, e) PROVE Sent(s, e)'
  OBVIOUS
<1>1. CASE UNCHANGED <<got, queue>>
  BY <1>1 DEF Sent
<1>2. ASSUME NEW t \in Site, NEW events \in Seq(Stream!Event), Stream!Put(t, events), UNCHANGED got
      PROVE  Sent(s, e)'
  <2>1. \A k \in DOMAIN queue[s] : k \in DOMAIN queue'[s] /\ queue'[s][k] = queue[s][k]
    BY <1>2, SentPut
  <2> QED BY <1>2, <2>1 DEF Sent
<1>3. ASSUME NEW t \in Site, Stream!Receive(t) PROVE Sent(s, e)'
  <2>1. queue[t] \in Seq(Stream!Event) /\ queue[t] # <<>> /\ got' = got \cup {Head(queue[t])}
        /\ queue' = [queue EXCEPT ![t] = Tail(queue[t])]
    BY <1>3 DEF Stream!Receive, StreamType
  <2>2. CASE e \in got BY <2>1, <2>2 DEF Sent
  <2>3. ASSUME NEW k \in DOMAIN queue[s], queue[s][k] = e PROVE Sent(s, e)'
    <3>1. CASE s # t
      <4>1. queue'[s] = queue[s] BY <2>1, <3>1
      <4> QED BY <2>3, <4>1 DEF Sent
    <3>2. CASE s = t /\ k = 1
      BY <2>1, <2>3, <3>2 DEF Sent
    <3>3. CASE s = t /\ k # 1
      <4>1. queue'[s] = Tail(queue[s]) /\ queue[s] \in Seq(Stream!Event) /\ queue[s] # <<>>
        BY <2>1, <3>3 DEF StreamType
      <4>2. k - 1 \in DOMAIN Tail(queue[s]) /\ Tail(queue[s])[k - 1] = queue[s][k]
        BY <2>3, <3>3, <4>1
      <4> QED BY <2>3, <4>1, <4>2 DEF Sent
    <3> QED BY <3>1, <3>2, <3>3
  <2> QED BY <2>2, <2>3 DEF Sent
<1>4. ASSUME NEW t \in Site, NEW i \in DOMAIN hits[t], Stream!HitStep(t, i) PROVE Sent(s, e)'
  <2>1. i \in Nat BY DEF StreamType
  <2>2. \/ UNCHANGED <<got, queue>>
        \/ UNCHANGED got /\ \E events \in Seq(Stream!Event) : Stream!Put(t, events)
    BY <1>4, <2>1, EventsTyped DEF Stream!HitStep, Stream!Start, Stream!ProfileThere,
         Stream!Materials, Stream!Matching, Stream!Raises, Stream!Quiet
  <2> QED BY <1>1, <1>2, <2>2
<1>5. ASSUME NEW t \in Site, Stream!SourceStep(t) PROVE Sent(s, e)'
  <2>1. Len(hits[t]) + 1 \in Nat /\ 0 \in Nat BY DEF StreamType
  <2>2. CASE Stream!Rank(t)
    <3>1. \E events \in Seq(Stream!Event) : Stream!Put(t, events) BY <2>2, RankPuts
    <3>2. UNCHANGED got BY <2>2 DEF Stream!Rank
    <3> QED BY <1>2, <3>1, <3>2
  <2>3. CASE ~Stream!Rank(t)
    <3>1. \/ UNCHANGED <<got, queue>>
          \/ UNCHANGED got /\ \E events \in Seq(Stream!Event) : Stream!Put(t, events)
      BY <1>5, <2>1, <2>3, EventsTyped DEF Stream!SourceStep, Stream!Stage, Stream!Searched,
           Stream!Fails, Stream!Close, Stream!Quiet
    <3> QED BY <1>1, <1>2, <3>1
  <2> QED BY <2>2, <2>3
<1>6. ASSUME \/ Stream!ProfileIngested \/ Stream!Closed \/ Stream!Disconnect
             \/ Stream!CancelAgain \/ UNCHANGED Stream!dsVars
      PROVE  UNCHANGED <<got, queue>>
  BY <1>6 DEF Stream!ProfileIngested, Stream!Closed, Stream!Disconnect, Stream!CancelAgain,
              Stream!dsVars
<1> QED BY <1>1, <1>3, <1>4, <1>5, <1>6 DEF Stream!DsNext, Stream!DsStep

\* What one step makes of the hits.
LEMMA HitsMove ==
  ASSUME StreamType, [Stream!DsNext]_(Stream!dsVars), NEW s \in Site, NEW i \in DOMAIN hits'[s]
  PROVE  \/ i \in DOMAIN hits[s] /\ hits'[s][i] = hits[s][i]
         \/ i \in DOMAIN hits[s] /\ hits'[s][i] \in {"profile", "drafting", "cancelled"}
         \/ i \in DOMAIN hits[s] /\ hits'[s][i] = "raised" /\ hits[s][i] = "polling"
         \/ i \in DOMAIN hits[s] /\ hits'[s][i] = "polling" /\ Stream!Materials(s, i)
         \/ i \in DOMAIN hits[s] /\ hits'[s][i] = "done" /\ hits[s][i] = "polling" /\ Stream!Matching(s, i)
         \/ Stream!Stage(s) /\ i = Len(hits[s]) + 1 /\ hits'[s][i] = "waiting"
<1>1. CASE UNCHANGED hits
  BY <1>1
<1>2. ASSUME NEW t \in Site, NEW j \in DOMAIN hits[t], NEW pc, Stream!Enrich(t, j, pc)
      PROVE  /\ i \in DOMAIN hits[s]
             /\ IF s = t /\ i = j THEN hits'[s][i] = pc ELSE hits'[s][i] = hits[s][i]
  BY <1>2 DEF Stream!Enrich, StreamType
<1>3. ASSUME NEW t \in Site, NEW j \in DOMAIN hits[t], Stream!HitStep(t, j)
      PROVE  \/ i \in DOMAIN hits[s] /\ hits'[s][i] = hits[s][i]
             \/ i \in DOMAIN hits[s] /\ hits'[s][i] \in {"profile", "drafting", "cancelled"}
             \/ i \in DOMAIN hits[s] /\ hits'[s][i] = "raised" /\ hits[s][i] = "polling"
             \/ i \in DOMAIN hits[s] /\ hits'[s][i] = "polling" /\ Stream!Materials(s, i)
             \/ i \in DOMAIN hits[s] /\ hits'[s][i] = "done" /\ hits[s][i] = "polling" /\ Stream!Matching(s, i)
  <2>1. CASE Stream!Start(t, j) \/ Stream!ProfileThere(t, j)
    <3>1. \E pc \in {"profile", "drafting"} : Stream!Enrich(t, j, pc)
      BY <2>1 DEF Stream!Start, Stream!ProfileThere
    <3> QED BY <1>2, <3>1
  <2>2. CASE Stream!Materials(t, j)
    <3>1. Stream!Enrich(t, j, "polling") BY <2>2 DEF Stream!Materials
    <3> QED BY <1>2, <2>2, <3>1
  <2>3. CASE Stream!Matching(t, j)
    <3>1. Stream!Enrich(t, j, "done") /\ hits[t][j] = "polling" BY <2>3 DEF Stream!Matching
    <3> QED BY <1>2, <2>3, <3>1
  <2>4. CASE Stream!Raises(t, j)
    <3>1. Stream!Enrich(t, j, "raised") /\ hits[t][j] = "polling" BY <2>4 DEF Stream!Raises
    <3> QED BY <1>2, <3>1
  <2> QED BY <1>3, <2>1, <2>2, <2>3, <2>4 DEF Stream!HitStep
<1>4. ASSUME NEW t \in Site, Stream!Stage(t)
      PROVE  \/ i \in DOMAIN hits[s] /\ hits'[s][i] = hits[s][i]
             \/ Stream!Stage(s) /\ i = Len(hits[s]) + 1 /\ hits'[s][i] = "waiting"
  <2>1. hits' = [hits EXCEPT ![t] = Append(hits[t], "waiting")] BY <1>4 DEF Stream!Stage
  <2> QED BY <1>4, <2>1 DEF StreamType
<1>5. CASE Stream!CancelSources
  BY <1>5 DEF Stream!CancelSources, Stream!Cancelled, StreamType
<1>6. ASSUME \/ \E t \in Site : \/ Stream!Searched(t) \/ Stream!Fails(t) \/ Stream!Rank(t)
                               \/ Stream!Close(t) \/ Stream!Receive(t)
             \/ Stream!ProfileIngested \/ Stream!Closed \/ UNCHANGED Stream!dsVars
      PROVE  UNCHANGED hits
  BY <1>6 DEF Stream!Searched, Stream!Fails, Stream!Rank, Stream!Close, Stream!Receive,
              Stream!ProfileIngested, Stream!Closed, Stream!dsVars
<1> QED BY <1>1, <1>3, <1>4, <1>5, <1>6 DEF Stream!DsNext, Stream!DsStep, Stream!SourceStep,
              Stream!Disconnect, Stream!CancelAgain

\* A plain search sends what each enrichment comes to.
PlainInv ==
  ~direct => \A s \in Site : \A i \in DOMAIN hits[s] :
    /\ Sent(s, <<"vacancy", s, i>>)
    /\ hits[s][i] \in {"polling", "done", "raised"} => Sent(s, <<"materials", s, i>>)
    /\ hits[s][i] = "done" => Sent(s, <<"matching", s, i>>)

LEMMA PlainStep == StreamType /\ PlainInv /\ [Stream!DsNext]_(Stream!dsVars) => PlainInv'
<1> SUFFICES ASSUME StreamType, PlainInv, [Stream!DsNext]_(Stream!dsVars), ~direct',
                    NEW s \in Site, NEW i \in DOMAIN hits'[s]
             PROVE  /\ Sent(s, <<"vacancy", s, i>>)'
                    /\ hits'[s][i] \in {"polling", "done", "raised"} => Sent(s, <<"materials", s, i>>)'
                    /\ hits'[s][i] = "done" => Sent(s, <<"matching", s, i>>)'
  BY DEF PlainInv
<1>1. ~direct
  BY DEF Stream!DsNext, Stream!DsStep, Stream!HitStep, Stream!SourceStep, Stream!Start,
         Stream!ProfileThere, Stream!Materials, Stream!Matching, Stream!Raises, Stream!Stage,
         Stream!Searched, Stream!Fails, Stream!Rank, Stream!Close, Stream!Receive,
         Stream!ProfileIngested, Stream!Closed, Stream!Disconnect, Stream!CancelAgain, Stream!dsVars
<1>2. ASSUME NEW kind \in {"vacancy", "materials", "matching"}, i \in Nat,
             Stream!Put(s, <<<<kind, s, i>>>>), UNCHANGED got
      PROVE  Sent(s, <<kind, s, i>>)'
  <2> DEFINE events == <<<<kind, s, i>>>>
  <2>1. events \in Seq(Stream!Event) BY <1>2, EventsTyped
  <2>2. 1 \in DOMAIN events /\ events[1] = <<kind, s, i>> OBVIOUS
  <2>3. Stream!Put(s, events) BY <1>2
  <2> HIDE DEF events
  <2> QED BY <1>2, <2>1, <2>2, <2>3, SentPut
<1>3. CASE i \in DOMAIN hits[s]
  <2>1. /\ Sent(s, <<"vacancy", s, i>>)
        /\ hits[s][i] \in {"polling", "done", "raised"} => Sent(s, <<"materials", s, i>>)
        /\ hits[s][i] = "done" => Sent(s, <<"matching", s, i>>)
    BY <1>1, <1>3 DEF PlainInv
  <2>2. Sent(s, <<"vacancy", s, i>>)' BY <2>1, SentStays
  <2>3. i \in Nat BY <1>3 DEF StreamType
  <2>4. Stream!Materials(s, i) => Sent(s, <<"materials", s, i>>)'
    BY <1>1, <1>2, <2>3 DEF Stream!Materials
  <2>5. Stream!Matching(s, i) => Sent(s, <<"matching", s, i>>)'
    BY <1>1, <1>2, <2>3 DEF Stream!Matching
  <2>6. ~Stream!Stage(s) \/ i # Len(hits[s]) + 1
    BY <1>3 DEF StreamType
  <2> QED BY <2>1, <2>2, <2>4, <2>5, <2>6, HitsMove, SentStays
<1>4. CASE i \notin DOMAIN hits[s]
  <2>1. Stream!Stage(s) /\ i = Len(hits[s]) + 1 /\ hits'[s][i] = "waiting"
    BY <1>4, HitsMove
  <2>2. i \in Nat BY <2>1 DEF StreamType
  <2> QED BY <1>1, <1>2, <2>1, <2>2 DEF Stream!Stage
<1> QED BY <1>3, <1>4

\* A direct search that has not failed shows the best, or all there are.
Best(s) ==
  \E shown \in SUBSET DOMAIN hits[s] :
    /\ Cardinality(shown) = Limit \/ shown = DOMAIN hits[s]
    /\ \A i \in shown : Sent(s, <<"vacancy", s, i>>)

BestInv ==
  direct /\ stream \in {"open", "complete"} =>
    \A s \in Site : source[s] \in {"closing", "finished"} => Sent(s, <<"source_error", s, 0>>) \/ Best(s)

LEMMA RankShowsBest ==
  ASSUME StreamType, NEW s \in Site, Stream!Rank(s)
  PROVE  Best(s)'
<1>1. PICK n \in Nat : \E best \in [1..n -> DOMAIN hits[s]] :
        /\ n = IF Len(hits[s]) < Limit THEN Len(hits[s]) ELSE Limit
        /\ \A j, k \in 1..n : best[j] = best[k] => j = k
        /\ [j \in 1..n |-> <<"vacancy", s, best[j]>>] \in Seq(Stream!Event)
        /\ Stream!Put(s, [j \in 1..n |-> <<"vacancy", s, best[j]>>])
  BY RankPuts
<1>2. PICK best \in [1..n -> DOMAIN hits[s]] :
        /\ n = IF Len(hits[s]) < Limit THEN Len(hits[s]) ELSE Limit
        /\ \A j, k \in 1..n : best[j] = best[k] => j = k
        /\ [j \in 1..n |-> <<"vacancy", s, best[j]>>] \in Seq(Stream!Event)
        /\ Stream!Put(s, [j \in 1..n |-> <<"vacancy", s, best[j]>>])
  BY <1>1
<1> DEFINE shown  == {best[j] : j \in 1..n}
           events == [j \in 1..n |-> <<"vacancy", s, best[j]>>]
<1>3. UNCHANGED <<hits, got>> BY DEF Stream!Rank
<1>4. \A i \in shown : Sent(s, <<"vacancy", s, i>>)'
  <2>1. events \in Seq(Stream!Event) /\ Stream!Put(s, events) BY <1>2
  <2>2. DOMAIN events = 1..n /\ \A j \in 1..n : events[j] = <<"vacancy", s, best[j]>> OBVIOUS
  <2> HIDE DEF events
  <2>3. \A j \in DOMAIN events : Sent(s, events[j])' BY <1>3, <2>1, SentPut
  <2> QED BY <2>2, <2>3
<1>5. IsFiniteSet(shown) /\ Cardinality(shown) = n
  <2>1. best \in Bijection(1..n, shown)
    BY <1>2 DEF Bijection, Injection, Surjection, IsInjective
  <2>2. IsFiniteSet(1..n) /\ Cardinality(1..n) = n
    BY <1>1, FS_Interval
  <2> HIDE DEF shown
  <2>3. ExistsBijection(1..n, shown)
    BY <2>1 DEF ExistsBijection
  <2> QED BY <2>2, <2>3, FS_Bijection
<1>6. shown \subseteq DOMAIN hits[s]
  <2>1. \A j \in 1..n : best[j] \in DOMAIN hits[s] OBVIOUS
  <2> QED BY <2>1
<1>7. n = Limit \/ shown = DOMAIN hits[s]
  <2>1. Len(hits[s]) \in Nat /\ DOMAIN hits[s] = 1..Len(hits[s]) BY DEF StreamType
  <2>2. IsFiniteSet(DOMAIN hits[s]) /\ Cardinality(DOMAIN hits[s]) = Len(hits[s])
    BY <2>1, FS_Interval
  <2> QED BY <1>2, <1>5, <1>6, <2>2, FS_Subset
<1> HIDE DEF shown
<1> QED BY <1>3, <1>4, <1>5, <1>6, <1>7 DEF Best

LEMMA BestStep == StreamType /\ BestInv /\ [Stream!DsNext]_(Stream!dsVars) => BestInv'
<1> SUFFICES ASSUME StreamType, BestInv, [Stream!DsNext]_(Stream!dsVars),
                    direct', stream' \in {"open", "complete"},
                    NEW s \in Site, source'[s] \in {"closing", "finished"},
                    ~Best(s)'
             PROVE  Sent(s, <<"source_error", s, 0>>)'
  BY DEF BestInv
<1>1. /\ direct /\ stream \in {"open", "complete"}
      /\ ~Stream!Disconnect /\ ~Stream!CancelAgain /\ ~Stream!Closed
  BY DEF Stream!DsNext, Stream!DsStep, Stream!HitStep, Stream!SourceStep, Stream!Start,
         Stream!ProfileThere, Stream!Materials, Stream!Matching, Stream!Raises, Stream!Stage,
         Stream!Searched, Stream!Fails, Stream!Rank, Stream!Close, Stream!Receive,
         Stream!ProfileIngested, Stream!Closed, Stream!Disconnect, Stream!CancelAgain, Stream!dsVars
<1>2. CASE source[s] \in {"closing", "finished"}
  <2>1. ~Stream!Stage(s) BY <1>2 DEF Stream!Stage
  <2>2. ~Best(s)
    <3>1. DOMAIN hits'[s] = DOMAIN hits[s]
      <4>1. ASSUME NEW t \in Site, NEW i \in DOMAIN hits[t], Stream!HitStep(t, i)
            PROVE  DOMAIN hits'[s] = DOMAIN hits[s]
        BY <4>1 DEF Stream!HitStep, Stream!Start, Stream!ProfileThere, Stream!Materials,
                    Stream!Matching, Stream!Raises, Stream!Enrich, StreamType
      <4>2. ASSUME NEW t \in Site, Stream!SourceStep(t) \/ Stream!Receive(t)
            PROVE  DOMAIN hits'[s] = DOMAIN hits[s]
        BY <2>1, <4>2 DEF Stream!SourceStep, Stream!Stage, Stream!Searched, Stream!Fails,
                          Stream!Rank, Stream!Close, Stream!Receive, StreamType
      <4>3. CASE Stream!ProfileIngested \/ UNCHANGED Stream!dsVars
        BY <4>3 DEF Stream!ProfileIngested, Stream!dsVars
      <4> QED BY <1>1, <4>1, <4>2, <4>3 DEF Stream!DsNext, Stream!DsStep
    <3> SUFFICES ASSUME Best(s) PROVE Best(s)'
      OBVIOUS
    <3>2. PICK shown \in SUBSET DOMAIN hits[s] :
            /\ Cardinality(shown) = Limit \/ shown = DOMAIN hits[s]
            /\ \A i \in shown : Sent(s, <<"vacancy", s, i>>)
      BY DEF Best
    <3>3. \A i \in shown : Sent(s, <<"vacancy", s, i>>)'
      BY <3>2, SentStays
    <3> QED BY <3>1, <3>2, <3>3 DEF Best
  <2> QED BY <1>1, <1>2, <2>2, SentStays DEF BestInv
<1>3. CASE source[s] \notin {"closing", "finished"}
  <2>1. Stream!Fails(s) \/ Stream!Rank(s)
    <3>1. ASSUME NEW t \in Site, Stream!SourceStep(t) PROVE Stream!Fails(s) \/ Stream!Rank(s)
      <4>1. source'[s] # source[s] BY <1>3
      <4>2. CASE Stream!Stage(t) BY <4>1, <4>2 DEF Stream!Stage
      <4>3. CASE Stream!Searched(t)
        <5>1. source' = [source EXCEPT ![t] = "gathering"]
          BY <1>1, <4>3 DEF Stream!Searched, Stream!Go
        <5> QED BY <4>1, <5>1 DEF StreamType
      <4>4. CASE Stream!Fails(t) \/ Stream!Rank(t)
        <5>1. source' = [source EXCEPT ![t] = "closing"]
          BY <4>4 DEF Stream!Fails, Stream!Rank, Stream!Go
        <5> QED BY <4>1, <4>4, <5>1 DEF StreamType
      <4>5. CASE Stream!Close(t)
        <5>1. source' = [source EXCEPT ![t] = "finished"] /\ source[t] = "closing"
          BY <4>5 DEF Stream!Close, Stream!Go
        <5> QED BY <1>3, <4>1, <5>1 DEF StreamType
      <4> QED BY <3>1, <4>2, <4>3, <4>4, <4>5 DEF Stream!SourceStep
    <3>2. ASSUME NEW t \in Site, Stream!Receive(t) \/ \E i \in DOMAIN hits[t] : Stream!HitStep(t, i)
          PROVE  UNCHANGED source
      BY <3>2 DEF Stream!Receive, Stream!HitStep, Stream!Start, Stream!ProfileThere,
                  Stream!Materials, Stream!Matching, Stream!Raises
    <3>3. CASE Stream!ProfileIngested \/ UNCHANGED Stream!dsVars
      BY <1>3, <3>3 DEF Stream!ProfileIngested, Stream!dsVars
    <3> QED BY <1>1, <1>3, <3>1, <3>2, <3>3 DEF Stream!DsNext, Stream!DsStep
  <2>2. Stream!Fails(s)
    BY <2>1, RankShowsBest
  <2> DEFINE events == <<<<"source_error", s, 0>>>>
  <2>3. events \in Seq(Stream!Event) BY EventsTyped
  <2>4. 1 \in DOMAIN events /\ events[1] = <<"source_error", s, 0>> OBVIOUS
  <2>5. Stream!Put(s, events) /\ UNCHANGED got BY <2>2 DEF Stream!Fails
  <2> HIDE DEF events
  <2> QED BY <2>3, <2>4, <2>5, SentPut
<1> QED BY <1>2, <1>3

\* The stream is complete when the last event of every source has come.
LastInv == stream = "complete" => \A s \in Site : Fin(s) \in got

LEMMA LastStep == LastInv /\ [Stream!DsNext]_(Stream!dsVars) => LastInv'
<1> SUFFICES ASSUME LastInv, [Stream!DsNext]_(Stream!dsVars), stream' = "complete"
             PROVE  \A s \in Site : Fin(s) \in got'
  BY DEF LastInv
<1>1. ASSUME NEW s \in Site, Stream!Receive(s) PROVE \A t \in Site : Fin(t) \in got'
  BY <1>1 DEF Stream!Receive, Stream!Finished, Fin
<1>2. CASE UNCHANGED <<stream, got>>
  BY <1>2 DEF LastInv
<1>3. ~Stream!Closed /\ ~Stream!Disconnect /\ (Stream!CancelAgain => UNCHANGED <<stream, got>>)
  BY DEF Stream!Closed, Stream!Disconnect, Stream!CancelAgain
<1>4. ASSUME NEW s \in Site, Stream!SourceStep(s) \/ \E i \in DOMAIN hits[s] : Stream!HitStep(s, i)
      PROVE  UNCHANGED <<stream, got>>
  BY <1>4 DEF Stream!SourceStep, Stream!Stage, Stream!Searched, Stream!Fails, Stream!Rank,
       Stream!Close, Stream!HitStep, Stream!Start, Stream!ProfileThere, Stream!Materials,
       Stream!Matching, Stream!Raises
<1>5. CASE Stream!ProfileIngested \/ UNCHANGED Stream!dsVars
  BY <1>2, <1>5 DEF Stream!ProfileIngested, Stream!dsVars
<1> QED BY <1>1, <1>2, <1>3, <1>4, <1>5 DEF Stream!DsNext, Stream!DsStep

StreamInv == StreamType /\ OverInv /\ Delivery /\ PlainInv /\ BestInv /\ LastInv

Everything(s) ==
  IF direct
    THEN \/ <<"source_error", s, 0>> \in got
         \/ Cardinality(Stream!Shown(s)) >= Limit \/ Stream!Shown(s) = DOMAIN hits[s]
    ELSE \A i \in DOMAIN hits[s] :
           Stream!Told(s, i) \/ (hits[s][i] = "raised" /\ <<"vacancy", s, i>> \in got)

LEMMA SameCardinality == \A S : Stream!Cardinality(S) = Cardinality(S)
BY Zenon DEF Stream!Cardinality, Cardinality

LEMMA CompleteParts ==
  ASSUME stream = "complete" => \A s \in Site : queue[s] = <<>> /\ Everything(s)
  PROVE  CompleteIsComplete
<1>1. stream = "complete" => (\A s \in Site : queue[s] = <<>>) /\ \A s \in Site : Everything(s)
  OBVIOUS
<1> QED BY <1>1, SameCardinality, Zenon DEF CompleteIsComplete, Stream!CompleteIsComplete, Everything

LEMMA StreamIsComplete == StreamInv => CompleteIsComplete
<1> SUFFICES ASSUME StreamInv, stream = "complete", NEW s \in Site
             PROVE  queue[s] = <<>> /\ Everything(s)
  BY CompleteParts
<1> USE DEF StreamInv
<1>1. queue[s] = <<>> /\ source[s] = "finished"
  BY DEF LastInv, Delivery
<1>2. \A e : Sent(s, e) => e \in got
  BY <1>1 DEF Sent
<1>3. ASSUME ~direct, NEW i \in DOMAIN hits[s]
      PROVE  Stream!Told(s, i) \/ (hits[s][i] = "raised" /\ <<"vacancy", s, i>> \in got)
  <2>1. hits[s][i] \in {"done", "raised"}
    BY <1>1 DEF OverInv, Stream!AllOver, Stream!Over
  <2> QED BY <1>2, <1>3, <2>1 DEF PlainInv, Stream!Told
<1>4. ASSUME direct, <<"source_error", s, 0>> \notin got
      PROVE  Cardinality(Stream!Shown(s)) >= Limit \/ Stream!Shown(s) = DOMAIN hits[s]
  <2>1. PICK shown \in SUBSET DOMAIN hits[s] :
          /\ Cardinality(shown) = Limit \/ shown = DOMAIN hits[s]
          /\ \A i \in shown : Sent(s, <<"vacancy", s, i>>)
    BY <1>1, <1>2, <1>4 DEF BestInv, Best
  <2>2. shown \subseteq Stream!Shown(s) /\ Stream!Shown(s) \subseteq DOMAIN hits[s]
    BY <1>2, <2>1 DEF Stream!Shown
  <2>3. IsFiniteSet(Stream!Shown(s))
    <3>1. Len(hits[s]) \in Nat /\ DOMAIN hits[s] = 1..Len(hits[s]) BY DEF StreamType
    <3>2. IsFiniteSet(DOMAIN hits[s]) BY <3>1, FS_Interval
    <3> QED BY <2>2, <3>2, FS_Subset
  <2>4. Cardinality(shown) <= Cardinality(Stream!Shown(s)) /\ Cardinality(Stream!Shown(s)) \in Nat
    BY <2>2, <2>3, FS_Subset, FS_CardinalityType
  <2> QED BY <2>1, <2>2, <2>4, EnrichmentAssumption
<1> QED BY <1>1, <1>3, <1>4 DEF Everything

-------------------------------------------------------------------------------
(* The theorems                                                             *)

\* The invariants that the theorems rest on, for every behaviour of the composition.
PartsInv == TypeInv /\ Materials!MdTypeOK /\ StreamType /\ CallsInv

LEMMA PartsAlways == AllSpec => []PartsInv
<1>1. AllInit => PartsInv
  <2> SUFFICES ASSUME AllInit PROVE PartsInv
    OBVIOUS
  <2>1. TypeInv BY TypeInit DEF AllInit
  <2>2. Materials!MdTypeOK
    BY DraftTyped DEF AllInit, Materials!MdInit, Materials!MdTypeOK, Materials!Source
  <2>3. StreamType
    BY EnrichmentAssumption DEF AllInit, Stream!DsInit, StreamType
  <2>4. CallsInv
    BY NoCallTyped, EnrichmentAssumption DEF AllInit, Models!McInit, CallsInv, Models!McTypeOK, CallType
  <2> QED BY <2>1, <2>2, <2>3, <2>4 DEF PartsInv
<1>2. PartsInv /\ [AllNext]_allVars => PartsInv'
  BY PartSteps, TypeStep, MaterialsTyped, StreamTyped, CallsStep DEF PartsInv
<1> QED BY <1>1, <1>2, PTL DEF AllSpec

(* The type invariants of the four parts: records, stages and events keep   *)
(* their shape, no run is retried for ever, no source stages more hits than *)
(* it finds.                                                                *)
THEOREM EnrichmentTypes == AllSpec => []TypesOK
<1>1. PartsInv => TypesOK
  BY StreamTypes DEF PartsInv, TypesOK, TypeInv, CallsInv
<1> QED BY <1>1, PartsAlways, PTL

(* A sensitive answer that goes to a site is the person's, for any number   *)
(* of questions and of requests that draft while the person edits.          *)
THEOREM SensitiveStaysHuman == AllSpec => []SensitiveIsHuman
<1>1. AllInit => DraftsInv
  BY EnrichmentAssumption DEF AllInit, Materials!MdInit, Materials!Nothing, DraftsInv, SensitiveIsHuman, Materials!SensitiveIsHuman
<1>2. PartsInv /\ DraftsInv /\ [AllNext]_allVars => DraftsInv'
  BY PartSteps, DraftsStep DEF PartsInv
<1>3. DraftsInv => SensitiveIsHuman
  BY DEF DraftsInv
<1> QED BY <1>1, <1>2, <1>3, PartsAlways, PTL DEF AllSpec

(* No call posts more than three times to a provider, however many calls of *)
(* a stage refuse each other's format on the way.                           *)
THEOREM PostsStayBounded == AllSpec => []PostsAreBounded
<1>1. PartsInv => PostsAreBounded
  <2> SUFFICES ASSUME CallsInv, NEW c \in Call
               PROVE  call[c].posts <= IF call[c].again THEN 3 ELSE 2
    BY DEF PartsInv, PostsAreBounded, Models!PostsAreBounded
  <2>1. call[c].posts \in Nat /\ call[c].posts <= Budget(call[c].again, call[c].format)
    BY CallTyped DEF CallType, Bounded
  <2> QED BY <2>1 DEF Budget
<1> QED BY <1>1, PartsAlways, PTL

(* Who reads "complete" has everything, for any number of sources and hits: *)
(* what is sent stays sent, the last event of a source comes last, and a    *)
(* source is not finished before its enrichments are.                       *)
THEOREM CompleteHasEverything == AllSpec => []CompleteIsComplete
<1> DEFINE J == OverInv /\ Delivery /\ PlainInv /\ BestInv /\ LastInv
<1>1. AllInit => J
  BY DEF AllInit, Stream!DsInit, OverInv, Delivery, PlainInv, BestInv, LastInv
<1>2. PartsInv /\ J /\ [AllNext]_allVars => J'
  BY PartSteps, OverStep, DeliveryStep, PlainStep, BestStep, LastStep DEF PartsInv
<1>3. PartsInv /\ J => CompleteIsComplete
  BY StreamIsComplete DEF StreamInv, PartsInv
<1> HIDE DEF J
<1> QED BY <1>1, <1>2, <1>3, PartsAlways, PTL DEF AllSpec
===============================================================================
