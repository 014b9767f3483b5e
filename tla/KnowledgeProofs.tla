---------------------------- MODULE KnowledgeProofs ----------------------------
(***************************************************************************)
(* Theorems about the parts of Knowledge, for any number of facts, imports, *)
(* tasks, slots, requirements, labels, applications and requests.           *)
(***************************************************************************)
EXTENDS Knowledge, SequenceTheorems, FiniteSetTheorems, WellFoundedInduction, TLAPS

-------------------------------------------------------------------------------
(* Numbers                                                                  *)

\* Any numbers have a least one.
LEMMA LeastNumber ==
  ASSUME NEW T, T \subseteq Nat, T # {}
  PROVE  \E x \in T : \A y \in T : x <= y
<1> DEFINE R == OpToRel(<, Nat)
<1>1. IsWellFoundedOn(R, Nat)
  BY NatLessThanWellFounded
<1>2. \A x, y \in Nat : <<x, y>> \in R <=> x < y
  BY DEF OpToRel
<1> HIDE DEF R
<1>3. PICK x \in T : \A y \in T : ~(<<y, x>> \in R)
  BY <1>1, WFMin
<1>4. ASSUME NEW y \in T PROVE x <= y
  <2>1. x \in Nat /\ y \in Nat /\ ~(y < x)
    BY <1>2, <1>3
  <2> QED BY <2>1
<1> QED BY <1>3, <1>4

-------------------------------------------------------------------------------
(* Facts                                                                    *)

Fields == [pc : {"new", "extract", "save", "done"}, accept : BOOLEAN,
           found : SUBSET Facts!Entry, merge : SUBSET Facts!Entry,
           insert : SUBSET Facts!Entry, doomed : BOOLEAN]

\* Nothing of an import is on record before it ends, and what it would merge is there
\* or has spoilt it.
Pending(r, b, of, f) ==
  /\ r.pc # "done" => of[b] = "none"
  /\ r.pc = "save" /\ r.accept /\ ~r.doomed => \A e \in r.merge : f[e[1]] # Facts!Absent

FactsInv ==
  /\ facts \in [FactKey -> Facts!Fact \cup {Facts!Absent}]
  /\ batch \in [Import -> {"none", "completed", "failed", "undone"}]
  /\ import \in [Import -> Fields] /\ \A b \in Import : Pending(import[b], b, batch, facts)
  /\ sending \subseteq SUBSET Facts!Entry /\ profile \subseteq Facts!Entry
  /\ reviewed \subseteq Facts!Entry /\ changes \in 0..MaxChanges
  /\ Facts!FactsHaveTheirBatch /\ Facts!OnlyReviewedIsIndexed

LEMMA AbsentIsNoFact ==
  /\ Facts!Absent \notin Facts!Fact
  /\ Facts!Absent.verified = FALSE /\ Facts!Absent.of = Manual /\ Facts!Absent.value = 0
BY DEF Facts!Absent, Facts!Fact

\* What facts, batches, imports and what was reviewed turn into.
LEMMA FactsSum ==
  ASSUME FactsInv,
         facts' \in [FactKey -> Facts!Fact \cup {Facts!Absent}],
         batch' \in [Import -> {"none", "completed", "failed", "undone"}],
         import' \in [Import -> Fields],
         \A b \in Import : Pending(import'[b], b, batch', facts'),
         reviewed \subseteq reviewed', reviewed' \subseteq Facts!Entry,
         sending' \in {sending, sending \cup {Facts!Content(facts')}}, UNCHANGED profile,
         changes' \in 0..MaxChanges,
         Facts!FactsHaveTheirBatch',
         Facts!Content(facts') \subseteq reviewed'
  PROVE  FactsInv'
<1>1. Facts!Content(facts') \in SUBSET Facts!Entry
  BY DEF Facts!Content
<1>2. sending' \subseteq SUBSET Facts!Entry
  BY <1>1 DEF FactsInv
<1>3. (Facts!OnlyReviewedIsIndexed)'
  BY DEF FactsInv, Facts!OnlyReviewedIsIndexed
<1> QED BY <1>2, <1>3 DEF FactsInv

LEMMA FactsBegin == Facts!Init => FactsInv
<1> SUFFICES ASSUME Facts!Init PROVE FactsInv
  OBVIOUS
<1>1. Facts!Idle \in Fields /\ Facts!Idle.pc = "new"
  BY DEF Facts!Idle, Fields
<1>2. \A k \in FactKey : facts[k] = Facts!Absent
  BY DEF Facts!Init
<1>3. Facts!Content(facts) = {}
  BY <1>2, AbsentIsNoFact DEF Facts!Content, Facts!Entry
<1>4. Facts!FactsHaveTheirBatch
  BY <1>2 DEF Facts!FactsHaveTheirBatch, Facts!Exists
<1>5. 0 \in 0..MaxChanges
  BY KnowledgeAssumption
<1>6. /\ import \in [Import -> Fields]
      /\ \A b \in Import : Pending(import[b], b, batch, facts)
  BY <1>1 DEF Facts!Init, Pending
<1> QED
  BY <1>3, <1>4, <1>5, <1>6 DEF Facts!Init, FactsInv, Facts!OnlyReviewedIsIndexed

LEMMA FactsStep == FactsInv /\ [Facts!Next]_(Facts!vars) => FactsInv'
<1> SUFFICES ASSUME FactsInv, [Facts!Next]_(Facts!vars) PROVE FactsInv'
  OBVIOUS
<1>1. /\ \A b \in Import : import[b] \in Fields /\ Pending(import[b], b, batch, facts)
      /\ \A k \in FactKey : facts[k] \in Facts!Fact \cup {Facts!Absent}
      /\ \A r \in Fields : Facts!Absent \notin Facts!Fact
      /\ Facts!Content(facts) \subseteq reviewed
  BY AbsentIsNoFact DEF FactsInv, Facts!OnlyReviewedIsIndexed
\* A request that goes on, with the facts as they are.
<1>2. ASSUME NEW b \in Import, NEW r \in Fields,
             import' = [import EXCEPT ![b] = r],
             Pending(r, b, batch', facts),
             batch' \in [Import -> {"none", "completed", "failed", "undone"}],
             \A c \in Import : c # b => batch'[c] = batch[c],
             batch'[b] = batch[b] \/ batch[b] = "none",
             UNCHANGED <<facts, sending, profile, reviewed, changes>>
      PROVE  FactsInv'
  <2>1. import' \in [Import -> Fields]
    BY <1>2 DEF FactsInv
  <2>2. \A c \in Import : Pending(import'[c], c, batch', facts')
    BY <1>1, <1>2 DEF Pending, FactsInv
  <2>3. Facts!FactsHaveTheirBatch'
    BY <1>2 DEF FactsInv, Facts!FactsHaveTheirBatch, Facts!Exists
  <2>4. Facts!Content(facts') \subseteq reviewed' /\ reviewed' \subseteq Facts!Entry
        /\ changes' \in 0..MaxChanges /\ facts' \in [FactKey -> Facts!Fact \cup {Facts!Absent}]
    BY <1>1, <1>2 DEF FactsInv
  <2> QED BY <1>2, <2>1, <2>2, <2>3, <2>4, FactsSum
<1>3. ASSUME NEW b \in Import, Facts!StartImport(b)
      PROVE  FactsInv'
  <2>1. PICK hits \in SUBSET Facts!Entry, accept \in BOOLEAN :
          import' = [import EXCEPT ![b] = [Facts!Idle EXCEPT !.pc = "extract",
                       !.accept = accept, !.found = hits]]
    BY <1>3 DEF Facts!StartImport, Facts!Candidates
  <2>2. PICK r \in Fields : r = [Facts!Idle EXCEPT !.pc = "extract", !.accept = accept, !.found = hits]
    BY DEF Facts!Idle, Fields
  <2>3. r.pc = "extract" /\ batch[b] = "none"
    BY <1>1, <1>3, <2>2 DEF Facts!Idle, Facts!StartImport, Pending
  <2> QED BY <1>2, <1>3, <2>1, <2>2, <2>3 DEF Facts!StartImport, Pending, FactsInv
<1>4. ASSUME NEW b \in Import, Facts!ExtractFails(b)
      PROVE  FactsInv'
  <2>1. PICK r \in Fields : r = [import[b] EXCEPT !.pc = "done"]
    BY <1>1 DEF Fields
  <2>2. r.pc = "done" /\ batch[b] = "none"
    BY <1>1, <1>4, <2>1 DEF Facts!ExtractFails, Pending, Fields
  <2> QED BY <1>2, <1>4, <2>1, <2>2 DEF Facts!ExtractFails, Pending, FactsInv
<1>5. ASSUME NEW b \in Import, Facts!CheckDuplicates(b)
      PROVE  FactsInv'
  <2> DEFINE new  == {e \in import[b].found : e[1] \notin Facts!Known}
             more == {e \in import[b].found : e[1] \in Facts!Known /\ e[2] > facts[e[1]].value}
  <2>1. PICK near \in SUBSET new, k \in FactKey, twice \in BOOLEAN :
          /\ near # {} => k \in Facts!Known
          /\ twice => new # near
          /\ import' = [import EXCEPT ![b] =
               [@ EXCEPT !.pc = "save", !.insert = new \ near,
                         !.merge = more \cup {<<k, e[2]>> : e \in near}, !.doomed = twice]]
    BY <1>5 DEF Facts!CheckDuplicates
  <2>2. /\ new \ near \subseteq Facts!Entry
        /\ more \cup {<<k, e[2]>> : e \in near} \subseteq Facts!Entry
    BY <1>1 DEF Fields, Facts!Entry
  <2>3. \A e \in more \cup {<<k, e[2]>> : e \in near} : e[1] \in Facts!Known
    <3>1. ASSUME NEW e \in near PROVE <<k, e[2]>>[1] \in Facts!Known
      BY <2>1
    <3> QED BY <3>1
  <2>4. \A x \in Facts!Known : facts[x] # Facts!Absent
    BY DEF Facts!Known, Facts!Absent
  <2> DEFINE merge == more \cup {<<k, e[2]>> : e \in near}
             rest  == new \ near
  <2>5. import' = [import EXCEPT ![b] = [import[b] EXCEPT !.pc = "save", !.insert = rest,
                     !.merge = merge, !.doomed = twice]]
    BY <2>1
  <2>6. merge \in SUBSET Facts!Entry /\ rest \in SUBSET Facts!Entry
        /\ \A e \in merge : e[1] \in Facts!Known
    BY <2>2, <2>3
  <2> HIDE DEF merge, rest
  <2>7. PICK r \in Fields : r = [import[b] EXCEPT !.pc = "save", !.insert = rest, !.merge = merge,
                                   !.doomed = twice]
    BY <1>1, <2>6 DEF Fields
  <2>8. import' = [import EXCEPT ![b] = r]
    BY <2>5, <2>7
  <2>9. r.merge = merge
    BY <1>1, <2>7 DEF Fields
  <2>10. batch[b] = "none"
    BY <1>1, <1>5 DEF Facts!CheckDuplicates, Pending
  <2> QED BY <1>2, <1>5, <2>4, <2>6, <2>8, <2>9, <2>10 DEF Facts!CheckDuplicates, Pending, FactsInv
<1>6. ASSUME NEW b \in Import, Facts!CommitRefused(b)
      PROVE  FactsInv'
  <2>1. PICK r \in Fields : r = [import[b] EXCEPT !.pc = "done"]
    BY <1>1 DEF Fields
  <2>2. r.pc = "done"
    BY <1>1, <2>1 DEF Fields
  <2> QED BY <1>2, <1>6, <2>1, <2>2 DEF Facts!CommitRefused, Pending, FactsInv
\* A commit: what the batch saves, and what it had found on record before.
<1>7. ASSUME NEW b \in Import, Facts!Commit(b)
      PROVE  FactsInv'
  <2> DEFINE insert == import[b].insert
             merge  == import[b].merge
             accept == import[b].accept
             saved  == Facts!Saved(b)
             new(k)  == \E v \in Facts!Value : <<k, v>> \in insert
             more(k) == accept /\ \E v \in Facts!Value : <<k, v>> \in merge
  <2>1. /\ insert \subseteq Facts!Entry /\ merge \subseteq Facts!Entry
        /\ accept \in BOOLEAN /\ ~import[b].doomed /\ import[b].pc = "save"
    BY <1>1, <1>7 DEF Fields, Facts!Commit, Facts!Refused
  <2>2. ASSUME NEW k \in FactKey, new(k)
        PROVE  \E v \in Facts!Value : <<k, v>> \in insert
                 /\ saved[k] = [value |-> v, verified |-> accept,
                                status |-> IF accept THEN "active" ELSE "extracted", of |-> b]
    <3>1. saved[k] = [value |-> CHOOSE v \in Facts!Value : <<k, v>> \in insert,
                      verified |-> accept,
                      status |-> IF accept THEN "active" ELSE "extracted", of |-> b]
      BY <2>2 DEF Facts!Saved
    <3> DEFINE w == CHOOSE v \in Facts!Value : <<k, v>> \in insert
    <3>2. w \in Facts!Value /\ <<k, w>> \in insert
      BY <2>2
    <3> HIDE DEF w
    <3>3. saved[k] = [value |-> w, verified |-> accept,
                      status |-> IF accept THEN "active" ELSE "extracted", of |-> b]
      BY <3>1 DEF w
    <3> HIDE DEF saved, insert, accept
    <3> QED BY <3>2, <3>3
  <2>3. ASSUME NEW k \in FactKey, ~new(k), more(k)
        PROVE  /\ facts[k] \in Facts!Fact
               /\ \E v \in Facts!Value : <<k, v>> \in merge /\ saved[k] = [facts[k] EXCEPT !.value = v]
    <3> DEFINE w == CHOOSE v \in Facts!Value : <<k, v>> \in merge
    <3>1. saved[k] = [facts[k] EXCEPT !.value = w]
      BY <2>3 DEF Facts!Saved
    <3>2. w \in Facts!Value /\ <<k, w>> \in merge
      BY <2>3
    <3>3. <<k, w>>[1] = k
      OBVIOUS
    <3>4. facts[k] # Facts!Absent
      BY <1>1, <2>1, <2>3, <3>2, <3>3 DEF Pending
    <3> HIDE DEF w, saved
    <3> QED BY <1>1, <3>1, <3>2, <3>4
  <2>4. ASSUME NEW k \in FactKey, ~new(k), ~more(k)
        PROVE  saved[k] = facts[k]
    BY <2>4 DEF Facts!Saved
  <2> HIDE DEF saved, insert, merge, accept
  \* A new fact is one of the batch, a merged one the fact it was but for its value.
  <2>5. ASSUME NEW k \in FactKey
        PROVE  /\ saved[k] \in Facts!Fact \cup {Facts!Absent}
               /\ facts[k] # Facts!Absent => saved[k] # Facts!Absent
               /\ saved[k] # Facts!Absent =>
                    saved[k].of = b \/ (saved[k].of = facts[k].of /\ facts[k] # Facts!Absent)
    <3>1. CASE new(k)
      <4>1. PICK v \in Facts!Value : <<k, v>> \in insert
                 /\ saved[k] = [value |-> v, verified |-> accept,
                                status |-> IF accept THEN "active" ELSE "extracted", of |-> b]
        BY <2>2, <3>1
      <4>2. saved[k] \in Facts!Fact /\ saved[k].of = b
        BY <2>1, <4>1 DEF Facts!Fact
      <4> QED BY <4>2, AbsentIsNoFact
    <3>2. CASE ~new(k) /\ more(k)
      <4>1. PICK v \in Facts!Value : <<k, v>> \in merge /\ saved[k] = [facts[k] EXCEPT !.value = v]
        BY <2>3, <3>2
      <4>2. facts[k] \in Facts!Fact
        BY <2>3, <3>2
      <4>3. saved[k] \in Facts!Fact /\ saved[k].of = facts[k].of
        BY <4>1, <4>2 DEF Facts!Fact
      <4> QED BY <4>2, <4>3, AbsentIsNoFact
    <3>3. CASE ~new(k) /\ ~more(k)
      BY <1>1, <2>4, <3>3
    <3> QED BY <3>1, <3>2, <3>3
  <2>6. facts' = saved /\ sending' = sending \cup {Facts!Content(saved)}
    BY <1>7 DEF Facts!Commit, Facts!Change, saved
  <2>7. facts' \in [FactKey -> Facts!Fact \cup {Facts!Absent}]
    <3>1. saved = [k \in FactKey |-> saved[k]]
      BY DEF saved, Facts!Saved
    <3> QED BY <2>5, <2>6, <3>1
  <2>8. reviewed' = reviewed \cup (IF accept THEN insert \cup merge ELSE {})
    BY <1>7 DEF Facts!Commit, accept, insert, merge
  <2>9. Facts!Content(saved) \subseteq reviewed'
    <3> SUFFICES ASSUME NEW e \in Facts!Content(saved) PROVE e \in reviewed'
      OBVIOUS
    <3>1. PICK k \in FactKey, v \in Facts!Value : e = <<k, v>>
      BY DEF Facts!Content, Facts!Entry
    <3>2. saved[k].verified /\ saved[k].value = v
      BY <3>1 DEF Facts!Content
    <3>3. CASE new(k)
      <4>1. PICK w \in Facts!Value : <<k, w>> \in insert
                 /\ saved[k] = [value |-> w, verified |-> accept,
                                status |-> IF accept THEN "active" ELSE "extracted", of |-> b]
        BY <2>2, <3>3
      <4>2. accept /\ w = v
        BY <3>2, <4>1
      <4> QED BY <2>8, <3>1, <4>1, <4>2
    <3>4. CASE ~new(k) /\ more(k)
      <4>1. PICK w \in Facts!Value : <<k, w>> \in merge /\ saved[k] = [facts[k] EXCEPT !.value = w]
        BY <2>3, <3>4
      <4>2. facts[k] \in Facts!Fact
        BY <2>3, <3>4
      <4>3. w = v
        BY <3>2, <4>1, <4>2 DEF Facts!Fact
      <4> QED BY <2>8, <3>1, <3>4, <4>1, <4>3
    <3>5. CASE ~new(k) /\ ~more(k)
      <4>1. e \in Facts!Content(facts)
        BY <2>4, <3>1, <3>2, <3>5 DEF Facts!Content, Facts!Entry
      <4> QED BY <1>1, <2>8, <4>1
    <3> QED BY <3>3, <3>4, <3>5
  <2>10. batch' = [batch EXCEPT ![b] = "completed"] /\ UNCHANGED <<profile, changes>>
    BY <1>7 DEF Facts!Commit
  <2>11. Facts!FactsHaveTheirBatch'
    <3> SUFFICES ASSUME NEW k \in FactKey, saved[k] # Facts!Absent, saved[k].of \in Import
                 PROVE  batch'[saved[k].of] \in {"completed", "undone"}
      BY <2>6 DEF Facts!FactsHaveTheirBatch, Facts!Exists
    <3>1. CASE saved[k].of = b
      BY <2>10, <3>1 DEF FactsInv
    <3>2. CASE saved[k].of # b
      <4>1. batch[facts[k].of] \in {"completed", "undone"} /\ saved[k].of = facts[k].of
        BY <2>5, <3>2 DEF FactsInv, Facts!FactsHaveTheirBatch, Facts!Exists
      <4> QED BY <2>10, <3>2, <4>1 DEF FactsInv
    <3> QED BY <3>1, <3>2
  <2>12. PICK r \in Fields : r = [import[b] EXCEPT !.pc = "done"]
    BY <1>1 DEF Fields
  <2>13. r.pc = "done" /\ import' = [import EXCEPT ![b] = r]
    BY <1>1, <1>7, <2>12 DEF Facts!Commit, Fields
  <2>14. import' \in [Import -> Fields]
    BY <2>13 DEF FactsInv
  <2>15. \A c \in Import : Pending(import'[c], c, batch', facts')
    <3> SUFFICES ASSUME NEW c \in Import, c # b PROVE Pending(import[c], c, batch', saved)
      BY <2>6, <2>13 DEF FactsInv, Pending
    <3>1. batch'[c] = batch[c]
      BY <2>10 DEF FactsInv
    <3>2. \A e \in import[c].merge : e[1] \in FactKey
      BY <1>1 DEF Fields, Facts!Entry
    <3> QED BY <1>1, <2>5, <3>1, <3>2 DEF Pending
  <2>16. reviewed \subseteq reviewed' /\ reviewed' \subseteq Facts!Entry
    BY <2>1, <2>8 DEF FactsInv
  <2>17. batch' \in [Import -> {"none", "completed", "failed", "undone"}] /\ changes' \in 0..MaxChanges
    BY <2>10 DEF FactsInv
  <2> QED BY <2>6, <2>7, <2>9, <2>10, <2>11, <2>14, <2>15, <2>16, <2>17, FactsSum
<1>8. ASSUME NEW b \in Import, Facts!Undo(b)
      PROVE  FactsInv'
  <2>1. \A k \in FactKey : facts'[k] = IF facts[k].of = b /\ ~facts[k].verified
                                       THEN [facts[k] EXCEPT !.status = "superseded"] ELSE facts[k]
    BY <1>8 DEF Facts!Undo
  <2>2. ASSUME NEW k \in FactKey
        PROVE  /\ facts'[k] \in Facts!Fact \cup {Facts!Absent}
               /\ facts[k] # Facts!Absent <=> facts'[k] # Facts!Absent
               /\ facts'[k].of = facts[k].of /\ facts'[k].verified = facts[k].verified
               /\ facts'[k].value = facts[k].value
    <3>1. CASE facts[k].of = b /\ ~facts[k].verified
      <4>1. facts[k] # Facts!Absent
        BY <3>1, AbsentIsNoFact, KnowledgeAssumption
      <4>2. facts[k] \in Facts!Fact
        BY <1>1, <4>1
      <4>3. facts'[k] = [facts[k] EXCEPT !.status = "superseded"]
        BY <2>1, <3>1
      <4> HIDE DEF Facts!Absent
      <4>4. facts'[k] \in Facts!Fact /\ facts'[k].of = facts[k].of
            /\ facts'[k].verified = facts[k].verified /\ facts'[k].value = facts[k].value
        BY <4>2, <4>3 DEF Facts!Fact
      <4> QED BY <4>1, <4>4, AbsentIsNoFact
    <3>2. CASE ~(facts[k].of = b /\ ~facts[k].verified)
      BY <1>1, <2>1, <3>2
    <3> QED BY <3>1, <3>2
  <2>3. facts' \in [FactKey -> Facts!Fact \cup {Facts!Absent}]
    <3>1. facts' = [k \in FactKey |-> facts'[k]]
      BY <1>8 DEF Facts!Undo
    <3> QED BY <2>2, <3>1
  <2>4. Facts!Content(facts') \subseteq reviewed'
    <3>1. \A e \in Facts!Entry : e[1] \in FactKey
      BY DEF Facts!Entry
    <3>2. Facts!Content(facts') \subseteq Facts!Content(facts)
      BY <2>2, <3>1 DEF Facts!Content
    <3> QED BY <1>1, <1>8, <3>2 DEF Facts!Undo
  <2>5. /\ batch' = [batch EXCEPT ![b] = "undone"] /\ batch[b] # "none"
        /\ UNCHANGED <<import, sending, profile, reviewed, changes>>
    BY <1>8 DEF Facts!Undo
  <2>6. Facts!FactsHaveTheirBatch'
    BY <2>2, <2>5 DEF FactsInv, Facts!FactsHaveTheirBatch, Facts!Exists
  <2>7. \A c \in Import : Pending(import'[c], c, batch', facts')
    <3> SUFFICES ASSUME NEW c \in Import PROVE Pending(import[c], c, batch', facts')
      BY <2>5
    <3>1. batch'[c] = "none" <=> batch[c] = "none"
      BY <2>5 DEF FactsInv
    <3>2. \A e \in import[c].merge : e[1] \in FactKey
      BY <1>1 DEF Fields, Facts!Entry
    <3> QED BY <1>1, <2>2, <3>1, <3>2 DEF Pending
  <2> QED BY <2>3, <2>4, <2>5, <2>6, <2>7, FactsSum DEF FactsInv
\* A change of the person's own, after which the imports find their merges or are spoilt.
<1>9. ASSUME NEW f, NEW verified \in SUBSET Facts!Entry, Facts!Edit(f, verified),
             f \in [FactKey -> Facts!Fact \cup {Facts!Absent}],
             \A k \in FactKey : f[k] # Facts!Absent /\ f[k].of \in Import
                               => facts[k] # Facts!Absent /\ f[k].of = facts[k].of,
             Facts!Content(f) \subseteq Facts!Content(facts) \cup verified,
             import' \in [Import -> Fields],
             \A b \in Import : Pending(import'[b], b, batch, f)
      PROVE  FactsInv'
  <2>1. /\ facts' = f /\ sending' = sending \cup {Facts!Content(f)}
        /\ reviewed' = reviewed \cup verified /\ changes < MaxChanges /\ changes' = changes + 1
        /\ UNCHANGED <<batch, profile>>
    BY <1>9 DEF Facts!Edit, Facts!Change
  <2>2. changes' \in 0..MaxChanges
    BY <2>1, KnowledgeAssumption DEF FactsInv
  <2>3. Facts!FactsHaveTheirBatch'
    BY <1>9, <2>1 DEF FactsInv, Facts!FactsHaveTheirBatch, Facts!Exists
  <2>4. Facts!Content(facts') \subseteq reviewed' /\ reviewed' \subseteq Facts!Entry
    BY <1>1, <1>9, <2>1 DEF FactsInv
  <2> QED BY <1>9, <2>1, <2>2, <2>3, <2>4, FactsSum DEF FactsInv
<1>10. ASSUME NEW k \in FactKey, NEW v \in Facts!Value, NEW verified \in BOOLEAN,
              Facts!AddFact(k, v, verified)
       PROVE  FactsInv'
  <2> DEFINE f == [facts EXCEPT ![k] = [value |-> v, verified |-> verified, status |-> "active",
                                        of |-> Manual]]
             new == [value |-> v, verified |-> verified, status |-> "active", of |-> Manual]
  <2>1. Facts!Edit(f, Facts!Verified(k, v, verified)) /\ UNCHANGED import
    BY <1>10 DEF Facts!AddFact
  <2>2. new \in Facts!Fact /\ new.of = Manual /\ new.verified = verified /\ new.value = v
    BY DEF Facts!Fact
  <2>3. f = [facts EXCEPT ![k] = new]
    OBVIOUS
  <2> HIDE DEF f, new
  <2>4. /\ f[k] = new /\ \A j \in FactKey : j # k => f[j] = facts[j]
        /\ f \in [FactKey -> Facts!Fact \cup {Facts!Absent}]
    BY <2>2, <2>3 DEF FactsInv
  <2>5. \A j \in FactKey : f[j] # Facts!Absent /\ f[j].of \in Import
                            => facts[j] # Facts!Absent /\ f[j].of = facts[j].of
    BY <2>2, <2>4, KnowledgeAssumption
  <2>6. Facts!Verified(k, v, verified) \in SUBSET Facts!Entry
    BY DEF Facts!Verified, Facts!Entry
  <2>7. Facts!Content(f) \subseteq Facts!Content(facts) \cup Facts!Verified(k, v, verified)
    <3> SUFFICES ASSUME NEW j \in FactKey, NEW w \in Facts!Value, <<j, w>> \in Facts!Content(f)
                 PROVE  <<j, w>> \in Facts!Content(facts) \cup Facts!Verified(k, v, verified)
      BY DEF Facts!Content, Facts!Entry
    <3>1. f[j].verified /\ f[j].value = w
      BY DEF Facts!Content
    <3>2. CASE j = k
      BY <2>2, <2>4, <3>1, <3>2 DEF Facts!Verified
    <3>3. CASE j # k
      BY <2>4, <3>1, <3>3 DEF Facts!Content, Facts!Entry
    <3> QED BY <3>2, <3>3
  <2>8. \A b \in Import : Pending(import[b], b, batch, f)
    <3> SUFFICES ASSUME NEW b \in Import PROVE Pending(import[b], b, batch, f)
      OBVIOUS
    <3>1. \A e \in import[b].merge : e[1] \in FactKey
      BY <1>1 DEF Fields, Facts!Entry
    <3>2. new # Facts!Absent
      BY <2>2, AbsentIsNoFact
    <3> QED BY <1>1, <2>4, <3>1, <3>2 DEF Pending
  <2>9. import' \in [Import -> Fields] /\ \A b \in Import : Pending(import'[b], b, batch, f)
    BY <2>1, <2>8 DEF FactsInv
  <2> QED BY <1>9, <2>1, <2>4, <2>5, <2>6, <2>7, <2>9
<1>11. ASSUME NEW k \in FactKey, NEW v \in Facts!Value, NEW verified \in BOOLEAN,
              Facts!UpdateFact(k, v, verified)
       PROVE  FactsInv'
  <2> DEFINE f == [facts EXCEPT ![k].value = v, ![k].verified = verified]
  <2>1. Facts!Edit(f, Facts!Verified(k, v, verified)) /\ UNCHANGED import
        /\ facts[k] # Facts!Absent
    BY <1>11 DEF Facts!UpdateFact, Facts!Exists
  <2>2. facts[k] \in Facts!Fact
    BY <1>1, <2>1
  <2>3. PICK new \in Facts!Fact : new = [facts[k] EXCEPT !.value = v, !.verified = verified]
    BY <2>2 DEF Facts!Fact
  <2>4. f = [facts EXCEPT ![k] = new]
    BY <2>2, <2>3 DEF FactsInv
  <2> HIDE DEF f
  <2>5. new.of = facts[k].of /\ new.verified = verified /\ new.value = v
    BY <2>2, <2>3 DEF Facts!Fact
  <2>6. /\ f[k] = new /\ \A j \in FactKey : j # k => f[j] = facts[j]
        /\ f \in [FactKey -> Facts!Fact \cup {Facts!Absent}]
    BY <2>4 DEF FactsInv
  <2>7. \A j \in FactKey : f[j] # Facts!Absent /\ f[j].of \in Import
                            => facts[j] # Facts!Absent /\ f[j].of = facts[j].of
    BY <2>1, <2>5, <2>6
  <2>8. Facts!Verified(k, v, verified) \in SUBSET Facts!Entry
    BY DEF Facts!Verified, Facts!Entry
  <2>9. Facts!Content(f) \subseteq Facts!Content(facts) \cup Facts!Verified(k, v, verified)
    <3> SUFFICES ASSUME NEW j \in FactKey, NEW w \in Facts!Value, <<j, w>> \in Facts!Content(f)
                 PROVE  <<j, w>> \in Facts!Content(facts) \cup Facts!Verified(k, v, verified)
      BY DEF Facts!Content, Facts!Entry
    <3>1. f[j].verified /\ f[j].value = w
      BY DEF Facts!Content
    <3>2. CASE j = k
      BY <2>5, <2>6, <3>1, <3>2 DEF Facts!Verified
    <3>3. CASE j # k
      BY <2>6, <3>1, <3>3 DEF Facts!Content, Facts!Entry
    <3> QED BY <3>2, <3>3
  <2>10. \A b \in Import : Pending(import[b], b, batch, f)
    <3> SUFFICES ASSUME NEW b \in Import PROVE Pending(import[b], b, batch, f)
      OBVIOUS
    <3>1. \A e \in import[b].merge : e[1] \in FactKey
      BY <1>1 DEF Fields, Facts!Entry
    <3>2. new # Facts!Absent
      BY <2>3, AbsentIsNoFact
    <3> QED BY <1>1, <2>6, <3>1, <3>2 DEF Pending
  <2>11. import' \in [Import -> Fields] /\ \A b \in Import : Pending(import'[b], b, batch, f)
    BY <2>1, <2>10 DEF FactsInv
  <2> QED BY <1>9, <2>1, <2>6, <2>7, <2>8, <2>9, <2>11
<1>12. ASSUME NEW k \in FactKey, Facts!DeleteFact(k)
       PROVE  FactsInv'
  <2> DEFINE f == [facts EXCEPT ![k] = Facts!Absent]
             spoilt(b) == import[b].accept /\ \E e \in import[b].merge : e[1] = k
  <2>1. /\ Facts!Edit(f, {})
        /\ import' = [b \in Import |-> IF spoilt(b) THEN [import[b] EXCEPT !.doomed = TRUE]
                                                    ELSE import[b]]
    BY <1>12 DEF Facts!DeleteFact
  <2>2. ASSUME NEW b \in Import
        PROVE  import'[b] \in Fields /\ Pending(import'[b], b, batch, f)
    <3>1. CASE spoilt(b)
      <4>1. PICK r \in Fields : r = [import[b] EXCEPT !.doomed = TRUE]
        BY <1>1 DEF Fields
      <4>2. r.pc = import[b].pc /\ r.doomed
        BY <1>1, <4>1 DEF Fields
      <4> QED BY <1>1, <2>1, <3>1, <4>1, <4>2 DEF Pending
    <3>2. CASE ~spoilt(b)
      <4>1. import[b].accept => \A e \in import[b].merge : e[1] \in FactKey \ {k}
        BY <1>1, <3>2 DEF Fields, Facts!Entry
      <4> QED BY <1>1, <2>1, <3>2, <4>1 DEF Pending, FactsInv
    <3> QED BY <3>1, <3>2
  <2>3. import' \in [Import -> Fields]
    <3> HIDE DEF spoilt
    <3> QED BY <2>1, <2>2
  <2>4. f \in [FactKey -> Facts!Fact \cup {Facts!Absent}]
    BY DEF FactsInv
  <2>5. \A j \in FactKey : f[j] # Facts!Absent => f[j] = facts[j]
    BY DEF FactsInv
  <2>6. Facts!Content(f) \subseteq Facts!Content(facts)
    <3> SUFFICES ASSUME NEW j \in FactKey, NEW w \in Facts!Value, <<j, w>> \in Facts!Content(f)
                 PROVE  <<j, w>> \in Facts!Content(facts)
      BY DEF Facts!Content, Facts!Entry
    <3>1. f[j].verified /\ f[j].value = w
      BY DEF Facts!Content
    <3>2. f[j] = facts[j]
      <4>1. f[j].verified => f[j] # Facts!Absent
        BY AbsentIsNoFact
      <4> QED BY <2>5, <3>1, <4>1
    <3> QED BY <3>1, <3>2 DEF Facts!Content, Facts!Entry
  <2> HIDE DEF f
  <2> QED BY <1>9, <2>1, <2>2, <2>3, <2>4, <2>5, <2>6
<1>13. ASSUME NEW c \in sending, Facts!Indexed(c) \/ Facts!NotIndexed(c)
       PROVE  FactsInv'
  <2>1. /\ sending' \subseteq sending /\ profile' \in {profile, c}
        /\ UNCHANGED <<facts, batch, import, reviewed, changes>>
    BY <1>13 DEF Facts!Indexed, Facts!NotIndexed
  <2>2. (Facts!OnlyReviewedIsIndexed)' /\ Facts!FactsHaveTheirBatch'
    BY <2>1 DEF FactsInv, Facts!OnlyReviewedIsIndexed, Facts!FactsHaveTheirBatch, Facts!Exists,
                Facts!Content
  <2> QED BY <2>1, <2>2 DEF FactsInv
<1>14. CASE UNCHANGED Facts!vars
  BY <1>14 DEF Facts!vars, FactsInv, Facts!OnlyReviewedIsIndexed, Facts!FactsHaveTheirBatch,
               Facts!Exists, Facts!Content
<1> QED
  BY <1>3, <1>4, <1>5, <1>6, <1>7, <1>8, <1>10, <1>11, <1>12, <1>13, <1>14 DEF Facts!Next

-------------------------------------------------------------------------------
(* Tasks                                                                    *)

TaskRow == [version : 0..MaxConfirms, tries : Nat,
            state : Resumes!Active \cup {"completed", "failed", "deleted"}]
Sender  == [pc : {"idle", "sending", "stored", "refused"}, task : Nat, content : 0..MaxConfirms]

\* A slot at work sends at least the content its task was made for.
Carries(r, rows, newest) ==
  r.pc # "idle" => /\ r.task \in 1..Len(rows) /\ rows[r.task].version <= r.content
                   /\ r.pc = "stored" => r.content <= newest

TasksInv ==
  /\ resume \in -1..MaxConfirms /\ tasks \in Seq(TaskRow)
  /\ sync \in [Slot -> Sender] /\ {direct, served} \subseteq 0..MaxConfirms
  /\ resume # Resumes!Gone => \A i \in 1..Len(tasks) : tasks[i].version <= resume
  /\ \A s \in Slot : Carries(sync[s], tasks, served)
  /\ Resumes!CompletedWasStored
  /\ \A i, j \in 1..Len(tasks) :
       tasks[i].state \in Resumes!Active /\ tasks[j].state \in Resumes!Active => i = j

LEMMA TaskLimits ==
  MaxConfirms \in Nat /\ MaxTasks \in Nat /\ MaxTries \in Nat /\ MaxTries > 0
BY KnowledgeAssumption

LEMMA Versions ==
  ASSUME TasksInv, NEW i \in 1..Len(tasks)
  PROVE  tasks[i] \in TaskRow /\ tasks[i].version \in 0..MaxConfirms /\ tasks[i].version \in Nat
<1>1. tasks[i] \in TaskRow
  BY DEF TasksInv
<1> QED BY <1>1, TaskLimits DEF TaskRow

LEMMA TasksBegin == Resumes!Init => TasksInv
<1> SUFFICES ASSUME Resumes!Init PROVE TasksInv
  OBVIOUS
<1>1. 0 \in 0..MaxConfirms /\ 0 \in -1..MaxConfirms
  BY TaskLimits
<1>2. tasks \in Seq(TaskRow) /\ Len(tasks) = 0 /\ 1..Len(tasks) = {}
  BY DEF Resumes!Init
<1>3. sync \in [Slot -> Sender] /\ \A s \in Slot : sync[s].pc = "idle"
  BY <1>1 DEF Resumes!Init, Resumes!Idle, Sender
<1> QED
  BY <1>1, <1>2, <1>3 DEF Resumes!Init, TasksInv, Carries, Resumes!CompletedWasStored

\* A row that stays what it was made for, is not made active, and is completed only
\* when it was stored.
Outlives(row, before, newest) ==
  /\ row \in TaskRow /\ row.version = before.version
  /\ row.state \in Resumes!Active => before.state \in Resumes!Active
  /\ row.state = "completed" => before.state = "completed" \/ row.version <= newest

LEMMA TasksGoOn ==
  ASSUME TasksInv, resume' \in {resume, Resumes!Gone}, UNCHANGED <<direct, served>>,
         tasks' \in Seq(TaskRow), Len(tasks') = Len(tasks),
         \A i \in 1..Len(tasks) : Outlives(tasks'[i], tasks[i], served),
         sync' \in [Slot -> Sender],
         \A s \in Slot : sync'[s] # sync[s] => Carries(sync'[s], tasks, served)
  PROVE  TasksInv'
<1>1. resume' \in -1..MaxConfirms
  BY TaskLimits DEF TasksInv, Resumes!Gone
<1>2. resume' # Resumes!Gone => \A i \in 1..Len(tasks') : tasks'[i].version <= resume'
  BY DEF TasksInv, Outlives
<1>3. \A s \in Slot : Carries(sync'[s], tasks', served')
  <2> SUFFICES ASSUME NEW s \in Slot PROVE Carries(sync'[s], tasks', served')
    OBVIOUS
  <2>1. Carries(sync'[s], tasks, served)
    BY DEF TasksInv
  <2> QED BY <2>1 DEF Carries, Outlives
<1>4. Resumes!CompletedWasStored'
  BY DEF TasksInv, Resumes!CompletedWasStored, Outlives
<1>5. \A i, j \in 1..Len(tasks') :
        tasks'[i].state \in Resumes!Active /\ tasks'[j].state \in Resumes!Active => i = j
  BY DEF TasksInv, Outlives
<1> QED BY <1>1, <1>2, <1>3, <1>4, <1>5 DEF TasksInv

\* The row of one task is written.
LEMMA OneOutlives ==
  ASSUME TasksInv, NEW i \in 1..Len(tasks), NEW row,
         Outlives(row, tasks[i], served), tasks' = [tasks EXCEPT ![i] = row]
  PROVE  /\ tasks' \in Seq(TaskRow) /\ Len(tasks') = Len(tasks)
         /\ \A j \in 1..Len(tasks) : Outlives(tasks'[j], tasks[j], served)
<1>1. row \in TaskRow /\ tasks \in Seq(TaskRow)
  BY DEF Outlives, TasksInv
<1>2. /\ tasks' \in Seq(TaskRow) /\ Len(tasks') = Len(tasks)
      /\ \A j \in 1..Len(tasks) : tasks'[j] = IF j = i THEN row ELSE tasks[j]
  BY <1>1, ExceptSeq
<1>3. \A j \in 1..Len(tasks) : Outlives(tasks[j], tasks[j], served)
  BY <1>1 DEF Outlives
<1> QED BY <1>2, <1>3

\* A task is made for the content there is, when none is active.
LEMMA TasksSchedule ==
  ASSUME TasksInv, NEW version \in 0..MaxConfirms, Resumes!Scheduled(version),
         resume # Resumes!Gone, resume <= version, resume' = version,
         UNCHANGED <<sync, direct, served>>
  PROVE  TasksInv'
<1>0. resume \in Int /\ version \in Int /\ \A n \in 0..MaxConfirms : n \in Int
  BY TaskLimits DEF TasksInv
<1>1. tasks \in Seq(TaskRow) /\ resume' # Resumes!Gone /\ resume' \in -1..MaxConfirms
  BY TaskLimits DEF TasksInv, Resumes!Gone
<1>2. CASE UNCHANGED tasks
  <2>1. \A i \in 1..Len(tasks) : tasks[i].version \in 0..MaxConfirms /\ tasks[i].version <= resume
    BY <1>1, Versions DEF TasksInv
  <2>2. \A i \in 1..Len(tasks) : tasks[i].version <= version
    BY <1>0, <2>1
  <2> QED BY <1>1, <1>2, <2>2 DEF TasksInv, Resumes!CompletedWasStored
<1>3. CASE ~Resumes!HasActive /\ Resumes!Appended(version)
  <2>1. PICK state \in {"scheduled", "pending"} :
          tasks' = Append(tasks, [version |-> version, tries |-> 0, state |-> state])
    BY <1>3 DEF Resumes!Appended
  <2> DEFINE row == [version |-> version, tries |-> 0, state |-> state]
  <2>2. row \in TaskRow /\ row.version = version /\ row.state # "completed"
    BY DEF TaskRow, Resumes!Active, Resumes!Claimable
  <2> HIDE DEF row
  <2>3. /\ tasks' \in Seq(TaskRow) /\ Len(tasks') = Len(tasks) + 1 /\ Len(tasks) \in Nat
        /\ tasks'[Len(tasks) + 1] = row /\ \A i \in 1..Len(tasks) : tasks'[i] = tasks[i]
    BY <1>1, <2>1, <2>2 DEF row
  <2>4. \A i \in 1..Len(tasks') : i \in 1..Len(tasks) \/ i = Len(tasks) + 1
    BY <2>3
  <2>5. \A i \in 1..Len(tasks) : tasks[i].version \in 0..MaxConfirms /\ tasks[i].version <= resume
    BY <1>1, Versions DEF TasksInv
  <2>6. \A i \in 1..Len(tasks') : tasks'[i].version <= version
    <3>1. ASSUME NEW i \in 1..Len(tasks) PROVE tasks'[i].version <= version
      <4>1. tasks[i].version \in Int /\ resume \in Int /\ version \in Int
        BY <1>0, <2>5
      <4> QED BY <2>3, <2>5, <4>1
    <3> QED BY <2>2, <2>3, <2>4, <3>1
  <2>7. \A s \in Slot : Carries(sync'[s], tasks', served')
    BY <2>3 DEF TasksInv, Carries
  <2>8. Resumes!CompletedWasStored'
    BY <2>2, <2>3, <2>4 DEF TasksInv, Resumes!CompletedWasStored
  <2>9. \A i, j \in 1..Len(tasks') :
          tasks'[i].state \in Resumes!Active /\ tasks'[j].state \in Resumes!Active => i = j
    BY <1>3, <2>3, <2>4 DEF Resumes!HasActive
  <2> QED BY <1>1, <2>3, <2>6, <2>7, <2>8, <2>9 DEF TasksInv
<1> QED BY <1>2, <1>3 DEF Resumes!Scheduled

\* The service stores a content no older than any it has.
LEMMA TasksStore ==
  ASSUME TasksInv, NEW content \in 0..MaxConfirms, Resumes!Stores(content),
         sync' \in [Slot -> Sender], direct' \in 0..MaxConfirms,
         \A s \in Slot : \/ sync'[s] = sync[s]
                         \/ /\ sync'[s].task = sync[s].task /\ sync'[s].content = sync[s].content
                            /\ sync[s].pc # "idle" /\ sync[s].content = content,
         UNCHANGED <<resume, tasks>>
  PROVE  TasksInv'
<1>1. served' \in 0..MaxConfirms /\ served <= served' /\ content <= served'
  BY TaskLimits DEF TasksInv, Resumes!Stores
<1>2. served \in Nat /\ served' \in Nat /\ content \in Nat
  BY <1>1, TaskLimits DEF TasksInv
<1>3. \A s \in Slot : Carries(sync'[s], tasks', served')
  <2> SUFFICES ASSUME NEW s \in Slot PROVE Carries(sync'[s], tasks, served')
    OBVIOUS
  <2>1. Carries(sync[s], tasks, served) /\ sync[s].content \in Nat
    BY TaskLimits DEF TasksInv, Sender
  <2> QED BY <1>1, <1>2, <2>1 DEF Carries
<1>4. Resumes!CompletedWasStored'
  <2>1. \A i \in 1..Len(tasks) : tasks[i].version \in Nat
    BY Versions
  <2> QED BY <1>1, <1>2, <2>1 DEF TasksInv, Resumes!CompletedWasStored
<1> QED BY <1>1, <1>3, <1>4 DEF TasksInv

LEMMA TasksStep == TasksInv /\ [Resumes!Next]_(Resumes!vars) => TasksInv'
<1> SUFFICES ASSUME TasksInv, [Resumes!Next]_(Resumes!vars) PROVE TasksInv'
  OBVIOUS
<1>1. /\ resume \in -1..MaxConfirms /\ direct \in 0..MaxConfirms /\ MaxConfirms \in Nat
      /\ tasks \in Seq(TaskRow) /\ \A s \in Slot : sync[s] \in Sender /\ Carries(sync[s], tasks, served)
      /\ \A i \in 1..Len(tasks) : tasks[i] \in TaskRow
      /\ Resumes!Idle \in Sender /\ Carries(Resumes!Idle, tasks, served)
  BY TaskLimits DEF TasksInv, Resumes!Idle, Sender, Carries
<1>2. CASE Resumes!Confirm \/ Resumes!SendToRag
  <2>1. /\ resume' \in 0..MaxConfirms /\ Resumes!Scheduled(resume') /\ resume # Resumes!Gone
        /\ resume <= resume' /\ UNCHANGED <<sync, direct, served>>
    BY <1>1, <1>2 DEF Resumes!Confirm, Resumes!SendToRag, Resumes!Gone
  <2> QED BY <2>1, TasksSchedule
\* The tasks stay, and a slot goes on or stops.
<1>3. ASSUME NEW s \in Slot, NEW r \in Sender, Carries(r, tasks, served),
             sync' = [sync EXCEPT ![s] = r], tasks' = tasks,
             resume' \in {resume, Resumes!Gone}, UNCHANGED <<direct, served>>
      PROVE  TasksInv'
  <2>1. /\ sync' \in [Slot -> Sender]
        /\ \A t \in Slot : sync'[t] # sync[t] => Carries(sync'[t], tasks, served)
    BY <1>3 DEF TasksInv
  <2>2. \A i \in 1..Len(tasks) : Outlives(tasks'[i], tasks[i], served)
    BY <1>1, <1>3 DEF Outlives
  <2> QED BY <1>1, <1>3, <2>1, <2>2, TasksGoOn
\* A slot writes the row of a task.
<1>4. ASSUME NEW s \in Slot, NEW r \in Sender, Carries(r, tasks, served),
             NEW i \in 1..Len(tasks), NEW row, Outlives(row, tasks[i], served),
             sync' = [sync EXCEPT ![s] = r], tasks' = [tasks EXCEPT ![i] = row],
             UNCHANGED <<resume, direct, served>>
      PROVE  TasksInv'
  <2>1. /\ sync' \in [Slot -> Sender]
        /\ \A t \in Slot : sync'[t] # sync[t] => Carries(sync'[t], tasks, served)
    BY <1>4 DEF TasksInv
  <2> QED BY <1>4, <2>1, OneOutlives, TasksGoOn
<1>5. ASSUME NEW s \in Slot, NEW i \in 1..MaxTasks, Resumes!Claim(s, i)
      PROVE  TasksInv'
  <2>1. i \in 1..Len(tasks) /\ tasks[i].state \in Resumes!Claimable
    BY <1>5 DEF Resumes!Claim
  <2>2. tasks[i] \in TaskRow
    BY <1>1, <2>1
  <2>3. CASE resume = Resumes!Gone
    <3>1. PICK row \in TaskRow : row = [tasks[i] EXCEPT !.state = "failed"]
      BY <2>2 DEF TaskRow
    <3>2. Outlives(row, tasks[i], served)
      BY <2>2, <3>1 DEF Outlives, TaskRow, Resumes!Active, Resumes!Claimable
    <3>3. tasks' = [tasks EXCEPT ![i] = row] /\ UNCHANGED <<sync, resume, direct, served>>
      BY <1>5, <2>3, <3>1 DEF Resumes!Claim
    <3>4. sync' = [sync EXCEPT ![s] = sync[s]]
      BY <3>3 DEF TasksInv
    <3> QED BY <1>1, <1>4, <2>1, <3>2, <3>3, <3>4
  <2>4. CASE resume # Resumes!Gone
    <3> DEFINE n == tasks[i].tries + 1
               r == [pc |-> "sending", task |-> i, content |-> resume]
    <3>1. n \in Nat
      BY <2>2 DEF TaskRow
    <3> HIDE DEF n
    <3>2. PICK row \in TaskRow : row = [tasks[i] EXCEPT !.state = "running", !.tries = n]
      BY <2>2, <3>1 DEF TaskRow, Resumes!Active, Resumes!Claimable
    <3>3. Outlives(row, tasks[i], served)
      BY <2>1, <2>2, <3>2 DEF Outlives, TaskRow, Resumes!Active
    <3>4. /\ tasks' = [tasks EXCEPT ![i].state = "running", ![i].tries = @ + 1]
          /\ sync' = [sync EXCEPT ![s] = r] /\ UNCHANGED <<resume, direct, served>>
      BY <1>5, <2>4 DEF Resumes!Claim
    <3>5. tasks' = [tasks EXCEPT ![i] = row]
      BY <2>1, <3>2, <3>4 DEF n
    <3>6. r \in Sender
      <4>1. resume \in 0..MaxConfirms
        BY <1>1, <2>4 DEF Resumes!Gone
      <4> QED BY <2>1, <4>1 DEF Sender
    <3>7. Carries(r, tasks, served)
      BY <2>1, <2>4 DEF Carries, TasksInv
    <3> HIDE DEF r
    <3> QED BY <1>4, <2>1, <3>3, <3>4, <3>5, <3>6, <3>7
  <2> QED BY <2>3, <2>4
<1>6. ASSUME NEW s \in Slot, Resumes!Refuse(s)
      PROVE  TasksInv'
  <2>1. PICK r \in Sender : r = [sync[s] EXCEPT !.pc = "refused"]
    BY <1>1 DEF Sender
  <2>2. Carries(r, tasks, served)
    BY <1>1, <1>6, <2>1 DEF Carries, Sender, Resumes!Refuse
  <2>3. sync' = [sync EXCEPT ![s] = r]
    BY <1>1, <1>6, <2>1 DEF Resumes!Refuse
  <2> QED BY <1>3, <1>6, <2>2, <2>3 DEF Resumes!Refuse
<1>7. ASSUME NEW s \in Slot, Resumes!Store(s)
      PROVE  TasksInv'
  <2>1. PICK r \in Sender : r = [sync[s] EXCEPT !.pc = "stored"]
    BY <1>1 DEF Sender
  <2>2. r.task = sync[s].task /\ r.content = sync[s].content /\ sync[s].pc # "idle"
        /\ sync[s].content \in 0..MaxConfirms
    BY <1>1, <1>7, <2>1 DEF Sender, Resumes!Store
  <2>3. sync' = [sync EXCEPT ![s] = r]
    BY <1>1, <1>7, <2>1 DEF Resumes!Store
  <2>4. /\ sync' \in [Slot -> Sender]
        /\ \A t \in Slot : \/ sync'[t] = sync[t]
                           \/ /\ sync'[t].task = sync[t].task /\ sync'[t].content = sync[t].content
                              /\ sync[t].pc # "idle" /\ sync[t].content = sync[s].content
    BY <2>2, <2>3 DEF TasksInv
  <2>5. Resumes!Stores(sync[s].content) /\ UNCHANGED <<resume, tasks, direct>>
    BY <1>7 DEF Resumes!Store
  <2> QED BY <1>1, <2>2, <2>4, <2>5, TasksStore
\* The outcome of a sending, or what becomes of its row after a crash.
<1>8. ASSUME NEW s \in Slot, Resumes!Finish(s) \/ Resumes!CrashAndRecover(s)
      PROVE  TasksInv'
  <2> DEFINE i == sync[s].task
  <2>1. /\ i \in 1..Len(tasks) /\ sync' = [sync EXCEPT ![s] = Resumes!Idle]
        /\ UNCHANGED <<resume, direct, served>>
    BY <1>1, <1>8 DEF Resumes!Finish, Resumes!CrashAndRecover, Carries
  <2>2. CASE tasks[i].state # "running"
    <3>1. tasks' = tasks
      BY <1>8, <2>2 DEF Resumes!Finish, Resumes!CrashAndRecover
    <3> QED BY <1>1, <1>3, <2>1, <3>1
  <2>3. CASE tasks[i].state = "running"
    <3>1. \E x \in {"completed", "failed", "retry_scheduled", "scheduled"} :
             /\ tasks' = [tasks EXCEPT ![i].state = x]
             /\ x = "completed" => sync[s].pc = "stored"
      <4>1. CASE Resumes!Finish(s)
        <5>1. tasks' = [tasks EXCEPT ![i].state = Resumes!Outcome(s)]
          BY <2>3, <4>1 DEF Resumes!Finish
        <5>2. /\ Resumes!Outcome(s) \in {"completed", "failed", "retry_scheduled", "scheduled"}
              /\ Resumes!Outcome(s) = "completed" => sync[s].pc = "stored"
          BY DEF Resumes!Outcome
        <5> QED BY <5>1, <5>2
      <4>2. CASE Resumes!CrashAndRecover(s)
        <5> DEFINE x == IF tasks[i].state = "running" /\ tasks[i].tries < MaxTries
                          THEN "scheduled" ELSE "failed"
        <5>1. tasks' = [tasks EXCEPT ![i].state = x]
          BY <2>1, <2>3, <4>2 DEF Resumes!CrashAndRecover
        <5> QED BY <5>1
      <4> QED BY <1>8, <4>1, <4>2
    <3>2. PICK x \in {"completed", "failed", "retry_scheduled", "scheduled"} :
             /\ tasks' = [tasks EXCEPT ![i].state = x]
             /\ x = "completed" => sync[s].pc = "stored"
      BY <3>1
    <3>3. tasks[i] \in TaskRow
      BY <1>1, <2>1
    <3>4. PICK row \in TaskRow : row = [tasks[i] EXCEPT !.state = x]
      BY <3>3 DEF TaskRow, Resumes!Active, Resumes!Claimable
    <3>5. row.version = tasks[i].version /\ row.state = x
      BY <3>3, <3>4 DEF TaskRow
    <3>6. x = "completed" => row.version <= served
      <4>1. Carries(sync[s], tasks, served) /\ tasks[i].version \in Nat /\ served \in Nat
            /\ sync[s].content \in Nat
        BY <1>1, <2>1, Versions DEF TasksInv, Sender
      <4> QED BY <3>2, <3>5, <4>1 DEF Carries
    <3>7. Outlives(row, tasks[i], served)
      BY <2>3, <3>5, <3>6 DEF Outlives, Resumes!Active
    <3>8. tasks' = [tasks EXCEPT ![i] = row]
      BY <2>1, <3>2, <3>4
    <3> HIDE DEF i
    <3> QED BY <1>1, <1>4, <2>1, <3>7, <3>8
  <2> QED BY <2>2, <2>3
<1>9. CASE Resumes!DirectRead
  <2>1. direct' \in 0..MaxConfirms /\ UNCHANGED <<resume, tasks, sync, served>>
    BY <1>1, <1>9 DEF Resumes!DirectRead
  <2> QED BY <2>1 DEF TasksInv, Resumes!CompletedWasStored
<1>10. CASE Resumes!DirectStore
  <2>1. Resumes!Stores(direct) /\ direct' \in 0..MaxConfirms /\ UNCHANGED <<resume, tasks, sync>>
    BY <1>1, <1>10 DEF Resumes!DirectStore
  <2> QED BY <1>1, <2>1, TasksStore DEF TasksInv
<1>11. CASE Resumes!DirectFails \/ Resumes!DeleteCopy \/ UNCHANGED Resumes!vars
  <2>1. direct' \in 0..MaxConfirms /\ UNCHANGED <<resume, tasks, sync, served>>
    BY <1>1, <1>11 DEF Resumes!DirectFails, Resumes!DeleteCopy, Resumes!vars
  <2> QED BY <2>1 DEF TasksInv, Resumes!CompletedWasStored
<1>12. CASE Resumes!DeleteRow
  <2>1. \A i \in 1..Len(tasks) : Outlives(tasks[i], tasks[i], served)
    BY <1>1 DEF Outlives
  <2> QED BY <1>1, <1>12, <2>1, TasksGoOn DEF Resumes!DeleteRow, TasksInv
<1>13. CASE Resumes!DeleteTasks
  <2>1. /\ tasks' = [i \in 1..Len(tasks) |-> [tasks[i] EXCEPT !.state = "deleted"]]
        /\ UNCHANGED <<resume, sync, direct, served>>
    BY <1>13 DEF Resumes!DeleteTasks
  <2>2. ASSUME NEW i \in 1..Len(tasks)
        PROVE  tasks'[i] \in TaskRow /\ Outlives(tasks'[i], tasks[i], served)
    <3>1. tasks'[i] = [tasks[i] EXCEPT !.state = "deleted"] /\ tasks[i] \in TaskRow
      BY <1>1, <2>1
    <3> QED BY <3>1 DEF TaskRow, Outlives, Resumes!Active, Resumes!Claimable
  <2>3. tasks' \in Seq(TaskRow) /\ Len(tasks') = Len(tasks)
    <3>1. tasks' = [i \in 1..Len(tasks) |-> tasks'[i]] /\ Len(tasks) \in Nat
      BY <1>1, <2>1
    <3> QED BY <2>2, <3>1
  <2> QED BY <1>1, <2>1, <2>2, <2>3, TasksGoOn DEF TasksInv
<1> QED
  BY <1>2, <1>5, <1>6, <1>7, <1>8, <1>9, <1>10, <1>11, <1>12, <1>13 DEF Resumes!Next

LEMMA OneActiveIsTrue == TasksInv => TasksTellTheTruth
<1> SUFFICES ASSUME TasksInv PROVE Resumes!OneActiveTask
  BY DEF TasksTellTheTruth, Resumes!TasksTellTheTruth, TasksInv
<1> DEFINE S == {i \in 1..Len(tasks) : tasks[i].state \in Resumes!Active}
<1>1. \A i, j \in S : i = j
  BY DEF TasksInv
<1> HIDE DEF S
<1>2. Cardinality(S) <= 1
  <2>1. CASE S = {}
    BY <2>1, FS_EmptySet
  <2>2. CASE S # {}
    <3>1. PICK i : i \in S
      BY <2>2
    <3>2. S = {i}
      BY <1>1, <3>1
    <3>3. Cardinality({i}) = 1
      BY FS_Singleton
    <3> QED BY <3>2, <3>3
  <2> QED BY <2>1, <2>2
<1>3. Resumes!Cardinality(S) = Cardinality(S)
  BY Zenon DEF Resumes!Cardinality, Cardinality
<1> QED BY <1>2, <1>3 DEF Resumes!OneActiveTask, S

-------------------------------------------------------------------------------
(* Batches                                                                  *)

Single(s)   == \A i, j \in 1..Len(s) : s[i] = s[j] => i = j
Disjoint(s, t) == \A i \in 1..Len(s), j \in 1..Len(t) : s[i] # t[j]
In(c, s)    == \E i \in 1..Len(s) : s[i] = c

\* The claims that wait stand in one place each, Stop in the queue alone.
Line(q, d, s, a, f) ==
  /\ q \in Seq(JobClaim \cup {Batches!Stop}) /\ {d, s} \subseteq Seq(JobClaim)
  /\ a \in [JobClaim -> {"todo", "queued", "done"}]
  /\ Single(q) /\ Single(d) /\ Single(s) /\ Disjoint(q, d) /\ Disjoint(q, s) /\ Disjoint(d, s)
  /\ \A i \in 1..Len(q) : IF q[i] = Batches!Stop
                            THEN Len(q) = 1 /\ \A c \in JobClaim : a[c] = "done"
                            ELSE a[q[i]] = "queued"
  /\ \A i \in 1..Len(d) : a[d[i]] = "queued"
  /\ \A i \in 1..Len(s) : a[s[i]] = "queued"
  /\ \A c \in JobClaim : a[c] = "queued" => In(c, q) \/ In(c, d) \/ In(c, s)
  /\ f # "running" => q = <<>> /\ d = <<>> /\ s = <<>>

Answers == [JobClaim -> JobClaim \cup {Batches!None, Batches!Error}]
Own(f)  == \A c \in JobClaim : f[c] \in {c, Batches!None, Batches!Error}

BatchesInv ==
  /\ Line(queue, drained, sent, asked, flusher)
  /\ {answer, cache} \subseteq Answers
  /\ ~Incomplete => Own(answer) /\ Own(cache)

LEMMA BatchesBegin == Batches!EvInit => BatchesInv
BY DEF Batches!EvInit, BatchesInv, Line, Answers, Own, Single, Disjoint, In

\* Putting one at the end.
LEMMA OneMore ==
  ASSUME NEW S, NEW s \in Seq(S), NEW x \in S
  PROVE  /\ Append(s, x) \in Seq(S) /\ Len(Append(s, x)) = Len(s) + 1
         /\ \A i \in 1..Len(s) : Append(s, x)[i] = s[i]
         /\ Append(s, x)[Len(s) + 1] = x
         /\ \A i \in 1..Len(Append(s, x)) : i \in 1..Len(s) \/ i = Len(s) + 1
         /\ \A c : In(c, s) => In(c, Append(s, x))
         /\ In(x, Append(s, x))
<1>1. /\ Append(s, x) \in Seq(S) /\ Len(Append(s, x)) = Len(s) + 1
      /\ \A i \in 1..Len(s) : Append(s, x)[i] = s[i]
      /\ Append(s, x)[Len(s) + 1] = x /\ Len(s) \in Nat
  OBVIOUS
<1> DEFINE t == Append(s, x)
<1> HIDE DEF t
<1>2. t \in Seq(S) /\ Len(t) = Len(s) + 1 /\ (\A i \in 1..Len(s) : t[i] = s[i])
      /\ t[Len(s) + 1] = x /\ Len(s) \in Nat
  BY <1>1 DEF t
<1>3. \A i \in 1..Len(t) : i \in 1..Len(s) \/ i = Len(s) + 1
  BY <1>2
<1>4. \A c : In(c, s) => In(c, t)
  BY <1>2 DEF In
<1>5. In(x, t)
  BY <1>2 DEF In
<1> QED BY <1>2, <1>3, <1>4, <1>5 DEF t

\* Cutting a sequence in two.
LEMMA TwoParts ==
  ASSUME NEW S, NEW s \in Seq(S), NEW n \in 0..Len(s)
  PROVE  LET a == SubSeq(s, 1, n) b == SubSeq(s, n + 1, Len(s))
         IN  /\ a \in Seq(S) /\ b \in Seq(S) /\ Len(a) = n /\ Len(b) = Len(s) - n
             /\ \A i \in 1..Len(a) : i \in 1..Len(s) /\ a[i] = s[i]
             /\ \A i \in 1..Len(b) : n + i \in 1..Len(s) /\ b[i] = s[n + i]
             /\ \A c : In(c, s) => In(c, a) \/ In(c, b)
<1> DEFINE a == SubSeq(s, 1, n)
           b == SubSeq(s, n + 1, Len(s))
<1>1. Len(s) \in Nat /\ n \in Nat /\ n <= Len(s)
  OBVIOUS
<1>2. a \in Seq(S) /\ Len(a) = n /\ \A i \in 1..n : a[i] = s[i]
  BY <1>1
<1>3. b \in Seq(S) /\ Len(b) = Len(s) - n /\ \A i \in 1..(Len(s) - n) : b[i] = s[n + i]
  BY <1>1
<1> HIDE DEF a, b
<1>4. ASSUME NEW c, In(c, s) PROVE In(c, a) \/ In(c, b)
  <2>1. PICK i \in 1..Len(s) : s[i] = c
    BY <1>4 DEF In
  <2>2. CASE i <= n
    BY <1>1, <1>2, <2>1, <2>2 DEF In
  <2>3. CASE n < i
    <3>0. i \in Nat /\ i <= Len(s) /\ n \in Nat
      BY <1>1
    <3>1. i - n \in 1..(Len(s) - n)
      BY <1>1, <2>3, <3>0
    <3>2. i - n \in 1..Len(b) /\ b[i - n] = s[n + (i - n)]
      BY <1>3, <3>1
    <3>3. n + (i - n) = i
      BY <3>0
    <3>4. b[i - n] = c
      BY <2>1, <3>2, <3>3
    <3> QED BY <3>2, <3>4 DEF In
  <2> QED BY <1>1, <2>2, <2>3
<1>5. /\ \A i \in 1..Len(a) : i \in 1..Len(s) /\ a[i] = s[i]
      /\ \A i \in 1..Len(b) : n + i \in 1..Len(s) /\ b[i] = s[n + i]
  BY <1>1, <1>2, <1>3
<1> QED BY <1>2, <1>3, <1>4, <1>5 DEF a, b

\* A complete response gives every item its own evaluation.
LEMMA MatchedIsOwn ==
  ASSUME ~Incomplete, NEW s \in Seq(JobClaim), Single(s),
         NEW response \in Batches!Responses(s), NEW answers \in Batches!Matched(s, response)
  PROVE  answers \in Seq(JobClaim) /\ Len(answers) = Len(s)
         /\ \A i \in 1..Len(s) : answers[i] = s[i]
<1> DEFINE n == Len(s)
           D == 1..n
           Labelled == {[i \in 1..n |-> [id |-> s[p[i]], about |-> s[p[i]]]] :
                          p \in Batches!Injection(1..n, D)}
           InOrder  == [i \in 1..n |-> [id |-> Batches!NoId, about |-> s[i]]]
           IsFirst(k, S) == k \in S /\ \A j \in S : k <= j
           Echoes(i)  == {k \in DOMAIN response : response[k].id = s[i]}
           Free(g, i) == DOMAIN response \ {g[j] : j \in 1..(i - 1)}
           Takes(g, i) ==
             IF \E k \in Free(g, i) : IsFirst(k, Echoes(i)) THEN IsFirst(g[i], Echoes(i))
             ELSE IF Free(g, i) # {} THEN IsFirst(g[i], Free(g, i)) ELSE g[i] = 0
<1>1. n \in Nat /\ DOMAIN s = D /\ s \in [D -> JobClaim]
  OBVIOUS
<1>2. response \in Labelled \/ response = InOrder
  <2>1. response \in UNION {{[i \in 1..m |-> [id |-> s[p[i]], about |-> s[p[i]]]] :
                               p \in Batches!Injection(1..m, DOMAIN s)}
                             \cup {[i \in 1..m |-> [id |-> Batches!NoId, about |-> s[i]]]} : m \in {n}}
    BY DEF Batches!Responses
  <2> QED BY <1>1, <2>1
<1>3. PICK g \in [D -> {0} \cup DOMAIN response] :
        /\ \A i \in D : Takes(g, i)
        /\ answers = [i \in D |-> IF g[i] = 0 THEN Batches!Error ELSE response[g[i]].about]
  BY <1>1 DEF Batches!Matched
<1>4. CASE response \in Labelled
  <2>1. PICK p \in Batches!Injection(1..n, D) :
          response = [i \in 1..n |-> [id |-> s[p[i]], about |-> s[p[i]]]]
    BY <1>4
  <2>2. p \in [D -> D] /\ (\A i, j \in D : p[i] = p[j] => i = j) /\ \A i \in D : \E k \in D : p[k] = i
    <3>1. p \in Injection(D, D)
      BY <2>1 DEF Batches!Injection, Injection, Batches!IsInjective, IsInjective
    <3>2. IsFiniteSet(D)
      BY <1>1, FS_Interval
    <3>3. p \in Surjection(D, D)
      BY <3>1, <3>2, FS_Injection
    <3> QED BY <3>1, <3>3 DEF Injection, Surjection, IsInjective
  <2>3. DOMAIN response = D /\ \A k \in D : response[k].id = s[p[k]] /\ response[k].about = s[p[k]]
    BY <2>1
  <2>4. \A k, l \in D : response[k].id = response[l].id => k = l
    <3>1. ASSUME NEW k \in D, NEW l \in D, response[k].id = response[l].id PROVE k = l
      <4>1. s[p[k]] = s[p[l]]
        BY <2>3, <3>1
      <4>2. p[k] \in D /\ p[l] \in D
        BY <2>2
      <4>3. p[k] = p[l]
        BY <4>1, <4>2 DEF Single
      <4> QED BY <2>2, <4>3
    <3> QED BY <3>1
  <2> DEFINE Bad == {i \in D : g[i] = 0 \/ s[i] # response[g[i]].id}
  <2>5. Bad = {}
    <3> SUFFICES ASSUME Bad # {} PROVE FALSE
      OBVIOUS
    <3>1. Bad \subseteq Nat
      BY <1>1
    <3> HIDE DEF Bad
    <3>2. PICK i \in Bad : \A y \in Bad : i <= y
      BY <3>1, LeastNumber
    <3> USE DEF Bad
    <3>3. i \in D /\ \A j \in 1..(i - 1) : j \in D /\ j \notin Bad
      <4>1. i \in D /\ i \in Nat
        BY <1>1
      <4> HIDE DEF Bad
      <4>2. \A j \in 1..(i - 1) : j \in D /\ ~(i <= j)
        BY <1>1, <4>1
      <4> QED BY <3>2, <4>1, <4>2
    <3>4. \A j \in 1..(i - 1) : g[j] \in D /\ response[g[j]].id = s[j] /\ s[j] # s[i]
      <4> SUFFICES ASSUME NEW j \in 1..(i - 1)
                   PROVE  g[j] \in D /\ response[g[j]].id = s[j] /\ s[j] # s[i]
        OBVIOUS
      <4>1. j \in D /\ g[j] # 0 /\ s[j] = response[g[j]].id
        BY <3>3
      <4>2. g[j] \in D
        BY <1>3, <2>3, <4>1
      <4>3. s[j] # s[i]
        BY <1>1, <3>3, <4>1 DEF Single
      <4> QED BY <4>1, <4>2, <4>3
    <3>5. PICK k \in D : p[k] = i
      BY <2>2, <3>3
    <3>6. k \in DOMAIN response /\ response[k].id = s[i]
      BY <2>3, <3>5
    <3>7. Echoes(i) = {k}
      BY <2>3, <2>4, <3>6
    <3>8. \A j \in 1..(i - 1) : g[j] # k
      BY <3>4, <3>6
    <3>9. k \in Free(g, i)
      BY <3>6, <3>8
    <3>10. IsFirst(k, Echoes(i))
      BY <3>7, <1>1
    <3>11. g[i] \in Echoes(i)
      <4>1. Takes(g, i)
        BY <1>3, <3>3
      <4> HIDE DEF Free, Echoes
      <4> QED BY <4>1, <3>9, <3>10
    <3> QED BY <1>1, <2>3, <3>2, <3>3, <3>6, <3>7, <3>11
  <2>6. \A i \in D : g[i] \in D /\ response[g[i]].about = s[i]
    BY <1>3, <2>3, <2>5
  <2>7. \A i \in D : g[i] # 0
    BY <1>1, <2>6
  <2>8. \A i \in D : answers[i] = s[i]
    BY <1>3, <2>6, <2>7
  <2>9. answers \in [D -> JobClaim]
    BY <1>1, <1>3, <2>8
  <2> QED BY <1>1, <2>8, <2>9
<1>5. CASE response = InOrder
  <2>1. DOMAIN response = D /\ \A k \in D : response[k].id = Batches!NoId /\ response[k].about = s[k]
    BY <1>5
  <2>2. \A i \in D : Echoes(i) = {}
    BY <1>1, <2>1, KnowledgeAssumption
  <2> DEFINE Bad == {i \in D : g[i] # i}
  <2>3. Bad = {}
    <3> SUFFICES ASSUME Bad # {} PROVE FALSE
      OBVIOUS
    <3>1. Bad \subseteq Nat
      BY <1>1
    <3> HIDE DEF Bad
    <3>2. PICK i \in Bad : \A y \in Bad : i <= y
      BY <3>1, LeastNumber
    <3> USE DEF Bad
    <3>3. i \in D /\ \A j \in 1..(i - 1) : j \in D /\ g[j] = j
      BY <1>1, <3>2
    <3>4. Free(g, i) = D \ 1..(i - 1)
      BY <2>1, <3>3
    <3>5. i \in Free(g, i) /\ \A k \in Free(g, i) : i <= k
      BY <1>1, <3>3, <3>4
    <3>6. Free(g, i) \subseteq Nat
      BY <1>1, <3>4
    <3>7. IsFirst(g[i], Free(g, i))
      <4>1. Takes(g, i)
        BY <1>3, <3>3
      <4>2. Echoes(i) = {}
        BY <2>2, <3>3
      <4> HIDE DEF Free, Echoes
      <4> QED BY <4>1, <4>2, <3>5
    <3> HIDE DEF Free
    <3>8. g[i] = i
      BY <3>5, <3>6, <3>7
    <3> QED BY <3>2, <3>8
  <2>4. \A i \in D : g[i] = i /\ g[i] # 0
    BY <1>1, <2>3
  <2>5. \A i \in D : answers[i] = s[i]
    BY <1>3, <2>1, <2>4
  <2>6. answers \in [D -> JobClaim]
    BY <1>1, <1>3, <2>5
  <2> QED BY <1>1, <2>5, <2>6
<1> QED BY <1>2, <1>4, <1>5

\* Whatever the response, an item gets a claim's evaluation or an error.
LEMMA MatchedIsTyped ==
  ASSUME NEW s \in Seq(JobClaim),
         NEW response \in Batches!Responses(s), NEW answers \in Batches!Matched(s, response)
  PROVE  \A i \in 1..Len(s) : answers[i] \in JobClaim \cup {Batches!Error}
<1> DEFINE n == Len(s)
           D == 1..n
<1>1. n \in Nat /\ DOMAIN s = D /\ s \in [D -> JobClaim]
  OBVIOUS
<1>2. PICK m \in 0..n :
        response \in {[i \in 1..m |-> [id |-> s[p[i]], about |-> s[p[i]]]] :
                         p \in Batches!Injection(1..m, D)}
                       \cup {[i \in 1..m |-> [id |-> Batches!NoId, about |-> s[i]]]}
  BY <1>1 DEF Batches!Responses
<1>3. \A k \in DOMAIN response : response[k].about \in JobClaim
  <2>1. CASE response = [i \in 1..m |-> [id |-> Batches!NoId, about |-> s[i]]]
    BY <1>1, <1>2, <2>1
  <2>2. CASE response # [i \in 1..m |-> [id |-> Batches!NoId, about |-> s[i]]]
    <3>1. PICK p \in Batches!Injection(1..m, D) :
            response = [i \in 1..m |-> [id |-> s[p[i]], about |-> s[p[i]]]]
      BY <1>2, <2>2
    <3>2. p \in [1..m -> D]
      BY DEF Batches!Injection
    <3> QED BY <1>1, <3>1, <3>2
  <2> QED BY <2>1, <2>2
<1>4. PICK g \in [D -> {0} \cup DOMAIN response] :
        answers = [i \in D |-> IF g[i] = 0 THEN Batches!Error ELSE response[g[i]].about]
  BY <1>1 DEF Batches!Matched
<1> QED BY <1>3, <1>4

LEMMA OneOfBoth ==
  ASSUME NEW S, NEW s \in Seq(S), NEW t \in Seq(S), NEW c, In(c, s) \/ In(c, t)
  PROVE  In(c, s \o t)
<1>1. /\ Len(s) \in Nat /\ Len(t) \in Nat /\ Len(s \o t) = Len(s) + Len(t)
      /\ \A i \in 1..Len(s) : (s \o t)[i] = s[i]
      /\ \A i \in 1..Len(t) : (s \o t)[Len(s) + i] = t[i]
  OBVIOUS
<1>2. CASE In(c, s)
  BY <1>1, <1>2 DEF In
<1>3. CASE In(c, t)
  <2>1. PICK i \in 1..Len(t) : t[i] = c
    BY <1>3 DEF In
  <2>2. Len(s) + i \in 1..Len(s \o t)
    BY <1>1
  <2> QED BY <1>1, <2>1, <2>2 DEF In
<1> QED BY <1>2, <1>3

\* The claims of a request get their answers, which are their own.
LEMMA AnswersAreGiven ==
  ASSUME BatchesInv, NEW answers, Batches!Resolve(answers), sent # <<>>, sent' = <<>>,
         UNCHANGED <<queue, drained, flusher>>,
         \A i \in 1..Len(sent) :
           /\ answers[i] \in JobClaim \cup {Batches!Error}
           /\ ~Incomplete => answers[i] \in {sent[i], Batches!Error}
  PROVE  BatchesInv'
<1> DEFINE Of(f) == [c \in JobClaim |-> IF \E i \in DOMAIN sent : sent[i] = c
                                          THEN answers[CHOOSE i \in DOMAIN sent : sent[i] = c]
                                          ELSE f[c]]
<1>1. answer' = Of(answer) /\ cache' = Of(cache)
      /\ asked' = [c \in JobClaim |-> IF c \in Batches!Range(sent) THEN "done" ELSE asked[c]]
  BY DEF Batches!Resolve
<1>2. sent \in Seq(JobClaim) /\ DOMAIN sent = 1..Len(sent)
  BY DEF BatchesInv, Line
<1>3. asked' = [c \in JobClaim |-> IF In(c, sent) THEN "done" ELSE asked[c]]
  BY <1>1, <1>2 DEF Batches!Range, In
<1>4. ASSUME NEW f \in Answers, ~Incomplete => Own(f)
      PROVE  Of(f) \in Answers /\ (~Incomplete => Own(Of(f)))
  <2>1. ASSUME NEW c \in JobClaim
        PROVE  /\ Of(f)[c] \in JobClaim \cup {Batches!None, Batches!Error}
               /\ ~Incomplete => Of(f)[c] \in {c, Batches!None, Batches!Error}
    <3>1. CASE \E i \in DOMAIN sent : sent[i] = c
      <4> DEFINE k == CHOOSE i \in DOMAIN sent : sent[i] = c
      <4>1. k \in 1..Len(sent) /\ sent[k] = c
        BY <1>2, <3>1
      <4>2. Of(f)[c] = answers[k]
        BY <3>1
      <4> HIDE DEF k
      <4> QED BY <4>1, <4>2
    <3>2. CASE ~\E i \in DOMAIN sent : sent[i] = c
      BY <1>4, <3>2 DEF Own, Answers
    <3> QED BY <3>1, <3>2
  <2> HIDE DEF Of
  <2>2. DOMAIN Of(f) = JobClaim /\ Of(f) = [c \in JobClaim |-> Of(f)[c]]
    BY DEF Of
  <2> QED BY <2>1, <2>2 DEF Own, Answers
<1>5. {answer', cache'} \subseteq Answers /\ (~Incomplete => Own(answer') /\ Own(cache'))
  <2>1. answer \in Answers /\ cache \in Answers /\ (~Incomplete => Own(answer) /\ Own(cache))
    BY DEF BatchesInv
  <2>2. Of(answer) \in Answers /\ (~Incomplete => Own(Of(answer)))
    BY <1>4, <2>1
  <2>3. Of(cache) \in Answers /\ (~Incomplete => Own(Of(cache)))
    BY <1>4, <2>1
  <2> HIDE DEF Of
  <2> QED BY <1>1, <2>2, <2>3
<1>6. Line(queue, drained, <<>>, asked', flusher)
  <2>1. asked' \in [JobClaim -> {"todo", "queued", "done"}]
    BY <1>3 DEF BatchesInv, Line
  <2>2. \E i \in 1..Len(sent) : TRUE
    BY <1>2
  <2>3. PICK s \in JobClaim : asked[s] = "queued"
    BY <1>2, <2>2 DEF BatchesInv, Line
  <2>4. \A i \in 1..Len(queue) : queue[i] # Batches!Stop /\ asked'[queue[i]] = "queued"
    BY <1>3, <2>3 DEF BatchesInv, Line, Disjoint, In
  <2>5. \A i \in 1..Len(drained) : asked'[drained[i]] = "queued"
    BY <1>3 DEF BatchesInv, Line, Disjoint, In
  <2>6. \A c \in JobClaim : asked'[c] = "queued" => In(c, queue) \/ In(c, drained)
    BY <1>3 DEF BatchesInv, Line
  <2> QED BY <2>1, <2>4, <2>5, <2>6 DEF BatchesInv, Line, Single, Disjoint, In
<1> QED BY <1>5, <1>6 DEF BatchesInv

LEMMA BatchesStep == BatchesInv /\ [Batches!EvNext]_(Batches!evVars) => BatchesInv'
<1> SUFFICES ASSUME BatchesInv, [Batches!EvNext]_(Batches!evVars) PROVE BatchesInv'
  OBVIOUS
<1> USE DEF Batches!Range
<1>1. ASSUME NEW c \in JobClaim, Batches!Ask(c) PROVE BatchesInv'
  <2>1. asked[c] = "todo" /\ UNCHANGED <<run, drained, sent, cache>>
    BY <1>1 DEF Batches!Ask
  <2>2. CASE cache[c] # Batches!None
    <3>1. /\ asked' = [asked EXCEPT ![c] = "done"] /\ answer' = [answer EXCEPT ![c] = cache[c]]
          /\ UNCHANGED <<queue, flusher>>
      BY <1>1, <2>2 DEF Batches!Ask
    <3>2. Line(queue, drained, sent, asked', flusher)
      BY <2>1, <3>1 DEF BatchesInv, Line
    <3>3. answer' \in Answers /\ (~Incomplete => Own(answer'))
      BY <3>1 DEF BatchesInv, Answers, Own
    <3> QED BY <2>1, <3>1, <3>2, <3>3 DEF BatchesInv
  <2>3. CASE cache[c] = Batches!None
    <3>1. /\ asked' = [asked EXCEPT ![c] = "queued"] /\ queue' = Append(queue, c)
          /\ flusher' = "running" /\ UNCHANGED answer
      BY <1>1, <2>3 DEF Batches!Ask
    <3> DEFINE S == JobClaim \cup {Batches!Stop}
    <3>2. queue \in Seq(S) /\ c \in S /\ Len(queue) \in Nat
      BY DEF BatchesInv, Line
    <3>3. /\ queue' \in Seq(S) /\ Len(queue') = Len(queue) + 1
          /\ \A i \in 1..Len(queue) : queue'[i] = queue[i]
          /\ queue'[Len(queue) + 1] = c
          /\ \A i \in 1..Len(queue') : i \in 1..Len(queue) \/ i = Len(queue) + 1
          /\ \A x : In(x, queue) => In(x, queue')
          /\ In(c, queue')
      BY <3>1, <3>2, OneMore
    <3>4. c # Batches!Stop
      BY KnowledgeAssumption
    <3>5. \A i \in 1..Len(queue) : queue[i] # Batches!Stop /\ queue[i] # c /\ asked[queue[i]] = "queued"
      BY <2>1 DEF BatchesInv, Line
    <3>6. (\A i \in 1..Len(drained) : drained[i] # c) /\ \A i \in 1..Len(sent) : sent[i] # c
      BY <2>1 DEF BatchesInv, Line
    <3>7. Single(queue')
      BY <3>2, <3>3, <3>5 DEF BatchesInv, Line, Single
    <3>8. Disjoint(queue', drained) /\ Disjoint(queue', sent)
      <4>1. ASSUME NEW i \in 1..Len(queue')
            PROVE  /\ \A j \in 1..Len(drained) : queue'[i] # drained[j]
                   /\ \A j \in 1..Len(sent) : queue'[i] # sent[j]
        <5>1. CASE i \in 1..Len(queue)
          BY <3>3, <5>1 DEF BatchesInv, Line, Disjoint
        <5>2. CASE i = Len(queue) + 1
          BY <3>3, <3>6, <5>2
        <5> QED BY <3>3, <5>1, <5>2
      <4> QED BY <4>1 DEF Disjoint
    <3>9. \A i \in 1..Len(queue') : queue'[i] # Batches!Stop /\ asked'[queue'[i]] = "queued"
      <4>1. ASSUME NEW i \in 1..Len(queue') PROVE queue'[i] # Batches!Stop /\ queue'[i] \in JobClaim /\
                (queue'[i] = c \/ asked[queue'[i]] = "queued")
        BY <3>2, <3>3, <3>4, <3>5
      <4> QED BY <3>1, <4>1 DEF BatchesInv, Line
    <3>10. asked' \in [JobClaim -> {"todo", "queued", "done"}]
           /\ \A x \in JobClaim : asked'[x] = "queued" => x = c \/ asked[x] = "queued"
      BY <3>1 DEF BatchesInv, Line
    <3>11. (\A i \in 1..Len(drained) : asked'[drained[i]] = "queued")
           /\ \A i \in 1..Len(sent) : asked'[sent[i]] = "queued"
      BY <3>1, <3>6 DEF BatchesInv, Line
    <3>12. Line(queue', drained, sent, asked', flusher')
      BY <3>1, <3>3, <3>7, <3>8, <3>9, <3>10, <3>11 DEF BatchesInv, Line
    <3> QED BY <2>1, <3>1, <3>12 DEF BatchesInv
  <2> QED BY <2>2, <2>3
<1>2. CASE Batches!Drain
  <2>1. /\ flusher = "running" /\ drained = <<>> /\ sent = <<>> /\ queue # <<>>
        /\ UNCHANGED <<run, asked, answer, sent, cache>>
    BY <1>2 DEF Batches!Drain
  <2> DEFINE S == JobClaim \cup {Batches!Stop}
  <2>2. queue \in Seq(S) /\ Len(queue) \in Nat /\ 1 \in 1..Len(queue) /\ Head(queue) = queue[1]
    BY <2>1 DEF BatchesInv, Line
  <2>3. CASE Head(queue) = Batches!Stop
    <3>1. flusher' = "stopped" /\ queue' = Tail(queue) /\ UNCHANGED drained
      BY <1>2, <2>3 DEF Batches!Drain
    <3>2. Len(queue) = 1 /\ \A c \in JobClaim : asked[c] = "done"
      BY <2>2, <2>3 DEF BatchesInv, Line
    <3>3. queue' = <<>>
      BY <2>2, <3>1, <3>2
    <3>4. Line(<<>>, <<>>, <<>>, asked, flusher')
      BY <3>2 DEF BatchesInv, Line, Single, Disjoint
    <3> QED BY <2>1, <3>1, <3>3, <3>4 DEF BatchesInv
  <2>4. CASE Head(queue) # Batches!Stop
    <3> DEFINE n == IF Len(queue) < BatchSize THEN Len(queue) ELSE BatchSize
    <3>1. /\ drained' = SubSeq(queue, 1, n) /\ queue' = SubSeq(queue, n + 1, Len(queue))
          /\ UNCHANGED flusher
      BY <1>2, <2>4 DEF Batches!Drain
    <3>2. n \in 0..Len(queue)
      BY <2>2, KnowledgeAssumption
    <3> HIDE DEF n
    <3>3. \A i \in 1..Len(queue) : queue[i] # Batches!Stop /\ queue[i] \in JobClaim
                                  /\ asked[queue[i]] = "queued"
      BY <2>2, <2>4 DEF BatchesInv, Line
    <3>4. queue \in Seq(JobClaim)
      BY <2>2, <3>3
    <3>5. /\ drained' \in Seq(JobClaim) /\ queue' \in Seq(JobClaim)
          /\ Len(drained') = n /\ Len(queue') = Len(queue) - n
          /\ \A i \in 1..Len(drained') : i \in 1..Len(queue) /\ drained'[i] = queue[i]
          /\ \A i \in 1..Len(queue') : n + i \in 1..Len(queue) /\ queue'[i] = queue[n + i]
          /\ \A c : In(c, queue) => In(c, drained') \/ In(c, queue')
      BY <3>1, <3>2, <3>4, TwoParts
    <3>6. Single(queue)
      BY DEF BatchesInv, Line
    <3>7. Single(drained') /\ Single(queue') /\ Disjoint(queue', drained')
      <4>1. Single(drained')
        BY <3>5, <3>6 DEF Single
      <4>2. Single(queue')
        <5>1. ASSUME NEW i \in 1..Len(queue'), NEW j \in 1..Len(queue'), queue'[i] = queue'[j] PROVE i = j
          <6>1. n + i \in 1..Len(queue) /\ n + j \in 1..Len(queue) /\ queue[n + i] = queue[n + j]
            BY <3>5, <5>1
          <6>2. n + i = n + j
            BY <3>6, <6>1 DEF Single
          <6> QED BY <2>2, <3>2, <3>5, <6>2
        <5> QED BY <5>1 DEF Single
      <4>3. Disjoint(queue', drained')
        <5>1. ASSUME NEW i \in 1..Len(queue'), NEW j \in 1..Len(drained'), queue'[i] = drained'[j] PROVE FALSE
          <6>1. n + i \in 1..Len(queue) /\ j \in 1..Len(queue) /\ queue[n + i] = queue[j]
            BY <3>5, <5>1
          <6>2. n + i = j
            BY <3>6, <6>1 DEF Single
          <6> QED BY <2>2, <3>2, <3>5, <6>2
        <5> QED BY <5>1 DEF Disjoint
      <4> QED BY <4>1, <4>2, <4>3
    <3>8. queue' \in Seq(S)
      BY <3>5
    <3>9. \A c \in JobClaim : asked[c] = "queued" => In(c, queue)
      BY <2>1 DEF BatchesInv, Line, In
    <3>10. Line(queue', drained', <<>>, asked, flusher)
      <4>1. (\A i \in 1..Len(queue') : queue'[i] # Batches!Stop /\ asked[queue'[i]] = "queued")
            /\ \A i \in 1..Len(drained') : asked[drained'[i]] = "queued"
        <5>1. ASSUME NEW i \in 1..Len(queue')
              PROVE  queue'[i] # Batches!Stop /\ asked[queue'[i]] = "queued"
          <6>1. n + i \in 1..Len(queue) /\ queue'[i] = queue[n + i]
            BY <3>5
          <6> QED BY <3>3, <6>1
        <5>2. ASSUME NEW i \in 1..Len(drained') PROVE asked[drained'[i]] = "queued"
          BY <3>3, <3>5
        <5> QED BY <5>1, <5>2
      <4>2. asked \in [JobClaim -> {"todo", "queued", "done"}]
        BY DEF BatchesInv, Line
      <4> QED BY <2>1, <3>5, <3>7, <3>8, <3>9, <4>1, <4>2 DEF Line, Single, Disjoint
    <3> QED BY <2>1, <3>1, <3>10 DEF BatchesInv
  <2> QED BY <2>3, <2>4
<1>3. CASE Batches!Send
  <2>1. /\ sent = <<>> /\ drained # <<>>
        /\ UNCHANGED <<run, asked, answer, queue, flusher, cache>>
    BY <1>3 DEF Batches!Send
  <2>2. drained \in Seq(JobClaim) /\ Len(drained) \in Nat /\ Single(drained)
    BY DEF BatchesInv, Line
  <2>3. PICK n \in 1..Len(drained) :
          sent' = SubSeq(drained, 1, n) /\ drained' = SubSeq(drained, n + 1, Len(drained))
    BY <1>3 DEF Batches!Send
  <2>4. n \in 0..Len(drained)
    BY <2>2
  <2>5. /\ sent' \in Seq(JobClaim) /\ drained' \in Seq(JobClaim)
        /\ Len(sent') = n /\ Len(drained') = Len(drained) - n
        /\ \A i \in 1..Len(sent') : i \in 1..Len(drained) /\ sent'[i] = drained[i]
        /\ \A i \in 1..Len(drained') : n + i \in 1..Len(drained) /\ drained'[i] = drained[n + i]
        /\ \A c : In(c, drained) => In(c, sent') \/ In(c, drained')
    BY <2>2, <2>3, <2>4, TwoParts
  <2>6. Single(sent')
    BY <2>2, <2>5 DEF Single
  <2>7. Single(drained')
    <3>1. ASSUME NEW i \in 1..Len(drained'), NEW j \in 1..Len(drained'), drained'[i] = drained'[j] PROVE i = j
      <4>1. n + i \in 1..Len(drained) /\ n + j \in 1..Len(drained) /\ drained[n + i] = drained[n + j]
        BY <2>5, <3>1
      <4>2. n + i = n + j
        BY <2>2, <4>1 DEF Single
      <4> QED BY <2>2, <2>4, <2>5, <4>2
    <3> QED BY <3>1 DEF Single
  <2>8. Disjoint(drained', sent')
    <3>1. ASSUME NEW i \in 1..Len(drained'), NEW j \in 1..Len(sent'), drained'[i] = sent'[j] PROVE FALSE
      <4>1. n + i \in 1..Len(drained) /\ j \in 1..Len(drained) /\ drained[n + i] = drained[j]
        BY <2>5, <3>1
      <4>2. n + i = j
        BY <2>2, <4>1 DEF Single
      <4> QED BY <2>2, <2>4, <2>5, <4>2
    <3> QED BY <3>1 DEF Disjoint
  <2>9. Disjoint(queue, drained') /\ Disjoint(queue, sent')
    BY <2>5 DEF BatchesInv, Line, Disjoint
  <2>10. flusher = "running"
    BY <2>1 DEF BatchesInv, Line
  <2>11. (\A i \in 1..Len(drained') : asked[drained'[i]] = "queued")
         /\ (\A i \in 1..Len(sent') : asked[sent'[i]] = "queued")
         /\ \A c \in JobClaim : asked[c] = "queued" => In(c, queue) \/ In(c, drained') \/ In(c, sent')
    <3>1. \A i \in 1..Len(drained) : asked[drained[i]] = "queued"
      BY DEF BatchesInv, Line
    <3>2. ASSUME NEW i \in 1..Len(drained') PROVE asked[drained'[i]] = "queued"
      <4>1. n + i \in 1..Len(drained) /\ drained'[i] = drained[n + i]
        BY <2>5
      <4> QED BY <3>1, <4>1
    <3>3. \A i \in 1..Len(sent') : asked[sent'[i]] = "queued"
      BY <2>5, <3>1
    <3>4. \A c \in JobClaim : asked[c] = "queued" => In(c, queue) \/ In(c, drained)
      BY <2>1 DEF BatchesInv, Line, In
    <3>5. \A c : In(c, drained) => In(c, sent') \/ In(c, drained')
      BY <2>5
    <3> QED BY <3>2, <3>3, <3>4, <3>5
  <2>12. Line(queue, drained', sent', asked, flusher)
    BY <2>5, <2>6, <2>7, <2>8, <2>9, <2>10, <2>11 DEF BatchesInv, Line
  <2> QED BY <2>1, <2>12 DEF BatchesInv
<1>4. CASE Batches!Answered
  <2>1. sent # <<>> /\ sent' = <<>> /\ UNCHANGED <<run, queue, drained, flusher>>
    BY <1>4 DEF Batches!Answered
  <2>2. sent \in Seq(JobClaim) /\ Single(sent)
    BY DEF BatchesInv, Line
  <2>3. CASE Len(sent) = 1
    <3>1. Batches!Resolve(sent)
      BY <1>4, <2>3 DEF Batches!Answered
    <3>2. \A i \in 1..Len(sent) : sent[i] \in JobClaim
      BY <2>2
    <3> QED BY <2>1, <3>1, <3>2, AnswersAreGiven
  <2>4. CASE Len(sent) # 1
    <3>1. PICK response \in Batches!Responses(sent) : \E answers \in Batches!Matched(sent, response) :
            Batches!Resolve(answers)
      BY <1>4, <2>4 DEF Batches!Answered
    <3>2. PICK answers \in Batches!Matched(sent, response) : Batches!Resolve(answers)
      BY <3>1
    <3>3. \A i \in 1..Len(sent) : answers[i] \in JobClaim \cup {Batches!Error}
      BY <2>2, MatchedIsTyped
    <3>4. ~Incomplete => \A i \in 1..Len(sent) : answers[i] = sent[i]
      BY <2>2, MatchedIsOwn
    <3> QED BY <2>1, <3>2, <3>3, <3>4, AnswersAreGiven
  <2> QED BY <2>3, <2>4
<1>5. CASE Batches!RequestFails
  <2>1. /\ sent # <<>> /\ sent' = <<>> /\ UNCHANGED <<run, queue, drained, flusher>>
        /\ Batches!Resolve([i \in DOMAIN sent |-> Batches!Error])
    BY <1>5 DEF Batches!RequestFails
  <2>2. DOMAIN sent = 1..Len(sent)
    BY DEF BatchesInv, Line
  <2> QED BY <2>1, <2>2, AnswersAreGiven
<1>6. CASE Batches!Close
  <2>1. /\ \A c \in JobClaim : asked[c] = "done"
        /\ flusher = "running" /\ queue' = Append(queue, Batches!Stop)
        /\ UNCHANGED <<run, asked, answer, drained, sent, flusher, cache>>
        /\ \A i \in DOMAIN queue : queue[i] # Batches!Stop
    BY <1>6 DEF Batches!Close
  <2> DEFINE S == JobClaim \cup {Batches!Stop}
  <2>2. queue \in Seq(S) /\ {drained, sent} \subseteq Seq(JobClaim)
    BY DEF BatchesInv, Line
  <2>3. Len(queue) = 0 /\ Len(drained) = 0 /\ Len(sent) = 0
    <3>1. \A i \in 1..Len(queue) : FALSE
      BY <2>1, <2>2 DEF BatchesInv, Line
    <3>2. (\A i \in 1..Len(drained) : FALSE) /\ \A i \in 1..Len(sent) : FALSE
      BY <2>1, <2>2 DEF BatchesInv, Line
    <3> QED BY <2>2, <3>1, <3>2
  <2>4. queue' \in Seq(S) /\ Len(queue') = 1 /\ queue'[1] = Batches!Stop
    BY <2>1, <2>2, <2>3
  <2>5. Line(queue', drained, sent, asked, flusher)
    BY <2>1, <2>3, <2>4 DEF BatchesInv, Line, Single, Disjoint
  <2> QED BY <2>1, <2>5 DEF BatchesInv
<1>7. CASE Batches!RunAgain
  <2>1. /\ flusher # "running" /\ flusher' = "none" /\ UNCHANGED <<queue, drained, sent, cache>>
        /\ asked' = [c \in JobClaim |-> "todo"] /\ answer' = [c \in JobClaim |-> Batches!None]
    BY <1>7 DEF Batches!RunAgain
  <2>2. Line(<<>>, <<>>, <<>>, asked', flusher')
    BY <2>1 DEF Line, Single, Disjoint, In
  <2>3. answer' \in Answers /\ Own(answer')
    BY <2>1 DEF Answers, Own
  <2> QED BY <2>1, <2>2, <2>3 DEF BatchesInv, Line
<1>8. CASE UNCHANGED Batches!evVars
  BY <1>8 DEF Batches!evVars, BatchesInv
<1> QED BY <1>1, <1>2, <1>3, <1>4, <1>5, <1>6, <1>7, <1>8 DEF Batches!EvNext

LEMMA OwnIsOwn == BatchesInv /\ ~Incomplete => OwnAnswer
<1> SUFFICES ASSUME BatchesInv, ~Incomplete PROVE OwnAnswer
  OBVIOUS
<1>1. \A c \in JobClaim : {answer[c], cache[c]} \subseteq {c, Batches!None, Batches!Error}
  BY DEF BatchesInv, Own
<1>2. ASSUME NEW c \in JobClaim, asked[c] = "queued"
      PROVE  flusher = "running" /\ c \in Batches!Range(queue \o drained \o sent)
  <2> DEFINE S == JobClaim \cup {Batches!Stop}
  <2>1. {queue, drained, sent} \subseteq Seq(S)
    BY DEF BatchesInv, Line
  <2>2. In(c, queue) \/ In(c, drained) \/ In(c, sent)
    BY <1>2 DEF BatchesInv, Line
  <2>3. flusher = "running"
    BY <2>2 DEF BatchesInv, Line, In
  <2>4. In(c, queue \o drained \o sent)
    <3>1. queue \o drained \in Seq(S)
      BY <2>1
    <3>2. In(c, queue) \/ In(c, drained) => In(c, queue \o drained)
      BY <2>1, OneOfBoth
    <3> QED BY <2>1, <2>2, <3>1, <3>2, OneOfBoth
  <2>5. queue \o drained \o sent \in Seq(S)
    BY <2>1
  <2> DEFINE all == queue \o drained \o sent
  <2>6. all \in Seq(S) /\ In(c, all)
    BY <2>4, <2>5
  <2> HIDE DEF all
  <2>7. c \in Batches!Range(all)
    BY <2>6 DEF In, Batches!Range
  <2> QED BY <2>3, <2>7 DEF all
<1> QED BY <1>1, <1>2 DEF OwnAnswer, Batches!OwnAnswer

-------------------------------------------------------------------------------
(* Labels                                                                   *)

LabelRow == [label : Labels!Preference, source : {"dashboard", "legacy_timeline"}]

\* What a stored pair says is what was said of its two vacancies.
SaysWhatWasSaid(p, row, who) ==
  /\ row.label = "a_better" => who = p[1]
  /\ row.label = "b_better" => who = p[2]

LabelsInv ==
  /\ pairs \in [Labels!PairKey -> LabelRow \cup {Labels!NoRow}]
  /\ preferred \in [Labels!PairKey -> 0..N]
  /\ points \subseteq Labels!Vacancy
  /\ split \in [frozen : BOOLEAN, eval : [Labels!Vacancy -> Labels!EVAL_FOLDS \cup {Labels!None}]]
  /\ ~split.frozen => trained = {}
  /\ Labels!FrozenIsNeverTrained
  /\ \A p \in Labels!PairKey : SaysWhatWasSaid(p, pairs[p], preferred[p])

LEMMA NoRowSaysNothing ==
  \A p, who : SaysWhatWasSaid(p, Labels!NoRow, who)
BY DEF SaysWhatWasSaid, Labels!NoRow, Labels!None

LEMMA LabelsBegin == Labels!LdInit => LabelsInv
<1> SUFFICES ASSUME Labels!LdInit PROVE LabelsInv
  OBVIOUS
<1>1. split \in [frozen : BOOLEAN, eval : [Labels!Vacancy -> Labels!EVAL_FOLDS \cup {Labels!None}]]
  BY DEF Labels!LdInit, Labels!NotFrozen
<1>2. 0 \in 0..N
  BY KnowledgeAssumption
<1> QED BY <1>1, <1>2, NoRowSaysNothing DEF Labels!LdInit, LabelsInv, Labels!FrozenIsNeverTrained

\* A judgement, in the order of the ids: the row, and whom it prefers.
LEMMA CanonicalSaysTheSame ==
  ASSUME NEW a \in Labels!Vacancy, NEW b \in Labels!Vacancy, a # b,
         NEW preference \in Labels!Preference
  PROVE  LET pair == Labels!canonicalize_pair(a, b, preference)
             who  == Labels!Winner(a, b, preference)
         IN  /\ pair.key \in Labels!PairKey /\ pair.label \in Labels!Preference /\ who \in 0..N
             /\ pair.label = "a_better" => who = pair.key[1]
             /\ pair.label = "b_better" => who = pair.key[2]
<1>1. a \in Int /\ b \in Int /\ N \in Nat /\ {a, b, 0} \subseteq 0..N
  BY KnowledgeAssumption DEF Labels!Vacancy
<1>2. <<a, b>>[1] = a /\ <<a, b>>[2] = b /\ <<b, a>>[1] = b /\ <<b, a>>[2] = a
  OBVIOUS
<1>3. /\ a < b => <<a, b>> \in Labels!PairKey
      /\ ~(a < b) => <<b, a>> \in Labels!PairKey
  BY <1>1 DEF Labels!PairKey
<1>4. CASE a < b
  <2>1. Labels!canonicalize_pair(a, b, preference) = [key |-> <<a, b>>, label |-> preference]
    BY <1>4 DEF Labels!canonicalize_pair
  <2> QED BY <1>1, <1>2, <1>3, <1>4, <2>1 DEF Labels!Winner, Labels!Preference
<1>5. CASE ~(a < b)
  <2>1. Labels!canonicalize_pair(a, b, preference) = [key |-> <<b, a>>, label |-> Labels!flipped(preference)]
    BY <1>5 DEF Labels!canonicalize_pair
  <2> QED BY <1>1, <1>2, <1>3, <1>5, <2>1 DEF Labels!Winner, Labels!flipped, Labels!Preference
<1> QED BY <1>4, <1>5

\* What the split keeps for evaluation is exported into no other fold.
LEMMA PinnedIsNotTrained ==
  ASSUME LabelsInv, NEW v \in Labels!ExportFold("train")
  PROVE  split.eval[v] = Labels!None
<1>1. v \in points /\ v \in Labels!Vacancy /\ v \in Labels!Labelled
      /\ Labels!Folds(split.eval)[v] = "train"
  BY DEF Labels!ExportFold, LabelsInv, Labels!Labelled
<1> DEFINE pinned == {split.eval[w] : w \in Labels!Group(v)} \ {Labels!None}
<1>2. Labels!Folds(split.eval)[v] =
        CASE "test" \in pinned -> "test" [] pinned = {"validation"} -> "validation"
          [] OTHER -> hash[Labels!Id(Labels!Group(v))]
  BY <1>1 DEF Labels!Folds
<1>3. split.eval[v] \in {"test", "validation", Labels!None}
  BY <1>1 DEF LabelsInv, Labels!EVAL_FOLDS, Labels!Fold
<1>4. v \in Labels!Group(v)
  BY DEF Labels!Group
<1>5. split.eval[v] # Labels!None => split.eval[v] \in pinned
  BY <1>4
<1> QED
  <2> SUFFICES ASSUME split.eval[v] # Labels!None PROVE FALSE
    OBVIOUS
  <2>1. "test" \notin pinned
    <3> HIDE DEF pinned
    <3> QED BY <1>1, <1>2
  <2>2. Labels!Labelled \subseteq Labels!Vacancy
    BY DEF LabelsInv, Labels!Labelled, Labels!TrainingPairs, Labels!PairKey
  <2>3. \A w \in Labels!Group(v) : w \in Labels!Vacancy
    BY <1>1, <2>2 DEF Labels!Group
  <2>4. \A w \in Labels!Group(v) : split.eval[w] \in {"test", "validation", Labels!None}
    BY <2>3 DEF LabelsInv, Labels!EVAL_FOLDS, Labels!Fold
  <2>5. pinned \subseteq {"test", "validation"}
    BY <2>4
  <2>6. split.eval[v] \in pinned
    BY <1>5
  <2> HIDE DEF pinned
  <2>7. pinned = {"validation"}
    BY <2>1, <2>5, <2>6
  <2>8. Labels!Folds(split.eval)[v] = "validation"
    BY <1>2, <2>7
  <2> QED BY <1>1, <2>8

LEMMA LabelsStep == LabelsInv /\ [Labels!LdNext]_(Labels!ldVars) => LabelsInv'
<1> SUFFICES ASSUME LabelsInv, [Labels!LdNext]_(Labels!ldVars) PROVE LabelsInv'
  OBVIOUS
\* The judgements change: the folds and what was trained stay.
<1>1. ASSUME pairs' \in [Labels!PairKey -> LabelRow \cup {Labels!NoRow}],
             preferred' \in [Labels!PairKey -> 0..N], points' \subseteq Labels!Vacancy,
             \A p \in Labels!PairKey : SaysWhatWasSaid(p, pairs'[p], preferred'[p]),
             UNCHANGED <<split, trained>>
      PROVE  LabelsInv'
  BY <1>1 DEF LabelsInv, Labels!FrozenIsNeverTrained
<1>2. \A p \in Labels!PairKey : /\ pairs[p] \in LabelRow \cup {Labels!NoRow}
                                /\ SaysWhatWasSaid(p, pairs[p], preferred[p])
  BY DEF LabelsInv
<1>3. ASSUME NEW a \in Labels!Vacancy, NEW b \in Labels!Vacancy, NEW preference \in Given,
             a # b, Labels!SubmitPair(a, b, preference)
      PROVE  LabelsInv'
  <2> DEFINE pair == Labels!canonicalize_pair(a, b, preference)
             who  == Labels!Winner(a, b, preference)
             key  == pair.key
             row  == [label  |-> pair.label,
                      source |-> IF pairs[key] = Labels!NoRow THEN "dashboard" ELSE pairs[key].source]
  <2>1. /\ key \in Labels!PairKey /\ pair.label \in Labels!Preference /\ who \in 0..N
        /\ pair.label = "a_better" => who = key[1]
        /\ pair.label = "b_better" => who = key[2]
    BY <1>3, CanonicalSaysTheSame, KnowledgeAssumption
  <2>2. /\ pairs' = [pairs EXCEPT ![key] =
                       [label  |-> pair.label,
                        source |-> IF @ = Labels!NoRow THEN "dashboard" ELSE @.source]]
        /\ preferred' = [preferred EXCEPT ![key] = who]
        /\ UNCHANGED <<points, split, trained>>
    BY <1>3 DEF Labels!SubmitPair
  <2>3. pairs' = [pairs EXCEPT ![key] = row]
    BY <2>2
  <2> HIDE DEF pair, who, key
  <2>4. row \in LabelRow /\ SaysWhatWasSaid(key, row, who)
    BY <1>2, <2>1 DEF LabelRow, SaysWhatWasSaid
  <2> HIDE DEF row
  <2>5. /\ pairs' \in [Labels!PairKey -> LabelRow \cup {Labels!NoRow}]
        /\ preferred' \in [Labels!PairKey -> 0..N]
        /\ \A p \in Labels!PairKey : SaysWhatWasSaid(p, pairs'[p], preferred'[p])
    BY <2>1, <2>2, <2>3, <2>4 DEF LabelsInv
  <2> QED BY <1>1, <2>2, <2>5 DEF LabelsInv
<1>4. ASSUME NEW v \in Labels!Vacancy, Labels!SubmitPoint(v)
      PROVE  LabelsInv'
  BY <1>1, <1>4 DEF Labels!SubmitPoint, LabelsInv
<1>5. CASE Labels!ImportLegacy
  <2> DEFINE row(e) == Labels!canonicalize_pair(e.a, e.b, e.preference)
             new    == {e \in Legacy : pairs[row(e).key] = Labels!NoRow}
             of(p)  == CHOOSE e \in new : row(e).key = p
             keys   == {row(e).key : e \in new}
             who(p) == Labels!Winner(of(p).a, of(p).b, of(p).preference)
  <2>1. /\ pairs' = [p \in Labels!PairKey |->
                       IF p \in keys THEN [label |-> row(of(p)).label, source |-> "legacy_timeline"]
                                     ELSE pairs[p]]
        /\ preferred' = [p \in Labels!PairKey |->
                           IF p \in keys THEN Labels!Winner(of(p).a, of(p).b, of(p).preference)
                                         ELSE preferred[p]]
        /\ UNCHANGED <<points, split, trained>>
    BY <1>5 DEF Labels!ImportLegacy
  <2>2. ASSUME NEW e \in Legacy
        PROVE  /\ row(e).key \in Labels!PairKey /\ row(e).label \in Labels!Preference
               /\ Labels!Winner(e.a, e.b, e.preference) \in 0..N
               /\ row(e).label = "a_better" => Labels!Winner(e.a, e.b, e.preference) = row(e).key[1]
               /\ row(e).label = "b_better" => Labels!Winner(e.a, e.b, e.preference) = row(e).key[2]
    <3>1. e.a \in Labels!Vacancy /\ e.b \in Labels!Vacancy /\ e.a # e.b
          /\ e.preference \in Labels!Preference
      BY KnowledgeAssumption
    <3> QED BY <3>1, CanonicalSaysTheSame
  <2>3. ASSUME NEW p \in keys
        PROVE  of(p) \in Legacy /\ row(of(p)).key = p
    OBVIOUS
  <2>4. ASSUME NEW p \in keys
        PROVE  /\ row(of(p)).label \in Labels!Preference /\ who(p) \in 0..N
               /\ row(of(p)).label = "a_better" => who(p) = p[1]
               /\ row(of(p)).label = "b_better" => who(p) = p[2]
    <3> DEFINE e == of(p)
    <3>1. e \in Legacy /\ row(e).key = p
      BY <2>3
    <3> HIDE DEF e
    <3>2. /\ row(e).label \in Labels!Preference /\ Labels!Winner(e.a, e.b, e.preference) \in 0..N
          /\ row(e).label = "a_better" => Labels!Winner(e.a, e.b, e.preference) = p[1]
          /\ row(e).label = "b_better" => Labels!Winner(e.a, e.b, e.preference) = p[2]
      BY <2>2, <3>1
    <3> QED BY <3>2 DEF e
  <2>5. ASSUME NEW p \in Labels!PairKey
        PROVE  /\ pairs'[p] \in LabelRow \cup {Labels!NoRow} /\ preferred'[p] \in 0..N
               /\ SaysWhatWasSaid(p, pairs'[p], preferred'[p])
    <3>1. CASE p \in keys
      <4> DEFINE said == row(of(p)).label
                 pick == who(p)
      <4>1. said \in Labels!Preference /\ pick \in 0..N /\ (said = "a_better" => pick = p[1])
            /\ (said = "b_better" => pick = p[2])
        BY <2>4, <3>1
      <4>2. pairs'[p] = [label |-> said, source |-> "legacy_timeline"] /\ preferred'[p] = pick
        BY <2>1, <3>1
      <4> HIDE DEF said, pick, row, new, of, keys, who
      <4> QED BY <4>1, <4>2 DEF LabelRow, SaysWhatWasSaid
    <3>2. CASE p \notin keys
      <4> HIDE DEF row, new, of, keys, who
      <4> QED BY <1>2, <2>1, <3>2 DEF LabelsInv
    <3> QED BY <3>1, <3>2
  <2>6. /\ pairs' = [p \in Labels!PairKey |-> pairs'[p]]
        /\ preferred' = [p \in Labels!PairKey |-> preferred'[p]]
    <3> HIDE DEF row, new, of, keys, who
    <3> QED BY <2>1
  <2> HIDE DEF row, new, of, keys, who
  <2>7. pairs' \in [Labels!PairKey -> LabelRow \cup {Labels!NoRow}]
        /\ preferred' \in [Labels!PairKey -> 0..N]
    BY <2>5, <2>6
  <2> QED BY <1>1, <2>1, <2>5, <2>7 DEF LabelsInv
<1>6. CASE Labels!RollbackLegacy
  <2>1. /\ \A p \in Labels!PairKey : pairs'[p] \in {pairs[p], Labels!NoRow}
        /\ pairs' = [p \in Labels!PairKey |-> pairs'[p]]
        /\ UNCHANGED <<points, split, trained, preferred>>
    BY <1>6 DEF Labels!RollbackLegacy
  <2>2. pairs' \in [Labels!PairKey -> LabelRow \cup {Labels!NoRow}]
    BY <1>2, <2>1
  <2> QED BY <1>1, <1>2, <2>1, <2>2, NoRowSaysNothing DEF LabelsInv
<1>7. CASE Labels!DeleteResume
  <2>1. 0 \in 0..N
    BY KnowledgeAssumption
  <2> QED BY <1>1, <1>7, <2>1, NoRowSaysNothing DEF Labels!DeleteResume
<1>8. CASE Labels!FreezeSplit
  <2> DEFINE folds == Labels!Folds(split.eval)
             eval  == [v \in Labels!Vacancy |-> IF v \in Labels!Labelled /\ folds[v] \in Labels!EVAL_FOLDS
                                                  THEN folds[v] ELSE Labels!None]
  <2>1. split' = [frozen |-> TRUE, eval |-> eval] /\ ~split.frozen
        /\ UNCHANGED <<pairs, points, trained, preferred>>
    BY <1>8 DEF Labels!FreezeSplit
  <2>2. eval \in [Labels!Vacancy -> Labels!EVAL_FOLDS \cup {Labels!None}]
    <3> HIDE DEF folds
    <3> QED OBVIOUS
  <2> HIDE DEF eval
  <2> QED BY <2>1, <2>2 DEF LabelsInv, Labels!FrozenIsNeverTrained
<1>9. CASE Labels!TrainExport
  <2>1. trained' = trained \cup Labels!ExportFold("train") /\ split.frozen
        /\ UNCHANGED <<pairs, points, split, preferred>>
    BY <1>9 DEF Labels!TrainExport
  <2> QED BY <2>1, PinnedIsNotTrained DEF LabelsInv, Labels!FrozenIsNeverTrained
<1>10. CASE Labels!TrainEvaluate \/ UNCHANGED Labels!ldVars
  BY <1>10 DEF Labels!TrainEvaluate, Labels!ldVars, LabelsInv, Labels!FrozenIsNeverTrained
<1> QED
  BY <1>3, <1>4, <1>5, <1>6, <1>7, <1>8, <1>9, <1>10 DEF Labels!LdNext

LEMMA LabelsAreFair == LabelsInv => TrainingIsFair
BY DEF LabelsInv, TrainingIsFair, Labels!TrainingIsFair, Labels!ExportedAsPreferred,
       Labels!TrainingPairs, Labels!training_pair, SaysWhatWasSaid

-------------------------------------------------------------------------------
(* The review queue                                                         *)

LEMMA VacanciesAreFinite ==
  ASSUME NEW S, S \subseteq Review!Vacancy
  PROVE  /\ IsFiniteSet(S) /\ Review!Cardinality(S) = Cardinality(S) /\ Cardinality(S) \in Nat
         /\ S # {} => Cardinality(S) >= 1
<1>1. N \in Nat
  BY KnowledgeAssumption
<1>2. IsFiniteSet(Review!Vacancy)
  BY <1>1, FS_Interval DEF Review!Vacancy
<1>3. IsFiniteSet(S)
  BY <1>2, FS_Subset
<1>4. Cardinality(S) \in Nat /\ (Cardinality(S) = 0 <=> S = {})
  BY <1>3, FS_CardinalityType, FS_EmptySet
<1>5. Review!Cardinality(S) = Cardinality(S)
  BY Zenon DEF Review!Cardinality, Cardinality, Review!IsFiniteSet, IsFiniteSet
<1> QED BY <1>3, <1>4, <1>5

\* The first of a set are some of it, as long as it has any.
LEMMA SomeAreFirst ==
  ASSUME NEW S, S # {}, NEW key, \A v \in S : key[v] \in Nat, NEW n \in Nat \ {0}
  PROVE  Review!First(S, key, n) # {}
<1> DEFINE T == {key[v] : v \in S}
<1>1. T \subseteq Nat /\ T # {}
  OBVIOUS
<1> HIDE DEF T
<1>2. PICK x \in T : \A y \in T : x <= y
  BY <1>1, LeastNumber
<1> USE DEF T
<1>3. PICK v \in S : key[v] = x
  BY <1>2
<1>4. {w \in S : key[w] < key[v]} = {}
  BY <1>1, <1>2, <1>3
<1>5. Review!Cardinality({w \in S : key[w] < key[v]}) = 0
  BY <1>4, VacanciesAreFinite, FS_EmptySet
<1> QED BY <1>3, <1>5 DEF Review!First

\* With something eligible, the sample has something, whatever strata and shuffle are.
LEMMA SampleHasSome ==
  ASSUME Review!Eligible # {},
         NEW l, NEW sample \in Review!Samples(Review!Ranks(Review!Rankable, "current"), l)
  PROVE  LET full == Review!FilledUp(sample, Review!Ranks(Review!Rankable, "current"))
         IN  DOMAIN full # {} /\ DOMAIN full \subseteq Review!Vacancy
<1> DEFINE r == Review!Ranks(Review!Rankable, "current")
           E == Review!Eligible
           full == Review!FilledUp(sample, r)
           D == DOMAIN sample
           room == QueueLimit - Review!AtMost(Review!Cardinality(D), QueueLimit)
           more == Review!First(E \ D, r, room)
<1>1. E \subseteq Review!Rankable /\ Review!Rankable \subseteq Review!Vacancy
  BY DEF Review!Eligible, Review!Rankable
<1>2. \A v \in E : r[v] \in Nat
  <2>1. ASSUME NEW v \in Review!Rankable PROVE r[v] \in Nat
    <3> DEFINE W == {w \in Review!Rankable :
                       \/ scores[w]["current"] > scores[v]["current"]
                       \/ scores[w]["current"] = scores[v]["current"] /\ w <= v}
    <3>1. r[v] = Review!Cardinality(W)
      BY DEF Review!Ranks
    <3>2. W \subseteq Review!Vacancy
      BY <1>1
    <3> HIDE DEF W
    <3> QED BY <3>1, <3>2, VacanciesAreFinite
  <2> QED BY <1>1, <2>1
<1>3. D \subseteq E
  <2> DEFINE taken == Review!Taken(r, l)
             rest  == E \ UNION Review!Range(taken)
             size  == Review!AtMost(Review!Cardinality(rest), Quota["random"])
  <2>1. PICK random \in Review!kSubset(size, rest) : D = (E \ rest) \cup random
    BY DEF Review!Samples
  <2>2. random \subseteq rest
    BY DEF Review!kSubset
  <2> QED BY <2>1, <2>2
<1>4. full = [v \in D \cup more |-> IF v \in D THEN sample[v] ELSE {}]
  BY DEF Review!FilledUp
<1>5. DOMAIN full = D \cup more
  BY <1>4
<1>6. more \subseteq E
  BY DEF Review!First
<1>7. D = {} => more # {}
  <2> SUFFICES ASSUME D = {} PROVE more # {}
    OBVIOUS
  <2>1. Review!Cardinality(D) = 0
    BY VacanciesAreFinite, FS_EmptySet
  <2>2. room = QueueLimit /\ QueueLimit \in Nat \ {0}
    BY <2>1, KnowledgeAssumption DEF Review!AtMost
  <2>3. E \ D = E
    OBVIOUS
  <2> HIDE DEF room, E, r, D
  <2> QED BY <1>2, <2>2, <2>3, SomeAreFirst DEF E
<1> HIDE DEF full, D, more, E
<1>8. DOMAIN full # {} /\ DOMAIN full \subseteq Review!Vacancy
  BY <1>1, <1>3, <1>5, <1>6, <1>7
<1> QED BY <1>8 DEF full, r

\* An order of what is there begins with something.
LEMMA OrderBegins ==
  ASSUME NEW S, IsFiniteSet(S), S # {}, NEW key, NEW s \in Review!By(S, key)
  PROVE  \E n \in Nat \ {0} : DOMAIN s = 1..n
<1>1. Cardinality(S) \in Nat \ {0}
  BY FS_CardinalityType, FS_EmptySet
<1>2. Review!Cardinality(S) = Cardinality(S)
  BY Zenon DEF Review!Cardinality, Cardinality, Review!IsFiniteSet, IsFiniteSet
<1>3. s \in [1..Cardinality(S) -> S]
  BY <1>2 DEF Review!By
<1> QED BY <1>1, <1>3

\* Limiting the companies leaves something of what there is.
LEMMA LimitLeavesSome ==
  ASSUME NEW n \in Nat \ {0}, NEW items, DOMAIN items = 1..n,
         NEW shown \in Review!limit_bucket_dominance(items)
  PROVE  shown # <<>>
<1> DEFINE place == [i \in DOMAIN items |-> i]
           OfCompany(i) == {j \in 1..(i - 1) : Employer[items[j]] = Employer[items[i]]}
           few  == Review!Cardinality({Employer[items[i]] : i \in DOMAIN items}) < ShareOf
           kept == {i \in DOMAIN items : few \/ Review!Cardinality(OfCompany(i)) < Review!Cap}
           cut  == Review!First(kept, place, QueueLimit)
<1>1. PICK p \in Review!By(cut, place) : shown = [k \in DOMAIN p |-> items[p[k]]]
  BY DEF Review!limit_bucket_dominance
<1>2. Review!Cap \in Nat /\ Review!Cap > 0
  <2>1. QueueLimit \in Nat /\ ShareOf \in Nat /\ ShareOf > 0
    BY KnowledgeAssumption
  <2>2. QueueLimit \div ShareOf \in Nat
    BY <2>1
  <2> QED BY <2>2 DEF Review!Cap
<1>3. OfCompany(1) = {}
  OBVIOUS
<1>4. Review!Cardinality(OfCompany(1)) = 0
  BY <1>3, VacanciesAreFinite, FS_EmptySet
<1>5. 1 \in kept
  BY <1>2, <1>4
<1>6. kept \subseteq 1..n /\ \A i \in kept : place[i] \in Nat
  OBVIOUS
<1> HIDE DEF kept, place
<1>7. cut # {}
  <2>1. kept # {} /\ QueueLimit \in Nat \ {0}
    BY <1>5, KnowledgeAssumption
  <2> QED BY <1>6, <2>1, SomeAreFirst
<1>8. cut \subseteq 1..n
  BY <1>6 DEF Review!First
<1>9. IsFiniteSet(cut)
  <2>1. IsFiniteSet(1..n)
    BY FS_Interval
  <2> HIDE DEF cut
  <2> QED BY <1>8, <2>1, FS_Subset
<1> HIDE DEF cut
<1>10. PICK m \in Nat \ {0} : DOMAIN p = 1..m
  BY <1>1, <1>7, <1>9, OrderBegins
<1>11. 1 \in DOMAIN shown
  BY <1>1, <1>10
<1> QED BY <1>11

LEMMA NothingHides == NothingIsHidden
<1> SUFFICES ASSUME NEW shown \in Review!Queues, ~(Review!Rankable \subseteq labelled)
             PROVE  shown # <<>>
  BY DEF NothingIsHidden, Review!NothingIsHidden
<1> DEFINE r == Review!Ranks(Review!Rankable, "current")
           l == Review!Ranks(Review!WithLtr, "ltr")
<1>1. Review!Eligible # {}
  BY DEF Review!Eligible
<1>2. PICK sample \in Review!Samples(r, l) :
        \E items \in Review!Ordered(Review!FilledUp(sample, r), r) :
          shown \in Review!limit_bucket_dominance(items)
  BY DEF Review!Queues
<1> DEFINE full == Review!FilledUp(sample, r)
<1>3. PICK items \in Review!Ordered(full, r) : shown \in Review!limit_bucket_dominance(items)
  BY <1>2
<1>4. DOMAIN full # {} /\ DOMAIN full \subseteq Review!Vacancy
  BY <1>1, <1>2, SampleHasSome
<1> HIDE DEF full, r, l
<1>5. \E key : items \in Review!By(DOMAIN full, key)
  BY <1>3 DEF Review!Ordered
<1>6. PICK n \in Nat \ {0} : DOMAIN items = 1..n
  BY <1>4, <1>5, VacanciesAreFinite, OrderBegins
<1> QED BY <1>3, <1>6, LimitLeavesSome

-------------------------------------------------------------------------------
(* Strategy                                                                 *)

\* A set of times has a first one.
LEMMA FirstTime ==
  ASSUME NEW T, T \subseteq Nat, T # {}
  PROVE  Strategy!Min(T) \in T /\ \A t \in T : Strategy!Min(T) <= t
BY LeastNumber DEF Strategy!Min

Occurrence == [status : Strategy!Status, at : Strategy!Times]

\* What was heard from an employer is on the timeline.
StrategyInv ==
  /\ status \in [Application -> Strategy!Status]
  /\ timeline \in [Application -> SUBSET Occurrence]
  /\ confirmed \in [Application -> Strategy!Times \cup {NoOne}]
  /\ answered \subseteq Application /\ now \in Strategy!Times
  /\ \A a \in Application : status[a] \in Strategy!TRACKING
                              => \E e \in timeline[a] : e.status = status[a]

LEMMA StrategyBegin == Strategy!JsInit => StrategyInv
<1> SUFFICES ASSUME Strategy!JsInit PROVE StrategyInv
  OBVIOUS
<1>1. /\ status \in [Application -> Strategy!Status]
      /\ \A a \in Application : status[a] \notin Strategy!TRACKING
  BY DEF Strategy!JsInit, Strategy!Status, Strategy!PRE_SUBMISSION, Strategy!POST_SUBMISSION,
         Strategy!SUBMISSION_IMPLIED, Strategy!TRACKING
<1>2. 0 \in Strategy!Times
  BY KnowledgeAssumption DEF Strategy!Times
<1>3. /\ timeline \in [Application -> SUBSET Occurrence] /\ answered \subseteq Application
      /\ confirmed \in [Application -> Strategy!Times \cup {NoOne}]
  BY DEF Strategy!JsInit
<1>4. now = 0
  BY DEF Strategy!JsInit
<1> QED BY <1>1, <1>2, <1>3, <1>4 DEF StrategyInv

\* The past only grows: what is known of an application's submission and answers.
Grows ==
  /\ answered \subseteq answered' /\ now <= now'
  /\ \A a \in Application :
       /\ timeline[a] \subseteq timeline'[a]
       /\ confirmed[a] # NoOne => confirmed'[a] = confirmed[a]
       /\ status'[a] = status[a] \/ \E e \in timeline'[a] : e.status = status'[a]
       /\ status'[a] # status[a] => status'[a] \in Strategy!Status

LEMMA StrategyGrows ==
  StrategyInv /\ [Strategy!JsNext]_(Strategy!jsVars) => StrategyInv' /\ Grows
<1> SUFFICES ASSUME StrategyInv, [Strategy!JsNext]_(Strategy!jsVars) PROVE StrategyInv' /\ Grows
  OBVIOUS
<1>1. now \in Nat /\ MaxTime \in Nat
  BY KnowledgeAssumption DEF StrategyInv, Strategy!Times
<1>2. CASE UNCHANGED Strategy!history
  BY <1>1, <1>2 DEF Strategy!history, StrategyInv, Grows
<1>3. ASSUME NEW a \in Application, NEW s \in Reached, Strategy!Changes(a, s)
      PROVE  StrategyInv' /\ Grows
  <2> DEFINE e == [status |-> s, at |-> now]
  <2>1. /\ status' = [status EXCEPT ![a] = s] /\ timeline' = [timeline EXCEPT ![a] = @ \cup {e}]
        /\ UNCHANGED <<answered, confirmed, now>>
    BY <1>3 DEF Strategy!Changes
  <2>2. s \in Strategy!Status
    BY KnowledgeAssumption
  <2>3. e \in Occurrence /\ e.status = s
    BY <2>2 DEF Occurrence, StrategyInv
  <2> HIDE DEF e
  <2>4. /\ status' \in [Application -> Strategy!Status]
        /\ timeline' \in [Application -> SUBSET Occurrence]
    BY <2>1, <2>2, <2>3 DEF StrategyInv
  <2>5. \A b \in Application : IF b = a THEN status'[b] = s /\ timeline'[b] = timeline[b] \cup {e}
                                        ELSE status'[b] = status[b] /\ timeline'[b] = timeline[b]
    BY <2>1 DEF StrategyInv
  <2>6. \A b \in Application : status'[b] \in Strategy!TRACKING
                                 => \E x \in timeline'[b] : x.status = status'[b]
    BY <2>3, <2>5 DEF StrategyInv
  <2>7. Grows
    BY <1>1, <2>1, <2>2, <2>3, <2>5 DEF Grows
  <2> QED BY <2>1, <2>4, <2>6, <2>7 DEF StrategyInv
<1>4. ASSUME NEW a \in Application, Strategy!Hears(a)
      PROVE  StrategyInv' /\ Grows
  BY <1>1, <1>4 DEF Strategy!Hears, StrategyInv, Grows
<1>5. ASSUME NEW a \in Application, Strategy!LedgerConfirms(a)
      PROVE  StrategyInv' /\ Grows
  <2>1. /\ confirmed[a] = NoOne /\ confirmed' = [confirmed EXCEPT ![a] = now]
        /\ UNCHANGED <<status, timeline, answered, now>>
    BY <1>5 DEF Strategy!LedgerConfirms
  <2> QED BY <1>1, <2>1 DEF StrategyInv, Grows
<1>6. CASE Strategy!Tick
  <2>1. now' \in Strategy!Times /\ now <= now' /\ UNCHANGED <<status, timeline, answered, confirmed>>
    BY <1>1, <1>6 DEF Strategy!Tick, Strategy!Times
  <2> QED BY <2>1 DEF StrategyInv, Grows
<1>7. ASSUME NEW q \in Request,
             \/ Strategy!Generate(q) \/ Strategy!GenerateCommits(q) \/ Strategy!Applies(q)
             \/ Strategy!DecideCommits(q)
             \/ \E i \in Strategy!Rows, d \in {"accept", "reject"} : Strategy!Decides(q, i, d)
      PROVE  UNCHANGED Strategy!history
  BY <1>7 DEF Strategy!Generate, Strategy!GenerateCommits, Strategy!Applies,
              Strategy!DecideCommits, Strategy!Decides
<1>8. ASSUME NEW r \in Resume, Strategy!DeleteResume(r)
      PROVE  UNCHANGED Strategy!history
  BY <1>8 DEF Strategy!DeleteResume
<1>9. CASE UNCHANGED Strategy!jsVars
  BY <1>2, <1>9 DEF Strategy!jsVars, Strategy!history
<1> QED
  BY <1>2, <1>3, <1>4, <1>5, <1>6, <1>7, <1>8, <1>9 DEF Strategy!JsNext

LEMMA CountedStays ==
  ASSUME StrategyInv, StrategyInv', Grows, NEW a \in Application,
         Strategy!OnRecord(a), a \in Strategy!Counted({a})
  PROVE  (a \in Strategy!Counted({a}))'
<1>1. Strategy!Sent(a) /\ Strategy!Mature(a)
  BY DEF Strategy!Counted
<1>2. timeline[a] \subseteq timeline'[a] /\ timeline'[a] \subseteq Occurrence
      /\ timeline[a] \subseteq Occurrence
      /\ (confirmed[a] # NoOne => confirmed'[a] = confirmed[a])
      /\ confirmed[a] \in Strategy!Times \cup {NoOne} /\ confirmed'[a] \in Strategy!Times \cup {NoOne}
  BY DEF Grows, StrategyInv
<1>3. Strategy!Sent(a)'
  BY <1>2 DEF Strategy!Sent, Strategy!OnRecord, Strategy!StatusesOf
<1>4. Strategy!TimesSent(a) \subseteq Strategy!TimesSent(a)'
  BY <1>2 DEF Strategy!TimesSent
<1>5. Strategy!TimesSent(a) \subseteq Nat /\ Strategy!TimesSent(a)' \subseteq Nat
  BY <1>2, KnowledgeAssumption DEF Strategy!TimesSent, Strategy!Times, Occurrence
<1>6. CASE Strategy!Responded(a)
  <2>1. Strategy!Responded(a)'
    <3>1. CASE a \in answered
      BY <3>1 DEF Grows, Strategy!Responded
    <3>2. CASE Strategy!StatusesOf(a) \cap Strategy!TRACKING # {}
      <4>1. PICK x \in Strategy!TRACKING : x \in Strategy!StatusesOf(a)
        BY <3>2
      <4>2. \E e \in timeline[a] : e.status = x
        BY <4>1 DEF StrategyInv, Strategy!StatusesOf
      <4>3. x \in Strategy!StatusesOf(a)'
        BY <1>2, <4>2 DEF Strategy!StatusesOf
      <4> QED BY <4>1, <4>3 DEF Strategy!Responded
    <3> QED BY <1>6, <3>1, <3>2 DEF Strategy!Responded
  <2> QED BY <1>3, <2>1 DEF Strategy!Counted, Strategy!Mature
<1>7. CASE ~Strategy!Responded(a) /\ Strategy!TimesSent(a) = {}
  \* Something else than "submitted" is on record, and that is an answer.
  <2>1. confirmed[a] = NoOne
    BY <1>7 DEF Strategy!TimesSent
  <2>2. PICK e \in timeline[a] : e.status \in Strategy!SUBMISSION_IMPLIED
    BY <2>1 DEF Strategy!OnRecord
  <2>3. e.status # "submitted"
    BY <1>7, <2>2 DEF Strategy!TimesSent
  <2>4. e.status \in Strategy!TRACKING /\ e.status \in Strategy!StatusesOf(a)
    BY <2>2, <2>3 DEF Strategy!SUBMISSION_IMPLIED, Strategy!StatusesOf
  <2> QED BY <1>7, <2>4 DEF Strategy!Responded
<1>8. CASE Strategy!TimesSent(a) # {} /\ Strategy!Min(Strategy!TimesSent(a)) + Maturity <= now
  <2> DEFINE first == Strategy!Min(Strategy!TimesSent(a))
             again == Strategy!Min(Strategy!TimesSent(a)')
  <2>1. first \in Strategy!TimesSent(a) /\ Strategy!TimesSent(a)' # {}
    BY <1>4, <1>5, <1>8, FirstTime
  <2>2. again \in Strategy!TimesSent(a)' /\ \A t \in Strategy!TimesSent(a)' : again <= t
    BY <1>5, <2>1, FirstTime
  <2>3. again <= first /\ again \in Nat /\ first \in Nat
    BY <1>4, <1>5, <2>1, <2>2
  <2>4. now \in Nat /\ now' \in Nat /\ now <= now' /\ Maturity \in Nat
    BY KnowledgeAssumption DEF Grows, StrategyInv, Strategy!Times
  <2>5. first + Maturity <= now
    BY <1>8
  <2> HIDE DEF first, again
  <2>6. again + Maturity <= now'
    BY <2>3, <2>4, <2>5
  <2> QED BY <1>3, <2>1, <2>6 DEF Strategy!Counted, Strategy!Mature, again
<1> QED BY <1>1, <1>6, <1>7, <1>8 DEF Strategy!Mature

-------------------------------------------------------------------------------
(* Claims                                                                   *)

Gap == {"unknown", "contradicted"}

\* A gap, of a claim or of the requirement, was somebody's answer.
ClaimsInv ==
  /\ claims \in [Requirement -> Shape] /\ found \in [Requirement -> Seq(Claims!Relation)]
  /\ level \in [Requirement -> Claims!Relation \cup {"open"}] /\ denied \subseteq Requirement
  /\ \A r \in Requirement : level[r] \in Gap => r \in denied
  /\ \A r \in Requirement : \A i \in 1..Len(found[r]) : found[r][i] \in Gap => r \in denied
  /\ score # Claims!NoScore => \A r \in Requirement : level[r] # "open"
  /\ Claims!FailureIsNotAGap

LEMMA FirstPlace ==
  ASSUME NEW T, T \subseteq Nat, T # {}
  PROVE  Claims!Min(T) \in T
<1>1. Claims!Min(T) = Strategy!Min(T)
  BY DEF Claims!Min, Strategy!Min
<1> QED BY <1>1, FirstTime

\* The relation of a claim is a relation, and a gap only if an evaluation said so.
LEMMA ClaimAnswered ==
  ASSUME NEW n \in Nat, NEW tried \in [1..n -> Claims!Evaluation \cup {Claims!Raised}]
  PROVE  /\ Claims!ClaimRelation(tried) \in Claims!Relation
         /\ Claims!ClaimRelation(tried) \in Gap
              => {tried[i].relation : i \in 1..n} \cap {"unknown", "contradicted"} # {}
<1> DEFINE ok   == {i \in DOMAIN tried : tried[i] # Claims!Raised}
           best == {i \in ok : \A j \in ok : tried[j].strength <= tried[i].strength}
           from == {3 - tried[i].strength : i \in ok}
<1>1. ASSUME NEW i \in ok
      PROVE  /\ i \in 1..n /\ tried[i].relation \in Claims!Relation
             /\ tried[i].strength \in 0..3
  <2>1. i \in 1..n /\ tried[i] \in Claims!Evaluation
    OBVIOUS
  <2>2. PICK x \in Claims!Relation : tried[i] \in [relation : {x}, strength : Claims!Strengths(x)]
    BY <2>1 DEF Claims!Evaluation
  <2>3. Claims!Strengths(x) \subseteq 0..3
    BY DEF Claims!Strengths
  <2> QED BY <2>1, <2>2, <2>3
<1>2. CASE ok = {}
  BY <1>2 DEF Claims!ClaimRelation, Claims!Relation, Gap
<1>3. CASE ok # {}
  <2>1. from \subseteq Nat /\ from # {}
    BY <1>1, <1>3
  <2>2. PICK least \in from : \A t \in from : least <= t
    BY <2>1, FirstTime
  <2>3. PICK i \in ok : least = 3 - tried[i].strength
    OBVIOUS
  <2>4. ASSUME NEW j \in ok PROVE tried[j].strength <= tried[i].strength
    <3>1. 3 - tried[i].strength <= 3 - tried[j].strength
      BY <2>2, <2>3
    <3> QED BY <1>1, <3>1
  <2>5. i \in best /\ ok \subseteq Nat /\ best \subseteq ok
    <3>1. ok \subseteq Nat
      BY <1>1
    <3>2. best \subseteq ok
      OBVIOUS
    <3>3. i \in best
      BY <2>4
    <3> QED BY <3>1, <3>2, <3>3
  <2>6. Claims!Min(best) \in best
    BY <2>5, FirstPlace
  <2> DEFINE k == Claims!Min(best)
  <2>7. Claims!ClaimRelation(tried) = tried[k].relation
    BY <1>3 DEF Claims!ClaimRelation
  <2>8. k \in ok
    BY <2>6
  <2>9. k \in 1..n /\ tried[k].relation \in Claims!Relation
    BY <1>1, <2>8
  <2> HIDE DEF k
  <2> QED BY <2>7, <2>9 DEF Gap
<1> QED BY <1>2, <1>3

\* The best of a group is a gap only if all of it is.
LEMMA OrIsBest ==
  ASSUME NEW group \in SUBSET Claims!Relation
  PROVE  /\ Claims!OrRelation(group) \in Claims!Relation \ {"contradicted"}
         /\ Claims!OrRelation(group) \in Gap => group \subseteq Gap
<1> DEFINE ranked == <<"entailed", "partial", "related_but_insufficient",
                       "insufficient_evidence", "evaluation_error">>
           in == {i \in DOMAIN ranked : ranked[i] \in group}
<1>1. /\ ranked[1] = "entailed" /\ ranked[2] = "partial" /\ ranked[3] = "related_but_insufficient"
      /\ ranked[4] = "insufficient_evidence" /\ ranked[5] = "evaluation_error"
      /\ DOMAIN ranked = 1..5
  OBVIOUS
<1>2. CASE in = {}
  <2>1. Claims!OrRelation(group) = "unknown"
    BY <1>2 DEF Claims!OrRelation
  <2>2. 1 \in DOMAIN ranked /\ 2 \in DOMAIN ranked /\ 3 \in DOMAIN ranked /\ 4 \in DOMAIN ranked
        /\ 5 \in DOMAIN ranked
    BY <1>1
  <2>3. group \cap {"entailed", "partial", "related_but_insufficient", "insufficient_evidence",
                    "evaluation_error"} = {}
    BY <1>1, <1>2, <2>2
  <2> QED BY <2>1, <2>3 DEF Claims!Relation, Gap
<1>3. CASE in # {}
  <2>1. Claims!Min(in) \in in
    BY <1>1, <1>3, FirstPlace
  <2>2. Claims!OrRelation(group) = ranked[Claims!Min(in)]
    BY <1>3 DEF Claims!OrRelation
  <2>3. Claims!Min(in) \in 1..5
    BY <1>1, <2>1
  <2> DEFINE k == Claims!Min(in)
  <2> HIDE DEF in, ranked, k
  <2>4. k \in {1, 2, 3, 4, 5}
    BY <2>3 DEF k
  <2> QED BY <1>1, <2>2, <2>4 DEF Claims!Relation, Gap, k
<1> QED BY <1>2, <1>3

LEMMA OverallIsLenient ==
  ASSUME NEW relations \in SUBSET Claims!Relation, Claims!Overall(relations) \in Gap
  PROVE  relations \subseteq Gap
BY DEF Claims!Overall, Claims!Relation, Gap

LEMMA OverallIsRelation ==
  \A relations : Claims!Overall(relations) \in Claims!Relation
BY DEF Claims!Overall, Claims!Relation

LEMMA ClaimsBegin == Claims!CmInit => ClaimsInv
<1> SUFFICES ASSUME Claims!CmInit PROVE ClaimsInv
  OBVIOUS
<1>1. claims \in [Requirement -> Shape]
  BY KnowledgeAssumption DEF Claims!CmInit
<1>2. \A r \in Requirement : found[r] = <<>> /\ level[r] = "open"
  BY DEF Claims!CmInit
<1>3. \A r \in Requirement : 1..Len(found[r]) = {} /\ level[r] \notin Gap
  BY <1>2 DEF Gap
<1> QED BY <1>1, <1>2, <1>3 DEF Claims!CmInit, ClaimsInv, Claims!FailureIsNotAGap

\* A requirement that is a gap has a claim that is one.
LEMMA AggregateIsAnswered ==
  ASSUME ClaimsInv, NEW r \in Requirement, Claims!Aggregate(r)
  PROVE  level'[r] \in Claims!Relation /\ (level'[r] \in Gap => r \in denied)
<1> DEFINE all == DOMAIN claims[r].claims
           alternatives == {i \in Claims!Deciding(r) : claims[r].claims[i].alternative}
           group == {found[r][i] : i \in alternatives}
           rest  == {found[r][i] : i \in Claims!Deciding(r) \ alternatives}
           resolved == rest \cup (IF alternatives = {} THEN {} ELSE {Claims!OrRelation(group)})
<1>1. /\ claims[r] \in Shape /\ found[r] \in Seq(Claims!Relation)
      /\ Len(found[r]) = Len(claims[r].claims)
      /\ \A i \in 1..Len(found[r]) : found[r][i] \in Gap => r \in denied
  BY DEF ClaimsInv, Claims!Aggregate
<1>2. all = 1..Len(found[r]) /\ (claims[r].claims # <<>> => all # {})
  BY <1>1 DEF Shape
<1>3. level'[r] = IF claims[r].claims = <<>> THEN "insufficient_evidence" ELSE Claims!Overall(resolved)
  BY DEF Claims!Aggregate, ClaimsInv
<1>4. Claims!Deciding(r) \subseteq all /\ (all # {} => Claims!Deciding(r) # {})
  BY DEF Claims!Deciding
<1>5. \A i \in Claims!Deciding(r) : /\ found[r][i] \in Claims!Relation
                                    /\ found[r][i] \in Gap => r \in denied
  BY <1>1, <1>2, <1>4
<1>6. CASE claims[r].claims = <<>>
  BY <1>3, <1>6 DEF Claims!Relation, Gap
<1>7. CASE claims[r].claims # <<>>
  <2>1. PICK i \in Claims!Deciding(r) : TRUE
    BY <1>2, <1>4, <1>7
  <2>2. group \in SUBSET Claims!Relation /\ rest \in SUBSET Claims!Relation
    BY <1>5
  <2>3. resolved \in SUBSET Claims!Relation
    BY <2>2, OrIsBest
  <2>4. ASSUME Claims!Overall(resolved) \in Gap PROVE r \in denied
    <3>1. resolved \subseteq Gap
      BY <2>3, <2>4, OverallIsLenient
    <3>2. CASE i \in alternatives
      <4>1. Claims!OrRelation(group) \in Gap
        BY <3>1, <3>2
      <4>2. found[r][i] \in Gap
        BY <2>2, <3>2, <4>1, OrIsBest
      <4> QED BY <1>5, <4>2
    <3>3. CASE i \notin alternatives
      <4>1. found[r][i] \in Gap
        BY <2>1, <3>1, <3>3
      <4> QED BY <1>5, <4>1
    <3> QED BY <3>2, <3>3
  <2> HIDE DEF resolved
  <2> QED BY <1>3, <1>7, <2>4, OverallIsRelation
<1> QED BY <1>6, <1>7

\* The score of a run in which every gap is an answer.
LEMMA ScoreIsAnswered ==
  ASSUME ClaimsInv, Claims!Score
  PROVE  (Claims!FailureIsNotAGap)'
<1>1. score' = Claims!Scored /\ UNCHANGED <<claims, found, denied, level>>
  BY DEF Claims!Score
<1>2. /\ score'.eligibility = Claims!Eligibility
      /\ score'.missing = Claims!Cardinality(Claims!NotMet)
  BY <1>1 DEF Claims!Scored
<1>3. \A r \in Requirement : Claims!Missing(r) => r \in denied
  BY DEF ClaimsInv, Claims!Missing, Gap
<1>4. score'.missing <= Claims!Cardinality(denied')
  <2>1. Claims!NotMet \subseteq denied
    BY <1>3 DEF Claims!NotMet, Claims!Required
  <2>2. IsFiniteSet(denied)
    BY FS_Subset, KnowledgeAssumption DEF ClaimsInv
  <2>3. Cardinality(Claims!NotMet) <= Cardinality(denied)
    BY <2>1, <2>2, FS_Subset
  <2>4. \A S : Claims!Cardinality(S) = Cardinality(S)
    BY Zenon DEF Claims!Cardinality, Cardinality
  <2> QED BY <1>1, <1>2, <2>3, <2>4
<1>5. ASSUME score'.eligibility = "ineligible" PROVE \E r \in denied : Claims!Hard(r)
  <2>1. Claims!Confirmed
    BY <1>2, <1>5 DEF Claims!Eligibility
  <2> QED BY <1>3, <2>1 DEF Claims!Confirmed
<1>6. ASSUME NEW r \in Requirement, claims[r].importance = "required",
             level[r] = "evaluation_error"
      PROVE  score'.eligibility # "eligible"
  <2>1. Claims!Uncertain(r)
    BY <1>6 DEF Claims!Uncertain
  <2>2. CASE Claims!Hard(r)
    <3>1. Claims!Unresolved
      BY <2>1, <2>2 DEF Claims!Unresolved
    <3> QED BY <1>2, <3>1 DEF Claims!Eligibility
  <2>3. CASE ~Claims!Hard(r)
    <3>1. \E q \in Claims!Required : level[q] = "evaluation_error"
      BY <1>6, <2>3 DEF Claims!Required
    <3> QED BY <1>2, <3>1 DEF Claims!Eligibility
  <2> QED BY <2>2, <2>3
<1> QED
  BY <1>1, <1>4, <1>5, <1>6 DEF Claims!FailureIsNotAGap, Claims!Hard

LEMMA ClaimsStep == ClaimsInv /\ [Claims!CmNext]_(Claims!cmVars) => ClaimsInv'
<1> SUFFICES ASSUME ClaimsInv, [Claims!CmNext]_(Claims!cmVars) PROVE ClaimsInv'
  OBVIOUS
<1>1. ASSUME NEW r \in Requirement, Claims!JudgeClaim(r)
      PROVE  ClaimsInv'
  <2> DEFINE claim == claims[r].claims[Len(found[r]) + 1]
             Judged(relation, given) ==
               /\ found' = [found EXCEPT ![r] = Append(@, relation)]
               /\ denied' = denied \cup (IF given \cap {"unknown", "contradicted"} = {} THEN {} ELSE {r})
  <2>1. \E relation \in Claims!Relation : \E given :
          /\ Judged(relation, given)
          /\ relation \in Gap => given \cap {"unknown", "contradicted"} # {}
    <3>1. ASSUME NEW n \in 0..MaxCandidates,
                 NEW tried \in [1..n -> Claims!Evaluation \cup {Claims!Raised}],
                 Judged(Claims!ClaimRelation(tried), {tried[i].relation : i \in 1..n})
          PROVE  \E relation \in Claims!Relation : \E given :
                   /\ Judged(relation, given)
                   /\ relation \in Gap => given \cap {"unknown", "contradicted"} # {}
      <4>1. n \in Nat
        OBVIOUS
      <4>2. /\ Claims!ClaimRelation(tried) \in Claims!Relation
            /\ Claims!ClaimRelation(tried) \in Gap
                 => {tried[i].relation : i \in 1..n} \cap {"unknown", "contradicted"} # {}
        BY <4>1, ClaimAnswered
      <4> QED BY <3>1, <4>2
    <3>2. ASSUME NEW x \in {"entailed", "partial", "insufficient_evidence", "evaluation_error"},
                 Judged(x, {})
          PROVE  \E relation \in Claims!Relation : \E given :
                   /\ Judged(relation, given)
                   /\ relation \in Gap => given \cap {"unknown", "contradicted"} # {}
      <4>1. x \in Claims!Relation /\ x \notin Gap
        BY DEF Claims!Relation, Gap
      <4> QED BY <3>2, <4>1
    <3>3. \/ \E n \in 0..MaxCandidates :
               \E tried \in [1..n -> Claims!Evaluation \cup {Claims!Raised}] :
                 Judged(Claims!ClaimRelation(tried), {tried[i].relation : i \in 1..n})
          \/ \E x \in {"entailed", "partial", "insufficient_evidence"} : Judged(x, {})
          \/ Judged("evaluation_error", {})
      BY <1>1 DEF Claims!JudgeClaim
    <3> HIDE DEF Judged
    <3> QED BY <3>1, <3>2, <3>3
  <2>2. PICK relation \in Claims!Relation : \E given :
          /\ Judged(relation, given)
          /\ relation \in Gap => given \cap {"unknown", "contradicted"} # {}
    BY <2>1
  <2>3. level[r] = "open" /\ UNCHANGED <<claims, level, score>>
    BY <1>1 DEF Claims!JudgeClaim
  <2>4. found[r] \in Seq(Claims!Relation)
    BY DEF ClaimsInv
  <2>5. /\ Append(found[r], relation) \in Seq(Claims!Relation)
        /\ \A i \in 1..Len(Append(found[r], relation)) :
             Append(found[r], relation)[i] = relation
             \/ (i \in 1..Len(found[r]) /\ Append(found[r], relation)[i] = found[r][i])
    BY <2>4
  <2>6. /\ found' = [found EXCEPT ![r] = Append(found[r], relation)]
        /\ denied \subseteq denied' /\ denied' \subseteq Requirement /\ (relation \in Gap => r \in denied')
    <3>1. PICK given :
            /\ Judged(relation, given)
            /\ relation \in Gap => given \cap {"unknown", "contradicted"} # {}
      BY <2>2
    <3> QED BY <3>1 DEF ClaimsInv
  <2> HIDE DEF Judged
  <2>7. found' \in [Requirement -> Seq(Claims!Relation)]
    BY <2>5, <2>6 DEF ClaimsInv
  <2>8. \A q \in Requirement : \A i \in 1..Len(found'[q]) : found'[q][i] \in Gap => q \in denied'
    <3> SUFFICES ASSUME NEW q \in Requirement, NEW i \in 1..Len(found'[q]), found'[q][i] \in Gap
                 PROVE  q \in denied'
      OBVIOUS
    <3>1. CASE q = r
      <4>1. found'[q] = Append(found[r], relation)
        BY <2>6, <3>1 DEF ClaimsInv
      <4> QED BY <2>5, <2>6, <3>1, <4>1 DEF ClaimsInv
    <3>2. CASE q # r
      BY <2>6, <3>2 DEF ClaimsInv
    <3> QED BY <3>1, <3>2
  <2>9. score = Claims!NoScore
    BY <2>3 DEF ClaimsInv
  <2> QED BY <2>3, <2>6, <2>7, <2>8, <2>9 DEF ClaimsInv, Claims!FailureIsNotAGap
\* A requirement gets its relation.
<1>2. ASSUME NEW r \in Requirement, NEW x \in Claims!Relation, level[r] = "open",
             level' = [level EXCEPT ![r] = x], x \in Gap => r \in denied,
             found' = [found EXCEPT ![r] = <<>>], claims' \in [Requirement -> Shape],
             UNCHANGED <<denied, score>>
      PROVE  ClaimsInv'
  <2>1. score = Claims!NoScore
    BY <1>2 DEF ClaimsInv
  <2>2. found' \in [Requirement -> Seq(Claims!Relation)]
    BY <1>2 DEF ClaimsInv
  <2>3. \A q \in Requirement : \A i \in 1..Len(found'[q]) : found'[q][i] \in Gap => q \in denied'
    <3> SUFFICES ASSUME NEW q \in Requirement, NEW i \in 1..Len(found'[q]), found'[q][i] \in Gap
                 PROVE  q \in denied
      BY <1>2
    <3>1. CASE q = r
      <4>1. found'[q] = <<>>
        BY <1>2, <3>1 DEF ClaimsInv
      <4> QED BY <4>1
    <3>2. CASE q # r
      BY <1>2, <3>2 DEF ClaimsInv
    <3> QED BY <3>1, <3>2
  <2> QED BY <1>2, <2>1, <2>2, <2>3 DEF ClaimsInv, Claims!FailureIsNotAGap
<1>3. ASSUME NEW r \in Requirement, Claims!Aggregate(r)
      PROVE  ClaimsInv'
  <2>1. level'[r] \in Claims!Relation /\ (level'[r] \in Gap => r \in denied)
    BY <1>3, AggregateIsAnswered
  <2>2. level[r] = "open" /\ level' = [level EXCEPT ![r] = level'[r]]
        /\ found' = [found EXCEPT ![r] = <<>>] /\ UNCHANGED <<claims, denied, score>>
    BY <1>3 DEF Claims!Aggregate, ClaimsInv
  <2> DEFINE x == level'[r]
  <2>3. x \in Claims!Relation /\ (x \in Gap => r \in denied) /\ level' = [level EXCEPT ![r] = x]
    BY <2>1, <2>2
  <2>4. claims' \in [Requirement -> Shape]
    BY <2>2 DEF ClaimsInv
  <2> HIDE DEF x
  <2> QED BY <1>2, <2>2, <2>3, <2>4
<1>4. ASSUME NEW r \in Requirement, Claims!RequirementFails(r)
      PROVE  ClaimsInv'
  <2>1. claims' \in [Requirement -> Shape]
    <3> DEFINE C == [criticality : {"hard_blocker", "required", "preferred"},
                     alternative : BOOLEAN, duration : BOOLEAN]
               none == <<>>
    <3>1. claims[r] \in [importance : {"required", "preferred"}, blocker : BOOLEAN, claims : Seq(C)]
      BY DEF ClaimsInv, Shape
    <3>2. none \in Seq(C)
      OBVIOUS
    <3>3. Shape = [importance : {"required", "preferred"}, blocker : BOOLEAN, claims : Seq(C)]
      BY DEF Shape
    <3> HIDE DEF C, none
    <3>4. PICK d \in Shape : d = [claims[r] EXCEPT !.claims = none]
      BY <3>1, <3>2, <3>3
    <3>5. d \in Shape /\ d = [claims[r] EXCEPT !.claims = <<>>]
      BY <3>4 DEF none
    <3>6. claims' = [claims EXCEPT ![r] = d]
      BY <1>4, <3>5 DEF Claims!RequirementFails, ClaimsInv
    <3> QED BY <3>6 DEF ClaimsInv
  <2>2. /\ level[r] = "open" /\ level' = [level EXCEPT ![r] = "evaluation_error"]
        /\ found' = [found EXCEPT ![r] = <<>>] /\ UNCHANGED <<denied, score>>
    BY <1>4 DEF Claims!RequirementFails, ClaimsInv
  <2>3. "evaluation_error" \in Claims!Relation /\ "evaluation_error" \notin Gap
    BY DEF Claims!Relation, Gap
  <2> QED BY <1>2, <2>1, <2>2, <2>3
<1>5. CASE Claims!Score
  <2>1. (\A r \in Requirement : level[r] # "open") /\ UNCHANGED <<claims, found, denied, level>>
    BY <1>5 DEF Claims!Score
  <2> QED BY <1>5, <2>1, ScoreIsAnswered DEF ClaimsInv
<1>6. CASE UNCHANGED Claims!cmVars
  BY <1>6 DEF Claims!cmVars, ClaimsInv, Claims!FailureIsNotAGap, Claims!Hard
<1> QED BY <1>1, <1>3, <1>4, <1>5, <1>6 DEF Claims!CmNext

-------------------------------------------------------------------------------
(* The composition: a step of one part leaves the others alone.             *)

LEMMA PartSteps ==
  [Next]_vars => /\ [Facts!Next]_(Facts!vars) /\ [Resumes!Next]_(Resumes!vars)
                 /\ [Batches!EvNext]_(Batches!evVars) /\ [Claims!CmNext]_(Claims!cmVars)
                 /\ [Labels!LdNext]_(Labels!ldVars) /\ [Review!RqNext]_(Review!rqVars)
                 /\ [Strategy!JsNext]_(Strategy!jsVars)
<1> SUFFICES ASSUME [Next]_vars
             PROVE  /\ Facts!Next \/ UNCHANGED factVars
                    /\ Resumes!Next \/ UNCHANGED syncVars
                    /\ Batches!EvNext \/ UNCHANGED batchVars
                    /\ Claims!CmNext \/ UNCHANGED claimVars
                    /\ Labels!LdNext \/ UNCHANGED labelVars
                    /\ Review!RqNext \/ UNCHANGED reviewVars
                    /\ Strategy!JsNext \/ UNCHANGED strategyVars
  BY DEF Facts!vars, Resumes!vars, Batches!evVars, Claims!cmVars, Labels!ldVars,
         Review!rqVars, Strategy!jsVars, factVars, syncVars, batchVars, claimVars,
         labelVars, reviewVars, strategyVars
<1> QED BY DEF Next, vars

LEMMA PartsBegin ==
  Init => /\ Facts!Init /\ Resumes!Init /\ Batches!EvInit /\ Claims!CmInit /\ Labels!LdInit
          /\ Review!RqInit /\ Strategy!JsInit
BY DEF Init

\* Imported facts have the batch that can undo them, and the indexed profile says only
\* what the person entered or accepted: with extracted, merged and deleted facts, refused
\* commits, and documents that reach the RAG service in any order
\* (app/services/fact_ingestion.py, profile_rag_ingestion.py).
THEOREM FactsStayAccountedFor == Spec => []FactsAreAccountedFor
<1>1. Init => FactsInv
  BY PartsBegin, FactsBegin
<1>2. FactsInv /\ [Next]_vars => FactsInv'
  BY PartSteps, FactsStep
<1>3. FactsInv => FactsAreAccountedFor
  BY DEF FactsInv, FactsAreAccountedFor, Facts!FactsAreAccountedFor
<1> QED BY <1>1, <1>2, <1>3, PTL DEF Spec

\* A resume has at most one active synchronisation, completed only once the service has
\* stored a content as new as the task was made for: through slots that send what they
\* read late, retries, crashes, direct synchronisations and a deletion
\* (app/services/resume_rag_jobs.py, rag_sync.py).
THEOREM TasksKeepTellingTheTruth == Spec => []TasksTellTheTruth
<1>1. Init => TasksInv
  BY PartsBegin, TasksBegin
<1>2. TasksInv /\ [Next]_vars => TasksInv'
  BY PartSteps, TasksStep
<1> QED BY <1>1, <1>2, OneActiveIsTrue, PTL DEF Spec

\* A claim gets an evaluation of itself or an error, and one that waits is held by a
\* flusher that is alive: for any number of claims and runs and any size of the batches,
\* if the model answers every item of a batch (app/matching/model_evaluators.py).
THEOREM AnswersAreOwn == ~Incomplete => (Spec => []OwnAnswer)
<1>1. Init => BatchesInv
  BY PartsBegin, BatchesBegin
<1>2. BatchesInv /\ [Next]_vars => BatchesInv'
  BY PartSteps, BatchesStep
<1>3. Spec => []BatchesInv
  BY <1>1, <1>2, PTL DEF Spec
<1>4. SUFFICES ASSUME ~Incomplete PROVE Spec => []OwnAnswer
  OBVIOUS
<1>5. BatchesInv => OwnAnswer
  BY <1>4, OwnIsOwn
<1> QED BY <1>3, <1>5, PTL

\* No evaluation that failed makes a gap: for any decomposition, any number of candidates
\* and any of the evaluator's answers (app/matching/claim_pipeline.py, scoring.py).
THEOREM FailuresAreNeverGaps == Spec => []FailureIsNotAGap
<1>1. Init => ClaimsInv
  BY PartsBegin, ClaimsBegin
<1>2. ClaimsInv /\ [Next]_vars => ClaimsInv'
  BY PartSteps, ClaimsStep
<1>3. ClaimsInv => FailureIsNotAGap
  BY DEF ClaimsInv, FailureIsNotAGap
<1> QED BY <1>1, <1>2, <1>3, PTL DEF Spec

\* The frozen evaluation vacancies are never trained on, and an exported pair says what
\* the person said: for any companies, hashes and old judgements
\* (app/domain/annotation_dataset.py, app/matching/cross_encoder/annotation.py).
THEOREM TrainingStaysFair == Spec => []TrainingIsFair
<1>1. Init => LabelsInv
  BY PartsBegin, LabelsBegin
<1>2. LabelsInv /\ [Next]_vars => LabelsInv'
  BY PartSteps, LabelsStep
<1> QED BY <1>1, <1>2, LabelsAreFair, PTL DEF Spec

\* With something left to judge, every queue the dashboard may show has something: for
\* any scores, quotas, companies and labels (app/matching/cross_encoder/annotation.py).
THEOREM NothingStaysHidden == Spec => []NothingIsHidden
BY NothingHides, PTL

\* An application on record that counts in the rates goes on counting, whatever status it
\* moves to, whichever record of its submission comes later, and however much time passes
\* (app/services/application_crm.py).
THEOREM CountedOnceCountsForEver == Spec => CountedStaysCounted
<1>1. Init => StrategyInv
  BY PartsBegin, StrategyBegin
<1>2. StrategyInv /\ [Next]_vars => StrategyInv'
  BY PartSteps, StrategyGrows
<1>3. StrategyInv /\ StrategyInv' /\ [Next]_vars =>
        [\A a \in Application : Strategy!OnRecord(a) /\ a \in Strategy!Counted({a})
                                  => (a \in Strategy!Counted({a}))']_(Strategy!jsVars)
  BY PartSteps, StrategyGrows, CountedStays
<1> QED BY <1>1, <1>2, <1>3, PTL DEF Spec, CountedStaysCounted, Strategy!CountedStaysCounted
===============================================================================
