------------------------------- MODULE Enrichment -------------------------------
(***************************************************************************)
(* What happens to a vacancy that a search has found: the runs of its       *)
(* detailed matching, their calls of language models, the drafting of its   *)
(* materials and the stream that reports them share no state that is        *)
(* modelled, so that their instances stand side by side, each behaviour     *)
(* moving only the part it has begun with.                                  *)
(***************************************************************************)
EXTENDS MatchingRuns

CONSTANTS Field, Sensitive, Required, Draft,
          Site, Hits, Limit, Permits,
          Call, MaxStages, MaxSaved

ASSUME EnrichmentAssumption ==
  /\ Sensitive \subseteq Field /\ Required \subseteq Field
  /\ Hits \in [Site -> Nat] /\ Limit \in Nat
  /\ MaxStages \in Nat /\ MaxSaved \in Nat

VARIABLES
  board, open, letter, answers, drafts, task, taken, unseen,
  direct, source, hits, profile, queue, got, stream,
  chosen, larger, stage, schema, call,
  part

draftVars  == <<board, open, letter, answers, drafts, task, taken, unseen>>
streamVars == <<direct, source, hits, profile, queue, got, stream>>
callVars   == <<chosen, larger, stage, schema, call>>
allVars    == <<vars, draftVars, streamVars, callVars, part>>

Materials == INSTANCE MaterialsDraft
Stream    == INSTANCE DiscoveryStream WITH Source <- Site
Models    == INSTANCE ModelCalls

\* The choices of the instances that a behaviour leaves alone are fixed.
AllInit ==
  /\ part \in {"matching", "materials", "stream", "calls"}
  /\ Init /\ Materials!MdInit /\ Stream!DsInit /\ Models!McInit
  /\ part # "materials" => board /\ answers = [f \in Field |-> "none"]
  /\ part # "stream" => direct
  /\ part # "calls" => larger

Moves(mine) == part = mine /\ UNCHANGED part
OfMatching  == Moves("matching") /\ UNCHANGED <<draftVars, streamVars, callVars>>
OfStream    == Moves("stream") /\ UNCHANGED <<vars, draftVars, callVars>>

AllNext ==
  \/ OfMatching /\ Next
  \/ Moves("materials") /\ Materials!MdNext /\ UNCHANGED <<vars, streamVars, callVars>>
  \/ OfStream /\ Stream!DsNext
  \/ Moves("calls") /\ Models!McNext /\ UNCHANGED <<vars, draftVars, streamVars>>

AllFairness ==
  /\ \A w \in Worker : WF_allVars(OfMatching /\ (RunStep(w) \/ Break(w)))
  /\ WF_allVars(OfStream /\ Stream!DsStep)

AllSpec == AllInit /\ [][AllNext]_allVars /\ AllFairness

-------------------------------------------------------------------------------
(* The four type invariants.                                                *)
TypesOK == TypeOK /\ Materials!MdTypeOK /\ Stream!DsTypeOK /\ Models!McTypeOK

(* The properties, as the modules state and explain them: a sensitive       *)
(* answer that goes to a site is the person's,                              *)
SensitiveIsHuman == Materials!SensitiveIsHuman
(* who reads "complete" has everything the search found,                    *)
CompleteIsComplete == Stream!CompleteIsComplete
(* every stream ends,                                                       *)
StreamEnds == part = "stream" => Stream!StreamEnds
(* and calls of a model are not repeated for ever.                          *)
PostsAreBounded == Models!PostsAreBounded
===============================================================================
