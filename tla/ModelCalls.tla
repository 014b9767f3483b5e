------------------------------- MODULE ModelCalls -------------------------------
(***************************************************************************)
(* How a matching run asks language models: the person's preferences give   *)
(* each stage its providers (app/llm/preferences.py, app/matching/          *)
(* runtime.py), a router tries them in order (app/llm/router.py), and each  *)
(* provider adapts a request that its endpoint refuses or cuts off          *)
(* (app/llm/providers/).  The calls of a stage run concurrently on the same *)
(* provider objects.                                                        *)
(***************************************************************************)
EXTENDS Naturals, Sequences, FiniteSets

CONSTANTS Call,       \* the requirements that a stage asks about
          MaxSaved,   \* for how many purposes the person saves a model
          MaxStages   \* how many stages run

VARIABLES
  chosen,  \* llm_preferences: the provider saved for each purpose
  larger,  \* reasoning mitigation, and max_tokens below its ceiling
  stage,   \* the purpose of the stage that runs, its providers; how many there were
  schema,  \* _supports_json_schema of its OpenAI-compatible provider
  call     \* its calls

mcVars == <<chosen, larger, stage, schema, call>>

Purpose  == {"matching", "matching_decomposition", "matching_entailment", "materials"}
\* Ollama is the OpenAI-compatible provider at Ollama's port.
Provider == {"anthropic", "gemini", "openai_compatible", "ollama"}
Format   == {"plain", "thinking", "native", "json_schema", "json_object"}
Structured == {"native", "json_schema", "json_object"}
Over     == {"answered", "failed"}
NoCall   == [pc |-> "idle", todo |-> <<>>, format |-> "plain", again |-> FALSE,
             posts |-> 0, tried |-> FALSE, transient |-> TRUE, error |-> "none"]

McTypeOK ==
  /\ chosen \in [Purpose -> Provider \cup {"none"}]
  /\ larger \in BOOLEAN /\ schema \in BOOLEAN
  /\ stage \in [purpose : Purpose \cup {"none"}, router : Seq(Provider), number : 0..MaxStages]
  /\ call \in [Call -> [pc : {"idle", "route", "posted"} \cup Over, todo : Seq(Provider),
                        format : Format, again : BOOLEAN, posts : Nat,
                        tried : BOOLEAN, transient : BOOLEAN,
                        error : {"none", "refused", "other", "truncated", "invalid",
                                 "ungrounded", "unavailable"}]]

McInit ==
  /\ chosen = [p \in Purpose |-> "none"] /\ larger \in BOOLEAN
  /\ stage = [purpose |-> "none", router |-> <<>>, number |-> 0]
  /\ schema = TRUE /\ call = [c \in Call |-> NoCall]

settings == <<chosen, larger>>
Set(c, r) == call' = [call EXCEPT ![c] = r]

-------------------------------------------------------------------------------
(* Preferences                                                              *)

Fallbacks(p) ==
  CASE p = "materials" -> <<"materials">>
    [] p = "matching"  -> <<"matching", "materials">>
    [] OTHER           -> <<p, "matching", "materials">>

\* resolve_preference: the first of them that is saved.
Resolved(p) ==
  LET purposes == Fallbacks(p)
      saved    == {i \in DOMAIN purposes : chosen[purposes[i]] # "none"}
  IN  IF saved = {} THEN "none"
      ELSE chosen[purposes[CHOOSE i \in saved : \A j \in saved : i <= j]]

\* build_model_providers: those whose keys the environment holds.
Environment == {<<>>, <<"anthropic">>, <<"gemini">>, <<"anthropic", "gemini">>}

\* build_user_model_providers: the person's one provider, or the environment's.
Routers(p) == IF Resolved(p) # "none" THEN {<<Resolved(p)>>} ELSE Environment

(* LlmPreferenceService.save.                                               *)
SavePreference ==
  /\ stage.purpose = "none"
  /\ \E p \in Purpose, name \in Provider :
       /\ Cardinality({q \in Purpose \ {p} : chosen[q] # "none"}) < MaxSaved
       /\ chosen' = [chosen EXCEPT ![p] = name]
  /\ UNCHANGED <<larger, stage, schema, call>>

(* A run has a router and provider objects of its own for each stage.       *)
StageStarts ==
  /\ stage.purpose = "none" /\ stage.number < MaxStages
  /\ \E p \in Purpose \ {"materials"} : \E router \in Routers(p) :
       stage' = [purpose |-> p, router |-> router, number |-> stage.number + 1]
  /\ schema' = TRUE /\ call' = [c \in Call |-> NoCall]
  /\ UNCHANGED <<settings>>

StageEnds ==
  /\ stage.purpose # "none" /\ \A c \in Call : call[c].pc \in Over
  /\ stage' = [stage EXCEPT !.purpose = "none"]
  /\ UNCHANGED <<settings, schema, call>>

-------------------------------------------------------------------------------
(* ModelRouter.route                                                        *)

(* A decomposition may be known: by its wording, or from the cache.         *)
Ask(c) ==
  /\ stage.purpose # "none" /\ call[c].pc = "idle"
  /\ \/ Set(c, [NoCall EXCEPT !.pc = "route", !.todo = stage.router])
     \/ /\ stage.purpose = "matching_decomposition"
        /\ Set(c, [NoCall EXCEPT !.pc = "answered"])
  /\ UNCHANGED <<settings, stage, schema>>

FormatOf(provider) ==
  CASE provider = "openai_compatible" -> {IF schema THEN "json_schema" ELSE "json_object"}
    [] provider = "ollama"            -> {"native"}
    [] provider = "gemini"            -> {"thinking", "plain"}
    [] OTHER                          -> {"plain"}

Post(c, r) == Set(c, [r EXCEPT !.pc = "posted", !.posts = @ + 1])

(* The next provider is asked.                                              *)
Try(c) ==
  /\ call[c].pc = "route" /\ call[c].todo # <<>>
  /\ \E f \in FormatOf(Head(call[c].todo)) :
       Post(c, [call[c] EXCEPT !.format = f, !.posts = 0, !.again = FALSE])
  /\ UNCHANGED <<settings, stage, schema>>

NextProvider(r, transient, error) ==
  [r EXCEPT !.pc = "route", !.todo = Tail(@), !.tried = TRUE,
            !.transient = @ /\ transient, !.error = error]

(* The estimate exceeds max_cost_usd; the other two are free.               *)
TooDear(c) ==
  /\ call[c].pc = "route" /\ call[c].todo # <<>> /\ Head(call[c].todo) \in {"anthropic", "gemini"}
  /\ Set(c, NextProvider(call[c], FALSE, "other"))
  /\ UNCHANGED <<settings, stage, schema>>

(* No provider is left: NoModelAvailableError, retryable when all failures  *)
(* were transient ones.                                                     *)
Unavailable(c) ==
  LET r == call[c]
  IN  /\ r.pc = "route" /\ r.todo = <<>>
      /\ Set(c, [r EXCEPT !.pc = "failed", !.transient = @ /\ r.tried,
                          !.error = IF r.tried THEN @ ELSE "unavailable"])
      /\ UNCHANGED <<settings, stage, schema>>

-------------------------------------------------------------------------------
(* The providers                                                            *)

Fails(c, error) == Set(c, [call[c] EXCEPT !.pc = "failed", !.error = error])

(* The answer fits; an extraction keeps what the source text supports, and  *)
(* fails when that is nothing.                                              *)
Answered(c) ==
  /\ call[c].pc = "posted"
  /\ \/ Set(c, [call[c] EXCEPT !.pc = "answered", !.error = "none"])
     \/ stage.purpose = "matching" /\ Fails(c, "ungrounded")
  /\ UNCHANGED <<settings, stage, schema>>

(* A dead line or a timeout, which may pass; or an answer that the provider *)
(* or the schema cannot use: the router goes on, unless a second try comes  *)
(* to nothing, after which the first failure stands.                        *)
Broken(c) ==
  /\ call[c].pc = "posted"
  /\ \/ \E transient \in BOOLEAN : Set(c, NextProvider(call[c], transient, "other"))
     \/ call[c].again /\ Fails(c, "truncated")
  /\ UNCHANGED <<settings, stage, schema>>

\* The capability is not remembered, every refusal is answered by another try.
RefusedAnew(c) ==
  /\ call[c].pc = "posted" /\ call[c].format = "json_schema"
  /\ Post(c, call[c])
  /\ UNCHANGED <<settings, stage, schema>>

(* _retry_with_json_object_if_unsupported: an endpoint may refuse any       *)
(* json_schema.  The first call that is refused sends its request again as  *)
(* json_object; what others had under way is refused for good.              *)
Refused(c) ==
  LET r == call[c]
  IN  /\ r.pc = "posted" /\ r.format = "json_schema"
      /\ \/ schema /\ schema' = FALSE /\ Post(c, [r EXCEPT !.format = "json_object"])
         \/ /\ ~schema /\ UNCHANGED schema
            /\ IF r.again THEN Fails(c, "truncated") ELSE Set(c, NextProvider(r, FALSE, "refused"))
      /\ UNCHANGED <<settings, stage>>

(* Gemini refuses the thinkingConfig, and is asked without.                 *)
WithoutThinking(c) ==
  /\ call[c].pc = "posted" /\ call[c].format = "thinking"
  /\ Post(c, [call[c] EXCEPT !.format = "plain"])
  /\ UNCHANGED <<settings, stage, schema>>

(* An answer cut off at max_tokens is asked for once more with a larger     *)
(* budget; without the mitigation, or at the ceiling, it ends the call, and *)
(* so does what is no JSON.  No other provider is asked.                    *)
CutOff(c) ==
  LET r == call[c]
  IN  /\ r.pc = "posted" /\ r.format \in Structured
      /\ IF larger /\ ~r.again /\ r.format # "native" THEN Post(c, [r EXCEPT !.again = TRUE])
         ELSE Fails(c, "truncated")
      /\ UNCHANGED <<settings, stage, schema>>

NotJson(c) ==
  /\ call[c].pc = "posted" /\ call[c].format \in Structured
  /\ Fails(c, IF call[c].again THEN "truncated" ELSE "invalid")
  /\ UNCHANGED <<settings, stage, schema>>

-------------------------------------------------------------------------------
McNext ==
  \/ SavePreference \/ StageStarts \/ StageEnds
  \/ \E c \in Call : \/ Ask(c) \/ Try(c) \/ TooDear(c) \/ Unavailable(c) \/ Answered(c)
                     \/ Broken(c) \/ Refused(c) \/ WithoutThinking(c) \/ CutOff(c) \/ NotJson(c)

McSpec == McInit /\ [][McNext]_mcVars

-------------------------------------------------------------------------------
(* However the calls of a stage refuse each other's format, a call posts at *)
(* most three times to a provider -- as it is, without the schema, with a   *)
(* larger budget -- and never round and round.                              *)
PostsAreBounded == \A c \in Call : call[c].posts <= IF call[c].again THEN 3 ELSE 2

(* "When a request with a json_schema response_format is rejected with HTTP *)
(* 400, the provider retries once with json_object" (CHANGELOG.md): no call *)
(* is given up because its schema was refused.  Calls that were under way   *)
(* when the first of them was refused are.                                  *)
RefusedIsAskedAgain == \A c \in Call : call[c].error # "refused"
===============================================================================
