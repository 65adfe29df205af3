---------------------------- MODULE SkillRuntime ----------------------------
(***************************************************************************)
(* What becomes of one request for a skill: validated, looked up, run, and *)
(* given a status.  An input is a function from the names it carries to    *)
(* "fit", "unfit" (of another type, or out of the range the skill takes),  *)
(* "short" (too little, where that is not the same as unfit) or "null"; an *)
(* input that is no object at all is NotAnObject.                          *)
(*                                                                         *)
(* Code: skills/runtime.rs, skills/spec.rs and the run() of every skill in *)
(* skills/*.rs, up to the status it reports and what its output is:        *)
(*   "figures"  computed from what was given                               *)
(*   "assumed"  computed, with a default for what the figures are about or *)
(*              for something that was given and is of another type        *)
(*   "lacking"  nothing but a word that there is no data                   *)
(*   "plan"     what the skill would do                                    *)
(***************************************************************************)
EXTENDS SkillRegistry

CONSTANT NotAnObject

Has(input, name, values) == name \in DOMAIN input /\ input[name] \in values
----------------------------------------------------------------------------
(* The skills                                                              *)

\* "option" stands for the optional inputs that a skill can do without, "enough" for
\* the optional ones that its figures are about.
Ran(status, output) == [ok |-> TRUE, status |-> status, output |-> output]
Broke == [ok |-> FALSE, status |-> "none", output |-> "none"]

\* Put off without "enough".
Deferring == {"data_channel_roi", "data_refund_decomposition"}

\* Without it, or without what they require, these say that there is no data.
Insisting ==
  {"ops_listing_copy", "ops_smart_pricing", "ops_inventory_optimizer",
   "ops_ad_fatigue_detector", "accounting_profit_analysis", "accounting_roi_calc",
   "accounting_compliance_check", "accounting_pl_statement",
   "accounting_budget_vs_actual", "accounting_gmv_waterfall",
   "accounting_scenario_analysis", "data_funnel_analysis", "data_anomaly_diagnosis",
   "data_trend_forecast", "data_multi_period_trend", "data_seasonal_decompose",
   "data_demand_forecast"}

\* These take sample figures instead.
Sampling ==
  {"ops_abc_xyz_classifier", "accounting_budget_plan", "accounting_break_even_calc",
   "accounting_cash_flow_forecast", "accounting_financial_narrative",
   "data_customer_segmentation", "data_competitor_analysis", "data_ltv_calculator",
   "data_cohort_analysis", "data_price_elasticity", "service_return_handler",
   "service_dsr_improvement", "service_nps_analyzer", "service_nps_driver_analysis",
   "engineering_sla_monitor"}

TakesData(id) ==
  \/ id \in Deferring \cup Sampling
  \/ id \in Insisting /\ Registry[id].required = {}

\* What the figures of a skill are about.
Wanted(id) == Registry[id].required \cup (IF TakesData(id) THEN {"enough"} ELSE {})

Given(id, input) == \A name \in Wanted(id) : Has(input, name, {"fit"})

\* The run of a skill that takes a default for what is missing or of another type.
RunLenient(id, input) ==
  Ran("none",
      IF Has(input, "enough", {"short"}) \/ (id \in Insisting /\ ~Given(id, input))
      THEN "lacking"
      ELSE IF Given(id, input) /\ ~Has(input, "option", {"unfit"})
      THEN "figures" ELSE "assumed")

\* data::execute
RunData(id, input) ==
  CASE id \in {"query_store_metrics", "data_dashboard", "data_attribution_analysis",
               "data_comprehensive_diagnosis"} -> Ran("deferred", "plan")
    [] id \in Deferring /\ ~Given(id, input) -> Ran("deferred", "plan")
    [] id \in {"data_competitor_analysis", "data_ab_test_analyzer"} ->
         IF \A name \in Registry[id].required : Has(input, name, {"fit"})
         THEN RunLenient(id, input) ELSE Broke
    [] OTHER -> RunLenient(id, input)

\* The other files read what they need with *_param and what they can do without
\* with optional_*_param, which takes null for absent, and then report what
\* their specification announces.
Read(input, needed, optional) ==
  /\ \A name \in needed : Has(input, name, {"fit"})
  /\ \A name \in optional \cup {"option"} : ~Has(input, name, {"unfit"})

Announced(id) ==
  CASE "pending_approval" \in Registry[id].tags -> "pending_approval"
    [] "deferred" \in Registry[id].tags         -> "deferred"
    [] OTHER                                    -> "none"

Computed(id, input) ==
  IF id \in Sampling /\ ~Given(id, input) THEN "assumed" ELSE "figures"

Once(read, id, input, status) ==
  IF read THEN Ran(status, IF status = "none" THEN Computed(id, input) ELSE "plan")
  ELSE Broke

\* Required, and then read as optional.
Lax == {"new_price", "quantity", "duration_hours"}

RunCoordination(id, input) ==
  LET required == Registry[id].required
  IN  Once(Read(input, required \ Lax, required \cap Lax), id, input, Announced(id))

RunCreative(id, input) ==
  LET required == Registry[id].required
      title == IF id = "creative_title_ctr_scorer" THEN {"title"} ELSE {}
  IN  Once(Read(input, (required \ Lax) \cup title, required \cap Lax), id, input, Announced(id))

RunDesign(id, input) == Once(Read(input, Registry[id].required, {}), id, input, Announced(id))

RunEngineering(id, input) ==
  Once(Read(input, Registry[id].required, {}), id, input,
       IF id # "engineering_system_check" THEN Announced(id)
       ELSE IF Has(input, "test_live", {"fit"}) THEN "pending_approval" ELSE "deferred")

RunSearch(id, input) == Once(Read(input, Registry[id].required, {}), id, input, "deferred")

RunService(id, input) ==
  LET alone == id = "service_sentiment_analyzer" /\ ~Has(input, "batch_texts", {"fit"})
      text == IF alone THEN {"customer_text"} ELSE {}
      data == IF id = "service_nps_analyzer" THEN {} ELSE {"enough"}
  IN  Once(/\ Read(input, Registry[id].required \cup text, data)
           /\ ~Has(input, "enough", {"short"}),
           id, input, Announced(id))

RunWeb(id, input) ==
  LET title == IF id = "web_title_seo_scorer" THEN {"title"} ELSE {}
  IN  Once(Read(input, Registry[id].required \cup title, {}), id, input, Announced(id))

\* run_known_skill: by the prefix of the id, the rest one by one.
Prefix(id) ==
  IF id = "query_store_metrics" THEN "query"
  ELSE IF id \in PlatformSkills THEN "platform"
  ELSE IF id \in DOMAIN DataSkills THEN "data" ELSE Registry[id].category

FaultyRunKnownSkill(id, input) ==   \* "query" is not among the prefixes
  CASE Prefix(id) \in {"ops", "accounting"} -> RunLenient(id, input)
    [] Prefix(id) = "data"                  -> RunData(id, input)
    [] id \in DOMAIN CoordinationSkills     -> RunCoordination(id, input)
    [] id \in DOMAIN CreativeSkills         -> RunCreative(id, input)
    [] id \in DOMAIN DesignSkills           -> RunDesign(id, input)
    [] id \in DOMAIN EngineeringSkills      -> RunEngineering(id, input)
    [] id \in DOMAIN SearchSkills           -> RunSearch(id, input)
    [] id \in DOMAIN ServiceSkills          -> RunService(id, input)
    [] id \in DOMAIN WebSkills              -> RunWeb(id, input)
    [] OTHER                                -> Broke

RunKnownSkill(id, input) ==
  CASE Prefix(id) \in {"ops", "accounting"} -> RunLenient(id, input)
    [] Prefix(id) \in {"data", "query"}     -> RunData(id, input)
    [] id \in DOMAIN CoordinationSkills     -> RunCoordination(id, input)
    [] id \in DOMAIN CreativeSkills         -> RunCreative(id, input)
    [] id \in DOMAIN DesignSkills           -> RunDesign(id, input)
    [] id \in DOMAIN EngineeringSkills      -> RunEngineering(id, input)
    [] id \in DOMAIN SearchSkills           -> RunSearch(id, input)
    [] id \in DOMAIN ServiceSkills          -> RunService(id, input)
    [] id \in DOMAIN WebSkills              -> RunWeb(id, input)
    [] OTHER                                -> Broke
----------------------------------------------------------------------------
(* skills/runtime.rs                                                       *)

\* adapter_kinds: a data skill has no custom category, so that none gets "db".
AdapterKinds(spec, id) ==
  (IF spec.category = "search" THEN {"search", "llm"} ELSE {})
    \cup (IF spec.tags \cap {"content_engine", "design_engine", "analysis_engine"} # {}
          THEN {"llm"} ELSE {})
    \cup (IF spec.category = "data" /\ "deferred" \in spec.tags THEN {"db"} ELSE {})
    \cup (IF "pending_approval" \in spec.tags \/ id \in PlatformSkills
          THEN {"platform"} ELSE {})

ExecutionMode(spec, id) ==
  IF "deferred" \in spec.tags THEN "deferred"
  ELSE IF AdapterKinds(spec, id) = {} THEN "native" ELSE "adapter"

RiskLevel(spec, id) ==
  IF "pending_approval" \in spec.tags \/ id \in PlatformSkills THEN "high"
  ELSE IF "deferred" \in spec.tags \/ spec.category = "search" THEN "medium"
  ELSE "low"

FaultyStatusFromOutput(status) ==   \* only "deferred" is looked for
  IF status = "deferred" THEN "Deferred" ELSE "Success"

\* status_from_output, and success when the output names no status.
StatusFromOutput(status) ==
  CASE status = "deferred"         -> "Deferred"
    [] status = "pending_approval" -> "PendingApproval"
    [] OTHER                       -> "Success"

NoMetadata == [mode |-> "none", risk |-> "none", approval |-> FALSE, adapters |-> {}]

Metadata(spec, id) ==
  [mode |-> ExecutionMode(spec, id), risk |-> RiskLevel(spec, id),
   approval |-> RiskLevel(spec, id) = "high", adapters |-> AdapterKinds(spec, id)]

Result(id, status, output, metadata) ==
  [id |-> id, status |-> status, output |-> output, metadata |-> metadata]

\* A result that only carries an error.
Refused(id, status) == Result(id, status, "none", NoMetadata)

\* validate_request
Valid(spec, input) == input # NotAnObject /\ spec.required \subseteq DOMAIN input

\* LocalSkillExecutor::execute, through SkillExecutorSet::execute.
Execute(named, id, input) ==
  IF ~named \/ id = "" THEN Refused(id, "ValidationError")
  ELSE IF id \notin SkillIds THEN Refused(id, "NotFound")
  ELSE IF ~Valid(Registry[id], input) THEN Refused(id, "ValidationError")
  ELSE LET outcome == RunKnownSkill(id, input)
       IN  IF outcome.ok
           THEN Result(id, StatusFromOutput(outcome.status), outcome.output,
                       Metadata(Registry[id], id))
           ELSE Refused(id, "Failed")
=============================================================================
