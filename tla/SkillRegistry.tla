--------------------------- MODULE SkillRegistry ---------------------------
(***************************************************************************)
(* The skills a worker may ask for: what every specification declares, and *)
(* which role is offered which.  Names, descriptions and the optional      *)
(* inputs are left out, and the tags nothing looks at.                     *)
(*                                                                         *)
(* Code: the specs() of skills/*.rs, skills/runtime.rs (SkillRegistry),    *)
(* roles/skill_catalog.rs.                                                 *)
(***************************************************************************)
EXTENDS Naturals, FiniteSets, TLC

\* SkillSpec: a custom category, or "Data"; tags; the required inputs.
Declare(category, tags, required) ==
  [category |-> category, tags |-> tags, required |-> required]

\* A group of skills that declare the same.
All(ids, spec) == [id \in ids |-> spec]

AccountingSkills ==
  LET spec(required) == Declare("accounting", {"deterministic"}, required)
  IN  ("accounting_cost_calc" :> spec({"purchase_cost", "selling_price"}))
      @@ ("accounting_scenario_analysis" :> spec({"base_gmv"}))
      @@ All({"accounting_profit_analysis", "accounting_roi_calc", "accounting_budget_plan",
              "accounting_break_even_calc", "accounting_compliance_check",
              "accounting_pl_statement", "accounting_budget_vs_actual",
              "accounting_gmv_waterfall", "accounting_cash_flow_forecast",
              "accounting_financial_narrative"}, spec({}))

OpsSkills ==
  LET spec(required) == Declare("ops", {"deterministic"}, required)
  IN  ("ops_pricing_strategy" :> spec({"cost", "competitor_prices"}))
      @@ ("ops_promo_planning" :> spec({"product", "budget", "platform"}))
      @@ ("ops_channel_strategy" :> spec({"product_type", "budget"}))
      @@ ("ops_inventory_planning" :> spec({"avg_daily_demand", "lead_time_days"}))
      @@ ("ops_assortment_planning" :> spec({"category", "budget"}))
      @@ ("ops_execution_plan" :> spec({"goal", "stage"}))
      @@ ("ops_smart_pricing" :> spec({"cost", "current_price"}))
      @@ All({"ops_listing_copy", "ops_inventory_optimizer", "ops_ad_fatigue_detector",
              "ops_abc_xyz_classifier"}, spec({}))

DataSkills ==
  LET spec(tags, required) == Declare("Data", tags, required)
  IN  All({"query_store_metrics", "data_dashboard", "data_attribution_analysis",
           "data_comprehensive_diagnosis"}, spec({"deferred"}, {}))
      @@ All({"data_channel_roi", "data_refund_decomposition"},
             spec({"deferred", "deterministic_fallback"}, {}))
      @@ ("data_competitor_analysis" :> spec({"deterministic"}, {"our_product"}))
      @@ ("data_ab_test_analyzer" :>
            spec({"deterministic"}, {"control_visitors", "control_conversions",
                                     "test_visitors", "test_conversions"}))
      @@ All({"data_funnel_analysis", "data_anomaly_diagnosis", "data_trend_forecast",
              "data_customer_segmentation", "data_multi_period_trend",
              "data_ltv_calculator", "data_cohort_analysis", "data_seasonal_decompose",
              "data_price_elasticity", "data_demand_forecast"}, spec({"deterministic"}, {}))

CoordinationSkills ==
  LET local(required) == Declare("coordination", {"deterministic"}, required)
      pending(required) == Declare("coordination", {"pending_approval"}, required)
  IN  ("coordination_agent_handoff" :> local({"task_description"}))
      @@ All({"coordination_task_orchestration", "coordination_skill_chain_planner"},
             local({"goal"}))
      @@ ("coordination_status_query" :> Declare("coordination", {"deferred"}, {}))
      @@ ("coordination_create_campaign" :> pending({"name"}))
      @@ ("coordination_create_task" :> pending({"title"}))
      @@ ("coordination_save_memory" :> pending({"key", "content"}))
      @@ ("platform_update_price" :> pending({"platform", "product_id", "new_price"}))
      @@ ("platform_update_inventory" :> pending({"platform", "product_id", "quantity"}))
      @@ ("platform_sync_products" :> pending({"platform"}))
      @@ ("coordination_external_agent_call" :> pending({"endpoint", "description"}))

CreativeSkills ==
  LET engine(required) == Declare("creative", {"deferred", "content_engine"}, required)
  IN  All({"creative_video_script", "creative_seeding_copy", "creative_product_article"},
          engine({}))
      @@ ("creative_ip_branding" :> engine({"brand_name", "category"}))
      @@ ("creative_trend_catch" :> engine({"category"}))
      @@ ("creative_live_script" :> engine({"duration_hours"}))
      @@ ("creative_content_calendar" :> Declare("creative", {"deferred"}, {}))
      @@ ("creative_title_ctr_scorer" :> Declare("creative", {"deterministic"}, {}))

DesignSkills ==
  LET engine(required) == Declare("design", {"deferred", "design_engine"}, required)
  IN  All({"design_main_image", "design_detail_page"}, engine({}))
      @@ ("design_color_scheme" :> engine({"brand_tone"}))
      @@ ("design_campaign_poster" :> engine({"campaign_name"}))
      @@ ("design_material_spec" :> Declare("design", {"deferred"}, {"usage"}))

EngineeringSkills ==
  LET engine(required) == Declare("engineering", {"deferred", "analysis_engine"}, required)
  IN  ("engineering_arch_review" :> engine({"system_type"}))
      @@ ("engineering_bug_analysis" :> engine({"error_type"}))
      @@ ("engineering_perf_optimize" :> engine({"bottleneck"}))
      @@ ("engineering_tech_selection" :> engine({"domain"}))
      @@ ("engineering_system_check" :>
            Declare("engineering", {"deferred", "pending_approval"}, {}))
      @@ ("engineering_sla_monitor" :> Declare("engineering", {"deterministic"}, {}))

SearchSkills ==
  LET search(required) == Declare("search", {"deferred"}, required)
  IN  All({"search_trends", "search_competitor", "search_market_info",
           "search_product_reviews"}, search({"query"}))
      @@ ("search_platform_policy" :> search({"platform"}))
      @@ ("search_industry_benchmarks" :> search({"industry"}))

ServiceSkills ==
  LET deferring(required) == Declare("service", {"deferred"}, required)
      local(required) == Declare("service", {"deterministic"}, required)
  IN  ("service_ticket_handler" :> deferring({"issue_type"}))
      @@ ("service_escalation_flow" :> deferring({"issue_description"}))
      @@ All({"service_faq_playbook", "service_query_product"}, deferring({}))
      @@ ("service_return_handler" :> local({"reason"}))
      @@ All({"service_dsr_improvement", "service_nps_analyzer",
              "service_sentiment_analyzer", "service_nps_driver_analysis"}, local({}))

WebSkills ==
  LET engine(required) == Declare("web", {"deferred", "content_engine"}, required)
  IN  All({"web_seo_optimize", "web_title_generator", "web_keyword_research",
           "web_product_description"}, engine({}))
      @@ ("web_store_design" :> engine({"store_type"}))
      @@ ("web_page_conversion" :> Declare("web", {"deferred"}, {"page_type"}))
      @@ ("web_title_seo_scorer" :> Declare("web", {"deterministic"}, {}))

\* staged_specs, in the order in which they are listed.
StagedSpecs ==
  <<AccountingSkills, CoordinationSkills, CreativeSkills, DataSkills, DesignSkills,
    EngineeringSkills, OpsSkills, SearchSkills, ServiceSkills, WebSkills>>

\* SkillRegistry::from_specs fails on an id declared twice.
Loads(parts) ==
  \A i, j \in DOMAIN parts : i # j => DOMAIN parts[i] \cap DOMAIN parts[j] = {}

Registry ==
  [id \in UNION {DOMAIN StagedSpecs[i] : i \in DOMAIN StagedSpecs} |->
     LET i == CHOOSE i \in DOMAIN StagedSpecs : id \in DOMAIN StagedSpecs[i]
     IN  StagedSpecs[i][id]]

SkillIds == DOMAIN Registry
----------------------------------------------------------------------------
(* roles/skill_catalog.rs                                                  *)

RuntimeRoles == {"chat", "ops", "data", "service", "creative", "web", "design",
                 "accounting", "engineering"}

\* The ids that start with platform_.
PlatformSkills == {"platform_update_price", "platform_update_inventory",
                   "platform_sync_products"}

\* The skills of other categories that a role may use.
Borrowed(role) ==
  CASE role = "chat"    -> {"coordination_agent_handoff"}
    [] role = "ops"     -> {"coordination_task_orchestration",
                            "coordination_skill_chain_planner",
                            "coordination_create_task", "query_store_metrics"}
    [] role = "data"    -> {"search_industry_benchmarks"}
    [] role = "service" -> {"search_platform_policy"}
    [] role = "creative" -> {"web_title_seo_scorer"}
    [] role = "web"     -> {"creative_title_ctr_scorer", "search_trends",
                            "search_competitor"}
    [] role = "design"  -> {"creative_title_ctr_scorer"}
    [] role = "accounting" -> {"data_channel_roi", "query_store_metrics"}
    [] role = "engineering" -> {"coordination_status_query"}
    [] OTHER -> {}

\* role_can_use_skill, can_role_use_skill: an id that is not listed is refused.
RoleCanUse(role, id) ==
  /\ id \in SkillIds
  /\ \/ Registry[id].category = role
     \/ role = "data" /\ Registry[id].category = "Data"
     \/ id \in Borrowed(role)

\* format_skill_line: what the prompt tells the role about a skill.
PromptMode(id) ==
  CASE "deferred" \in Registry[id].tags -> "deferred"
    [] "pending_approval" \in Registry[id].tags \/ id \in PlatformSkills
         -> "pending_approval"
    [] OTHER -> "local"
=============================================================================
