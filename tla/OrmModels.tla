----------------------------- MODULE OrmModels -----------------------------
(***************************************************************************)
(* The tables as the application's own classes name them: the models of    *)
(* backend/app/modules/*/models.py, which import_models gathers in         *)
(* Base.metadata.  A model is the set of its columns; what they hold, the  *)
(* relations and the properties computed from them are left out.  This is  *)
(* read apart from the chain of Revisions, whose tables the models have to *)
(* find in the base: create_all makes these, the chain makes its own.      *)
(***************************************************************************)

\* TimestampMixin and SoftDeleteMixin.
Timestamps == {"created_at", "updated_at"}
SoftDelete == {"is_deleted", "deleted_at"}

\* app/modules/iam/models.py
User ==
  {"id", "username", "email", "password_hash", "full_name", "role", "is_active",
   "last_login", "must_change_password", "password_changed_at", "password_history"}
   \cup Timestamps \cup SoftDelete
AuditLog ==
  {"id", "user_id", "username", "action", "outcome", "entity_type", "entity_id",
   "entity_key", "old_values", "new_values", "ip_address", "user_agent", "request_id",
   "created_at", "append_only"}
RolePermission == {"id", "role", "permission", "updated_at"}
MandatorySection == {"permission", "updated_at"}
UserPreference == {"user_id", "prefs", "updated_at"}

\* app/modules/systems/models.py
System ==
  {"id", "name", "code", "status_lc", "criticality_class", "system_kind", "owner",
   "owner_user_id", "vendor", "is_active", "is_deleted"} \cup Timestamps

\* app/modules/quality/models.py
MetricCatalog ==
  {"id", "characteristic", "subcharacteristic", "formula_type", "description",
   "data_source", "is_active"}
MetricCharacteristic == {"id", "name"}
MetricAttribute == {"id", "name"}
WeightSetVersion ==
  {"id", "label", "subchar_weights", "char_weights", "criticality_weights", "is_active",
   "created_by", "note"} \cup Timestamps
ScoreHistorySnapshot ==
  {"id", "weight_version_id", "period_id", "system_id", "system_name", "score", "coverage",
   "breakdown", "computed_at"}
QmNode ==
  {"id", "model_kind", "level", "parent_id", "code", "name_ru", "metric_kind",
   "is_ai_specific", "sort"}

\* app/modules/assessment/models.py
AssessmentPeriod ==
  {"id", "system_id", "period", "status", "depth", "analyst_hours",
   "carried_from_period_id"} \cup Timestamps
AssessmentValue ==
  {"id", "period_id", "metric_id", "val_a", "val_b", "calculated_x", "quality_level",
   "unmeasurable", "expert_comment", "artifact_links", "data_source", "carried_over"}
   \cup Timestamps
AiAssessmentValue ==
  {"id", "period_id", "group_name", "characteristic", "subcharacteristic", "metric_kind",
   "inputs", "baseline", "tol_low", "tol_high", "raw_value", "normalized_x", "conformant",
   "unmeasurable", "expert_comment"} \cup Timestamps
AiWeight == {"id", "period_id", "scope", "name", "weight"} \cup Timestamps
AiTestDataset ==
  {"id", "period_id", "name", "purpose", "records", "source", "collected_from",
   "representativeness", "class_balance", "outlier_method", "outlier_k", "outlier_feature",
   "outliers_count", "outliers_share", "outlier_handling", "notes"} \cup Timestamps
AiEnvParity ==
  {"id", "period_id", "factor", "test_env", "prod_env", "status", "justification"}
   \cup Timestamps
AiExpertScore ==
  {"id", "period_id", "characteristic", "subcharacteristic", "expert", "expert_name",
   "score", "comment"} \cup Timestamps
ProfessionalJudgment ==
  {"id", "period_id", "characteristic", "subcharacteristic", "judgment_text", "author"}
   \cup Timestamps
ExpertJudgmentHistory ==
  {"id", "assessment_value_id", "original_level", "adjusted_level", "justification_text",
   "linked_risk_task", "created_by"} \cup Timestamps
OwnerChecklistItem ==
  {"id", "period_id", "characteristic", "subcharacteristic", "question", "answer",
   "artifact_url", "submitted_by", "submitted_at", "sampled", "verification",
   "verified_by", "verified_at", "verifier_comment"} \cup Timestamps

\* app/modules/reporting/models.py
RiskMatrix ==
  {"id", "period_id", "characteristic", "subcharacteristic", "risk_description",
   "risk_consequence", "mitigation_measures"}
DefectMatrix ==
  {"id", "period_id", "characteristic", "digital_metric", "quality_metric_level",
   "defect_description"}
QualityPlanMatrix ==
  {"id", "period_id", "characteristic", "subcharacteristic", "task_description",
   "internal_document", "assignee_fio", "assignee_role", "assignee_department", "deadline",
   "profile_executor", "tech_debt_link"}

\* app/modules/risk/models.py
RiskBase ==
  {"id", "code", "title", "category", "characteristic", "subcharacteristic", "description",
   "consequence", "mitigation", "severity", "likelihood", "triggers", "keywords", "source",
   "system_id", "status", "created_by", "created_at", "updated_at", "embedding"}
RiskEvent ==
  {"id", "code", "title", "description", "category", "owner", "system_id", "risk_base_id",
   "aro", "aro_is_expert", "sle_expert", "ale_avg", "ale_p90", "max_sle", "risk_appetite",
   "regulatory", "status", "created_by"} \cup Timestamps
RiskEventSubchar == {"id", "risk_event_id", "characteristic", "subcharacteristic"}
RiskEventIncident == {"id", "risk_event_id", "incident_id"}
RiskEventMeasure == {"id", "risk_event_id", "proposal_id", "ale_reduction_share"}

\* app/modules/governance/models.py
Proposal ==
  {"id", "system_id", "system_name", "characteristic", "metric_name", "calculated_score",
   "calculated_level", "adjusted_level", "rationale", "expectation", "create_risk",
   "risk_title", "owner", "owner_role", "owner_user_id", "due_date", "due_on", "status",
   "decided_by", "decided_at", "decision_comment", "execution", "execution_comment",
   "executed_by", "executed_by_user_id", "executed_at", "effort_hours",
   "effort_hours_set_by", "effort_hours_set_at", "executor_brief",
   "executor_brief_generated_by", "executor_brief_generated_at", "task_ref",
   "taken_to_work_at", "suz_link", "top_comment", "escalated", "escalation_reason",
   "escalation_decision", "escalation_decision_comment", "escalation_decided_by",
   "measure_type", "capex", "opex_per_year", "implementation_months",
   "expected_delta_score", "delta_ale_cash", "delta_ale_deferred", "delta_ale_capacity",
   "rosi", "recommended_verdict", "delta_ale_at_decision", "verdict", "history", "is_demo",
   "created_by", "is_process_measure", "is_blocking_override", "ale_at_risk_snapshot",
   "ale_at_risk_snapshot_at", "ale_at_risk_current", "ale_at_risk_current_at",
   "alternative_solutions", "systemic_scope_note", "systemic_scope_llm_note",
   "systemic_scope_system_count", "department", "measure_source", "llm_reviewed_by",
   "llm_reviewed_at", "actual_capex", "actual_opex", "actual_effort_hours",
   "actuals_set_by", "actuals_set_at"} \cup Timestamps
MeasureDepartment ==
  {"id", "characteristic", "department_name", "updated_by"} \cup Timestamps
ProposalPriceSnapshot == {"id", "proposal_id", "snapshot_date", "price"} \cup Timestamps

\* app/modules/incidents/models.py
TechIncident ==
  {"id", "system_id", "system_name", "category", "severity", "title", "description",
   "root_cause", "release_ref", "admission_cause", "responsible_unit",
   "preventive_measures", "category_custom", "linked_measure_id", "occurred_at",
   "resolved_at", "incident_type", "degradation_type", "downtime_minutes", "k_impact",
   "t_reaction_min", "t_resolution_min", "t_target_min", "root_cause_fixed_at",
   "labor_l1_hours", "labor_l2_hours", "labor_l3_hours", "vendor_involved", "cost_total",
   "cost_breakdown", "degradation_inputs", "counts_as_downtime", "labor_vendor_lines",
   "labor_source", "external_id", "parent_incident_id", "source", "created_by"}
   \cup Timestamps
ItsmGroupMapping == {"id", "group_name", "system_id", "note"} \cup Timestamps
SystemAlias == {"id", "alias", "alias_norm", "system_id"} \cup Timestamps

\* app/modules/econ/models.py
BusinessProcess ==
  {"id", "code", "name", "kind", "owner", "description", "is_active"} \cup Timestamps
SystemBusinessProcess ==
  {"id", "system_id", "business_process_id", "share", "default_k_impact"} \cup Timestamps
BusinessProcessCost ==
  {"id", "business_process_id", "method", "params", "time_profile", "cost_per_min_base",
   "currency", "note"} \cup Timestamps
SupportRate ==
  {"id", "system_id", "line", "executor_type", "vendor", "mode", "rate_per_hour",
   "k_evening", "k_weekend", "package_hours", "overlimit_rate", "billing_quantum_min",
   "is_active", "source", "reference_benchmark_id", "confirmed_at", "confirmed_by"}
   \cup Timestamps
EconConfig == {"key", "value", "description"} \cup Timestamps
EnterpriseProfile ==
  {"id", "name", "size_class", "revenue_annual", "headcount", "industry", "region", "note",
   "updated_by"} \cup Timestamps
MarketBenchmark ==
  {"id", "kind", "dimension", "company_size_class", "line", "industry", "qualification",
   "value", "unit", "source", "observed_on", "note", "created_by"} \cup Timestamps

\* app/modules/nonconformity/models.py
Nonconformity ==
  {"id", "code", "system_id", "system_name", "characteristic", "subcharacteristic",
   "assessment_value_id", "evidence_type", "level", "is_blocking", "description", "status",
   "owner", "owner_user_id", "evaluated_ale", "risk_event_id", "proposal_id",
   "decision_verdict", "acceptance_level", "signed_by", "sla_due", "review_date",
   "executed_by", "executed_by_user_id", "executed_at", "verified_by",
   "verified_by_user_id", "verified_at", "delta_score_confirmed", "history", "is_demo",
   "created_by", "sla_escalated", "sla_escalated_at"} \cup Timestamps

\* app/modules/notifications/models.py
NotificationDelivery ==
  {"id", "event_type", "recipient", "address", "channel", "subject", "body", "entity_type",
   "entity_id", "attachments", "status", "reason", "attempts", "dedupe_key",
   "is_retryable", "created_at", "last_attempt_at", "sent_at"}

\* Base.metadata, once import_models has run.
Metadata ==
  [users |-> User, audit_log |-> AuditLog, role_permissions |-> RolePermission,
   mandatory_sections |-> MandatorySection, user_preferences |-> UserPreference,
   systems |-> System, metric_catalog |-> MetricCatalog,
   metric_characteristics |-> MetricCharacteristic, metric_attributes |-> MetricAttribute,
   weight_set_versions |-> WeightSetVersion,
   score_history_snapshots |-> ScoreHistorySnapshot, qm_nodes |-> QmNode,
   assessment_periods |-> AssessmentPeriod, assessment_values |-> AssessmentValue,
   ai_assessment_values |-> AiAssessmentValue, ai_weights |-> AiWeight,
   ai_test_datasets |-> AiTestDataset, ai_env_parity |-> AiEnvParity,
   ai_expert_scores |-> AiExpertScore, professional_judgments |-> ProfessionalJudgment,
   expert_judgment_history |-> ExpertJudgmentHistory,
   owner_checklist_items |-> OwnerChecklistItem, risk_matrices |-> RiskMatrix,
   defect_matrices |-> DefectMatrix, quality_plan_matrices |-> QualityPlanMatrix,
   risk_base |-> RiskBase, risk_events |-> RiskEvent,
   risk_event_subchars |-> RiskEventSubchar, risk_event_incidents |-> RiskEventIncident,
   risk_event_measures |-> RiskEventMeasure, proposals |-> Proposal,
   measure_departments |-> MeasureDepartment,
   proposal_price_snapshots |-> ProposalPriceSnapshot, tech_incidents |-> TechIncident,
   itsm_group_mappings |-> ItsmGroupMapping, system_aliases |-> SystemAlias,
   business_processes |-> BusinessProcess,
   system_business_processes |-> SystemBusinessProcess,
   business_process_costs |-> BusinessProcessCost, support_rates |-> SupportRate,
   econ_config |-> EconConfig, enterprise_profile |-> EnterpriseProfile,
   market_benchmarks |-> MarketBenchmark, nonconformities |-> Nonconformity,
   notification_deliveries |-> NotificationDelivery]

=============================================================================
