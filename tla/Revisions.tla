----------------------------- MODULE Revisions -----------------------------
(***************************************************************************)
(* The chain of the schema's revisions, backend/alembic/versions, as       *)
(* Migrations takes it.  A revision creates tables, each with its columns, *)
(* adds columns to tables of earlier revisions, has columns that refer to  *)
(* a table (foreign keys), and either checks what is there before each     *)
(* step and leaves it (013 and later, for a base made by create_all) or    *)
(* runs CREATE and ADD unconditionally, which fails on what exists.        *)
(* downgrade() takes back the same tables and columns.  Types, defaults,   *)
(* indexes, and rewrites of the data are left out; the two triggers that   *)
(* keep the audit log append-only count as a column of it, append_only.    *)
(***************************************************************************)
EXTENDS Sequences

\* The first schema: users, systems, the metric catalogue, periods, values, judgments.
R001 ==
  [creates |-> [users |-> {"id", "username", "email", "password_hash", "full_name", "role",
                    "is_active", "last_login", "is_deleted", "deleted_at", "created_at",
                    "updated_at"},
                systems |-> {"id", "name", "code", "status_lc", "criticality_class", "owner",
                    "is_active", "is_deleted", "created_at", "updated_at"},
                metric_catalog |-> {"id", "characteristic", "subcharacteristic",
                    "formula_type", "description", "data_source", "is_active"},
                assessment_periods |-> {"id", "system_id", "period", "status", "created_at",
                    "updated_at"},
                assessment_values |-> {"id", "period_id", "metric_id", "val_a", "val_b",
                    "calculated_x", "quality_level", "expert_comment", "artifact_links",
                    "data_source", "created_at", "updated_at"},
                expert_judgment_history |-> {"id", "assessment_value_id", "original_level",
                    "adjusted_level", "justification_text", "linked_risk_task", "created_by",
                    "created_at"}],
   adds |-> <<>>,
   refers |-> {<<"assessment_periods", "system_id", "systems">>,
               <<"assessment_values", "period_id", "assessment_periods">>,
               <<"assessment_values", "metric_id", "metric_catalog">>,
               <<"expert_judgment_history", "assessment_value_id", "assessment_values">>,
               <<"expert_judgment_history", "created_by", "users">>},
   checks |-> FALSE]

\* The three matrices of the Excel reports.
R002 ==
  [creates |-> [risk_matrices |-> {"id", "period_id", "characteristic", "subcharacteristic",
                    "risk_description", "risk_consequence", "mitigation_measures"},
                defect_matrices |-> {"id", "period_id", "characteristic", "digital_metric",
                    "quality_metric_level", "defect_description"},
                quality_plan_matrices |-> {"id", "period_id", "characteristic",
                    "subcharacteristic", "task_description", "internal_document",
                    "assignee_fio", "assignee_role", "assignee_department", "deadline",
                    "profile_executor", "tech_debt_link"}],
   adds |-> <<>>,
   refers |-> {<<"risk_matrices", "period_id", "assessment_periods">>,
               <<"defect_matrices", "period_id", "assessment_periods">>,
               <<"quality_plan_matrices", "period_id", "assessment_periods">>},
   checks |-> FALSE]

\* The cumulative base of risks.
R003 ==
  [creates |-> [risk_base |-> {"id", "code", "title", "category", "characteristic",
                    "subcharacteristic", "description", "consequence", "mitigation",
                    "severity", "likelihood", "triggers", "keywords", "source", "system_id",
                    "status", "created_by", "created_at", "updated_at"}],
   adds |-> <<>>,
   refers |-> {},
   checks |-> FALSE]

\* The flag of a value that cannot be measured.
R004 ==
  [creates |-> <<>>,
   adds |-> [assessment_values |-> {"unmeasurable"}],
   refers |-> {},
   checks |-> FALSE]

\* Professional judgments of a period.
R005 ==
  [creates |-> [professional_judgments |-> {"id", "period_id", "characteristic",
                    "subcharacteristic", "judgment_text", "author", "created_at",
                    "updated_at"}],
   adds |-> <<>>,
   refers |-> {<<"professional_judgments", "period_id", "assessment_periods">>},
   checks |-> FALSE]

\* The kind of a system, and the values of an AI system.
R006 ==
  [creates |-> [ai_assessment_values |-> {"id", "period_id", "group_name", "characteristic",
                    "subcharacteristic", "metric_kind", "inputs", "baseline", "tol_low",
                    "tol_high", "raw_value", "normalized_x", "conformant", "unmeasurable",
                    "expert_comment", "created_at", "updated_at"}],
   adds |-> [systems |-> {"system_kind"}],
   refers |-> {<<"ai_assessment_values", "period_id", "assessment_periods">>},
   checks |-> FALSE]

\* The weights an AI system is folded with.
R007 ==
  [creates |-> [ai_weights |-> {"id", "period_id", "scope", "name", "weight", "created_at",
                    "updated_at"}],
   adds |-> <<>>,
   refers |-> {<<"ai_weights", "period_id", "assessment_periods">>},
   checks |-> FALSE]

\* The measures.
R008 ==
  [creates |-> [proposals |-> {"id", "system_id", "system_name", "characteristic",
                    "metric_name", "calculated_score", "calculated_level", "adjusted_level",
                    "rationale", "expectation", "create_risk", "risk_title", "owner",
                    "owner_role", "due_date", "status", "decided_by", "decided_at",
                    "decision_comment", "execution", "execution_comment", "executed_by",
                    "executed_at", "suz_link", "top_comment", "escalated",
                    "escalation_reason", "escalation_decision",
                    "escalation_decision_comment", "escalation_decided_by", "history",
                    "is_demo", "created_by", "created_at", "updated_at"}],
   adds |-> <<>>,
   refers |-> {},
   checks |-> FALSE]

\* The incidents.
R009 ==
  [creates |-> [tech_incidents |-> {"id", "system_id", "system_name", "category", "severity",
                    "title", "description", "root_cause", "release_ref", "occurred_at",
                    "resolved_at", "source", "created_by", "created_at", "updated_at"}],
   adds |-> <<>>,
   refers |-> {},
   checks |-> FALSE]

\* What an incident has to say, and the measure it is linked to.
R010 ==
  [creates |-> <<>>,
   adds |-> [tech_incidents |-> {"admission_cause", "responsible_unit",
                 "preventive_measures", "category_custom", "linked_measure_id"}],
   refers |-> {},
   checks |-> FALSE]

\* The economic contour: processes and rates, risk events, nonconformities.
R011Tables ==
  [business_processes |-> {"id", "code", "name", "kind", "owner", "description",
       "is_active", "created_at", "updated_at"},
   system_business_processes |-> {"id", "system_id", "business_process_id", "share",
       "default_k_impact", "created_at", "updated_at"},
   business_process_costs |-> {"id", "business_process_id", "method", "params",
       "time_profile", "cost_per_min_base", "currency", "note", "created_at", "updated_at"},
   support_rates |-> {"id", "system_id", "line", "executor_type", "vendor", "mode",
       "rate_per_hour", "k_evening", "k_weekend", "package_hours", "overlimit_rate",
       "billing_quantum_min", "is_active", "created_at", "updated_at"},
   econ_config |-> {"key", "value", "description", "created_at", "updated_at"},
   risk_events |-> {"id", "code", "title", "description", "category", "owner", "system_id",
       "risk_base_id", "aro", "aro_is_expert", "sle_expert", "ale_avg", "ale_p90",
       "max_sle", "risk_appetite", "regulatory", "status", "created_by", "created_at",
       "updated_at"},
   risk_event_subchars |-> {"id", "risk_event_id", "characteristic", "subcharacteristic"},
   risk_event_incidents |-> {"id", "risk_event_id", "incident_id"},
   risk_event_measures |-> {"id", "risk_event_id", "proposal_id", "ale_reduction_share"},
   nonconformities |-> {"id", "code", "system_id", "system_name", "characteristic",
       "subcharacteristic", "assessment_value_id", "evidence_type", "level", "is_blocking",
       "description", "status", "owner", "evaluated_ale", "risk_event_id", "proposal_id",
       "decision_verdict", "acceptance_level", "signed_by", "sla_due", "review_date",
       "executed_by", "executed_at", "verified_by", "verified_at", "delta_score_confirmed",
       "history", "is_demo", "created_by", "created_at", "updated_at"}]

\* The columns it gives to tables there already, and what its foreign keys refer to.
R011 ==
  [creates |-> R011Tables,
   adds |-> [systems |-> {"vendor"},
             proposals |-> {"measure_type", "capex", "opex_per_year",
                 "implementation_months", "expected_delta_score", "delta_ale_cash",
                 "delta_ale_deferred", "delta_ale_capacity", "rosi", "recommended_verdict",
                 "verdict"},
             tech_incidents |-> {"incident_type", "degradation_type", "downtime_minutes",
                 "k_impact", "t_reaction_min", "t_resolution_min", "t_target_min",
                 "root_cause_fixed_at", "labor_l1_hours", "labor_l2_hours", "labor_l3_hours",
                 "vendor_involved", "cost_total"}],
   refers |-> {<<"system_business_processes", "system_id", "systems">>,
               <<"system_business_processes", "business_process_id", "business_processes">>,
               <<"business_process_costs", "business_process_id", "business_processes">>,
               <<"support_rates", "system_id", "systems">>,
               <<"risk_events", "risk_base_id", "risk_base">>,
               <<"risk_event_subchars", "risk_event_id", "risk_events">>,
               <<"risk_event_incidents", "risk_event_id", "risk_events">>,
               <<"risk_event_incidents", "incident_id", "tech_incidents">>,
               <<"risk_event_measures", "risk_event_id", "risk_events">>,
               <<"risk_event_measures", "proposal_id", "proposals">>,
               <<"nonconformities", "risk_event_id", "risk_events">>,
               <<"nonconformities", "proposal_id", "proposals">>},
   checks |-> FALSE]

\* The embedding of a risk, for the search by meaning.
R012 ==
  [creates |-> <<>>,
   adds |-> [risk_base |-> {"embedding"}],
   refers |-> {},
   checks |-> FALSE]

\* Five tables create_all had made and no revision had (the roles, the audit log ...).
R013 ==
  [creates |-> [role_permissions |-> {"id", "role", "permission", "updated_at"},
                audit_log |-> {"id", "user_id", "action", "entity_type", "entity_id",
                    "old_values", "new_values", "ip_address", "created_at"},
                user_preferences |-> {"user_id", "prefs", "updated_at"},
                metric_attributes |-> {"id", "name"},
                metric_characteristics |-> {"id", "name"}],
   adds |-> <<>>,
   refers |-> {},
   checks |-> TRUE]

\* Accounts in the place of names, dates in the place of strings, the profile.
R014 ==
  [creates |-> [enterprise_profile |-> {"id", "name", "size_class", "revenue_annual",
                    "headcount", "industry", "region", "note", "updated_by", "created_at",
                    "updated_at"}],
   adds |-> [systems |-> {"owner_user_id"},
             proposals |-> {"owner_user_id", "due_on", "executed_by_user_id", "effort_hours",
                 "effort_hours_set_by", "effort_hours_set_at"},
             nonconformities |-> {"owner_user_id", "executed_by_user_id",
                 "verified_by_user_id"}],
   refers |-> {<<"systems", "owner_user_id", "users">>,
               <<"proposals", "owner_user_id", "users">>,
               <<"proposals", "executed_by_user_id", "users">>,
               <<"proposals", "effort_hours_set_by", "users">>,
               <<"nonconformities", "owner_user_id", "users">>,
               <<"nonconformities", "executed_by_user_id", "users">>,
               <<"nonconformities", "verified_by_user_id", "users">>,
               <<"enterprise_profile", "updated_by", "users">>},
   checks |-> TRUE]

\* Versions of the weights, snapshots of the scores.
R015 ==
  [creates |-> [weight_set_versions |-> {"id", "label", "subchar_weights",
                    "criticality_weights", "is_active", "created_by", "note", "created_at",
                    "updated_at"},
                score_history_snapshots |-> {"id", "weight_version_id", "period_id",
                    "system_id", "system_name", "score", "coverage", "breakdown",
                    "computed_at"}],
   adds |-> <<>>,
   refers |-> {<<"weight_set_versions", "created_by", "users">>,
               <<"score_history_snapshots", "weight_version_id", "weight_set_versions">>,
               <<"score_history_snapshots", "period_id", "assessment_periods">>,
               <<"score_history_snapshots", "system_id", "systems">>},
   checks |-> TRUE]

\* The card of a measure in the words of its executor.
R016 ==
  [creates |-> <<>>,
   adds |-> [proposals |-> {"executor_brief", "executor_brief_generated_by",
                 "executor_brief_generated_at"}],
   refers |-> {<<"proposals", "executor_brief_generated_by", "users">>},
   checks |-> TRUE]

\* The structure of market benchmarks.
R017 ==
  [creates |-> [market_benchmarks |-> {"id", "kind", "dimension", "company_size_class",
                    "value", "unit", "source", "observed_on", "note", "created_by",
                    "created_at", "updated_at"}],
   adds |-> <<>>,
   refers |-> {<<"market_benchmarks", "created_by", "users">>},
   checks |-> TRUE]

\* The sections every user has to see.
R018 ==
  [creates |-> [mandatory_sections |-> {"permission", "updated_at"}],
   adds |-> <<>>,
   refers |-> {},
   checks |-> TRUE]

\* The card of an order: criticality, cost, departments.
R019 ==
  [creates |-> [measure_departments |-> {"id", "characteristic", "department_name",
                    "updated_by", "created_at", "updated_at"}],
   adds |-> [proposals |-> {"is_process_measure", "is_blocking_override",
                 "ale_at_risk_snapshot", "ale_at_risk_snapshot_at", "ale_at_risk_current",
                 "ale_at_risk_current_at", "alternative_solutions", "systemic_scope_note",
                 "systemic_scope_llm_note", "systemic_scope_system_count", "department",
                 "measure_source", "llm_reviewed_by", "llm_reviewed_at"},
             nonconformities |-> {"sla_escalated", "sla_escalated_at"}],
   refers |-> {<<"proposals", "llm_reviewed_by", "users">>,
               <<"measure_departments", "updated_by", "users">>},
   checks |-> TRUE]

\* The daily history of the price of inaction.
R020 ==
  [creates |-> [proposal_price_snapshots |-> {"id", "proposal_id", "snapshot_date", "price",
                    "created_at", "updated_at"}],
   adds |-> <<>>,
   refers |-> {<<"proposal_price_snapshots", "proposal_id", "proposals">>},
   checks |-> TRUE]

\* What a measure did cost.
R021 ==
  [creates |-> <<>>,
   adds |-> [proposals |-> {"actual_capex", "actual_opex", "actual_effort_hours",
                 "actuals_set_by", "actuals_set_at"}],
   refers |-> {<<"proposals", "actuals_set_by", "users">>},
   checks |-> TRUE]

\* The weights of the characteristics in a version.
R022 ==
  [creates |-> <<>>,
   adds |-> [weight_set_versions |-> {"char_weights"}],
   refers |-> {},
   checks |-> TRUE]

\* The audit log of the security events, and the triggers that keep it append-only.
R023 ==
  [creates |-> <<>>,
   adds |-> [audit_log |-> {"username", "outcome", "entity_key", "user_agent", "request_id",
                 "append_only"}],
   refers |-> {},
   checks |-> TRUE]

\* The rest of the economic contour: checklists, groups and aliases of systems.
R024 ==
  [creates |-> [owner_checklist_items |-> {"id", "period_id", "characteristic",
                    "subcharacteristic", "question", "answer", "artifact_url",
                    "submitted_by", "submitted_at", "sampled", "verification", "verified_by",
                    "verified_at", "verifier_comment", "created_at", "updated_at"},
                itsm_group_mappings |-> {"id", "group_name", "system_id", "note",
                    "created_at", "updated_at"},
                system_aliases |-> {"id", "alias", "alias_norm", "system_id", "created_at",
                    "updated_at"}],
   adds |-> [assessment_periods |-> {"depth", "analyst_hours", "carried_from_period_id"},
             assessment_values |-> {"carried_over"},
             proposals |-> {"delta_ale_at_decision"},
             tech_incidents |-> {"cost_breakdown", "degradation_inputs",
                 "counts_as_downtime", "labor_vendor_lines", "labor_source", "external_id",
                 "parent_incident_id"}],
   refers |-> {<<"owner_checklist_items", "period_id", "assessment_periods">>,
               <<"itsm_group_mappings", "system_id", "systems">>,
               <<"system_aliases", "system_id", "systems">>},
   checks |-> TRUE]

\* The management contour: the journal of notifications, reference rates.
R025 ==
  [creates |-> [notification_deliveries |-> {"id", "event_type", "recipient", "address",
                    "channel", "subject", "body", "entity_type", "entity_id", "attachments",
                    "status", "reason", "attempts", "dedupe_key", "is_retryable",
                    "created_at", "last_attempt_at", "sent_at"}],
   adds |-> [proposals |-> {"task_ref", "taken_to_work_at"},
             support_rates |-> {"source", "reference_benchmark_id", "confirmed_at",
                 "confirmed_by"},
             market_benchmarks |-> {"line", "industry", "qualification"}],
   refers |-> {<<"support_rates", "reference_benchmark_id", "market_benchmarks">>},
   checks |-> TRUE]

\* The assessment of AI: datasets, parity, experts, the nodes of the model of quality.
R026 ==
  [creates |-> [ai_test_datasets |-> {"id", "period_id", "name", "purpose", "records",
                    "source", "collected_from", "representativeness", "class_balance",
                    "outlier_method", "outlier_k", "outlier_feature", "outliers_count",
                    "outliers_share", "outlier_handling", "notes", "created_at",
                    "updated_at"},
                ai_env_parity |-> {"id", "period_id", "factor", "test_env", "prod_env",
                    "status", "justification", "created_at", "updated_at"},
                ai_expert_scores |-> {"id", "period_id", "characteristic",
                    "subcharacteristic", "expert", "expert_name", "score", "comment",
                    "created_at", "updated_at"},
                qm_nodes |-> {"id", "model_kind", "level", "parent_id", "code", "name_ru",
                    "metric_kind", "is_ai_specific", "sort"}],
   adds |-> <<>>,
   refers |-> {<<"ai_test_datasets", "period_id", "assessment_periods">>,
               <<"ai_env_parity", "period_id", "assessment_periods">>,
               <<"ai_expert_scores", "period_id", "assessment_periods">>,
               <<"qm_nodes", "parent_id", "qm_nodes">>},
   checks |-> TRUE]

\* The password policy.
R027 ==
  [creates |-> <<>>,
   adds |-> [users |-> {"must_change_password", "password_changed_at", "password_history"}],
   refers |-> {},
   checks |-> TRUE]

\* The chain: each revision names the one before it as its down_revision.
Versions ==
  <<R001, R002, R003, R004, R005, R006, R007, R008, R009,
    R010, R011, R012, R013, R014, R015, R016, R017, R018,
    R019, R020, R021, R022, R023, R024, R025, R026, R027>>

=============================================================================
