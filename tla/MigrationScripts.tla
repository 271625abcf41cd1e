-------------------------- MODULE MigrationScripts --------------------------
(***************************************************************************)
(* The migrations of src/database/migrations and the scripts that apply    *)
(* them.  A migration says what it promises: rules in force on every row,  *)
(* parts (tables, columns, indexes) that are there, and what is gone; and  *)
(* its SQL.  A script is a sequence of units, each a transaction or a      *)
(* statement of its own; what it does between units is lost in a crash.    *)
(* A dry run and the readback after the ledger write change no row.        *)
(***************************************************************************)
EXTENDS SchemaChanges

Migration(id, rules, parts, gone, sql) ==
    [id |-> id, rules |-> rules, parts |-> parts, gone |-> gone, sql |-> sql]

Script(ids, units) == [ids |-> ids, units |-> units]

NoKey == <<0, 0>>
Unit(kind, key, steps) == [kind |-> kind, key |-> key, steps |-> steps]
Tx(key, steps)   == Unit("tx", key, steps)          \* pg_advisory_xact_lock(key) first
Alone(steps)     == Unit("tx", NoKey, steps)        \* without a lock
SessionLock(key) == Unit("lock", key, <<>>)         \* pg_advisory_lock: held by the session
SessionUnlock    == Unit("unlock", NoKey, <<>>)
IndexApart(S)    == Unit("index", NoKey, <<Create(S)>>)   \* CREATE INDEX CONCURRENTLY
PoolRead(steps)  == Unit("pool", NoKey, steps)      \* over dataSource, not over the runner

(* Most scripts: once, and the ledger row in the transaction of the SQL.   *)
Once(key, m) ==
    Script({m.id}, <<Tx(key, <<SkipIfRecorded(m.id)>> \o m.sql \o <<Record(m.id)>>)>>)

(* The same behind a check of the rows that is made before the lock.       *)
OnceAfter(checks, key, m) ==
    Script({m.id}, <<Alone(checks)>> \o Once(key, m).units)

(* The SQL when what it promises is not there, a readback, the ledger row. *)
WhenIncomplete(key, m) ==
    Script({m.id}, <<Tx(key, <<Unless(m.rules \cup m.parts, m.sql),
                               Require(m.rules \cup m.parts), RecordOnce(m.id)>>)>>)

(* The same, the readback only after the transaction.                      *)
WhenIncompleteUnread(key, m) ==
    Script({m.id}, <<Tx(key, <<Unless(m.rules \cup m.parts, m.sql), RecordOnce(m.id)>>)>>)

-----------------------------------------------------------------------------
(* Accounts, sessions and verification.                                    *)
TBO29_AUTH_MIGRATION_SQL ==
    Migration("tbo29_auth", {"users_checks", "uq_users_active_web_id_ci"},
        {"users_auth_columns", "instructor_profiles+auth_events"}, {"email_verify_token"},
        <<Create({"users_auth_columns"}), Drop({"email_verify_token"}),
          AddUnvalidated({"users_checks"}), Gate({"uq_users_active_web_id_ci"}),
          Add({"uq_users_active_web_id_ci"}), Create({"instructor_profiles+auth_events"})>>)

migrate_tbo29_auth ==
    LET m == TBO29_AUTH_MIGRATION_SQL
    IN  Once(<<29, 1>>, [m EXCEPT !.sql = m.sql \o <<Validate({"users_checks"})>>])

PROFILE_CHANGE_REQUESTS_MIGRATION_SQL ==
    Migration("profile_change_requests", {"users_profile_version_check"},
        {"profile_version", "profile_change_requests"}, {},
        <<Create({"profile_version"}), AddUnvalidated({"users_profile_version_check"}),
          Create({"profile_change_requests"})>>)

migrate_profile_change_requests ==
    LET m == PROFILE_CHANGE_REQUESTS_MIGRATION_SQL
    IN  Once(<<29, 2>>, [m EXCEPT !.sql = m.sql \o <<Validate({"users_profile_version_check"})>>])

(* profile_change_requested_keys_check has had three definitions under one *)
(* name; a row that fits an earlier one fits the later ones.               *)
RequestedKeys == {"requested_keys", "requested_keys+webId", "requested_keys+englishName"}

PROFILE_VERIFICATION_CHALLENGES_MIGRATION_SQL ==
    Migration("profile_verification_challenges", {"requested_keys"},
        {"profile_verification_challenges"}, {},
        <<Create({"profile_verification_challenges"}), Drop(RequestedKeys), Add({"requested_keys"})>>)

migrate_profile_verification_challenges ==
    Once(<<29, 3>>, PROFILE_VERIFICATION_CHALLENGES_MIGRATION_SQL)

WEBID_APPROVAL_MIGRATION_SQL ==
    Migration("webid_approval", {}, {}, {"requested_keys"},
        <<Exchange({"requested_keys"}, {"requested_keys+webId"})>>)

migrate_webid_approval == Once(<<29, 13>>, WEBID_APPROVAL_MIGRATION_SQL)

CREDENTIAL_OTP_MIGRATION_SQL ==
    Migration("credential_otp", {}, {}, {"state_check_for_requests"},
        <<Exchange({"state_check_for_requests"}, {"state_check"})>>)

migrate_credential_otp == Once(<<29, 14>>, CREDENTIAL_OTP_MIGRATION_SQL)

SENS_PROVIDER_MIGRATION_SQL ==
    Migration("sens_provider", {"provider_check+ncp_sens"}, {}, {"provider_check"},
        <<Drop({"provider_check"}), Add({"provider_check+ncp_sens"})>>)

migrate_sens_provider == Once(<<29, 6>>, SENS_PROVIDER_MIGRATION_SQL)

PROFILE_SELF_DECISION_MIGRATION_SQL ==
    Migration("profile_self_decision", {}, {"trg_profile_change_self_decision"},
        {"no_self_decision_check"},
        <<Drop({"no_self_decision_check"}), Drop({"trg_profile_change_self_decision"}),
          Create({"trg_profile_change_self_decision"})>>)

migrate_profile_self_decision == Once(<<29, 12>>, PROFILE_SELF_DECISION_MIGRATION_SQL)

PROFILE_VERIFICATION_PURPOSE_MIGRATION_SQL ==
    Migration("profile_verification_purpose", {"purpose_check"}, {"purpose"}, {},
        <<Create({"purpose"}), AddUnvalidated({"purpose_check"}), Validate({"purpose_check"})>>)

(* Runs its SQL whatever is there, then reads it back.                     *)
migrate_profile_verification_purpose ==
    LET m == PROFILE_VERIFICATION_PURPOSE_MIGRATION_SQL
    IN  Script({m.id}, <<Tx(<<97, 1>>, m.sql \o <<Require({"purpose", "purpose_check"}),
                                                  RecordOnce(m.id)>>)>>)

CREDENTIAL_RECOVERY_MIGRATION_SQL ==
    Migration("credential_recovery", {}, {"password_reset_columns"}, {},
        <<Create({"password_reset_columns"})>>)

migrate_credential_recovery == Once(<<29, 5>>, CREDENTIAL_RECOVERY_MIGRATION_SQL)

SIGNUP_PROFILE_FIELDS_MIGRATION_SQL ==
    Migration("signup_profile_fields", {}, {"users_profile_columns"}, {},
        <<Create({"users_profile_columns"})>>)

migrate_signup_profile_fields == Once(<<29, 11>>, SIGNUP_PROFILE_FIELDS_MIGRATION_SQL)

SIGNUP_PHONE_CHALLENGES_MIGRATION_SQL ==
    Migration("signup_phone_challenges", {}, {"signup_phone_challenges"}, {},
        <<Create({"signup_phone_challenges"})>>)

migrate_signup_phone_challenges == Once(<<48, 1>>, SIGNUP_PHONE_CHALLENGES_MIGRATION_SQL)

AUTH_RATE_LIMITS_MIGRATION_SQL ==
    Migration("auth_rate_limits", {}, {"auth_rate_limits"}, {}, <<Create({"auth_rate_limits"})>>)

migrate_auth_rate_limits == Once(<<34, 1>>, AUTH_RATE_LIMITS_MIGRATION_SQL)

AUTH_EVENT_DOMAIN_SQL ==
    LET c == {"c_auth_events_event_type_domain"}
    IN  Migration("auth_event_domain", c, {}, {}, <<Drop(c), AddUnvalidated(c), Validate(c)>>)

migrate_auth_event_domain == WhenIncompleteUnread(<<78, 5>>, AUTH_EVENT_DOMAIN_SQL)

AUTH_REFRESH_TOKEN_INTEGRITY_SQL ==
    LET c == {"auth_refresh_constraints"}  i == {"idx_auth_refresh_tokens_replaced_by"}
    IN  Migration("auth_refresh_token_integrity", c, i, {},
            <<Gate(c), AddUnvalidated(c), Validate(c), Create(i)>>)

(* The constraints NOT VALID and the index, then the validation, then the  *)
(* ledger row, each in a transaction of its own under one session lock;    *)
(* before the ledger row the catalogue is read over the pool.              *)
migrate_auth_refresh_token_integrity ==
    LET m == AUTH_REFRESH_TOKEN_INTEGRITY_SQL
        new(steps) == <<SkipIfRecorded(m.id)>> \o steps
    IN  Script({m.id}, <<SessionLock(<<76, 8>>),
            Alone(new(<<m.sql[1], m.sql[2], m.sql[4]>>)),
            Alone(new(<<m.sql[3]>>)),
            PoolRead(new(<<Require(m.rules \cup m.parts)>>)),
            Alone(new(<<Record(m.id)>>)),
            SessionUnlock>>)

USER_CAPABILITY_OVERRIDES_MIGRATION_SQL ==
    Migration("user_capability_overrides", {"override_checks"}, {"user_capability_overrides"}, {},
        <<Create({"user_capability_overrides"}), Add({"override_checks"})>>)

migrate_user_capability_overrides ==
    WhenIncompleteUnread(<<82, 1>>, USER_CAPABILITY_OVERRIDES_MIGRATION_SQL)

SESSION_ATTENDANCE_CAPABILITY_MIGRATION_SQL ==
    LET c == {"override_capability+attendance"}
    IN  Migration("session_attendance_capability", c, {}, {"override_capability"},
            <<Drop(c \cup {"override_capability"}), AddUnvalidated(c), Validate(c)>>)

migrate_session_attendance_capability ==
    WhenIncomplete(<<86, 1>>, SESSION_ATTENDANCE_CAPABILITY_MIGRATION_SQL)

STAFF_ENGLISH_NAME_EXPAND_SQL ==
    LET c == {"c_users_english_name_format"}  n == {"english_name_required"}
    IN  <<Create({"english_name"}), Backfill(c \cup n), AddUnvalidated(c), Validate(c),
          Drop(RequestedKeys), Add({"requested_keys+englishName"})>>

STAFF_ENGLISH_NAME_MIGRATION_SQL ==
    Migration("staff_english_name", {"c_users_english_name_format", "english_name_required"},
        {"english_name"}, {},
        STAFF_ENGLISH_NAME_EXPAND_SQL \o
        <<Backfill({"c_users_english_name_format", "english_name_required"}),
          Add({"english_name_required"})>>)

migrate_staff_english_name == WhenIncomplete(<<96, 1>>, STAFF_ENGLISH_NAME_MIGRATION_SQL)

(* PREPARE=1: only what the old backend can live with, and no ledger row.  *)
prepare_staff_english_name ==
    Script({"staff_english_name"},
        <<Tx(<<96, 1>>, STAFF_ENGLISH_NAME_EXPAND_SQL
                        \o <<Require({"english_name", "c_users_english_name_format"})>>)>>)

-----------------------------------------------------------------------------
(* Families, counselling, what is studied.                                 *)
PARENTS_MIGRATION_SQL ==
    Migration("parents", {"fk_parent_relations"}, {"parents"}, {},
        <<Create({"parents"}), Add({"fk_parent_relations"})>>)

migrate_parents == Once(<<29, 7>>, PARENTS_MIGRATION_SQL)

STUDENT_PROFILE_MIGRATION_SQL ==
    LET c == {"students_status+gender_checks"}  fk == {"fk_student_interests"}
    IN  Migration("student_profile", c \cup fk, {"student_profile_columns", "student_interests"}, {},
            <<Create({"student_profile_columns"}), Backfill(c), Drop(c), Add(c),
              Create({"student_interests"}), Add(fk)>>)

migrate_student_profile == Once(<<35, 1>>, STUDENT_PROFILE_MIGRATION_SQL)

(* students_grade_check exists by this name with other bounds before.      *)
STAFF_PAY_CALENDAR_MIGRATION_SQL ==
    LET c == {"hourly_rate_checks"}  late == {"students_grade_check", "students_birth_date_required"}
    IN  Migration("staff_pay_calendar", c, {"pay+calendar_columns"} \cup late, {"grade_check_before"},
            <<Create({"pay+calendar_columns"}), Add(c), Drop({"grade_check_before"}),
              AddUnvalidated(late)>>)

migrate_staff_pay_calendar == Once(<<36, 1>>, STAFF_PAY_CALENDAR_MIGRATION_SQL)

STUDENT_REQUIRED_CONTRACT_SQL ==
    LET late == {"students_grade_check", "students_birth_date_required"}
        n == {"grade+birth_date_not_null"}
    IN  Migration("student_required_contract", n, {}, {"students_birth_date_required"},
            <<Validate(late), Add(n), Drop({"students_birth_date_required"})>>)

(* Grades and birth dates are counted before the transaction.              *)
migrate_student_required_contract ==
    OnceAfter(<<Gate({"grade+birth_date_not_null"})>>, <<36, 5>>, STUDENT_REQUIRED_CONTRACT_SQL)

COURSE_PAY_SSOT_SQL ==
    Migration("course_pay_ssot", {}, {}, {"courses.hourly_rate"}, <<Drop({"courses.hourly_rate"})>>)

(* Course rows are counted before the transaction.                         *)
migrate_course_pay_ssot ==
    OnceAfter(<<Gate({"courses.hourly_rate"})>>, <<36, 6>>, COURSE_PAY_SSOT_SQL)

COUNSEL_PERSISTENCE_MIGRATION_SQL ==
    Migration("counsel_persistence", {"fk_counsel_forms"}, {"counsel_forms", "idx_interest_subject"}, {},
        <<Create({"counsel_forms", "idx_interest_subject"})>>)

(* addConstraintIfMissing follows the SQL.                                 *)
migrate_counsel_persistence ==
    LET m == COUNSEL_PERSISTENCE_MIGRATION_SQL
    IN  Once(<<33, 1>>, [m EXCEPT !.sql = m.sql \o <<Add({"fk_counsel_forms"})>>])

COUNSEL_FORM_INPUTS_MIGRATION_SQL ==
    Migration("counsel_form_inputs", {}, {"submitter_type"}, {}, <<Create({"submitter_type"})>>)

migrate_counsel_form_inputs == Once(<<34, 3>>, COUNSEL_FORM_INPUTS_MIGRATION_SQL)

COUNSEL_ROUND_SNAPSHOTS_MIGRATION_SQL ==
    LET c == {"form_snapshot_required"}
    IN  Migration("counsel_round_snapshots", c, {"form_snapshot"}, {},
            <<Create({"form_snapshot"}), Backfill(c), Add(c)>>)

migrate_counsel_round_snapshots == Once(<<34, 4>>, COUNSEL_ROUND_SNAPSHOTS_MIGRATION_SQL)

COUNSEL_NEXT_CONTACT_DATETIME_MIGRATION_SQL ==
    Migration("counsel_next_contact_datetime", {}, {"next_contact_timestamptz"}, {},
        <<Create({"next_contact_timestamptz"}), Backfill({"snapshot_dates"})>>)

migrate_counsel_next_contact_datetime == Once(<<76, 1>>, COUNSEL_NEXT_CONTACT_DATETIME_MIGRATION_SQL)

COUNSEL_FAMILY_ACADEMIC_EXPAND_SQL ==
    LET c == {"students_grade_check"}
    IN  Migration("counsel_family_academic_expand", c, {"reference_notes", "family+academic"},
            {"grade_check_before"},
            <<Create({"reference_notes"}), Drop(c \cup {"grade_check_before"}), AddUnvalidated(c),
              Validate(c), Create({"family+academic"})>>)

migrate_counsel_family_academic_expand ==
    OnceAfter(<<Gate({"students_grade_check"})>>, <<38, 1>>, COUNSEL_FAMILY_ACADEMIC_EXPAND_SQL)

(* Dropping the columns drops the values in them: a legacy value that was  *)
(* not carried over breaks the rule that the column has none.              *)
COUNSEL_STUDENT_SSOT_CONTRACT_SQL ==
    LET c == {"counsel_forms_active_student_required"}  old == {"legacy_columns"}
    IN  Migration("counsel_student_ssot_contract", c, {}, old \cup {"students_grade_check"},
            <<Drop({"idx_interest_subject"}), AddNew(c), Drop(old \cup {"students_grade_check"})>>)

(* The four blockers are counted before the transaction.                   *)
migrate_counsel_student_ssot_contract ==
    OnceAfter(<<Gate({"counsel_forms_active_student_required", "legacy_columns"})>>,
              <<38, 2>>, COUNSEL_STUDENT_SSOT_CONTRACT_SQL)

ENROLLMENT_COURSE_UNIQUE_MIGRATION_SQL ==
    LET u == {"uq_enrollments_student_course_active"}
    IN  Migration("enrollment_course_unique", u, {}, {}, <<Gate(u), Add(u)>>)

migrate_enrollment_course_unique == Once(<<48, 1>>, ENROLLMENT_COURSE_UNIQUE_MIGRATION_SQL)

ENROLLMENT_ROADMAP_INTEGRITY_MIGRATION_SQL ==
    LET fk == {"fk_enrollments_roadmap"}  i == {"idx_enrollments_roadmap_active"}
    IN  Migration("enrollment_roadmap_integrity", fk, i, {},
            <<Gate(fk), AddUnvalidated(fk), Validate(fk), Create(i)>>)

migrate_enrollment_roadmap_integrity == Once(<<77, 7>>, ENROLLMENT_ROADMAP_INTEGRITY_MIGRATION_SQL)

-----------------------------------------------------------------------------
(* Lessons, requests and reports.                                          *)
ACADEMY_EVENTS_MIGRATION_SQL ==
    Migration("academy_events", {}, {"academy_events"}, {}, <<Create({"academy_events"})>>)

migrate_academy_events == Once(<<29, 8>>, ACADEMY_EVENTS_MIGRATION_SQL)

COUNTRIES_MIGRATION_SQL ==
    Migration("countries", {}, {"countries", "country_rows"}, {},
        <<Create({"countries"}), Create({"country_rows"})>>)

migrate_countries == Once(<<29, 10>>, COUNTRIES_MIGRATION_SQL)

CLASS_SESSION_SERIES_MIGRATION_SQL ==
    LET fk == {"fk_class_sessions_series"}
    IN  Migration("class_session_series", fk, {"class_session_series"}, {},
            <<Create({"class_session_series"}), Backfill(fk), Add(fk)>>)

migrate_class_session_series == Once(<<29, 4>>, CLASS_SESSION_SERIES_MIGRATION_SQL)

REMAINING_PERSISTENCE_MIGRATION_SQL ==
    Migration("remaining_persistence", {}, {"paid_columns", "roadmaps+report_templates"}, {},
        <<Create({"paid_columns"}), Backfill({"paid_by_payout"}),
          Create({"roadmaps+report_templates"})>>)

migrate_remaining_persistence == Once(<<34, 2>>, REMAINING_PERSISTENCE_MIGRATION_SQL)

VIEW_PRESET_OWNER_MIGRATION_SQL ==
    Migration("view_preset_owner", {}, {"view_presets.created_by"}, {},
        <<Create({"view_presets.created_by"})>>)

migrate_view_preset_owner == Once(<<47, 1>>, VIEW_PRESET_OWNER_MIGRATION_SQL)

ATTENDANCE_REPORTS_CONSTRAINTS_MIGRATION_SQL ==
    LET c == {"attendance_constraints", "report_constraints"}  i == {"idx_reports_student"}
    IN  Migration("attendance_reports_constraints", c, i, {},
            <<Gate(c), AddUnvalidated(c), Validate(c), Create(i)>>)

migrate_attendance_reports_constraints ==
    Once(<<48, 3>>, ATTENDANCE_REPORTS_CONSTRAINTS_MIGRATION_SQL)

SESSION_REPORT_PROGRESS_PAGE_MIGRATION_SQL ==
    Migration("session_report_progress_page", {}, {"session_reports.progress_page"}, {},
        <<Create({"session_reports.progress_page"})>>)

migrate_session_report_progress_page == Once(<<76, 4>>, SESSION_REPORT_PROGRESS_PAGE_MIGRATION_SQL)

SESSION_REPORT_REVISIONS_SQL ==
    LET c == {"approval_metadata"}
    IN  Migration("session_report_revisions", c, {"version", "session_report_revisions"}, {},
            <<Create({"version"}), Backfill(c), AddUnvalidated(c), Validate(c),
              Create({"session_report_revisions"})>>)

migrate_session_report_revisions == WhenIncomplete(<<86, 4>>, SESSION_REPORT_REVISIONS_SQL)

REPORT_TEMPLATE_OWNER_MIGRATION_SQL ==
    LET fk == {"fk_report_templates_created_by"}
    IN  Migration("report_template_owner", fk, {"report_templates.created_by"}, {},
            <<Create({"report_templates.created_by"}), AddUnvalidated(fk), Validate(fk)>>)

migrate_report_template_owner == Once(<<77, 5>>, REPORT_TEMPLATE_OWNER_MIGRATION_SQL)

REPORT_TEMPLATE_SCOPE_MIGRATION_SQL ==
    LET c == {"template_owner+scope_constraints"}  u == {"uq_template_scopes"}
    IN  Migration("report_template_scope", c \cup u, {"template_scope_columns"},
            {"uq_report_templates_active_name"},
            <<Create({"template_scope_columns"}), Backfill({"template_owner+scope_constraints"}),
              AddUnvalidated(c), Validate(c), Drop({"uq_report_templates_active_name"}), Add(u)>>)

migrate_report_template_scope == WhenIncomplete(<<86, 5>>, REPORT_TEMPLATE_SCOPE_MIGRATION_SQL)

UNASSIGNED_SESSION_INSTRUCTOR_MIGRATION_SQL ==
    LET c == {"unassigned_session_constraints"}  i == {"idx_sessions_unassigned_date"}
    IN  Migration("unassigned_session_instructor", c, i, {"instructor_id_not_null"},
            <<Drop({"instructor_id_not_null"}), AddUnvalidated(c), Validate(c), Create(i)>>)

(* complete(state) asks for the column to be nullable too.                 *)
migrate_unassigned_session_instructor ==
    LET m == UNASSIGNED_SESSION_INSTRUCTOR_MIGRATION_SQL
        script == WhenIncomplete(<<86, 2>>, m)
    IN  [script EXCEPT !.units[1].steps = <<m.sql[1]>> \o script.units[1].steps]

SCHEDULE_REQUEST_MEMO_MIGRATION_SQL ==
    Migration("schedule_request_memo", {}, {"schedule_requests.memo"}, {},
        <<Create({"schedule_requests.memo"})>>)

migrate_schedule_request_memo == Once(<<47, 1>>, SCHEDULE_REQUEST_MEMO_MIGRATION_SQL)

SCHEDULE_REQUEST_INTEGRITY_SQL ==
    LET c == {"kind_required", "decision+time_constraints"}
    IN  Migration("schedule_request_integrity", c, {}, {},
            <<Gate(c), AddUnvalidated(c), Validate(c)>>)

(* The gate before the session lock; SQL and ledger row in one transaction *)
migrate_schedule_request_integrity ==
    LET m == SCHEDULE_REQUEST_INTEGRITY_SQL
    IN  Script({m.id}, <<Alone(<<m.sql[1]>>), SessionLock(<<77, 30>>),
            Alone(<<SkipIfRecorded(m.id)>> \o m.sql \o <<Record(m.id)>>), SessionUnlock>>)

SCHEDULE_REQUEST_INTEGRITY_V2_ADD_SQL ==
    LET c == {"kind_required_v2", "decision+domain_v2"}
    IN  Migration("schedule_request_integrity_v2", c, {}, {},
            <<Gate(c), AddUnvalidated({"kind_required_v2"}), AddUnvalidated({"decision+domain_v2"})>>)

(* Each constraint is added and validated by itself, what is there is kept *)
(* as it is; the ledger row follows a readback over the locked session.    *)
migrate_schedule_request_integrity_v2 ==
    LET m == SCHEDULE_REQUEST_INTEGRITY_V2_ADD_SQL
    IN  Script({m.id}, <<Alone(<<m.sql[1]>>), SessionLock(<<77, 31>>),
            Alone(<<m.sql[2]>>), Alone(<<Validate({"kind_required_v2"})>>),
            Alone(<<m.sql[3]>>), Alone(<<Validate({"decision+domain_v2"})>>),
            Alone(<<Require(m.rules)>>), Alone(<<RecordOnce(m.id)>>), SessionUnlock>>)

SCHEDULE_REQUEST_BATCH_MIGRATION_SQL ==
    LET c == {"batch_check"}  i == {"uq_batch_item"}
    IN  Migration("schedule_request_batch", c, {"batch_columns"} \cup i, {},
            <<Create({"batch_columns"}), AddNew(c), AddNew(i)>>)

(* 42701, 42710 and 42P07 are caught, but in a transaction that PostgreSQL *)
(* has aborted: the next statement fails.                                  *)
migrate_schedule_request_batch == WhenIncomplete(<<78, 2>>, SCHEDULE_REQUEST_BATCH_MIGRATION_SQL)

SCHEDULE_REQUEST_BATCH_STRICT_SQL ==
    LET c == {"batch_check_strict"}
    IN  Migration("schedule_request_batch_strict", c, {}, {"batch_check"},
            <<Drop(c \cup {"batch_check"}), AddUnvalidated(c), Validate(c)>>)

migrate_schedule_request_batch_strict ==
    LET script == WhenIncomplete(<<78, 3>>, SCHEDULE_REQUEST_BATCH_STRICT_SQL)
    IN  [script EXCEPT !.units = <<Alone(<<Gate({"batch_check_strict"})>>)>> \o script.units]

SCHEDULE_REQUEST_ATTENDANCE_CORRECTION_SQL ==
    LET c == {"request_kind_v3"}  u == {"uq_attendance_correction"}
    IN  Migration("schedule_request_attendance_correction", c \cup u, {"correction_columns"},
            {"kind_required", "kind_required_v2"},
            <<Create({"correction_columns"}), Drop({"kind_required", "kind_required_v2"}),
              AddUnvalidated(c), Validate(c), Add(u)>>)

migrate_schedule_request_attendance_correction ==
    WhenIncomplete(<<86, 3>>, SCHEDULE_REQUEST_ATTENDANCE_CORRECTION_SQL)

SOFTDELETE_UNIQUE_MIDNIGHT_SQL ==
    LET u == {"uq_active_email+code"}  c == {"c_sessions_end_after_start"}
    IN  Migration("softdelete_unique_midnight", u \cup c, {}, {"legacy_uniques"},
            <<Gate(u \cup c), Drop({"legacy_uniques"}), Add(u), AddUnvalidated(c), Validate(c)>>)

(* complete(state) asks for the legacy constraints to be gone too.         *)
migrate_softdelete_unique_midnight ==
    LET m == SOFTDELETE_UNIQUE_MIDNIGHT_SQL
        script == WhenIncomplete(<<86, 10>>, m)
    IN  [script EXCEPT !.units[1].steps = <<m.sql[2]>> \o script.units[1].steps]

-----------------------------------------------------------------------------
(* Money, staff and the shape of the schema.                               *)
PAYMENTS_MONEY_CONSTRAINTS_LEDGER_SQL ==
    LET p == {"payments_fks+checks"}  t == {"fk_transactions_payment"}
    IN  Migration("payments_money_constraints", p \cup t, {}, {},
            <<Gate(p), Add(p), Gate(t), Add(t)>>)

migrate_payments_money_constraints == Once(<<48, 1>>, PAYMENTS_MONEY_CONSTRAINTS_LEDGER_SQL)

TRANSACTION_SOURCE_INTEGRITY_SQL ==
    LET c == {"fk_transactions_payment", "exactly_one_source"}
    IN  Migration("transaction_source_integrity", c, {}, {},
            <<Gate(c), AddUnvalidated(c), Validate(c)>>)

migrate_transaction_source_integrity ==
    LET m == TRANSACTION_SOURCE_INTEGRITY_SQL
    IN  Script({m.id}, <<SessionLock(<<77, 5>>),
            Alone(<<SkipIfRecorded(m.id)>> \o m.sql \o <<Record(m.id)>>), SessionUnlock>>)

INSTRUCTOR_CONTRACT_INTEGRITY_SQL ==
    LET c == {"contract_fk+period", "hours+rate_nonneg"}  x == {"ex_active_period"}
    IN  Migration("instructor_contract_integrity", c \cup x, {}, {},
            <<Gate(c \cup x), AddUnvalidated(c), Validate(c), Add(x)>>)

(* The two checks keep their names and get an upper bound.                 *)
INSTRUCTOR_CONTRACT_BOUNDS_SQL ==
    LET c == {"hours+rate_bounded"}
    IN  Migration("instructor_contract_bounds", c, {}, {"hours+rate_nonneg"},
            <<Gate(c), Drop(c \cup {"hours+rate_nonneg"}), AddUnvalidated(c), Validate(c)>>)

migrate_instructor_contract_integrity ==
    LET m == INSTRUCTOR_CONTRACT_INTEGRITY_SQL
        b == INSTRUCTOR_CONTRACT_BOUNDS_SQL
    IN  Script({m.id, b.id}, <<SessionLock(<<77, 3>>),
            Alone(<<SkipIfRecorded(m.id)>> \o m.sql \o <<Record(m.id)>>
                  \o <<SkipIfRecorded(b.id)>> \o b.sql \o <<Record(b.id)>>), SessionUnlock>>)

ENROLLMENT_PAYOUT_INTEGRITY_SQL ==
    LET c == {"enrollment_constraints", "payout_constraints"}
    IN  Migration("enrollment_payout_integrity", c, {"reference_indexes"}, {},
            <<Gate(c), AddUnvalidated(c), Validate(c)>>)

(* The indexes cannot be built in a transaction; the readback before the   *)
(* ledger row uses the connection that holds the lock.                     *)
migrate_enrollment_payout_integrity ==
    LET m == ENROLLMENT_PAYOUT_INTEGRITY_SQL
    IN  Script({m.id}, <<Alone(<<m.sql[1]>>), SessionLock(<<77, 31>>), Alone(m.sql),
            IndexApart(m.parts), Alone(<<Require(m.rules \cup m.parts)>>),
            Alone(<<RecordOnce(m.id)>>), SessionUnlock>>)

STAFF_ATTENDANCE_MIGRATION_SQL ==
    LET u == {"uq_staff_attendance_active"}
    IN  Migration("staff_attendance", u, {"staff_attendance_records"}, {},
            <<Create({"staff_attendance_records"}), Add(u)>>)

migrate_staff_attendance == WhenIncompleteUnread(<<81, 1>>, STAFF_ATTENDANCE_MIGRATION_SQL)

SCHEMA_SHAPE_INTEGRITY_SQL ==
    LET c == {"c_auth_events_event_type_domain", "domain_checks"}  fk == {"schema_shape_fks"}
    IN  Migration("schema_shape_integrity", c \cup fk, {}, {},
            <<AddUnvalidated(c), AddUnvalidated(fk), Validate(c), Validate(fk)>>)

(* Rows that break a check (not a foreign key) are counted first.          *)
migrate_schema_shape_integrity ==
    LET m == SCHEMA_SHAPE_INTEGRITY_SQL
        checks == Gate({"c_auth_events_event_type_domain", "domain_checks"})
    IN  Script({m.id}, <<Alone(<<checks>>)>> \o WhenIncomplete(<<78, 4>>, m).units)

-----------------------------------------------------------------------------
EXPECTED_MIGRATIONS ==
    { TBO29_AUTH_MIGRATION_SQL, PROFILE_CHANGE_REQUESTS_MIGRATION_SQL,
      PROFILE_VERIFICATION_CHALLENGES_MIGRATION_SQL, CLASS_SESSION_SERIES_MIGRATION_SQL,
      CREDENTIAL_RECOVERY_MIGRATION_SQL, SENS_PROVIDER_MIGRATION_SQL, PARENTS_MIGRATION_SQL,
      ACADEMY_EVENTS_MIGRATION_SQL, COUNTRIES_MIGRATION_SQL, SIGNUP_PROFILE_FIELDS_MIGRATION_SQL,
      PROFILE_SELF_DECISION_MIGRATION_SQL, WEBID_APPROVAL_MIGRATION_SQL,
      CREDENTIAL_OTP_MIGRATION_SQL, COUNSEL_PERSISTENCE_MIGRATION_SQL,
      AUTH_RATE_LIMITS_MIGRATION_SQL, REMAINING_PERSISTENCE_MIGRATION_SQL,
      COUNSEL_FORM_INPUTS_MIGRATION_SQL, COUNSEL_ROUND_SNAPSHOTS_MIGRATION_SQL,
      STUDENT_PROFILE_MIGRATION_SQL, STAFF_PAY_CALENDAR_MIGRATION_SQL,
      STUDENT_REQUIRED_CONTRACT_SQL, COURSE_PAY_SSOT_SQL, COUNSEL_FAMILY_ACADEMIC_EXPAND_SQL,
      COUNSEL_STUDENT_SSOT_CONTRACT_SQL, SCHEDULE_REQUEST_MEMO_MIGRATION_SQL,
      ENROLLMENT_COURSE_UNIQUE_MIGRATION_SQL, PAYMENTS_MONEY_CONSTRAINTS_LEDGER_SQL,
      SIGNUP_PHONE_CHALLENGES_MIGRATION_SQL, VIEW_PRESET_OWNER_MIGRATION_SQL,
      ATTENDANCE_REPORTS_CONSTRAINTS_MIGRATION_SQL, COUNSEL_NEXT_CONTACT_DATETIME_MIGRATION_SQL,
      SESSION_REPORT_PROGRESS_PAGE_MIGRATION_SQL, AUTH_REFRESH_TOKEN_INTEGRITY_SQL,
      INSTRUCTOR_CONTRACT_INTEGRITY_SQL, INSTRUCTOR_CONTRACT_BOUNDS_SQL,
      TRANSACTION_SOURCE_INTEGRITY_SQL, REPORT_TEMPLATE_OWNER_MIGRATION_SQL,
      ENROLLMENT_ROADMAP_INTEGRITY_MIGRATION_SQL, SCHEDULE_REQUEST_INTEGRITY_SQL,
      ENROLLMENT_PAYOUT_INTEGRITY_SQL, SCHEDULE_REQUEST_INTEGRITY_V2_ADD_SQL,
      SCHEDULE_REQUEST_BATCH_MIGRATION_SQL, SCHEDULE_REQUEST_BATCH_STRICT_SQL,
      SCHEMA_SHAPE_INTEGRITY_SQL, AUTH_EVENT_DOMAIN_SQL, STAFF_ATTENDANCE_MIGRATION_SQL,
      USER_CAPABILITY_OVERRIDES_MIGRATION_SQL, SESSION_ATTENDANCE_CAPABILITY_MIGRATION_SQL,
      UNASSIGNED_SESSION_INSTRUCTOR_MIGRATION_SQL, SCHEDULE_REQUEST_ATTENDANCE_CORRECTION_SQL,
      SESSION_REPORT_REVISIONS_SQL, REPORT_TEMPLATE_SCOPE_MIGRATION_SQL,
      SOFTDELETE_UNIQUE_MIDNIGHT_SQL, STAFF_ENGLISH_NAME_MIGRATION_SQL,
      PROFILE_VERIFICATION_PURPOSE_MIGRATION_SQL }

(* The npm scripts, one for each file scripts/migrate-*.ts, and PREPARE=1. *)
Scripts ==
    << migrate_tbo29_auth, migrate_profile_change_requests,
      migrate_profile_verification_challenges, migrate_webid_approval, migrate_credential_otp,
      migrate_sens_provider, migrate_profile_self_decision, migrate_profile_verification_purpose,
      migrate_credential_recovery, migrate_signup_profile_fields, migrate_signup_phone_challenges,
      migrate_auth_rate_limits, migrate_auth_event_domain, migrate_auth_refresh_token_integrity,
      migrate_user_capability_overrides, migrate_session_attendance_capability,
      migrate_staff_english_name, prepare_staff_english_name,
      migrate_parents, migrate_student_profile, migrate_staff_pay_calendar,
      migrate_student_required_contract, migrate_course_pay_ssot, migrate_counsel_persistence,
      migrate_counsel_form_inputs, migrate_counsel_round_snapshots,
      migrate_counsel_next_contact_datetime, migrate_counsel_family_academic_expand,
      migrate_counsel_student_ssot_contract, migrate_enrollment_course_unique,
      migrate_enrollment_roadmap_integrity, migrate_academy_events, migrate_countries,
      migrate_class_session_series, migrate_remaining_persistence, migrate_view_preset_owner,
      migrate_attendance_reports_constraints, migrate_session_report_progress_page,
      migrate_session_report_revisions, migrate_report_template_owner,
      migrate_report_template_scope, migrate_unassigned_session_instructor,
      migrate_schedule_request_memo, migrate_schedule_request_integrity,
      migrate_schedule_request_integrity_v2, migrate_schedule_request_batch,
      migrate_schedule_request_batch_strict, migrate_schedule_request_attendance_correction,
      migrate_softdelete_unique_midnight, migrate_payments_money_constraints,
      migrate_transaction_source_integrity, migrate_instructor_contract_integrity,
      migrate_enrollment_payout_integrity, migrate_staff_attendance,
      migrate_schema_shape_integrity >>
=============================================================================
