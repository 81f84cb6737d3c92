--------------------------- MODULE SchemaVersions ---------------------------
(* What each of the 32 Alembic revisions creates and what its downgrade takes *)
(* away, as sets of tables ("orders") and of the columns that were added to a *)
(* table after it was made ("customers.sales_stage"); and the tables and      *)
(* columns the ORM of this commit reads.  Indexes, constraints, triggers and  *)
(* column types are left out.                                                 *)
EXTENDS Naturals, Sequences

(* adds, drops: created by upgrade() and dropped by downgrade() without asking *)
(* whether they are there.  fills: created where missing.  takes: dropped by   *)
(* upgrade() where present.  eases, gives: downgrade() drops if present, and   *)
(* creates.                                                                    *)
Nothing == [adds |-> {}, fills |-> {}, takes |-> {},
            drops |-> {}, eases |-> {}, gives |-> {}]

Reversible(objects) == [Nothing EXCEPT !.adds = objects, !.drops = objects]

ReminderColumns ==
  {"customers.next_followup_date", "customers.last_followup_at",
   "opportunities.last_activity_at", "opportunities.last_followup_at",
   "opportunities.quotation_sent_at", "opportunities.quote_followup_due_date"}

(* Users, customers and their contacts, tags and follow-ups. *)
V01 == Reversible({"users", "customers", "tags", "contacts",
  "customer_tags", "followups"})

(* Login bookkeeping. *)
V02 == Reversible({"users.last_login_at", "refresh_tokens"})

(* The V3 customer columns. *)
V03 == Reversible({"lead_sources", "customers.public_id",
  "customers.display_name", "customers.customer_type",
  "customers.country_code", "customers.source_id",
  "customers.interested_product", "customers.rating",
  "customers.lifecycle_status", "customers.sales_stage",
  "customers.primary_opportunity_id", "customers.deleted_at",
  "customers.version", "contacts.public_id", "contacts.is_primary",
  "contacts.updated_at", "contacts.deleted_at", "contacts.version"})

(* The customer status trail. *)
V04 == Reversible({"customer_status_history"})

(* The repair of the V3 columns: what is missing is added, and marked by a
   column comment; the downgrade removes only what carries the mark. *)
V05 == [Nothing EXCEPT
  !.fills = {"customers.customer_type", "customers.interested_product",
             "customers.sales_stage"}]

(* Leads and opportunities, whose source_lead_id a later revision removes. *)
V06 == Reversible({"leads", "opportunities", "opportunities.source_lead_id"})

(* Commercial opportunity columns and the stage trail. *)
V07 == Reversible({"opportunities.amount", "opportunities.currency",
  "opportunities.expected_close_date", "opportunities.inquiry_content",
  "opportunity_stage_history"})

(* The product catalogue. *)
V08 == Reversible({"product_categories", "products", "product_images",
  "opportunity_products"})

(* Quotations. *)
V09 == Reversible({"quotations", "quotation_versions", "quotation_items"})

(* Only an enum value. *)
V10 == Nothing

(* Categories, tag metadata, scores. *)
V11 == Reversible({"customer_categories", "tags.description", "tags.color",
  "tags.is_active", "customers.category_id", "customers.customer_score",
  "customers.score_updated_at", "customer_score_history"})

(* Only the width of alembic_version. *)
V12 == Nothing

(* Follow-up dates and attachments. *)
V13 == Reversible({"followups.opportunity_id", "followups.followup_date",
  "followups.updated_at", "followup_attachments"})

(* The V7 sales stage. *)
V14 == Reversible({"opportunities.sales_stage", "opportunities.probability",
  "opportunities.next_action", "opportunity_sales_stage_history"})

(* Inquiries. *)
V15 == Reversible({"customers.source_platform",
  "customers.original_inquiry", "inquiries"})

(* The V9 deal stage. *)
V16 == Reversible({"opportunities.deal_stage",
  "opportunity_deal_stage_history"})

(* The reminder columns, in both directions tolerant of what is there. *)
V17 == [Nothing EXCEPT !.fills = ReminderColumns, !.eases = ReminderColumns]

(* The reminder columns again, for a database whose stamp was stale; the
   downgrade leaves them. *)
V18 == [Nothing EXCEPT !.fills = ReminderColumns]

(* The archive columns, which the downgrade keeps. *)
V19 == [Nothing EXCEPT !.adds =
  {"customers.customer_acquired_at", "customers.position",
  "customers.notes", "customers.customer_level_value",
  "customers.customer_size", "customers.customer_total_score",
  "customers.followup_stage", "customers.automatic_stage_judgement",
  "customers.latest_followup_date", "customers.response_status",
  "customers.followup_requirement", "customers.archive_import_key"}]

(* Only data. *)
V20 == Nothing

(* Leads go; the downgrade makes the empty table again. *)
V21 == [Nothing EXCEPT !.takes = {"leads", "opportunities.source_lead_id"},
                        !.gives = {"leads", "opportunities.source_lead_id"}]

(* Only data and foreign keys. *)
V22 == Nothing

(* Orders. *)
V23 == Reversible({"orders"})

(* Only nullability. *)
V24 == Nothing

(* The cold flag. *)
V25 == Reversible({"customers.is_cold_customer"})

(* Settings. *)
V26 == Reversible({"system_settings"})

(* The daily workbench. *)
V27 == Reversible({"tasks", "daily_work_notes"})

(* Its metrics. *)
V28 == Reversible({"workbench_daily_metrics"})

(* Sales targets. *)
V29 == Reversible({"annual_sales_targets", "other_sales_amounts"})

(* Mail. *)
V30 == Reversible({"email_messages", "email_attachments"})

(* Open tracking and the sync state. *)
V31 == Reversible({"email_messages.forwarded_from_id",
  "email_messages.from_name", "email_messages.to_display",
  "email_messages.cc_display", "email_messages.is_read",
  "email_messages.tracking_enabled", "email_messages.tracking_token",
  "email_messages.first_opened_at", "email_messages.last_opened_at",
  "email_messages.open_count", "email_open_events", "mailbox_sync_states"})

(* Folders, drafts and stars. *)
V32 == Reversible({"mail_folders", "email_messages.mail_folder_id",
  "email_messages.html_body", "email_messages.bcc_emails",
  "email_messages.thread_key", "email_messages.is_starred",
  "email_messages.is_draft", "email_messages.is_deleted"})

Chain == <<V01, V02, V03, V04, V05, V06, V07, V08,
           V09, V10, V11, V12, V13, V14, V15, V16,
           V17, V18, V19, V20, V21, V22, V23, V24,
           V25, V26, V27, V28, V29, V30, V31, V32>>

Latest == Len(Chain)

(* Revisions whose identifier is longer than the 32 characters Alembic's own   *)
(* version table holds.                                                        *)
LongNames == {11, 15, 16, 17, 18, 20, 22, 24, 29}

(* What is in the schema after the upgrades 1..k and nothing else.             *)
SchemaOf[k \in 0..Latest] ==
  IF k = 0 THEN {}
  ELSE (SchemaOf[k - 1] \ Chain[k].takes) \cup Chain[k].adds \cup Chain[k].fills

(* What the ORM maps.                                                          *)
OrmTables ==
  {"users", "customers", "contacts", "tags", "customer_tags", "customer_categories",
   "customer_score_history", "customer_status_history", "refresh_tokens",
   "followups", "followup_attachments", "opportunities",
   "opportunity_stage_history", "opportunity_sales_stage_history",
   "opportunity_deal_stage_history", "opportunity_products", "products",
   "product_categories", "product_images", "quotations", "quotation_versions",
   "quotation_items", "orders", "system_settings", "tasks",
   "annual_sales_targets", "other_sales_amounts", "email_messages",
   "email_attachments", "email_open_events", "mail_folders",
   "mailbox_sync_states"}

OrmCustomer ==
  {"customers.customer_acquired_at", "customers.position",
   "customers.notes", "customers.customer_type",
   "customers.source_platform", "customers.original_inquiry",
   "customers.interested_product", "customers.customer_level_value",
   "customers.customer_size", "customers.customer_total_score",
   "customers.followup_stage", "customers.automatic_stage_judgement",
   "customers.latest_followup_date", "customers.is_cold_customer",
   "customers.response_status", "customers.followup_requirement",
   "customers.archive_import_key", "customers.sales_stage",
   "customers.category_id", "customers.customer_score",
   "customers.score_updated_at", "customers.next_followup_date",
   "customers.last_followup_at"}

OrmOpportunity ==
  {"opportunities.amount", "opportunities.currency",
   "opportunities.expected_close_date", "opportunities.inquiry_content",
   "opportunities.sales_stage", "opportunities.deal_stage",
   "opportunities.probability", "opportunities.next_action",
   "opportunities.last_activity_at", "opportunities.last_followup_at",
   "opportunities.quotation_sent_at",
   "opportunities.quote_followup_due_date"}

OrmMessage ==
  {"email_messages.forwarded_from_id", "email_messages.mail_folder_id",
   "email_messages.from_name", "email_messages.to_display",
   "email_messages.cc_display", "email_messages.html_body",
   "email_messages.bcc_emails", "email_messages.thread_key",
   "email_messages.is_read", "email_messages.is_starred",
   "email_messages.is_draft", "email_messages.is_deleted",
   "email_messages.tracking_enabled", "email_messages.tracking_token",
   "email_messages.first_opened_at", "email_messages.last_opened_at",
   "email_messages.open_count"}

OrmOthers ==
  {"tags.description", "tags.color", "tags.is_active", "users.last_login_at",
   "followups.opportunity_id", "followups.followup_date", "followups.updated_at"}

OrmNeeds == OrmTables \cup OrmCustomer \cup OrmOpportunity \cup OrmMessage \cup OrmOthers
=============================================================================
