----------------------------- MODULE SchemaTables -----------------------------
(***************************************************************************)
(* The three places that say which statuses a row may have and which keys  *)
(* are unique: the migrations, the models of SQLAlchemy, and the           *)
(* enumerations of the domain that the application reads and writes.       *)
(* Columns, indexes and foreign keys are left out.                         *)
(***************************************************************************)
EXTENDS Naturals, Sequences

-----------------------------------------------------------------------------
(* The migrations.  Each is described by the tables it creates with the    *)
(* statuses their check admits ({}: the table has no status check), by the *)
(* checks it replaces, and by the unique keys it adds and drops.           *)

\* A description by table that says no more than f and g, and what f says first.
Both(f, g) ==
  [t \in DOMAIN f \cup DOMAIN g |-> IF t \in DOMAIN f THEN f[t] ELSE g[t]]

NoTables == [t \in {} |-> {}]

Adds(tables, keys) ==
  [tables |-> tables, checks |-> NoTables, keys |-> keys, dropped |-> {}]

JobStatuses  == {"queued", "running", "completed", "failed", "reused"}
TaskStatuses == {"queued", "running", "succeeded", "failed", "retry_pending"}

CoreTables == Adds(
  [users |-> {},
   tenders |-> {"draft", "documents_pending", "documents_processing",
                "catalog_review", "cancelled", "closed"},
   tender_documents |-> {"uploaded", "validating", "valid", "stored",
                         "extracting_text", "text_extracted", "needs_ocr",
                         "processed", "rejected", "failed"}],
  {"uq_tender_documents_tender_file_hash"})

AuditEvents == Adds([audit_events |-> {}], {})

DocumentManagement ==
  [Adds(NoTables, {}) EXCEPT !.checks =
     [tender_documents |-> {"uploaded", "deleted", "rejected"}]]

TextExtraction ==
  [Adds([extraction_runs |-> {"running", "completed", "failed", "reused"},
         document_pages |-> {}, document_qualities |-> {}],
        {"uq_extraction_runs_document_processing_key", "uq_document_pages_run_page",
         "uq_document_qualities_extraction_run"})
   EXCEPT !.checks =
     [tender_documents |-> {"uploaded", "queued", "processing", "text_extracted",
                            "ready_for_ai", "needs_ocr", "failed", "deleted",
                            "rejected"}]]

AIExtractionRuns ==
  [ai_extraction_runs |-> JobStatuses]

CatalogTables ==
  [catalog_products |-> {"candidate", "normalized", "pending_review", "approved",
                        "rejected"},
   catalog_product_revisions |-> {}, extracted_evidence |-> {},
   evidence_references |-> {}, catalog_snapshots |-> {}]

ReviewTables == Adds(Both(AIExtractionRuns, CatalogTables),
  {"uq_ai_runs_document_idempotency", "uq_catalog_snapshots_tender_version"})

SupplierMasters ==
  [supplier_discovery_runs |-> JobStatuses, suppliers |-> {}, supplier_contacts |-> {},
   supplier_sources |-> {}]

TenderSuppliers ==
  [tender_suppliers |-> {"candidate", "contacts_found", "pending_review", "approved",
                        "rejected", "merged"},
   supplier_merge_suggestions |-> {"pending", "accepted", "rejected"},
   product_supplier_matches |-> {}]

DiscoveryTables == Adds(Both(SupplierMasters, TenderSuppliers),
  {"uq_supplier_runs_tender_idempotency", "uq_supplier_contacts_identity",
   "uq_supplier_sources_url", "uq_tender_suppliers_master",
   "uq_product_supplier_match", "uq_supplier_merge_suggestion_pair_run"})

DeliveryTables == Adds(
  [rfq_requests |-> {"draft", "pending_review", "approved", "queued", "sending",
                     "sent", "delivered", "failed", "cancelled"},
   email_messages |-> {"queued", "sending", "sent", "failed"},
   outbound_message_logs |-> {"recorded", "success", "failure"},
   email_attachments |-> {}],
  {"uq_rfq_tender_generation", "uq_rfq_send_idempotency",
   "uq_rfq_attachment_document", "uq_email_message_attempt"})

ExpandStateConstraints ==
  [tenders |-> {"draft", "documents_pending", "documents_processing", "catalog_review",
               "supplier_review", "rfq_ready", "waiting_quotes", "quote_analysis",
               "comparison_ready", "awarded", "cancelled", "closed"},
   catalog_products |-> {"candidate", "normalized", "pending_review", "approved",
                        "rejected", "quoted", "compared"},
   tender_suppliers |-> {"candidate", "contacts_found", "pending_review", "approved",
                        "rejected", "merged", "contacted", "responded", "inactive"},
   rfq_requests |-> {"draft", "pending_review", "approved", "queued", "sending",
                    "sent", "delivered", "responded", "failed", "cancelled"}]

QuoteTables ==
  [quotes |-> {"received", "validating", "extracting", "extracted", "normalized",
              "pending_review", "approved", "rejected", "included_in_comparison"},
   quote_extraction_runs |-> JobStatuses, quote_items |-> {}, comparison_runs |-> {}]

QuoteComparison ==
  [Adds(QuoteTables, {"uq_quotes_tender_supplier_file_hash", "uq_quote_runs_quote_idempotency",
                      "uq_comparison_tender_key"})
   EXCEPT !.checks = ExpandStateConstraints]

SupplierHardening ==
  [Adds(NoTables, {}) EXCEPT
     !.checks  = [product_supplier_matches |-> {"candidate", "confirmed", "rejected"}],
     !.dropped = {"uq_supplier_sources_url"}]

RfqHardening ==
  [Adds([rfq_task_records |-> TaskStatuses, rfq_versions |-> {}],
        {"uq_email_messages_idempotency_key", "uq_rfq_versions_rfq_version",
         "uq_rfq_task_records_correlation"})
   EXCEPT !.checks =
     [rfq_requests |-> {"draft", "pending_review", "approved", "queued", "sending",
                        "sent", "delivered", "responded", "failed",
                        "retry_pending", "cancelled"},
      email_messages |-> {"queued", "sending", "sent", "failed", "bounced"}]]

QuoteIntake ==
  [Adds([quote_task_records |-> TaskStatuses, quote_documents |-> {},
         quote_evidence_references |-> {}, quote_item_revisions |-> {}],
        {"uq_quote_documents_quote_hash", "uq_quote_task_records_correlation"})
   EXCEPT !.checks =
     [quotes |-> {"received", "validating", "extracting", "extracted", "normalized",
                  "pending_review", "approved", "rejected", "failed",
                  "included_in_comparison"}]]

\* Mutant of AnalysisContract: the check of the runs is left as it was.
AnalysisContractQuotesOnly ==
  [Adds([quote_extraction_artifacts |-> {}], {"uq_quote_extraction_artifacts_run"})
   EXCEPT !.checks =
     [quotes |-> {"received", "validating", "ready_for_analysis", "analyzing",
                  "analyzed", "extracting", "extracted", "normalized",
                  "pending_review", "approved", "rejected", "failed",
                  "included_in_comparison"}]]

AnalysisContract ==
  [Adds([quote_extraction_artifacts |-> {}], {"uq_quote_extraction_artifacts_run"})
   EXCEPT !.checks =
     [quotes |-> {"received", "validating", "ready_for_analysis", "analyzing",
                  "analyzed", "extracting", "extracted", "normalized",
                  "pending_review", "approved", "rejected", "failed",
                  "included_in_comparison"},
      quote_extraction_runs |-> JobStatuses \cup {"cancelled"}]]

Comparisons ==
  [comparisons |-> {"draft", "building", "ready", "invalid", "archived"}]

ComparisonLines ==
  [comparison_items |-> {"comparable", "requires_normalization", "insufficient_data"},
   comparison_offers |-> {"quoted", "missing", "invalid"}]

ComparisonTables == Adds(Both(Comparisons, ComparisonLines),
  {"uq_comparisons_tender_key", "uq_comparison_items_product",
   "uq_comparison_offers_supplier"})

\* extraction_type: no status, and no key.
ExtractionType == Adds(NoTables, {})

Recommendations == Adds([recommendations |-> {"ready", "withheld"}],
                        {"uq_recommendations_comparison_key"})

Migrations ==
  <<CoreTables, AuditEvents, DocumentManagement, TextExtraction, ReviewTables,
    DiscoveryTables, DeliveryTables, QuoteComparison, SupplierHardening, RfqHardening,
    QuoteIntake, AnalysisContract, ComparisonTables, ExtractionType, Recommendations>>


-----------------------------------------------------------------------------
(* The models. *)

ModelTables ==
  [users |-> {}, audit_events |-> {}]

TenderModels ==
  [tenders |-> {"draft", "documents_pending", "documents_processing", "catalog_review",
               "supplier_review", "rfq_ready", "waiting_quotes", "quote_analysis",
               "comparison_ready", "awarded", "cancelled", "closed"},
   tender_documents |-> {"uploaded", "queued", "processing", "text_extracted",
                        "ready_for_ai", "needs_ocr", "failed", "deleted", "rejected"}]

ProcessingModels ==
  [extraction_runs |-> {"running", "completed", "failed", "reused"},
   document_pages |-> {}, document_qualities |-> {}]

\* The check of the products is the one of the first migration.
CatalogModels ==
  [ai_extraction_runs |-> JobStatuses,
   catalog_products |-> {"candidate", "normalized", "pending_review", "approved",
                        "rejected"},
   catalog_product_revisions |-> {}, extracted_evidence |-> {},
   evidence_references |-> {}, catalog_snapshots |-> {}]

SupplierModels ==
  [supplier_discovery_runs |-> JobStatuses, suppliers |-> {}, supplier_contacts |-> {},
   supplier_sources |-> {}]

TenderSupplierModels ==
  [tender_suppliers |-> {"candidate", "contacts_found", "pending_review", "approved",
                        "rejected", "merged", "contacted", "responded", "inactive"},
   product_supplier_matches |-> {"candidate", "confirmed", "rejected"},
   supplier_merge_suggestions |-> {"pending", "accepted", "rejected"}]

RfqModels ==
  [rfq_requests |-> {"draft", "pending_review", "approved", "queued", "sending",
                    "sent", "delivered", "responded", "failed", "retry_pending",
                    "cancelled"},
   rfq_versions |-> {}, email_attachments |-> {}]

MessageModels ==
  [email_messages |-> {"queued", "sending", "sent", "failed", "bounced"},
   rfq_task_records |-> TaskStatuses,
   outbound_message_logs |-> {"recorded", "success", "failure"}]

QuoteModels ==
  [quotes |-> {"received", "validating", "ready_for_analysis", "analyzing", "analyzed",
              "extracting", "extracted", "normalized", "pending_review", "approved",
              "rejected", "failed", "included_in_comparison"},
   quote_documents |-> {}]

QuoteRunModels ==
  [quote_extraction_runs |-> JobStatuses \cup {"cancelled"},
   quote_evidence_references |-> {}, quote_extraction_artifacts |-> {}]

QuoteItemModels ==
  [quote_items |-> {}, quote_item_revisions |-> {}]

QuoteTaskModels ==
  [quote_task_records |-> TaskStatuses, comparison_runs |-> {}]

ComparisonModels ==
  [comparisons |-> {"draft", "building", "ready", "invalid", "archived"},
   comparison_items |-> {"comparable", "requires_normalization", "insufficient_data"},
   comparison_offers |-> {"quoted", "missing", "invalid"}]

RecommendationModels ==
  [recommendations |-> {"ready", "withheld"}]

\* The tables the models declare.
DeclaredForTenders ==
  Both(Both(ModelTables, TenderModels), Both(ProcessingModels, CatalogModels))

DeclaredForRfqs ==
  Both(Both(SupplierModels, TenderSupplierModels), Both(RfqModels, MessageModels))

DeclaredForQuotes ==
  Both(Both(QuoteModels, QuoteRunModels), Both(QuoteItemModels, QuoteTaskModels))

DeclaredForComparisons == Both(ComparisonModels, RecommendationModels)

Declared ==
  Both(Both(DeclaredForTenders, DeclaredForRfqs),
       Both(DeclaredForQuotes, DeclaredForComparisons))

-----------------------------------------------------------------------------
(* The enumerations. *)

TenderStatus ==
  {"draft", "documents_pending", "documents_processing", "catalog_review",
   "supplier_review", "rfq_ready", "waiting_quotes", "quote_analysis",
   "comparison_ready", "awarded", "cancelled", "closed"}

DocumentStatus ==
  {"uploaded", "queued", "processing", "text_extracted", "ready_for_ai", "needs_ocr",
   "failed", "deleted", "rejected"}

ProductStatus ==
  {"candidate", "normalized", "pending_review", "approved", "rejected", "quoted",
   "compared"}

SupplierStatus ==
  {"candidate", "contacts_found", "pending_review", "approved", "rejected", "merged",
   "contacted", "responded", "inactive"}

RfqStatus ==
  {"draft", "pending_review", "approved", "queued", "sending", "sent", "delivered",
   "responded", "failed", "retry_pending", "cancelled"}

EmailMessageStatus == {"queued", "sending", "sent", "failed", "bounced"}

QuoteStatus ==
  {"received", "validating", "ready_for_analysis", "analyzing", "analyzed",
   "extracting", "extracted", "normalized", "pending_review", "approved",
   "rejected", "failed", "included_in_comparison"}

QuoteExtractionRunStatus ==
  {"queued", "running", "completed", "failed", "cancelled", "reused"}

ComparisonStatus == {"draft", "building", "ready", "invalid", "archived"}

\* What the application may write in the status of a row.
Written ==
  [tenders |-> TenderStatus, tender_documents |-> DocumentStatus,
   catalog_products |-> ProductStatus, tender_suppliers |-> SupplierStatus,
   rfq_requests |-> RfqStatus, email_messages |-> EmailMessageStatus,
   quotes |-> QuoteStatus, quote_extraction_runs |-> QuoteExtractionRunStatus,
   comparisons |-> ComparisonStatus]
=============================================================================
