---------------------------- MODULE MCSchemaHistory ----------------------------
(* Tables whose statuses or keys migrations change; of the e-mails there may *)
(* be one more, so that an attempt that was sent may come last of three.     *)
EXTENDS SchemaHistory

MCRowTables ==
  {"tenders", "tender_documents", "catalog_products", "tender_suppliers",
   "supplier_sources", "product_supplier_matches", "rfq_requests", "email_messages", "quotes",
   "quote_extraction_runs"}

MCCapacity ==
  [t \in MCRowTables |-> CASE t = "email_messages" -> 3
                         [] t = "product_supplier_matches" -> 1
                         [] OTHER -> 2]
=============================================================================
