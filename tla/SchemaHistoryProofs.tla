-------------------------- MODULE SchemaHistoryProofs --------------------------
(***************************************************************************)
(* What SchemaHistory.tla promises of the rows, through every sequence of  *)
(* upgrades, downgrades and writes, and for any tables that are followed,  *)
(* keys, capacities and numbers of rows.                                   *)
(*                                                                         *)
(* The migrations are few and fixed, so what each of them says is read off *)
(* first, one lemma for each; then what the schema of a revision is, what  *)
(* a migration and its undoing do to one row, and last that the rows are   *)
(* sound for the revision the database is at (Sound), which every command  *)
(* and every write preserves.                                              *)
(***************************************************************************)
EXTENDS SchemaHistory, FiniteSetTheorems, WellFoundedInduction, TLAPS

-----------------------------------------------------------------------------
(* What the migrations say: the tables each creates, those whose check it     *)
(* replaces, and what becomes of the two keys that rows are held to.          *)

EmailKey == "uq_email_messages_idempotency_key"

SourceKey == "uq_supplier_sources_url"

\* By table, the migration that creates it.
Creator ==
  [users |-> 1, tenders |-> 1, tender_documents |-> 1, audit_events |-> 2,
   extraction_runs |-> 4, document_pages |-> 4, document_qualities |-> 4,
   ai_extraction_runs |-> 5, catalog_products |-> 5, catalog_product_revisions |-> 5,
   extracted_evidence |-> 5, evidence_references |-> 5, catalog_snapshots |-> 5,
   supplier_discovery_runs |-> 6, suppliers |-> 6, supplier_contacts |-> 6,
   supplier_sources |-> 6, tender_suppliers |-> 6, supplier_merge_suggestions |-> 6,
   product_supplier_matches |-> 6, rfq_requests |-> 7, email_messages |-> 7,
   outbound_message_logs |-> 7, email_attachments |-> 7, quotes |-> 8,
   quote_extraction_runs |-> 8, quote_items |-> 8, comparison_runs |-> 8,
   rfq_task_records |-> 10, rfq_versions |-> 10, quote_task_records |-> 11,
   quote_documents |-> 11, quote_evidence_references |-> 11,
   quote_item_revisions |-> 11, quote_extraction_artifacts |-> 12, comparisons |-> 13,
   comparison_items |-> 13, comparison_offers |-> 13, recommendations |-> 15]

\* Migration i replaces the check of table t.
Replaces(i, t) ==
  \/ i \in {3, 4} /\ t = "tender_documents"
  \/ i = 8 /\ t \in {"tenders", "catalog_products", "tender_suppliers", "rfq_requests"}
  \/ i = 9 /\ t = "product_supplier_matches"
  \/ i = 10 /\ t \in {"rfq_requests", "email_messages"}
  \/ i = 11 /\ t = "quotes"
  \/ i = 12 /\ t \in {"quotes", "quote_extraction_runs"}

LEMMA CoreTablesSays ==
  /\ DOMAIN CoreTables.tables = {"users", "tenders", "tender_documents"}
  /\ DOMAIN CoreTables.checks = {}
  /\ EmailKey \notin CoreTables.keys /\ SourceKey \notin CoreTables.keys
  /\ EmailKey \notin CoreTables.dropped /\ SourceKey \notin CoreTables.dropped
  BY DEF CoreTables, Adds, NoTables, EmailKey, SourceKey

LEMMA AuditEventsSays ==
  /\ DOMAIN AuditEvents.tables = {"audit_events"}
  /\ DOMAIN AuditEvents.checks = {}
  /\ EmailKey \notin AuditEvents.keys /\ SourceKey \notin AuditEvents.keys
  /\ EmailKey \notin AuditEvents.dropped /\ SourceKey \notin AuditEvents.dropped
  BY DEF AuditEvents, Adds, NoTables, EmailKey, SourceKey

LEMMA DocumentManagementSays ==
  /\ DOMAIN DocumentManagement.tables = {}
  /\ DOMAIN DocumentManagement.checks = {"tender_documents"}
  /\ EmailKey \notin DocumentManagement.keys /\ SourceKey \notin DocumentManagement.keys
  /\ EmailKey \notin DocumentManagement.dropped
         /\ SourceKey \notin DocumentManagement.dropped
  BY DEF DocumentManagement, Adds, NoTables, EmailKey, SourceKey

LEMMA TextExtractionSays ==
  /\ DOMAIN TextExtraction.tables = {"extraction_runs", "document_pages",
                                     "document_qualities"}
  /\ DOMAIN TextExtraction.checks = {"tender_documents"}
  /\ EmailKey \notin TextExtraction.keys /\ SourceKey \notin TextExtraction.keys
  /\ EmailKey \notin TextExtraction.dropped /\ SourceKey \notin TextExtraction.dropped
  BY DEF TextExtraction, Adds, NoTables, EmailKey, SourceKey

LEMMA ReviewTablesSays ==
  /\ DOMAIN ReviewTables.tables = {"ai_extraction_runs", "catalog_products",
                                   "catalog_product_revisions", "extracted_evidence",
                                   "evidence_references", "catalog_snapshots"}
  /\ DOMAIN ReviewTables.checks = {}
  /\ EmailKey \notin ReviewTables.keys /\ SourceKey \notin ReviewTables.keys
  /\ EmailKey \notin ReviewTables.dropped /\ SourceKey \notin ReviewTables.dropped
  BY DEF ReviewTables, Adds, NoTables, Both, AIExtractionRuns, CatalogTables,
         EmailKey, SourceKey

LEMMA DiscoveryTablesSays ==
  /\ DOMAIN DiscoveryTables.tables = {"supplier_discovery_runs", "suppliers",
                                      "supplier_contacts", "supplier_sources",
                                      "tender_suppliers",
                                      "supplier_merge_suggestions",
                                      "product_supplier_matches"}
  /\ DOMAIN DiscoveryTables.checks = {}
  /\ EmailKey \notin DiscoveryTables.keys /\ SourceKey \in DiscoveryTables.keys
  /\ EmailKey \notin DiscoveryTables.dropped /\ SourceKey \notin DiscoveryTables.dropped
  BY DEF DiscoveryTables, Adds, NoTables, Both, SupplierMasters, TenderSuppliers,
         EmailKey, SourceKey

LEMMA DeliveryTablesSays ==
  /\ DOMAIN DeliveryTables.tables = {"rfq_requests", "email_messages",
                                     "outbound_message_logs", "email_attachments"}
  /\ DOMAIN DeliveryTables.checks = {}
  /\ EmailKey \notin DeliveryTables.keys /\ SourceKey \notin DeliveryTables.keys
  /\ EmailKey \notin DeliveryTables.dropped /\ SourceKey \notin DeliveryTables.dropped
  BY DEF DeliveryTables, Adds, NoTables, EmailKey, SourceKey

LEMMA QuoteComparisonSays ==
  /\ DOMAIN QuoteComparison.tables = {"quotes", "quote_extraction_runs",
                                      "quote_items", "comparison_runs"}
  /\ DOMAIN QuoteComparison.checks = {"tenders", "catalog_products",
      "tender_suppliers", "rfq_requests"}
  /\ EmailKey \notin QuoteComparison.keys /\ SourceKey \notin QuoteComparison.keys
  /\ EmailKey \notin QuoteComparison.dropped /\ SourceKey \notin QuoteComparison.dropped
  BY DEF QuoteComparison, Adds, NoTables, QuoteTables, ExpandStateConstraints,
         EmailKey, SourceKey

LEMMA SupplierHardeningSays ==
  /\ DOMAIN SupplierHardening.tables = {}
  /\ DOMAIN SupplierHardening.checks = {"product_supplier_matches"}
  /\ EmailKey \notin SupplierHardening.keys /\ SourceKey \notin SupplierHardening.keys
  /\ EmailKey \notin SupplierHardening.dropped /\ SourceKey \in SupplierHardening.dropped
  BY DEF SupplierHardening, Adds, NoTables, EmailKey, SourceKey

LEMMA RfqHardeningSays ==
  /\ DOMAIN RfqHardening.tables = {"rfq_task_records", "rfq_versions"}
  /\ DOMAIN RfqHardening.checks = {"rfq_requests", "email_messages"}
  /\ EmailKey \in RfqHardening.keys /\ SourceKey \notin RfqHardening.keys
  /\ EmailKey \notin RfqHardening.dropped /\ SourceKey \notin RfqHardening.dropped
  BY DEF RfqHardening, Adds, NoTables, EmailKey, SourceKey

LEMMA QuoteIntakeSays ==
  /\ DOMAIN QuoteIntake.tables = {"quote_task_records", "quote_documents",
                                  "quote_evidence_references", "quote_item_revisions"}
  /\ DOMAIN QuoteIntake.checks = {"quotes"}
  /\ EmailKey \notin QuoteIntake.keys /\ SourceKey \notin QuoteIntake.keys
  /\ EmailKey \notin QuoteIntake.dropped /\ SourceKey \notin QuoteIntake.dropped
  BY DEF QuoteIntake, Adds, NoTables, EmailKey, SourceKey

LEMMA AnalysisContractSays ==
  /\ DOMAIN AnalysisContract.tables = {"quote_extraction_artifacts"}
  /\ DOMAIN AnalysisContract.checks = {"quotes", "quote_extraction_runs"}
  /\ EmailKey \notin AnalysisContract.keys /\ SourceKey \notin AnalysisContract.keys
  /\ EmailKey \notin AnalysisContract.dropped /\ SourceKey \notin AnalysisContract.dropped
  BY DEF AnalysisContract, Adds, NoTables, EmailKey, SourceKey

LEMMA ComparisonTablesSays ==
  /\ DOMAIN ComparisonTables.tables = {"comparisons", "comparison_items",
                                       "comparison_offers"}
  /\ DOMAIN ComparisonTables.checks = {}
  /\ EmailKey \notin ComparisonTables.keys /\ SourceKey \notin ComparisonTables.keys
  /\ EmailKey \notin ComparisonTables.dropped /\ SourceKey \notin ComparisonTables.dropped
  BY DEF ComparisonTables, Adds, NoTables, Both, Comparisons, ComparisonLines,
         EmailKey, SourceKey

LEMMA ExtractionTypeSays ==
  /\ DOMAIN ExtractionType.tables = {}
  /\ DOMAIN ExtractionType.checks = {}
  /\ EmailKey \notin ExtractionType.keys /\ SourceKey \notin ExtractionType.keys
  /\ EmailKey \notin ExtractionType.dropped /\ SourceKey \notin ExtractionType.dropped
  BY DEF ExtractionType, Adds, NoTables, EmailKey, SourceKey

LEMMA RecommendationsSays ==
  /\ DOMAIN Recommendations.tables = {"recommendations"}
  /\ DOMAIN Recommendations.checks = {}
  /\ EmailKey \notin Recommendations.keys /\ SourceKey \notin Recommendations.keys
  /\ EmailKey \notin Recommendations.dropped /\ SourceKey \notin Recommendations.dropped
  BY DEF Recommendations, Adds, NoTables, EmailKey, SourceKey

\* Which migration is which.
LEMMA FifteenMigrations ==
  /\ Latest = 15
  /\ Migrations[1] = CoreTables
  /\ Migrations[2] = AuditEvents
  /\ Migrations[3] = DocumentManagement
  /\ Migrations[4] = TextExtraction
  /\ Migrations[5] = ReviewTables
  /\ Migrations[6] = DiscoveryTables
  /\ Migrations[7] = DeliveryTables
  /\ Migrations[8] = QuoteComparison
  /\ Migrations[9] = SupplierHardening
  /\ Migrations[10] = RfqHardening
  /\ Migrations[11] = QuoteIntake
  /\ Migrations[12] = AnalysisContract
  /\ Migrations[13] = ComparisonTables
  /\ Migrations[14] = ExtractionType
  /\ Migrations[15] = Recommendations
  BY DEF Latest, Migrations

\* A table is created by one migration, and a check replaced where Replaces says.
LEMMA CreatedOnce ==
  ASSUME NEW i \in 1..15, NEW t
  PROVE  t \in DOMAIN Migrations[i].tables <=> t \in DOMAIN Creator /\ Creator[t] = i
<1>1. CASE i = 1
  BY <1>1, FifteenMigrations, CoreTablesSays DEF Creator
<1>2. CASE i = 2
  BY <1>2, FifteenMigrations, AuditEventsSays DEF Creator
<1>3. CASE i = 3
  BY <1>3, FifteenMigrations, DocumentManagementSays DEF Creator
<1>4. CASE i = 4
  BY <1>4, FifteenMigrations, TextExtractionSays DEF Creator
<1>5. CASE i = 5
  BY <1>5, FifteenMigrations, ReviewTablesSays DEF Creator
<1>6. CASE i = 6
  BY <1>6, FifteenMigrations, DiscoveryTablesSays DEF Creator
<1>7. CASE i = 7
  BY <1>7, FifteenMigrations, DeliveryTablesSays DEF Creator
<1>8. CASE i = 8
  BY <1>8, FifteenMigrations, QuoteComparisonSays DEF Creator
<1>9. CASE i = 9
  BY <1>9, FifteenMigrations, SupplierHardeningSays DEF Creator
<1>10. CASE i = 10
  BY <1>10, FifteenMigrations, RfqHardeningSays DEF Creator
<1>11. CASE i = 11
  BY <1>11, FifteenMigrations, QuoteIntakeSays DEF Creator
<1>12. CASE i = 12
  BY <1>12, FifteenMigrations, AnalysisContractSays DEF Creator
<1>13. CASE i = 13
  BY <1>13, FifteenMigrations, ComparisonTablesSays DEF Creator
<1>14. CASE i = 14
  BY <1>14, FifteenMigrations, ExtractionTypeSays DEF Creator
<1>15. CASE i = 15
  BY <1>15, FifteenMigrations, RecommendationsSays DEF Creator
<1>. QED
  BY <1>1, <1>2, <1>3, <1>4, <1>5, <1>6, <1>7, <1>8, <1>9, <1>10, <1>11, <1>12, <1>13,
     <1>14, <1>15

LEMMA ReplacedThere ==
  ASSUME NEW i \in 1..15, NEW t
  PROVE  t \in DOMAIN Migrations[i].checks <=> Replaces(i, t)
<1>1. CASE i = 1
  BY <1>1, FifteenMigrations, CoreTablesSays DEF Replaces
<1>2. CASE i = 2
  BY <1>2, FifteenMigrations, AuditEventsSays DEF Replaces
<1>3. CASE i = 3
  BY <1>3, FifteenMigrations, DocumentManagementSays DEF Replaces
<1>4. CASE i = 4
  BY <1>4, FifteenMigrations, TextExtractionSays DEF Replaces
<1>5. CASE i = 5
  BY <1>5, FifteenMigrations, ReviewTablesSays DEF Replaces
<1>6. CASE i = 6
  BY <1>6, FifteenMigrations, DiscoveryTablesSays DEF Replaces
<1>7. CASE i = 7
  BY <1>7, FifteenMigrations, DeliveryTablesSays DEF Replaces
<1>8. CASE i = 8
  BY <1>8, FifteenMigrations, QuoteComparisonSays DEF Replaces
<1>9. CASE i = 9
  BY <1>9, FifteenMigrations, SupplierHardeningSays DEF Replaces
<1>10. CASE i = 10
  BY <1>10, FifteenMigrations, RfqHardeningSays DEF Replaces
<1>11. CASE i = 11
  BY <1>11, FifteenMigrations, QuoteIntakeSays DEF Replaces
<1>12. CASE i = 12
  BY <1>12, FifteenMigrations, AnalysisContractSays DEF Replaces
<1>13. CASE i = 13
  BY <1>13, FifteenMigrations, ComparisonTablesSays DEF Replaces
<1>14. CASE i = 14
  BY <1>14, FifteenMigrations, ExtractionTypeSays DEF Replaces
<1>15. CASE i = 15
  BY <1>15, FifteenMigrations, RecommendationsSays DEF Replaces
<1>. QED
  BY <1>1, <1>2, <1>3, <1>4, <1>5, <1>6, <1>7, <1>8, <1>9, <1>10, <1>11, <1>12, <1>13,
     <1>14, <1>15

LEMMA KeysAreMovedOnce ==
  ASSUME NEW i \in 1..15
  PROVE  /\ EmailKey \in Migrations[i].keys <=> i = 10
         /\ SourceKey \in Migrations[i].keys <=> i = 6
         /\ EmailKey \notin Migrations[i].dropped
         /\ SourceKey \in Migrations[i].dropped <=> i = 9
<1>1. CASE i = 1
  BY <1>1, FifteenMigrations, CoreTablesSays
<1>2. CASE i = 2
  BY <1>2, FifteenMigrations, AuditEventsSays
<1>3. CASE i = 3
  BY <1>3, FifteenMigrations, DocumentManagementSays
<1>4. CASE i = 4
  BY <1>4, FifteenMigrations, TextExtractionSays
<1>5. CASE i = 5
  BY <1>5, FifteenMigrations, ReviewTablesSays
<1>6. CASE i = 6
  BY <1>6, FifteenMigrations, DiscoveryTablesSays
<1>7. CASE i = 7
  BY <1>7, FifteenMigrations, DeliveryTablesSays
<1>8. CASE i = 8
  BY <1>8, FifteenMigrations, QuoteComparisonSays
<1>9. CASE i = 9
  BY <1>9, FifteenMigrations, SupplierHardeningSays
<1>10. CASE i = 10
  BY <1>10, FifteenMigrations, RfqHardeningSays
<1>11. CASE i = 11
  BY <1>11, FifteenMigrations, QuoteIntakeSays
<1>12. CASE i = 12
  BY <1>12, FifteenMigrations, AnalysisContractSays
<1>13. CASE i = 13
  BY <1>13, FifteenMigrations, ComparisonTablesSays
<1>14. CASE i = 14
  BY <1>14, FifteenMigrations, ExtractionTypeSays
<1>15. CASE i = 15
  BY <1>15, FifteenMigrations, RecommendationsSays
<1>. QED
  BY <1>1, <1>2, <1>3, <1>4, <1>5, <1>6, <1>7, <1>8, <1>9, <1>10, <1>11, <1>12, <1>13,
     <1>14, <1>15

-----------------------------------------------------------------------------
(* The schema of a revision                                                   *)

Named(i, t) == t \in DOMAIN Checks(i)

\* A migration names the tables it creates and those whose check it replaces.
LEMMA WhoNames ==
  ASSUME NEW i \in 1..15, NEW t
  PROVE  /\ Named(i, t) <=> Replaces(i, t) \/ (t \in DOMAIN Creator /\ Creator[t] = i)
         /\ Named(i, t) => Checks(i)[t] = IF Replaces(i, t) THEN Migrations[i].checks[t]
                                          ELSE Migrations[i].tables[t]
<1>1. DOMAIN Checks(i) = DOMAIN Migrations[i].checks \cup DOMAIN Migrations[i].tables
  BY Zenon DEF Checks, Both
<1>2. \A x \in DOMAIN Checks(i) :
        Checks(i)[x] = IF x \in DOMAIN Migrations[i].checks THEN Migrations[i].checks[x]
                       ELSE Migrations[i].tables[x]
  BY <1>1, Zenon DEF Checks, Both
<1>. QED
  BY <1>1, <1>2, CreatedOnce, ReplacedThere DEF Named

LEMMA TablesOfRevision ==
  ASSUME NEW r \in 0..15
  PROVE  \A t : t \in TablesAt(r) <=> t \in DOMAIN Creator /\ Creator[t] <= r
<1>. SUFFICES ASSUME NEW t
              PROVE  t \in TablesAt(r) <=> t \in DOMAIN Creator /\ Creator[t] <= r
  OBVIOUS
<1>1. \A x \in DOMAIN Creator : Creator[x] \in 1..15
  BY DEF Creator
<1>2. t \in TablesAt(r) <=> \E i \in 1..r : t \in DOMAIN Migrations[i].tables
  BY DEF TablesAt
<1>3. \A i \in 1..15 :
        t \in DOMAIN Migrations[i].tables <=> t \in DOMAIN Creator /\ Creator[t] = i
  BY CreatedOnce, Zenon
<1>4. \A i \in 1..r : i \in 1..15
  OBVIOUS
<1>5. \A i : i \in 1..r <=> i \in 1..15 /\ i <= r
  OBVIOUS
<1>. QED
  BY <1>1, <1>2, <1>3, <1>4, <1>5

\* When the two keys are unique.
LEMMA KeysOfRevision ==
  ASSUME NEW r \in 0..15
  PROVE  /\ EmailKey \in KeysAt(r) <=> r >= 10
         /\ SourceKey \in KeysAt(r) <=> r \in 6..8
<1>1. \A k : k \in KeysAt(r) <=> \E i \in 1..r : k \in Migrations[i].keys
                                              /\ \A j \in i..r : k \notin Migrations[j].dropped
  BY DEF KeysAt
<1>2. \A i \in 1..r : i \in 1..15 /\ \A j \in i..r : j \in 1..15
  OBVIOUS
<1>3. EmailKey \in KeysAt(r) <=> r >= 10
  BY <1>1, <1>2, KeysAreMovedOnce
<1>4. SourceKey \in KeysAt(r) <=> 6 \in 1..r /\ \A j \in 6..r : j # 9
  BY <1>1, <1>2, KeysAreMovedOnce
<1>. QED
  BY <1>3, <1>4

\* The check of a table is what the last migration to name it says.
LEMMA LastIs ==
  ASSUME NEW r \in 0..15, NEW t, NEW i \in 1..r, Named(i, t),
         \A j \in (i + 1)..r : ~Named(j, t)
  PROVE  LastOn(r, t) = i /\ CheckAt(r, t) = Checks(i)[t]
<1>. DEFINE IsLast(x) == t \in DOMAIN Checks(x)
         /\ \A j \in (x + 1)..r : t \notin DOMAIN Checks(j)
<1>1. IsLast(i)
  BY DEF Named
<1>2. \A x \in 1..r : IsLast(x) => x = i
  <2>. SUFFICES ASSUME NEW x \in 1..r, IsLast(x), x # i PROVE FALSE
    OBVIOUS
  <2>. USE DEF Named
  <2>1. CASE x < i
    BY <2>1
  <2>2. CASE i < x
    BY <2>2
  <2>. QED
    BY <2>1, <2>2
<1>3. LastOn(r, t) = CHOOSE x \in 1..r : IsLast(x)
  BY DEF LastOn
<1>. HIDE DEF IsLast
<1>4. LastOn(r, t) = i
  BY <1>1, <1>2, <1>3
<1>. QED
  BY <1>4 DEF CheckAt

\* A set of natural numbers has a least element.
LEMMA LeastNatural ==
  ASSUME NEW S, S \subseteq Nat, S # {}
  PROVE  \E n \in S : \A m \in S : n <= m
<1>1. IsWellFoundedOn(OpToRel(<, Nat), Nat)
  BY NatLessThanWellFounded
<1>2. PICK n \in S : \A m \in S : <<m, n>> \notin OpToRel(<, Nat)
  BY <1>1, WFMin
<1>3. \A m \in S : ~(m < n)
  BY <1>2 DEF OpToRel
<1>. QED
  BY <1>3

\* Some migration is the last to name a table that is there.
LEMMA HasLast ==
  ASSUME NEW r \in 0..15, NEW t, t \in TablesAt(r)
  PROVE  \E i \in 1..r : Named(i, t) /\ \A j \in (i + 1)..r : ~Named(j, t)
<1>. DEFINE S == {n \in 0..r : r - n \in 1..r /\ Named(r - n, t)}
<1>1. S \subseteq Nat
  OBVIOUS
<1>2. PICK i \in 1..r : t \in DOMAIN Migrations[i].tables
  BY DEF TablesAt
<1>3. Named(i, t)
  BY <1>2, Zenon DEF Named, Checks, Both
<1>4. r - i \in S
  <2>1. r - (r - i) = i /\ r - i \in 0..r
    OBVIOUS
  <2>. QED
    BY <2>1, <1>3, Zenon
<1>. HIDE DEF S
<1>5. PICK n \in S : \A m \in S : n <= m
  BY <1>1, <1>4, LeastNatural
<1>. USE DEF S
<1>6. r - n \in 1..r /\ Named(r - n, t)
  BY <1>5
<1>7. ASSUME NEW j \in ((r - n) + 1)..r, Named(j, t)
      PROVE  FALSE
  <2>1. r - (r - j) = j /\ r - j \in 0..r /\ j \in 1..r
    BY <1>5
  <2>2. r - j \in S
    BY <2>1, <1>7, Zenon
  <2>. QED
    BY <2>2, <1>5
<1>. QED
  BY <1>6, <1>7

\* A migration that says nothing of a table leaves its check.
LEMMA CheckStays ==
  ASSUME NEW r \in 1..15, NEW t, t \in TablesAt(r - 1), ~Named(r, t)
  PROVE  CheckAt(r, t) = CheckAt(r - 1, t)
<1>1. r - 1 \in 0..15
  OBVIOUS
<1>2. PICK i \in 1..(r - 1) : Named(i, t) /\ \A j \in (i + 1)..(r - 1) : ~Named(j, t)
  BY <1>1, HasLast
<1>3. CheckAt(r - 1, t) = Checks(i)[t]
  BY <1>1, <1>2, LastIs
<1>4. i \in 1..r /\ \A j \in (i + 1)..r : ~Named(j, t)
  BY <1>2
<1>. QED
  BY <1>2, <1>3, <1>4, LastIs

LEMMA CheckIsNew ==
  ASSUME NEW r \in 1..15, NEW t, Named(r, t)
  PROVE  CheckAt(r, t) = Checks(r)[t]
<1>1. r \in 0..15 /\ r \in 1..r /\ \A j \in (r + 1)..r : ~Named(j, t)
  OBVIOUS
<1>. QED
  BY <1>1, LastIs


-----------------------------------------------------------------------------
(* The statuses that the checks admit                                         *)

LEMMA StatusesAreKnown ==
  ASSUME NEW i \in 1..15, NEW t, Named(i, t)
  PROVE  Checks(i)[t] \subseteq Statuses
<1>1. i \in 1..Latest /\ t \in DOMAIN Checks(i)
  BY FifteenMigrations DEF Named
<1>. QED
  BY <1>1 DEF Statuses

LEMMA StatusesOfRevision ==
  ASSUME NEW r \in 0..15, NEW t, t \in TablesAt(r)
  PROVE  CheckAt(r, t) \subseteq Statuses
<1>1. PICK i \in 1..r : Named(i, t) /\ \A j \in (i + 1)..r : ~Named(j, t)
  BY HasLast
<1>2. i \in 1..15
  OBVIOUS
<1>. QED
  BY <1>1, <1>2, LastIs, StatusesAreKnown

\* At revision r, migration i is the last to say something of the check of t.
LastlyBy(r, t, i) ==
  /\ r \in 0..15 /\ i \in 1..r
  /\ Replaces(i, t) \/ (t \in DOMAIN Creator /\ Creator[t] = i)
  /\ \A j \in (i + 1)..r : ~Replaces(j, t) /\ Creator[t] # j

LEMMA CheckOf ==
  ASSUME NEW r, NEW t, NEW i, LastlyBy(r, t, i)
  PROVE  CheckAt(r, t) = IF Replaces(i, t) THEN Migrations[i].checks[t]
                         ELSE Migrations[i].tables[t]
<1>1. r \in 0..15 /\ i \in 1..r /\ i \in 1..15 /\ \A j \in (i + 1)..r : j \in 1..15
  BY DEF LastlyBy
<1>2. Named(i, t) /\ \A j \in (i + 1)..r : ~Named(j, t)
  BY <1>1, WhoNames DEF LastlyBy
<1>. QED
  BY <1>1, <1>2, WhoNames, LastIs

\* A check that is replaced while the table may have rows admits as much as
\* before, but for the two whose rows are changed with it.
LEMMA ChecksWiden ==
  ASSUME NEW r \in 1..15, NEW t, Replaces(r, t), t \in TablesAt(r - 1),
         ~(r = 3 /\ t = "tender_documents"), ~(r = 9 /\ t = "product_supplier_matches")
  PROVE  CheckAt(r - 1, t) # {} /\ CheckAt(r - 1, t) \subseteq CheckAt(r, t)
<1>1. CASE r = 8 /\ t = "tenders"
  <2>1. CheckAt(7, "tenders") = CoreTables.tables["tenders"]
    <3>1. LastlyBy(7, "tenders", 1) /\ ~Replaces(1, "tenders")
      BY DEF LastlyBy, Replaces, Creator
    <3>. QED
      BY <3>1, CheckOf, FifteenMigrations
  <2>2. CheckAt(8, "tenders") = QuoteComparison.checks["tenders"]
    <3>1. LastlyBy(8, "tenders", 8) /\ Replaces(8, "tenders")
      BY DEF LastlyBy, Replaces, Creator
    <3>. QED
      BY <3>1, CheckOf, FifteenMigrations
  <2>3. /\ CoreTables.tables["tenders"] # {}
        /\ CoreTables.tables["tenders"] \subseteq QuoteComparison.checks["tenders"]
    BY DEF CoreTables, QuoteComparison, QuoteTables, ExpandStateConstraints, Adds,
           NoTables
  <2>. QED
    BY <1>1, <2>1, <2>2, <2>3
<1>2. CASE r = 8 /\ t = "catalog_products"
  <2>1. CheckAt(7, "catalog_products") = ReviewTables.tables["catalog_products"]
    <3>1. LastlyBy(7, "catalog_products", 5) /\ ~Replaces(5, "catalog_products")
      BY DEF LastlyBy, Replaces, Creator
    <3>. QED
      BY <3>1, CheckOf, FifteenMigrations
  <2>2. CheckAt(8, "catalog_products") = QuoteComparison.checks["catalog_products"]
    <3>1. LastlyBy(8, "catalog_products", 8) /\ Replaces(8, "catalog_products")
      BY DEF LastlyBy, Replaces, Creator
    <3>. QED
      BY <3>1, CheckOf, FifteenMigrations
  <2>3. /\ ReviewTables.tables["catalog_products"] # {}
        /\ ReviewTables.tables["catalog_products"]
               \subseteq QuoteComparison.checks["catalog_products"]
    BY DEF ReviewTables, Both, AIExtractionRuns, CatalogTables, QuoteComparison,
           QuoteTables, ExpandStateConstraints, Adds, NoTables
  <2>. QED
    BY <1>2, <2>1, <2>2, <2>3
<1>3. CASE r = 8 /\ t = "tender_suppliers"
  <2>1. CheckAt(7, "tender_suppliers") = DiscoveryTables.tables["tender_suppliers"]
    <3>1. LastlyBy(7, "tender_suppliers", 6) /\ ~Replaces(6, "tender_suppliers")
      BY DEF LastlyBy, Replaces, Creator
    <3>. QED
      BY <3>1, CheckOf, FifteenMigrations
  <2>2. CheckAt(8, "tender_suppliers") = QuoteComparison.checks["tender_suppliers"]
    <3>1. LastlyBy(8, "tender_suppliers", 8) /\ Replaces(8, "tender_suppliers")
      BY DEF LastlyBy, Replaces, Creator
    <3>. QED
      BY <3>1, CheckOf, FifteenMigrations
  <2>3. /\ DiscoveryTables.tables["tender_suppliers"] # {}
        /\ DiscoveryTables.tables["tender_suppliers"]
               \subseteq QuoteComparison.checks["tender_suppliers"]
    BY DEF DiscoveryTables, Both, SupplierMasters, TenderSuppliers, QuoteComparison,
           QuoteTables, ExpandStateConstraints, Adds, NoTables
  <2>. QED
    BY <1>3, <2>1, <2>2, <2>3
<1>4. CASE r = 8 /\ t = "rfq_requests"
  <2>1. CheckAt(7, "rfq_requests") = DeliveryTables.tables["rfq_requests"]
    <3>1. LastlyBy(7, "rfq_requests", 7) /\ ~Replaces(7, "rfq_requests")
      BY DEF LastlyBy, Replaces, Creator
    <3>. QED
      BY <3>1, CheckOf, FifteenMigrations
  <2>2. CheckAt(8, "rfq_requests") = QuoteComparison.checks["rfq_requests"]
    <3>1. LastlyBy(8, "rfq_requests", 8) /\ Replaces(8, "rfq_requests")
      BY DEF LastlyBy, Replaces, Creator
    <3>. QED
      BY <3>1, CheckOf, FifteenMigrations
  <2>3. /\ DeliveryTables.tables["rfq_requests"] # {}
        /\ DeliveryTables.tables["rfq_requests"]
               \subseteq QuoteComparison.checks["rfq_requests"]
    BY DEF DeliveryTables, QuoteComparison, QuoteTables, ExpandStateConstraints, Adds,
           NoTables
  <2>. QED
    BY <1>4, <2>1, <2>2, <2>3
<1>5. CASE r = 10 /\ t = "rfq_requests"
  <2>1. CheckAt(9, "rfq_requests") = QuoteComparison.checks["rfq_requests"]
    <3>1. LastlyBy(9, "rfq_requests", 8) /\ Replaces(8, "rfq_requests")
      BY DEF LastlyBy, Replaces, Creator
    <3>. QED
      BY <3>1, CheckOf, FifteenMigrations
  <2>2. CheckAt(10, "rfq_requests") = RfqHardening.checks["rfq_requests"]
    <3>1. LastlyBy(10, "rfq_requests", 10) /\ Replaces(10, "rfq_requests")
      BY DEF LastlyBy, Replaces, Creator
    <3>. QED
      BY <3>1, CheckOf, FifteenMigrations
  <2>3. /\ QuoteComparison.checks["rfq_requests"] # {}
        /\ QuoteComparison.checks["rfq_requests"]
               \subseteq RfqHardening.checks["rfq_requests"]
    BY DEF QuoteComparison, QuoteTables, ExpandStateConstraints, RfqHardening, Adds,
           NoTables
  <2>. QED
    BY <1>5, <2>1, <2>2, <2>3
<1>6. CASE r = 10 /\ t = "email_messages"
  <2>1. CheckAt(9, "email_messages") = DeliveryTables.tables["email_messages"]
    <3>1. LastlyBy(9, "email_messages", 7) /\ ~Replaces(7, "email_messages")
      BY DEF LastlyBy, Replaces, Creator
    <3>. QED
      BY <3>1, CheckOf, FifteenMigrations
  <2>2. CheckAt(10, "email_messages") = RfqHardening.checks["email_messages"]
    <3>1. LastlyBy(10, "email_messages", 10) /\ Replaces(10, "email_messages")
      BY DEF LastlyBy, Replaces, Creator
    <3>. QED
      BY <3>1, CheckOf, FifteenMigrations
  <2>3. /\ DeliveryTables.tables["email_messages"] # {}
        /\ DeliveryTables.tables["email_messages"]
               \subseteq RfqHardening.checks["email_messages"]
    BY DEF DeliveryTables, RfqHardening, Adds, NoTables
  <2>. QED
    BY <1>6, <2>1, <2>2, <2>3
<1>7. CASE r = 11 /\ t = "quotes"
  <2>1. CheckAt(10, "quotes") = QuoteComparison.tables["quotes"]
    <3>1. LastlyBy(10, "quotes", 8) /\ ~Replaces(8, "quotes")
      BY DEF LastlyBy, Replaces, Creator
    <3>. QED
      BY <3>1, CheckOf, FifteenMigrations
  <2>2. CheckAt(11, "quotes") = QuoteIntake.checks["quotes"]
    <3>1. LastlyBy(11, "quotes", 11) /\ Replaces(11, "quotes")
      BY DEF LastlyBy, Replaces, Creator
    <3>. QED
      BY <3>1, CheckOf, FifteenMigrations
  <2>3. /\ QuoteComparison.tables["quotes"] # {}
        /\ QuoteComparison.tables["quotes"] \subseteq QuoteIntake.checks["quotes"]
    BY DEF QuoteComparison, QuoteTables, ExpandStateConstraints, QuoteIntake, Adds,
           NoTables
  <2>. QED
    BY <1>7, <2>1, <2>2, <2>3
<1>8. CASE r = 12 /\ t = "quotes"
  <2>1. CheckAt(11, "quotes") = QuoteIntake.checks["quotes"]
    <3>1. LastlyBy(11, "quotes", 11) /\ Replaces(11, "quotes")
      BY DEF LastlyBy, Replaces, Creator
    <3>. QED
      BY <3>1, CheckOf, FifteenMigrations
  <2>2. CheckAt(12, "quotes") = AnalysisContract.checks["quotes"]
    <3>1. LastlyBy(12, "quotes", 12) /\ Replaces(12, "quotes")
      BY DEF LastlyBy, Replaces, Creator
    <3>. QED
      BY <3>1, CheckOf, FifteenMigrations
  <2>3. /\ QuoteIntake.checks["quotes"] # {}
        /\ QuoteIntake.checks["quotes"] \subseteq AnalysisContract.checks["quotes"]
    BY DEF QuoteIntake, AnalysisContract, Adds, NoTables
  <2>. QED
    BY <1>8, <2>1, <2>2, <2>3
<1>9. CASE r = 12 /\ t = "quote_extraction_runs"
  <2>1. CheckAt(11, "quote_extraction_runs")
           = QuoteComparison.tables["quote_extraction_runs"]
    <3>1. LastlyBy(11, "quote_extraction_runs", 8)
             /\ ~Replaces(8, "quote_extraction_runs")
      BY DEF LastlyBy, Replaces, Creator
    <3>. QED
      BY <3>1, CheckOf, FifteenMigrations
  <2>2. CheckAt(12, "quote_extraction_runs")
           = AnalysisContract.checks["quote_extraction_runs"]
    <3>1. LastlyBy(12, "quote_extraction_runs", 12)
             /\ Replaces(12, "quote_extraction_runs")
      BY DEF LastlyBy, Replaces, Creator
    <3>. QED
      BY <3>1, CheckOf, FifteenMigrations
  <2>3. /\ QuoteComparison.tables["quote_extraction_runs"] # {}
        /\ QuoteComparison.tables["quote_extraction_runs"]
               \subseteq AnalysisContract.checks["quote_extraction_runs"]
    BY DEF QuoteComparison, QuoteTables, ExpandStateConstraints, AnalysisContract,
           Adds, NoTables, JobStatuses
  <2>. QED
    BY <1>9, <2>1, <2>2, <2>3
<1>10. CASE r = 4 /\ t = "tender_documents"
  <2>1. CheckAt(3, "tender_documents") = DocumentManagement.checks["tender_documents"]
    <3>1. LastlyBy(3, "tender_documents", 3) /\ Replaces(3, "tender_documents")
      BY DEF LastlyBy, Replaces, Creator
    <3>. QED
      BY <3>1, CheckOf, FifteenMigrations
  <2>2. CheckAt(4, "tender_documents") = TextExtraction.checks["tender_documents"]
    <3>1. LastlyBy(4, "tender_documents", 4) /\ Replaces(4, "tender_documents")
      BY DEF LastlyBy, Replaces, Creator
    <3>. QED
      BY <3>1, CheckOf, FifteenMigrations
  <2>3. /\ DocumentManagement.checks["tender_documents"] # {}
        /\ DocumentManagement.checks["tender_documents"]
               \subseteq TextExtraction.checks["tender_documents"]
    BY DEF DocumentManagement, TextExtraction, Adds, NoTables
  <2>. QED
    BY <1>10, <2>1, <2>2, <2>3
<1>11. \/ r = 8 /\ t = "tenders"
       \/ r = 8 /\ t = "catalog_products"
       \/ r = 8 /\ t = "tender_suppliers"
       \/ r = 8 /\ t = "rfq_requests"
       \/ r = 10 /\ t = "rfq_requests"
       \/ r = 10 /\ t = "email_messages"
       \/ r = 11 /\ t = "quotes"
       \/ r = 12 /\ t = "quotes"
       \/ r = 12 /\ t = "quote_extraction_runs"
       \/ r = 4 /\ t = "tender_documents"
  BY DEF Replaces
<1>. QED
  BY <1>1, <1>2, <1>3, <1>4, <1>5, <1>6, <1>7, <1>8, <1>9, <1>10, <1>11

-----------------------------------------------------------------------------
(* One row and what migrations change of it                                   *)

\* What no migration changes.
SameRow(row, new) ==
  /\ new.table = row.table /\ new.sendKey = row.sendKey
  /\ new.owner = row.owner /\ new.deleted = row.deleted

LEMMA RowsAreRows ==
  ASSUME NEW row \in Row
  PROVE  /\ row # None /\ row.table \in RowTables /\ row.status \in Statuses
         /\ row.key \in KeyValues \cup {None} /\ row.sendKey \in Keys \cup {None}
         /\ row.parts \subseteq TablesAt(Latest) /\ row.deleted \in BOOLEAN
<1>1. row # None
  BY RowsAssumption
<1>. QED
  BY <1>1 DEF Row

LEMMA StatusChanges ==
  ASSUME NEW row \in Row, NEW s \in Statuses, NEW new, new = [row EXCEPT !.status = s]
  PROVE  /\ new \in Row /\ SameRow(row, new)
         /\ new.status = s /\ new.key = row.key /\ new.parts = row.parts
  BY DEF Row, SameRow

LEMMA KeyChanges ==
  ASSUME NEW row \in Row, NEW k \in KeyValues, NEW new, new = [row EXCEPT !.key = k]
  PROVE  /\ new \in Row /\ SameRow(row, new)
         /\ new.status = row.status /\ new.key = k /\ new.parts = row.parts
  BY DEF Row, SameRow

LEMMA PartsChange ==
  ASSUME NEW row \in Row, NEW ps, ps \subseteq TablesAt(Latest),
         NEW new, new = [row EXCEPT !.parts = ps]
  PROVE  /\ new \in Row /\ SameRow(row, new)
         /\ new.status = row.status /\ new.key = row.key /\ new.parts = ps
  BY DEF Row, SameRow

LEMMA SomeStatuses ==
  {"stored", "uploaded", "rejected", "candidate"} \subseteq Statuses
<1>1. "uploaded" \in Checks(3)["tender_documents"]
         /\ "rejected" \in Checks(3)["tender_documents"]
  <2>1. Replaces(3, "tender_documents") /\ 3 \in 1..15
    BY DEF Replaces
  <2>2. Checks(3)["tender_documents"] = DocumentManagement.checks["tender_documents"]
    BY <2>1, WhoNames, FifteenMigrations
  <2>. QED
    BY <2>2 DEF DocumentManagement, Adds
<1>2. "candidate" \in Checks(9)["product_supplier_matches"]
  <2>1. Replaces(9, "product_supplier_matches") /\ 9 \in 1..15
    BY DEF Replaces
  <2>2. Checks(9)["product_supplier_matches"]
          = SupplierHardening.checks["product_supplier_matches"]
    BY <2>1, WhoNames, FifteenMigrations
  <2>. QED
    BY <2>2 DEF SupplierHardening, Adds
<1>3. /\ Checks(3)["tender_documents"] \subseteq Statuses
      /\ Checks(9)["product_supplier_matches"] \subseteq Statuses
  <2>1. /\ 3 \in 1..15 /\ 9 \in 1..15
        /\ Replaces(3, "tender_documents") /\ Replaces(9, "product_supplier_matches")
    BY DEF Replaces
  <2>2. Named(3, "tender_documents") /\ Named(9, "product_supplier_matches")
    BY <2>1, WhoNames
  <2>. QED
    BY <2>1, <2>2, StatusesAreKnown
<1>4. "stored" \in Statuses
  BY Zenon DEF Statuses
<1>. QED
  BY <1>1, <1>2, <1>3, <1>4

-----------------------------------------------------------------------------
(* Rows and what migrations change of them                                    *)

Rows == [Ids -> Row \cup {None}]

LEMMA InRows ==
  ASSUME NEW rs \in Rows
  PROVE  /\ \A i : i \in Present(rs) <=> i \in Ids /\ rs[i] # None
         /\ \A i \in Present(rs) : rs[i] \in Row
         /\ \A i, t : i \in In(rs, t) <=> i \in Present(rs) /\ rs[i].table = t
  BY DEF Rows, Present, In

\* new is rs with other statuses, keys and parts.
SameRows(rs, new) ==
  /\ new \in Rows
  /\ \A i \in Ids : new[i] = None <=> rs[i] = None
  /\ \A i \in Present(rs) : SameRow(rs[i], new[i])

LEMMA SetStatusDoes ==
  ASSUME NEW rs \in Rows, NEW t, NEW from, NEW to \in Statuses,
         NEW new, new = SetStatus(rs, t, from, to)
  PROVE  /\ SameRows(rs, new)
         /\ \A i \in Present(rs) :
              /\ new[i].key = rs[i].key /\ new[i].parts = rs[i].parts
              /\ new[i].status = IF rs[i].table = t /\ rs[i].status \in from THEN to
                                 ELSE rs[i].status
<1>1. /\ new = [i \in Ids |-> new[i]]
      /\ \A i \in Ids : new[i] = IF i \in In(rs, t) /\ rs[i].status \in from
                                 THEN [rs[i] EXCEPT !.status = to] ELSE rs[i]
  BY Zenon DEF SetStatus
<1>2. ASSUME NEW i \in Ids, rs[i] = None
      PROVE  new[i] = None
  BY <1>1, <1>2, InRows
<1>3. ASSUME NEW i \in Present(rs)
      PROVE  /\ new[i] \in Row /\ SameRow(rs[i], new[i])
             /\ new[i].key = rs[i].key /\ new[i].parts = rs[i].parts
             /\ new[i].status = IF rs[i].table = t /\ rs[i].status \in from THEN to
                                ELSE rs[i].status
  <2>1. i \in Ids /\ rs[i] \in Row
    BY InRows
  <2>2. CASE rs[i].table = t /\ rs[i].status \in from
    <3>1. new[i] = [rs[i] EXCEPT !.status = to]
      BY <1>1, <2>1, <2>2, InRows
    <3>. QED
      BY <2>1, <2>2, <3>1, StatusChanges
  <2>3. CASE ~(rs[i].table = t /\ rs[i].status \in from)
    <3>1. new[i] = rs[i]
      BY <1>1, <2>1, <2>3, InRows
    <3>. QED
      BY <2>1, <2>3, <3>1 DEF SameRow
  <2>. QED
    BY <2>2, <2>3
<1>4. \A i \in Ids : new[i] \in Row \cup {None} /\ (new[i] = None <=> rs[i] = None)
  BY <1>2, <1>3, InRows, RowsAreRows
<1>5. new \in Rows
  BY <1>1, <1>4 DEF Rows
<1>. QED
  BY <1>3, <1>4, <1>5 DEF SameRows

LEMMA AddPartDoes ==
  ASSUME NEW rs \in Rows, NEW t, NEW statuses, NEW part \in TablesAt(Latest),
         NEW new, new = AddPart(rs, t, statuses, part)
  PROVE  /\ SameRows(rs, new)
         /\ \A i \in Present(rs) :
              /\ new[i].key = rs[i].key /\ new[i].status = rs[i].status
              /\ new[i].parts = IF rs[i].table = t /\ rs[i].status \in statuses
                                THEN rs[i].parts \cup {part} ELSE rs[i].parts
<1>1. /\ new = [i \in Ids |-> new[i]]
      /\ \A i \in Ids : new[i] = IF i \in In(rs, t) /\ rs[i].status \in statuses
                                 THEN [rs[i] EXCEPT !.parts = rs[i].parts \cup {part}]
                                 ELSE rs[i]
  BY Zenon DEF AddPart
<1>2. ASSUME NEW i \in Ids, rs[i] = None
      PROVE  new[i] = None
  BY <1>1, <1>2, InRows
<1>3. ASSUME NEW i \in Present(rs)
      PROVE  /\ new[i] \in Row /\ SameRow(rs[i], new[i])
             /\ new[i].key = rs[i].key /\ new[i].status = rs[i].status
             /\ new[i].parts = IF rs[i].table = t /\ rs[i].status \in statuses
                               THEN rs[i].parts \cup {part} ELSE rs[i].parts
  <2>1. i \in Ids /\ rs[i] \in Row
    BY InRows
  <2>2. CASE rs[i].table = t /\ rs[i].status \in statuses
    <3>1. new[i] = [rs[i] EXCEPT !.parts = rs[i].parts \cup {part}]
      BY <1>1, <2>1, <2>2, InRows
    <3>2. rs[i].parts \cup {part} \subseteq TablesAt(Latest)
      BY <2>1, RowsAreRows
    <3>. QED
      BY <2>1, <2>2, <3>1, <3>2, PartsChange
  <2>3. CASE ~(rs[i].table = t /\ rs[i].status \in statuses)
    <3>1. new[i] = rs[i]
      BY <1>1, <2>1, <2>3, InRows
    <3>. QED
      BY <2>1, <2>3, <3>1 DEF SameRow
  <2>. QED
    BY <2>2, <2>3
<1>4. \A i \in Ids : new[i] \in Row \cup {None} /\ (new[i] = None <=> rs[i] = None)
  BY <1>2, <1>3, InRows, RowsAreRows
<1>5. new \in Rows
  BY <1>1, <1>4 DEF Rows
<1>. QED
  BY <1>3, <1>4, <1>5 DEF SameRows

-----------------------------------------------------------------------------
(* The keys of e-mails                                                        *)

Legacy(k, i) == [legacy |-> k, id |-> i]

\* A message has the key it was written with, or the digest made of it.
KeysAreTheirs(rs) ==
  \A i \in In(rs, "email_messages") :
    /\ rs[i].sendKey \in Keys
    /\ rs[i].key = rs[i].sendKey \/ rs[i].key = Legacy(rs[i].sendKey, i)

\* Message i is not the one that keeps the key it has.
Gives(rs, i) ==
  \E j \in In(rs, "email_messages") : rs[j].key = rs[i].key /\ ~First(rs, i, j)

LEMMA DigestsAreNoKeys ==
  ASSUME NEW k \in Keys, NEW i \in Ids, NEW l, NEW j, NEW m
  PROVE  /\ Legacy(k, i) \notin Keys
         /\ Legacy(k, i) \in KeyValues
         /\ Legacy(l, j) = Legacy(k, m) => l = k /\ j = m
<1>1. Legacy(k, i) \in [legacy : Keys, id : Ids]
  BY DEF Legacy
<1>2. Legacy(k, i) \notin Keys
  BY <1>1, RowsAssumption
<1>3. ASSUME Legacy(l, j) = Legacy(k, m) PROVE l = k /\ j = m
  <2>1. Legacy(l, j).legacy = Legacy(k, m).legacy /\ Legacy(l, j).id = Legacy(k, m).id
    BY <1>3
  <2>. QED
    BY <2>1 DEF Legacy
<1>. QED
  BY <1>1, <1>2, <1>3 DEF KeyValues

LEMMA FirstIsAnOrder ==
  ASSUME NEW rs, NEW i \in Ids, NEW j \in Ids
  PROVE  /\ First(rs, i, i)
         /\ First(rs, i, j) \/ First(rs, j, i)
         /\ First(rs, i, j) /\ First(rs, j, i) => i = j
         /\ rs[i].status = "sent" /\ (rs[j].status = "sent" => i <= j) => First(rs, i, j)
<1>1. i \in Nat /\ j \in Nat
  BY RowsAssumption
<1>. QED
  BY <1>1 DEF First

\* Only a message with the key it was written with ever gives it up.
LEMMA GivenKeysAreTheirs ==
  ASSUME NEW rs, KeysAreTheirs(rs), NEW i \in In(rs, "email_messages"), Gives(rs, i)
  PROVE  rs[i].key = rs[i].sendKey
<1>1. PICK j \in In(rs, "email_messages") : rs[j].key = rs[i].key /\ ~First(rs, i, j)
  BY DEF Gives
<1>2. i \in Ids /\ j \in Ids
  BY DEF In, Present
<1>3. i # j
  BY <1>1, <1>2, FirstIsAnOrder
<1>4. ASSUME rs[i].key = Legacy(rs[i].sendKey, i)
      PROVE  FALSE
  <2>1. rs[i].sendKey \in Keys /\ rs[j].sendKey \in Keys
    BY DEF KeysAreTheirs
  <2>2. CASE rs[j].key = rs[j].sendKey
    BY <1>1, <1>2, <1>4, <2>1, <2>2, DigestsAreNoKeys
  <2>3. CASE rs[j].key = Legacy(rs[j].sendKey, j)
    BY <1>1, <1>2, <1>3, <1>4, <2>1, <2>3, DigestsAreNoKeys
  <2>. QED
    BY <2>2, <2>3 DEF KeysAreTheirs
<1>. QED
  BY <1>4 DEF KeysAreTheirs

LEMMA ReconcileDoes ==
  ASSUME NEW rs \in Rows, KeysAreTheirs(rs), NEW new, new = ReconcileLegacyMessages(rs)
  PROVE  /\ SameRows(rs, new)
         /\ \A i \in Present(rs) :
              /\ new[i].status = rs[i].status /\ new[i].parts = rs[i].parts
              /\ new[i].key = IF rs[i].table = "email_messages" /\ Gives(rs, i)
                              THEN Legacy(rs[i].sendKey, i) ELSE rs[i].key
<1>1. /\ new = [i \in Ids |-> new[i]]
      /\ \A i \in Ids : new[i] = IF i \in In(rs, "email_messages") /\ Gives(rs, i)
                                 THEN [rs[i] EXCEPT !.key = Legacy(rs[i].key, i)]
                                 ELSE rs[i]
  BY Zenon DEF ReconcileLegacyMessages, Gives, Legacy
<1>2. ASSUME NEW i \in Ids, rs[i] = None
      PROVE  new[i] = None
  BY <1>1, <1>2, InRows
<1>3. ASSUME NEW i \in Present(rs)
      PROVE  /\ new[i] \in Row /\ SameRow(rs[i], new[i])
             /\ new[i].status = rs[i].status /\ new[i].parts = rs[i].parts
             /\ new[i].key = IF rs[i].table = "email_messages" /\ Gives(rs, i)
                             THEN Legacy(rs[i].sendKey, i) ELSE rs[i].key
  <2>1. i \in Ids /\ rs[i] \in Row
    BY InRows
  <2>2. CASE rs[i].table = "email_messages" /\ Gives(rs, i)
    <3>1. i \in In(rs, "email_messages")
      BY <2>2, InRows
    <3>2. rs[i].key = rs[i].sendKey /\ rs[i].sendKey \in Keys
      BY <2>2, <3>1, GivenKeysAreTheirs DEF KeysAreTheirs
    <3>3. new[i] = [rs[i] EXCEPT !.key = Legacy(rs[i].sendKey, i)]
      BY <1>1, <2>1, <2>2, <3>1, <3>2
    <3>4. Legacy(rs[i].sendKey, i) \in KeyValues
      BY <2>1, <3>2, DigestsAreNoKeys
    <3>. QED
      BY <2>1, <2>2, <3>3, <3>4, KeyChanges
  <2>3. CASE ~(rs[i].table = "email_messages" /\ Gives(rs, i))
    <3>1. new[i] = rs[i]
      BY <1>1, <2>1, <2>3, InRows
    <3>. QED
      BY <2>1, <2>3, <3>1 DEF SameRow
  <2>. QED
    BY <2>2, <2>3
<1>4. \A i \in Ids : new[i] \in Row \cup {None} /\ (new[i] = None <=> rs[i] = None)
  BY <1>2, <1>3, InRows, RowsAreRows
<1>5. new \in Rows
  BY <1>1, <1>4 DEF Rows
<1>. QED
  BY <1>3, <1>4, <1>5 DEF SameRows

\* After it no two messages have the same key.
LEMMA ReconciledKeysAreUnique ==
  ASSUME NEW rs \in Rows, KeysAreTheirs(rs), NEW new, new = ReconcileLegacyMessages(rs),
         NEW i \in In(rs, "email_messages"), NEW j \in In(rs, "email_messages"),
         new[i].key = new[j].key
  PROVE  i = j
<1>. SUFFICES ASSUME i # j PROVE FALSE
  OBVIOUS
<1>1. /\ i \in Ids /\ j \in Ids /\ i \in Present(rs) /\ j \in Present(rs)
      /\ rs[i].table = "email_messages" /\ rs[j].table = "email_messages"
      /\ rs[i].sendKey \in Keys /\ rs[j].sendKey \in Keys
  BY InRows DEF KeysAreTheirs
<1>2. /\ new[i].key = IF Gives(rs, i) THEN Legacy(rs[i].sendKey, i) ELSE rs[i].key
      /\ new[j].key = IF Gives(rs, j) THEN Legacy(rs[j].sendKey, j) ELSE rs[j].key
  BY <1>1, ReconcileDoes
<1>3. ~Gives(rs, i) /\ ~Gives(rs, j)
  <2>1. ASSUME NEW x \in {i, j}, NEW y \in {i, j}, x # y, Gives(rs, x), new[x].key
           = new[y].key
        PROVE  FALSE
    <3>1. /\ x \in Ids /\ y \in Ids /\ rs[x].sendKey \in Keys /\ rs[y].sendKey \in Keys
          /\ y \in In(rs, "email_messages")
      BY <1>1
    <3>2. new[y].key = Legacy(rs[x].sendKey, x)
      BY <1>2, <2>1
    <3>3. new[y].key # Legacy(rs[y].sendKey, y) /\ new[y].key # rs[y].sendKey
      BY <2>1, <3>1, <3>2, DigestsAreNoKeys
    <3>4. new[y].key = Legacy(rs[y].sendKey, y) \/ new[y].key = rs[y].key
      BY <1>2
    <3>5. rs[y].key = rs[y].sendKey \/ rs[y].key = Legacy(rs[y].sendKey, y)
      BY <3>1 DEF KeysAreTheirs
    <3>. QED
      BY <3>3, <3>4, <3>5
  <2>. QED
    BY <2>1
<1>4. rs[i].key = rs[j].key
  BY <1>2, <1>3
<1>5. First(rs, i, j) /\ First(rs, j, i)
  BY <1>3, <1>4 DEF Gives
<1>. QED
  BY <1>1, <1>5, FirstIsAnOrder

-----------------------------------------------------------------------------
(* A migration and its undoing                                                *)

LEMMA WhichMigration ==
  ASSUME NEW r \in 1..15
  PROVE  /\ Migrations[r] = DocumentManagement <=> r = 3
         /\ Migrations[r] = TextExtraction <=> r = 4
         /\ Migrations[r] = SupplierHardening <=> r = 9
         /\ Migrations[r] = RfqHardening <=> r = 10
         /\ Migrations[r] = QuoteIntake <=> r = 11
         /\ Migrations[r] = AnalysisContract <=> r = 12
<1>1. Migrations[r] = DocumentManagement => r = 3
  <2>1. /\ "tender_documents" \in DOMAIN DocumentManagement.checks
        /\ "extraction_runs" \notin DOMAIN DocumentManagement.tables
    BY DocumentManagementSays
  <2>2. "extraction_runs" \in DOMAIN Migrations[4].tables
    BY FifteenMigrations, TextExtractionSays
  <2>3. Migrations[r] = DocumentManagement => r \in {3, 4}
    BY <2>1, ReplacedThere DEF Replaces
  <2>. QED
    BY <2>1, <2>2, <2>3
<1>2. Migrations[r] = TextExtraction => r = 4
  BY TextExtractionSays, CreatedOnce DEF Creator
<1>3. Migrations[r] = SupplierHardening => r = 9
  BY SupplierHardeningSays, ReplacedThere DEF Replaces
<1>4. Migrations[r] = RfqHardening => r = 10
  BY RfqHardeningSays, CreatedOnce DEF Creator
<1>5. Migrations[r] = QuoteIntake => r = 11
  BY QuoteIntakeSays, CreatedOnce DEF Creator
<1>6. Migrations[r] = AnalysisContract => r = 12
  BY AnalysisContractSays, CreatedOnce DEF Creator
<1>. QED
  BY <1>1, <1>2, <1>3, <1>4, <1>5, <1>6, FifteenMigrations

LEMMA MigratedIs ==
  ASSUME NEW r \in 1..15, NEW rs
  PROVE  /\ r = 3 => Migrated(r, rs) = RejectUnknown(rs)
         /\ r = 9 => Migrated(r, rs) = CandidateMatches(rs)
         /\ r = 10 => Migrated(r, rs) = ReconcileLegacyMessages(rs)
         /\ r = 11 => Migrated(r, rs) = DocumentEveryQuote(rs)
         /\ r = 12 => Migrated(r, rs) = KeepAnswers(rs)
         /\ r \notin {3, 9, 10, 11, 12} => Migrated(r, rs) = rs
<1>. DEFINE A == Migrations[r] = DocumentManagement
            B == Migrations[r] = SupplierHardening
            C == Migrations[r] = RfqHardening
            D == Migrations[r] = QuoteIntake
            E == Migrations[r] = AnalysisContract
<1>1. /\ A <=> r = 3
      /\ B <=> r = 9
      /\ C <=> r = 10
      /\ D <=> r = 11
      /\ E <=> r = 12
  BY WhichMigration
<1>2. Migrated(r, rs) = CASE A -> RejectUnknown(rs)
                          [] B -> CandidateMatches(rs)
                          [] C -> ReconcileLegacyMessages(rs)
                          [] D -> DocumentEveryQuote(rs)
                          [] E -> KeepAnswers(rs)
                          [] OTHER -> rs
  BY Zenon DEF Migrated
<1>. HIDE DEF A, B, C, D, E
<1>. QED
  BY <1>1, <1>2

LEMMA TablesGrow ==
  ASSUME NEW r \in 0..15, NEW q \in 0..15, r <= q
  PROVE  TablesAt(r) \subseteq TablesAt(q)
<1>1. \A x \in DOMAIN Creator : Creator[x] \in 1..15
  BY DEF Creator
<1>. QED
  BY <1>1, TablesOfRevision

LEMMA PartsAreTables ==
  /\ "extraction_runs" \in TablesAt(Latest) /\ "quote_documents" \in TablesAt(Latest)
  /\ "quote_extraction_artifacts" \in TablesAt(Latest)
  /\ \A r \in 0..15 : /\ "extraction_runs" \in TablesAt(r) <=> r >= 4
                      /\ "quote_documents" \in TablesAt(r) <=> r >= 11
                      /\ "quote_extraction_artifacts" \in TablesAt(r) <=> r >= 12
<1>1. /\ {"extraction_runs", "quote_documents", "quote_extraction_artifacts"}
           \subseteq DOMAIN Creator
      /\ Creator["extraction_runs"] = 4 /\ Creator["quote_documents"] = 11
      /\ Creator["quote_extraction_artifacts"] = 12
  BY DEF Creator
<1>2. \A r \in 0..15 : /\ "extraction_runs" \in TablesAt(r) <=> r >= 4
                       /\ "quote_documents" \in TablesAt(r) <=> r >= 11
                       /\ "quote_extraction_artifacts" \in TablesAt(r) <=> r >= 12
  BY <1>1, TablesOfRevision
<1>. QED
  BY <1>2, FifteenMigrations

\* What migration r does to every row.
LEMMA MigratedDoes ==
  ASSUME NEW r \in 1..15, NEW rs \in Rows, KeysAreTheirs(rs),
         NEW new, new = Migrated(r, rs)
  PROVE  /\ SameRows(rs, new)
         /\ \A i \in Present(rs) :
              /\ new[i].key = IF r = 10 /\ rs[i].table = "email_messages" /\ Gives(rs, i)
                              THEN Legacy(rs[i].sendKey, i) ELSE rs[i].key
              /\ new[i].status =
                   IF r = 3 /\ rs[i].table = "tender_documents"
                      /\ rs[i].status \notin {"uploaded", "rejected"} THEN "rejected"
                   ELSE IF r = 9 /\ rs[i].table = "product_supplier_matches"
                          THEN "candidate"
                   ELSE rs[i].status
              /\ rs[i].parts \subseteq new[i].parts
              /\ r = 11 /\ rs[i].table = "quotes" => "quote_documents" \in new[i].parts
              /\ r = 12 /\ rs[i].table = "quote_extraction_runs"
                   /\ rs[i].status \in {"completed", "reused"}
                 => "quote_extraction_artifacts" \in new[i].parts
<1>0. \A i \in Present(rs) : rs[i] \in Row /\ rs[i].status \in Statuses
  BY InRows, RowsAreRows
<1>1. CASE r = 3
  <2>1. new = SetStatus(rs, "tender_documents", Statuses \ {"uploaded", "rejected"},
           "rejected")
    BY <1>1, MigratedIs DEF RejectUnknown
  <2>2. "rejected" \in Statuses
    BY SomeStatuses
  <2>. QED
    BY <1>0, <1>1, <2>1, <2>2, SetStatusDoes
<1>2. CASE r = 9
  <2>1. new = SetStatus(rs, "product_supplier_matches", Statuses, "candidate")
    BY <1>2, MigratedIs DEF CandidateMatches
  <2>2. "candidate" \in Statuses
    BY SomeStatuses
  <2>. QED
    BY <1>0, <1>2, <2>1, <2>2, SetStatusDoes
<1>3. CASE r = 10
  BY <1>3, MigratedIs, ReconcileDoes
<1>4. CASE r = 11
  <2>1. new = AddPart(rs, "quotes", Statuses, "quote_documents")
    BY <1>4, MigratedIs DEF DocumentEveryQuote
  <2>2. "quote_documents" \in TablesAt(Latest)
    BY PartsAreTables
  <2>3. /\ SameRows(rs, new)
        /\ \A i \in Present(rs) :
             /\ new[i].key = rs[i].key /\ new[i].status = rs[i].status
             /\ new[i].parts = IF rs[i].table = "quotes" /\ rs[i].status \in Statuses
                               THEN rs[i].parts \cup {"quote_documents"} ELSE rs[i].parts
    BY <2>1, <2>2, AddPartDoes
  <2>4. ASSUME NEW i \in Present(rs)
        PROVE  /\ rs[i].parts \subseteq new[i].parts
               /\ rs[i].table = "quotes" 
                  => "quote_documents" \in new[i].parts
    BY <1>0, <2>3
  <2>5. /\ \A i \in Present(rs) : new[i].key = rs[i].key /\ new[i].status = rs[i].status
        /\ SameRows(rs, new)
    BY <2>3
  <2>. QED
    BY <1>4, <2>4, <2>5
<1>5. CASE r = 12
  <2>1. new = AddPart(rs, "quote_extraction_runs", {"completed", "reused"},
                      "quote_extraction_artifacts")
    BY <1>5, MigratedIs DEF KeepAnswers
  <2>2. "quote_extraction_artifacts" \in TablesAt(Latest)
    BY PartsAreTables
  <2>3. /\ SameRows(rs, new)
        /\ \A i \in Present(rs) :
             /\ new[i].key = rs[i].key /\ new[i].status = rs[i].status
             /\ new[i].parts = IF rs[i].table = "quote_extraction_runs"
                    /\ rs[i].status \in {"completed", "reused"}
                               THEN rs[i].parts \cup {"quote_extraction_artifacts"} ELSE rs[i].parts
    BY <2>1, <2>2, AddPartDoes
  <2>4. ASSUME NEW i \in Present(rs)
        PROVE  /\ rs[i].parts \subseteq new[i].parts
               /\ rs[i].table = "quote_extraction_runs"
                      /\ rs[i].status \in {"completed", "reused"}
                  => "quote_extraction_artifacts" \in new[i].parts
    BY <1>0, <2>3
  <2>5. /\ \A i \in Present(rs) : new[i].key = rs[i].key /\ new[i].status = rs[i].status
        /\ SameRows(rs, new)
    BY <2>3
  <2>. QED
    BY <1>5, <2>4, <2>5
<1>6. CASE r \notin {3, 9, 10, 11, 12}
  <2>1. new = rs
    BY <1>6, MigratedIs
  <2>. QED
    BY <1>6, <2>1 DEF SameRows, SameRow
<1>. QED
  BY <1>1, <1>2, <1>3, <1>4, <1>5, <1>6

\* What undoing migration r leaves of every row.
LEMMA RevertedDoes ==
  ASSUME NEW r \in 1..15, NEW rs \in Rows, NEW new, new = Reverted(r, rs)
  PROVE  /\ new \in Rows
         /\ \A i \in Ids :
              new[i] # None <=> rs[i] # None /\ rs[i].table \in TablesAt(r - 1)
         /\ \A i \in Present(new) :
              /\ SameRow(rs[i], new[i]) /\ new[i].key = rs[i].key
              /\ new[i].parts = rs[i].parts \cap TablesAt(r - 1)
              /\ \/ new[i].status = rs[i].status
                 \/ rs[i].table = "tender_documents"
                    /\ new[i].status = "rejected"
                 \/ rs[i].table = "tender_documents"
                        /\ rs[i].status \notin {"deleted", "rejected"}
                    /\ new[i].status = "uploaded"
                 \/ rs[i].table = "product_supplier_matches" /\ new[i].status = "stored"
<1>. DEFINE A == Migrations[r] = DocumentManagement
            B == Migrations[r] = TextExtraction
            C == Migrations[r] = SupplierHardening
            data == CASE A -> RejectDeleted(rs)
                      [] B -> ForgetProcessing(rs)
                      [] C -> ForgetMatchStatus(rs)
                      [] OTHER -> rs
<1>1. Schema[r - 1].tables = TablesAt(r - 1)
  <2>1. r - 1 \in 0..Latest
    BY FifteenMigrations
  <2>. QED
    BY <2>1, Zenon DEF Schema
<1>2. /\ new = [i \in Ids |-> new[i]]
      /\ \A i \in Ids :
           new[i] = IF i \notin Present(data) \/ data[i].table \notin TablesAt(r - 1) THEN None
                    ELSE [data[i] EXCEPT !.parts = data[i].parts \cap TablesAt(r - 1)]
  <2>1. new = [i \in Ids |->
                 IF i \notin Present(data) \/ data[i].table \notin Schema[r - 1].tables THEN None
                 ELSE [data[i] EXCEPT !.parts = data[i].parts \cap Schema[r - 1].tables]]
    BY Zenon DEF Reverted
  <2>. HIDE DEF data
  <2>. QED
    BY <1>1, <2>1, Zenon
<1>3. /\ SameRows(rs, data)
      /\ \A i \in Present(rs) :
           /\ data[i].key = rs[i].key /\ data[i].parts = rs[i].parts
           /\ \/ data[i].status = rs[i].status
              \/ rs[i].table = "tender_documents" /\ data[i].status = "rejected"
              \/ rs[i].table = "tender_documents"
                     /\ rs[i].status \notin {"deleted", "rejected"}
                 /\ data[i].status = "uploaded"
              \/ rs[i].table = "product_supplier_matches" /\ data[i].status = "stored"
  <2>1. /\ A <=> r = 3
        /\ B <=> r = 4
        /\ C <=> r = 9
    BY WhichMigration
  <2>. HIDE DEF A, B, C
  <2>2. CASE A
    <3>1. data = SetStatus(rs, "tender_documents", {"deleted"}, "rejected")
      BY <2>1, <2>2 DEF RejectDeleted
    <3>. HIDE DEF data
    <3>. QED
      BY <3>1, SomeStatuses, SetStatusDoes
  <2>3. CASE B
    <3>1. data = SetStatus(rs, "tender_documents",
                           {"queued", "processing", "text_extracted", "ready_for_ai",
                            "needs_ocr", "failed"}, "uploaded")
      BY <2>1, <2>3 DEF ForgetProcessing
    <3>. HIDE DEF data
    <3>. QED
      BY <3>1, SomeStatuses, SetStatusDoes
  <2>4. CASE C
    <3>1. data = SetStatus(rs, "product_supplier_matches", Statuses, "stored")
      BY <2>1, <2>4 DEF ForgetMatchStatus
    <3>. HIDE DEF data
    <3>. QED
      BY <3>1, SomeStatuses, SetStatusDoes
  <2>5. CASE ~A /\ ~B /\ ~C
    <3>1. data = rs
      BY <2>5
    <3>. HIDE DEF data
    <3>. QED
      BY <3>1 DEF SameRows, SameRow
  <2>. QED
    BY <2>2, <2>3, <2>4, <2>5
<1>. HIDE DEF data
<1>4. /\ data \in Rows
      /\ \A i : i \in Present(data) <=> i \in Present(rs)
      /\ \A i \in Present(rs) : data[i].table = rs[i].table
  BY <1>3, InRows DEF SameRows, SameRow
<1>5. ASSUME NEW i \in Ids, ~(rs[i] # None /\ rs[i].table \in TablesAt(r - 1))
      PROVE  new[i] = None
  BY <1>2, <1>4, <1>5, InRows
<1>6. ASSUME NEW i \in Ids, rs[i] # None, rs[i].table \in TablesAt(r - 1)
      PROVE  /\ new[i] \in Row /\ SameRow(data[i], new[i]) /\ new[i].key = data[i].key
             /\ new[i].status = data[i].status
             /\ new[i].parts = data[i].parts \cap TablesAt(r - 1)
  <2>1. i \in Present(data) /\ data[i] \in Row /\ data[i].table = rs[i].table
    BY <1>4, <1>6, InRows
  <2>2. new[i] = [data[i] EXCEPT !.parts = data[i].parts \cap TablesAt(r - 1)]
    BY <1>2, <1>6, <2>1
  <2>3. data[i].parts \cap TablesAt(r - 1) \subseteq TablesAt(Latest)
    BY <2>1, RowsAreRows
  <2>4. PICK row, ps : row = data[i] /\ ps = data[i].parts \cap TablesAt(r - 1)
    OBVIOUS
  <2>5. row \in Row /\ ps \subseteq TablesAt(Latest) /\ new[i] = [row EXCEPT !.parts = ps]
    BY <2>1, <2>2, <2>3, <2>4, Zenon
  <2>6. /\ new[i] \in Row /\ SameRow(row, new[i]) /\ new[i].key = row.key
        /\ new[i].status = row.status /\ new[i].parts = ps
    BY <2>5, PartsChange
  <2>. QED
    BY <2>4, <2>6, Zenon
<1>7. \A i \in Ids : /\ new[i] \in Row \cup {None}
                     /\ new[i] # None <=> rs[i] # None /\ rs[i].table \in TablesAt(r - 1)
  BY <1>5, <1>6, RowsAreRows
<1>8. new \in Rows
  BY <1>2, <1>7 DEF Rows
<1>9. ASSUME NEW i \in Present(new)
      PROVE  /\ SameRow(rs[i], new[i]) /\ new[i].key = rs[i].key
             /\ new[i].parts = rs[i].parts \cap TablesAt(r - 1)
             /\ new[i].status = data[i].status
             /\ i \in Present(rs)
  <2>1. i \in Ids /\ rs[i] # None /\ rs[i].table \in TablesAt(r - 1) /\ i \in Present(rs)
    BY <1>7, <1>8, InRows
  <2>2. SameRow(rs[i], data[i])
    BY <1>3, <2>1 DEF SameRows
  <2>. QED
    BY <1>3, <1>6, <2>1, <2>2 DEF SameRow
<1>. QED
  BY <1>3, <1>7, <1>8, <1>9

-----------------------------------------------------------------------------
(* The inductive invariant, for a revision and the rows that are there        *)

\* Every row has a status its table has now, and the keys that are unique are.
Lawful(r, rs) ==
  /\ \A i \in Present(rs) :
       /\ rs[i].table \in TablesAt(r)
       /\ CheckAt(r, rs[i].table) = {} \/ rs[i].status \in CheckAt(r, rs[i].table)
  /\ r >= 10 => \A i, j \in In(rs, "email_messages") : i # j => rs[i].key # rs[j].key
  /\ r \in 6..8 => \A i, j \in In(rs, "supplier_sources") : i # j => rs[i].key # rs[j].key

\* Whoever asks for the key of a message that was sent finds one that was, also
\* while the key is not unique.
SentHolds(rs) ==
  \A i \in In(rs, "email_messages") : rs[i].status = "sent" =>
    \E j \in In(rs, "email_messages") : rs[j].key = rs[i].sendKey /\ rs[j].status = "sent"

Whole(r, rs) ==
  \A i \in Present(rs) : Needs(rs[i].table, rs[i].status) \cap TablesAt(r)
         \subseteq rs[i].parts

Out(rs) ==
  \A i \in Present(rs) : rs[i].deleted =>
    rs[i].table = "tender_documents" /\ rs[i].status \in {"deleted", "rejected"}

Sound(r, rs) ==
  /\ rs \in Rows
  /\ Lawful(r, rs)
  /\ KeysAreTheirs(rs)
  /\ SentHolds(rs)
  /\ Whole(r, rs)
  /\ Out(rs)

LEMMA SchemaIs ==
  ASSUME NEW r \in 0..15
  PROVE  /\ Schema[r].tables = TablesAt(r)
         /\ DOMAIN Schema[r].check = RowTables \cap TablesAt(r)
         /\ \A t \in RowTables \cap TablesAt(r) : Schema[r].check[t] = CheckAt(r, t)
         /\ EmailKey \in Schema[r].keys <=> r >= 10
         /\ SourceKey \in Schema[r].keys <=> r \in 6..8
<1>1. r \in 0..Latest
  BY FifteenMigrations
<1>2. Schema[r] = [tables |-> TablesAt(r), keys |-> KeysAt(r),
                   check |-> [t \in RowTables \cap TablesAt(r) |-> CheckAt(r, t)]]
  BY <1>1, Zenon DEF Schema
<1>. QED
  BY <1>2, KeysOfRevision

\* The database admits the rows that are lawful.
LEMMA AdmitsIsLawful ==
  ASSUME NEW r \in 0..15, NEW rs \in Rows
  PROVE  Admits(r, rs) <=> Lawful(r, rs)
<1>1. \A i \in Present(rs) : rs[i].table \in RowTables
  BY InRows, RowsAreRows
<1>. DEFINE Fits(i) == /\ rs[i].table \in DOMAIN Schema[r].check
                       /\ LET check == Schema[r].check[rs[i].table] IN
                          check = {} \/ rs[i].status \in check
            Single(t) == \A i, j \in In(rs, t) : i # j => rs[i].key # rs[j].key
<1>2. \A i \in Present(rs) :
        Fits(i) <=> /\ rs[i].table \in TablesAt(r)
                    /\ \/ CheckAt(r, rs[i].table) = {}
                       \/ rs[i].status \in CheckAt(r, rs[i].table)
  BY <1>1, SchemaIs
<1>3. /\ DOMAIN KeyOf = {"email_messages", "supplier_sources"}
      /\ KeyOf["email_messages"] = EmailKey /\ KeyOf["supplier_sources"] = SourceKey
  BY DEF KeyOf, EmailKey, SourceKey
<1>4. Admits(r, rs) <=> /\ \A i \in Present(rs) : Fits(i)
                        /\ \A t \in DOMAIN KeyOf : KeyOf[t] \in Schema[r].keys
                               => Single(t)
  BY Zenon DEF Admits
<1>5. Lawful(r, rs) <=> /\ \A i \in Present(rs) :
                              /\ rs[i].table \in TablesAt(r)
                              /\ \/ CheckAt(r, rs[i].table) = {}
                                 \/ rs[i].status \in CheckAt(r, rs[i].table)
                        /\ r >= 10 => Single("email_messages")
                        /\ r \in 6..8 => Single("supplier_sources")
  BY Zenon DEF Lawful
<1>. HIDE DEF Fits, Single
<1>. QED
  BY <1>2, <1>3, <1>4, <1>5, SchemaIs

LEMMA NeedsWhat ==
  ASSUME NEW t, NEW s, NEW p
  PROVE  p \in Needs(t, s) <=>
           \/ /\ t = "tender_documents"
                  /\ s \in {"text_extracted", "ready_for_ai", "needs_ocr"}
              /\ p = "extraction_runs"
           \/ t = "quotes" /\ p = "quote_documents"
           \/ /\ t = "quote_extraction_runs" /\ s \in {"completed", "reused"}
              /\ p = "quote_extraction_artifacts"
  BY DEF Needs

LEMMA DocumentsAtThree ==
  CheckAt(3, "tender_documents") = {"uploaded", "deleted", "rejected"}
<1>1. 3 \in 1..15 /\ Replaces(3, "tender_documents")
  BY DEF Replaces
<1>2. CheckAt(3, "tender_documents") = DocumentManagement.checks["tender_documents"]
  BY <1>1, WhoNames, CheckIsNew, FifteenMigrations
<1>. QED
  BY <1>2 DEF DocumentManagement, Adds

LEMMA MatchesAtNine ==
  "candidate" \in CheckAt(9, "product_supplier_matches")
<1>1. 9 \in 1..15 /\ Replaces(9, "product_supplier_matches")
  BY DEF Replaces
<1>2. CheckAt(9, "product_supplier_matches")
        = SupplierHardening.checks["product_supplier_matches"]
  BY <1>1, WhoNames, CheckIsNew, FifteenMigrations
<1>. QED
  BY <1>2 DEF SupplierHardening, Adds

-----------------------------------------------------------------------------
(* An upgrade                                                                 *)

\* The status a row has then is one its table has then.
LEMMA UpgradeFits ==
  ASSUME NEW r \in 1..15, NEW rs, Sound(r - 1, rs), NEW new, new = Migrated(r, rs),
         NEW i \in Present(new)
  PROVE  /\ new[i].table \in TablesAt(r)
         /\ CheckAt(r, new[i].table) = {} \/ new[i].status \in CheckAt(r, new[i].table)
<1>1. rs \in Rows /\ KeysAreTheirs(rs) /\ Lawful(r - 1, rs) /\ r - 1 \in 0..15
  BY DEF Sound
<1>2. SameRows(rs, new)
  BY <1>1, MigratedDoes
<1>3. i \in Present(rs) /\ SameRow(rs[i], new[i]) /\ new[i].table = rs[i].table
  BY <1>1, <1>2, InRows DEF SameRows, SameRow
<1>. DEFINE t == rs[i].table
<1>4. /\ t \in TablesAt(r - 1)
      /\ CheckAt(r - 1, t) = {} \/ rs[i].status \in CheckAt(r - 1, t)
  BY <1>1, <1>3 DEF Lawful
<1>5. new[i].status = IF r = 3 /\ t = "tender_documents"
                         /\ rs[i].status \notin {"uploaded", "rejected"} THEN "rejected"
                      ELSE IF r = 9 /\ t = "product_supplier_matches" THEN "candidate"
                      ELSE rs[i].status
  BY <1>1, <1>3, MigratedDoes
<1>6. t \in TablesAt(r)
  BY <1>1, <1>4, TablesGrow
<1>. HIDE DEF t
<1>7. CASE ~Named(r, t)
  <2>1. ~Replaces(r, t)
    BY <1>7, WhoNames
  <2>2. new[i].status = rs[i].status
    BY <1>5, <2>1 DEF Replaces
  <2>. QED
    BY <1>3, <1>4, <1>6, <1>7, <2>2, CheckStays DEF t
<1>8. CASE Named(r, t)
  <2>1. Replaces(r, t)
    <3>1. t \in DOMAIN Creator /\ Creator[t] <= r - 1 /\ Creator[t] \in 1..15
      BY <1>1, <1>4, TablesOfRevision DEF Creator
    <3>. QED
      BY <1>8, <3>1, WhoNames
  <2>2. CASE r = 3 /\ t = "tender_documents"
    BY <1>3, <1>5, <1>6, <2>2, DocumentsAtThree DEF t
  <2>3. CASE r = 9 /\ t = "product_supplier_matches"
    BY <1>3, <1>5, <1>6, <2>3, MatchesAtNine DEF t
  <2>4. CASE ~(r = 3 /\ t = "tender_documents") /\ ~(r = 9 /\ t
           = "product_supplier_matches")
    <3>1. CheckAt(r - 1, t) # {} /\ CheckAt(r - 1, t) \subseteq CheckAt(r, t)
      BY <1>4, <2>1, <2>4, ChecksWiden
    <3>2. new[i].status = rs[i].status
      BY <1>5, <2>4
    <3>. QED
      BY <1>3, <1>4, <1>6, <3>1, <3>2 DEF t
  <2>. QED
    BY <2>2, <2>3, <2>4
<1>. QED
  BY <1>7, <1>8

LEMMA UpgradeKeepsKeysApart ==
  ASSUME NEW r \in 1..15, NEW rs, Sound(r - 1, rs), NEW new, new = Migrated(r, rs)
  PROVE  /\ r >= 10 => \A i, j \in In(new, "email_messages") : i # j
           => new[i].key # new[j].key
         /\ r \in 6..8 =>
              \A i, j \in In(new, "supplier_sources") : i # j => new[i].key # new[j].key
<1>1. rs \in Rows /\ KeysAreTheirs(rs) /\ Lawful(r - 1, rs) /\ r - 1 \in 0..15
  BY DEF Sound
<1>2. SameRows(rs, new)
  BY <1>1, MigratedDoes
<1>3. \A t, i : i \in In(new, t) <=> i \in In(rs, t)
  BY <1>1, <1>2, InRows DEF SameRows, SameRow
<1>4. \A i \in Present(rs) : r # 10 \/ rs[i].table # "email_messages" => new[i].key
         = rs[i].key
  BY <1>1, MigratedDoes
<1>5. CASE r = 10
  <2>1. new = ReconcileLegacyMessages(rs)
    BY <1>5, MigratedIs
  <2>. QED
    BY <1>1, <1>3, <1>5, <2>1, ReconciledKeysAreUnique
<1>6. ASSUME r > 10, NEW i \in In(new, "email_messages"), NEW j \in In(new,
         "email_messages"), i # j
      PROVE  new[i].key # new[j].key
  <2>1. i \in In(rs, "email_messages") /\ j \in In(rs, "email_messages")
        /\ i \in Present(rs) /\ j \in Present(rs)
    BY <1>1, <1>3, InRows
  <2>2. rs[i].key # rs[j].key
    BY <1>1, <1>6, <2>1 DEF Lawful
  <2>. QED
    BY <1>4, <1>6, <2>1, <2>2
<1>7. ASSUME r \in 6..8, NEW i \in In(new, "supplier_sources"), NEW j \in In(new,
         "supplier_sources"), i # j
      PROVE  new[i].key # new[j].key
  <2>1. i \in In(rs, "supplier_sources") /\ j \in In(rs, "supplier_sources")
        /\ i \in Present(rs) /\ j \in Present(rs) /\ rs[i].table = "supplier_sources"
    BY <1>1, <1>3, InRows
  <2>2. r # 6
    <3>1. "supplier_sources" \in TablesAt(r - 1)
      BY <1>1, <2>1 DEF Lawful
    <3>2. Creator["supplier_sources"] = 6
      BY DEF Creator
    <3>. QED
      BY <1>1, <3>1, <3>2, TablesOfRevision
  <2>3. r - 1 \in 6..8
    BY <1>7, <2>2
  <2>4. rs[i].key # rs[j].key
    BY <1>1, <1>7, <2>1, <2>3 DEF Lawful
  <2>. QED
    BY <1>4, <1>7, <2>1, <2>4
<1>. QED
  BY <1>5, <1>6, <1>7

LEMMA UpgradeKeepsKeysTheirs ==
  ASSUME NEW r \in 1..15, NEW rs, Sound(r - 1, rs), NEW new, new = Migrated(r, rs)
  PROVE  KeysAreTheirs(new)
<1>1. rs \in Rows /\ KeysAreTheirs(rs)
  BY DEF Sound
<1>2. SameRows(rs, new)
  BY <1>1, MigratedDoes
<1>3. ASSUME NEW i \in In(new, "email_messages")
      PROVE  /\ new[i].sendKey \in Keys
             /\ new[i].key = new[i].sendKey \/ new[i].key = Legacy(new[i].sendKey, i)
  <2>1. i \in In(rs, "email_messages") /\ i \in Present(rs) /\ new[i].sendKey
           = rs[i].sendKey
    BY <1>1, <1>2, InRows DEF SameRows, SameRow
  <2>2. new[i].key = rs[i].key \/ new[i].key = Legacy(rs[i].sendKey, i)
    BY <1>1, <2>1, MigratedDoes
  <2>. QED
    BY <1>1, <2>1, <2>2 DEF KeysAreTheirs
<1>. QED
  BY <1>3 DEF KeysAreTheirs

LEMMA UpgradeKeepsSent ==
  ASSUME NEW r \in 1..15, NEW rs, Sound(r - 1, rs), NEW new, new = Migrated(r, rs)
  PROVE  SentHolds(new)
<1>1. rs \in Rows /\ KeysAreTheirs(rs) /\ SentHolds(rs)
  BY DEF Sound
<1>2. SameRows(rs, new)
  BY <1>1, MigratedDoes
<1>3. \A i : i \in In(new, "email_messages") <=> i \in In(rs, "email_messages")
  BY <1>1, <1>2, InRows DEF SameRows, SameRow
<1>4. \A i \in In(rs, "email_messages") :
        /\ new[i].sendKey = rs[i].sendKey /\ new[i].status = rs[i].status
        /\ ~Gives(rs, i) => new[i].key = rs[i].key
        /\ r # 10 => new[i].key = rs[i].key
  <2>1. \A i \in In(rs, "email_messages") : i \in Present(rs) /\ rs[i].table
           = "email_messages"
    BY <1>1, InRows
  <2>2. \A i \in Present(rs) : new[i].sendKey = rs[i].sendKey
    BY <1>2 DEF SameRows, SameRow
  <2>. QED
    BY <1>1, <2>1, <2>2, MigratedDoes
<1>. SUFFICES ASSUME NEW i \in In(rs, "email_messages"), rs[i].status = "sent"
              PROVE  \E j \in In(rs, "email_messages") :
                       new[j].key = rs[i].sendKey /\ new[j].status = "sent"
  BY <1>3, <1>4 DEF SentHolds
<1>. DEFINE S == {j \in In(rs, "email_messages") :
                    rs[j].key = rs[i].sendKey /\ rs[j].status = "sent"}
<1>5. S # {} /\ S \subseteq Nat
  <2>1. In(rs, "email_messages") \subseteq Nat
    BY RowsAssumption DEF In, Present
  <2>. QED
    BY <1>1, <2>1 DEF SentHolds
<1>6. PICK j \in S : \A l \in S : j <= l
  BY <1>5, LeastNatural
<1>7. ~Gives(rs, j)
  <2>. SUFFICES ASSUME NEW l \in In(rs, "email_messages"), rs[l].key = rs[j].key
                PROVE  First(rs, j, l)
    BY Zenon DEF Gives
  <2>1. rs[l].status = "sent" => j <= l
    BY <1>6
  <2>2. j \in Ids /\ l \in Ids
    BY <1>6 DEF In, Present
  <2>. QED
    BY <1>6, <2>1, <2>2, FirstIsAnOrder
<1>. QED
  BY <1>4, <1>6, <1>7

LEMMA UpgradeKeepsWhole ==
  ASSUME NEW r \in 1..15, NEW rs, Sound(r - 1, rs), NEW new, new = Migrated(r, rs)
  PROVE  Whole(r, new)
<1>1. rs \in Rows /\ KeysAreTheirs(rs) /\ Lawful(r - 1, rs) /\ Whole(r - 1, rs)
         /\ r - 1 \in 0..15
  BY DEF Sound
<1>2. SameRows(rs, new)
  BY <1>1, MigratedDoes
<1>. SUFFICES ASSUME NEW i \in Present(new), NEW p \in Needs(new[i].table, new[i].status),
                     p \in TablesAt(r)
              PROVE  p \in new[i].parts
  BY DEF Whole
<1>3. i \in Present(rs) /\ new[i].table = rs[i].table
  BY <1>1, <1>2, InRows DEF SameRows, SameRow
<1>. DEFINE t == rs[i].table
            s == rs[i].status
<1>4. /\ new[i].status =
           IF r = 3 /\ t = "tender_documents"
                  /\ s \notin {"uploaded", "rejected"} THEN "rejected"
           ELSE IF r = 9 /\ t = "product_supplier_matches" THEN "candidate" ELSE s
      /\ rs[i].parts \subseteq new[i].parts
      /\ r = 11 /\ t = "quotes" => "quote_documents" \in new[i].parts
      /\ r = 12 /\ t = "quote_extraction_runs" /\ s \in {"completed", "reused"}
         => "quote_extraction_artifacts" \in new[i].parts
  BY <1>1, <1>3, MigratedDoes
<1>5. p \in Needs(t, s)
  BY <1>3, <1>4, NeedsWhat
<1>6. p \in TablesAt(r - 1) => p \in new[i].parts
  BY <1>1, <1>3, <1>4, <1>5 DEF Whole
<1>7. /\ t \in TablesAt(r - 1)
      /\ CheckAt(r - 1, t) = {} \/ s \in CheckAt(r - 1, t)
  BY <1>1, <1>3 DEF Lawful
<1>. HIDE DEF t, s
<1>8. CASE /\ t = "tender_documents"
         /\ s \in {"text_extracted", "ready_for_ai", "needs_ocr"}
           /\ p = "extraction_runs"
  <2>1. r # 4
    BY <1>7, <1>8, DocumentsAtThree
  <2>2. r >= 4
    BY <1>8, PartsAreTables
  <2>3. p \in TablesAt(r - 1)
    BY <1>1, <1>8, <2>1, <2>2, PartsAreTables
  <2>. QED
    BY <1>6, <2>3
<1>9. CASE t = "quotes" /\ p = "quote_documents"
  <2>1. r = 11 \/ p \in TablesAt(r - 1)
    BY <1>1, <1>9, PartsAreTables
  <2>. QED
    BY <1>4, <1>6, <1>9, <2>1
<1>10. CASE /\ t = "quote_extraction_runs" /\ s \in {"completed", "reused"}
            /\ p = "quote_extraction_artifacts"
  <2>1. r = 12 \/ p \in TablesAt(r - 1)
    BY <1>1, <1>10, PartsAreTables
  <2>. QED
    BY <1>4, <1>6, <1>10, <2>1
<1>. QED
  BY <1>5, <1>8, <1>9, <1>10, NeedsWhat

LEMMA UpgradeKeepsOut ==
  ASSUME NEW r \in 1..15, NEW rs, Sound(r - 1, rs), NEW new, new = Migrated(r, rs)
  PROVE  Out(new)
<1>1. rs \in Rows /\ KeysAreTheirs(rs) /\ Out(rs)
  BY DEF Sound
<1>2. SameRows(rs, new)
  BY <1>1, MigratedDoes
<1>3. ASSUME NEW i \in Present(new), new[i].deleted
      PROVE  new[i].table = "tender_documents"
               /\ new[i].status \in {"deleted", "rejected"}
  <2>1. i \in Present(rs) /\ new[i].table = rs[i].table /\ rs[i].deleted
    BY <1>1, <1>2, <1>3, InRows DEF SameRows, SameRow
  <2>2. rs[i].table = "tender_documents" /\ rs[i].status \in {"deleted", "rejected"}
    BY <1>1, <2>1 DEF Out
  <2>3. new[i].status = rs[i].status \/ new[i].status = "rejected"
    BY <1>1, <2>1, <2>2, MigratedDoes
  <2>. QED
    BY <2>1, <2>2, <2>3
<1>. QED
  BY <1>3 DEF Out

LEMMA UpgradeIsSound ==
  ASSUME NEW r \in 1..15, NEW rs, Sound(r - 1, rs)
  PROVE  Sound(r, Migrated(r, rs))
<1>. DEFINE new == Migrated(r, rs)
<1>1. rs \in Rows /\ KeysAreTheirs(rs)
  BY DEF Sound
<1>2. new \in Rows
  BY <1>1, MigratedDoes DEF SameRows
<1>. HIDE DEF new
<1>3. new = Migrated(r, rs)
  BY DEF new
<1>4. Lawful(r, new)
  <2>1. \A i \in Present(new) :
          /\ new[i].table \in TablesAt(r)
          /\ CheckAt(r, new[i].table) = {} \/ new[i].status \in CheckAt(r, new[i].table)
    BY <1>3, UpgradeFits
  <2>2. /\ r >= 10 =>
             \A i, j \in In(new, "email_messages") : i # j => new[i].key # new[j].key
        /\ r \in 6..8 =>
             \A i, j \in In(new, "supplier_sources") : i # j => new[i].key # new[j].key
    BY <1>3, UpgradeKeepsKeysApart
  <2>. QED
    BY <2>1, <2>2, Zenon DEF Lawful
<1>5. KeysAreTheirs(new) /\ SentHolds(new) /\ Whole(r, new) /\ Out(new)
  BY <1>3, UpgradeKeepsKeysTheirs, UpgradeKeepsSent, UpgradeKeepsWhole, UpgradeKeepsOut
<1>. QED
  BY <1>2, <1>3, <1>4, <1>5 DEF Sound

-----------------------------------------------------------------------------
(* A downgrade                                                                *)

LEMMA DowngradeIsSound ==
  ASSUME NEW r \in 1..15, NEW rs, Sound(r, rs), NEW new, new = Reverted(r, rs),
         Admits(r - 1, new)
  PROVE  Sound(r - 1, new)
<1>1. /\ rs \in Rows /\ KeysAreTheirs(rs) /\ SentHolds(rs) /\ Whole(r, rs) /\ Out(rs)
      /\ r - 1 \in 0..15
  BY DEF Sound
<1>2. new \in Rows
  BY <1>1, RevertedDoes
<1>3. Lawful(r - 1, new)
  BY <1>1, <1>2, AdmitsIsLawful
<1>4. ASSUME NEW i \in Present(new)
      PROVE  /\ i \in Present(rs) /\ new[i].table = rs[i].table
             /\ rs[i].table \in TablesAt(r - 1)
             /\ new[i].sendKey = rs[i].sendKey /\ new[i].deleted = rs[i].deleted
             /\ new[i].key = rs[i].key
             /\ new[i].parts = rs[i].parts \cap TablesAt(r - 1)
             /\ \/ new[i].status = rs[i].status
                \/ rs[i].table = "tender_documents" /\ new[i].status = "rejected"
                \/ rs[i].table = "tender_documents"
                       /\ rs[i].status \notin {"deleted", "rejected"}
                   /\ new[i].status = "uploaded"
                \/ rs[i].table = "product_supplier_matches" /\ new[i].status = "stored"
  <2>1. i \in Ids /\ new[i] # None
    BY <1>2, InRows
  <2>2. rs[i] # None /\ rs[i].table \in TablesAt(r - 1) /\ i \in Present(rs)
    BY <1>1, <2>1, RevertedDoes, InRows
  <2>. QED
    BY <1>1, <2>2, RevertedDoes DEF SameRow
<1>5. KeysAreTheirs(new)
  <2>1. ASSUME NEW i \in In(new, "email_messages")
        PROVE  /\ new[i].sendKey \in Keys
               /\ new[i].key = new[i].sendKey \/ new[i].key = Legacy(new[i].sendKey, i)
    <3>1. i \in Present(new) /\ new[i].table = "email_messages"
      BY <1>2, InRows
    <3>2. i \in In(rs, "email_messages")
      BY <1>1, <1>4, <3>1, InRows
    <3>. QED
      BY <1>1, <1>4, <3>1, <3>2 DEF KeysAreTheirs
  <2>. QED
    BY <2>1 DEF KeysAreTheirs
<1>6. SentHolds(new)
  <2>. SUFFICES ASSUME NEW i \in In(new, "email_messages"), new[i].status = "sent"
                PROVE  \E j \in In(new, "email_messages") :
                         new[j].key = new[i].sendKey /\ new[j].status = "sent"
    BY DEF SentHolds
  <2>1. i \in Present(new) /\ new[i].table = "email_messages"
    BY <1>2, InRows
  <2>2. /\ i \in In(rs, "email_messages") /\ rs[i].status = "sent"
        /\ new[i].sendKey = rs[i].sendKey /\ "email_messages" \in TablesAt(r - 1)
    BY <1>1, <1>4, <2>1, InRows
  <2>3. PICK j \in In(rs, "email_messages") :
          rs[j].key = rs[i].sendKey /\ rs[j].status = "sent"
    BY <1>1, <2>2 DEF SentHolds
  <2>4. j \in Present(rs) /\ rs[j].table = "email_messages"
    BY <1>1, InRows
  <2>5. j \in Present(new)
    <3>1. j \in Ids /\ rs[j] # None
      BY <1>1, <2>4, InRows
    <3>2. new[j] # None
      BY <1>1, <2>2, <2>4, <3>1, RevertedDoes
    <3>. QED
      BY <1>2, <3>1, <3>2, InRows
  <2>6. j \in In(new, "email_messages") /\ new[j].key = rs[j].key /\ new[j].status
           = rs[j].status
    BY <1>2, <1>4, <2>4, <2>5, InRows
  <2>. QED
    BY <2>2, <2>3, <2>6
<1>7. Whole(r - 1, new)
  <2>. SUFFICES ASSUME NEW i \in Present(new), NEW p \in Needs(new[i].table,
           new[i].status),
                       p \in TablesAt(r - 1)
                PROVE  p \in new[i].parts
    BY DEF Whole
  <2>1. p \in Needs(rs[i].table, rs[i].status)
    BY <1>4, NeedsWhat
  <2>2. p \in TablesAt(r)
    BY <1>1, TablesGrow
  <2>. QED
    BY <1>1, <1>4, <2>1, <2>2 DEF Whole
<1>8. Out(new)
  <2>1. ASSUME NEW i \in Present(new), new[i].deleted
        PROVE  new[i].table = "tender_documents"
                 /\ new[i].status \in {"deleted", "rejected"}
    BY <1>1, <1>4, <2>1 DEF Out
  <2>. QED
    BY <2>1 DEF Out
<1>. QED
  BY <1>2, <1>3, <1>5, <1>6, <1>7, <1>8 DEF Sound

-----------------------------------------------------------------------------
(* The checks of the last revision                                            *)

\* Where a check is replaced or made for the last time.
LEMMA LastChecks ==
  /\ CheckAt(15, "tenders") = QuoteComparison.checks["tenders"]
  /\ CheckAt(15, "tender_documents") = TextExtraction.checks["tender_documents"]
  /\ CheckAt(15, "catalog_products") = QuoteComparison.checks["catalog_products"]
  /\ CheckAt(15, "tender_suppliers") = QuoteComparison.checks["tender_suppliers"]
  /\ CheckAt(15, "rfq_requests") = RfqHardening.checks["rfq_requests"]
  /\ CheckAt(15, "email_messages") = RfqHardening.checks["email_messages"]
  /\ CheckAt(15, "quotes") = AnalysisContract.checks["quotes"]
  /\ CheckAt(15, "quote_extraction_runs")
         = AnalysisContract.checks["quote_extraction_runs"]
  /\ CheckAt(15, "comparisons") = ComparisonTables.tables["comparisons"]
  /\ CheckAt(15, "extraction_runs") = TextExtraction.tables["extraction_runs"]
  /\ CheckAt(15, "ai_extraction_runs") = ReviewTables.tables["ai_extraction_runs"]
  /\ CheckAt(15, "supplier_discovery_runs")
         = DiscoveryTables.tables["supplier_discovery_runs"]
  /\ CheckAt(15, "product_supplier_matches")
         = SupplierHardening.checks["product_supplier_matches"]
  /\ CheckAt(15, "supplier_merge_suggestions")
         = DiscoveryTables.tables["supplier_merge_suggestions"]
  /\ CheckAt(15, "rfq_task_records") = RfqHardening.tables["rfq_task_records"]
  /\ CheckAt(15, "outbound_message_logs") = DeliveryTables.tables["outbound_message_logs"]
  /\ CheckAt(15, "quote_task_records") = QuoteIntake.tables["quote_task_records"]
  /\ CheckAt(15, "comparison_items") = ComparisonTables.tables["comparison_items"]
  /\ CheckAt(15, "comparison_offers") = ComparisonTables.tables["comparison_offers"]
  /\ CheckAt(15, "recommendations") = Recommendations.tables["recommendations"]
<1>1. CheckAt(15, "tenders") = QuoteComparison.checks["tenders"]
  <2>1. LastlyBy(15, "tenders", 8) /\ Replaces(8, "tenders")
    BY DEF LastlyBy, Replaces, Creator
  <2>. QED
    BY <2>1, CheckOf, FifteenMigrations
<1>2. CheckAt(15, "tender_documents") = TextExtraction.checks["tender_documents"]
  <2>1. LastlyBy(15, "tender_documents", 4) /\ Replaces(4, "tender_documents")
    BY DEF LastlyBy, Replaces, Creator
  <2>. QED
    BY <2>1, CheckOf, FifteenMigrations
<1>3. CheckAt(15, "catalog_products") = QuoteComparison.checks["catalog_products"]
  <2>1. LastlyBy(15, "catalog_products", 8) /\ Replaces(8, "catalog_products")
    BY DEF LastlyBy, Replaces, Creator
  <2>. QED
    BY <2>1, CheckOf, FifteenMigrations
<1>4. CheckAt(15, "tender_suppliers") = QuoteComparison.checks["tender_suppliers"]
  <2>1. LastlyBy(15, "tender_suppliers", 8) /\ Replaces(8, "tender_suppliers")
    BY DEF LastlyBy, Replaces, Creator
  <2>. QED
    BY <2>1, CheckOf, FifteenMigrations
<1>5. CheckAt(15, "rfq_requests") = RfqHardening.checks["rfq_requests"]
  <2>1. LastlyBy(15, "rfq_requests", 10) /\ Replaces(10, "rfq_requests")
    BY DEF LastlyBy, Replaces, Creator
  <2>. QED
    BY <2>1, CheckOf, FifteenMigrations
<1>6. CheckAt(15, "email_messages") = RfqHardening.checks["email_messages"]
  <2>1. LastlyBy(15, "email_messages", 10) /\ Replaces(10, "email_messages")
    BY DEF LastlyBy, Replaces, Creator
  <2>. QED
    BY <2>1, CheckOf, FifteenMigrations
<1>7. CheckAt(15, "quotes") = AnalysisContract.checks["quotes"]
  <2>1. LastlyBy(15, "quotes", 12) /\ Replaces(12, "quotes")
    BY DEF LastlyBy, Replaces, Creator
  <2>. QED
    BY <2>1, CheckOf, FifteenMigrations
<1>8. CheckAt(15, "quote_extraction_runs")
         = AnalysisContract.checks["quote_extraction_runs"]
  <2>1. LastlyBy(15, "quote_extraction_runs", 12) /\ Replaces(12, "quote_extraction_runs")
    BY DEF LastlyBy, Replaces, Creator
  <2>. QED
    BY <2>1, CheckOf, FifteenMigrations
<1>9. CheckAt(15, "comparisons") = ComparisonTables.tables["comparisons"]
  <2>1. LastlyBy(15, "comparisons", 13) /\ ~Replaces(13, "comparisons")
    BY DEF LastlyBy, Replaces, Creator
  <2>. QED
    BY <2>1, CheckOf, FifteenMigrations
<1>10. CheckAt(15, "extraction_runs") = TextExtraction.tables["extraction_runs"]
  <2>1. LastlyBy(15, "extraction_runs", 4) /\ ~Replaces(4, "extraction_runs")
    BY DEF LastlyBy, Replaces, Creator
  <2>. QED
    BY <2>1, CheckOf, FifteenMigrations
<1>11. CheckAt(15, "ai_extraction_runs") = ReviewTables.tables["ai_extraction_runs"]
  <2>1. LastlyBy(15, "ai_extraction_runs", 5) /\ ~Replaces(5, "ai_extraction_runs")
    BY DEF LastlyBy, Replaces, Creator
  <2>. QED
    BY <2>1, CheckOf, FifteenMigrations
<1>12. CheckAt(15, "supplier_discovery_runs")
         = DiscoveryTables.tables["supplier_discovery_runs"]
  <2>1. LastlyBy(15, "supplier_discovery_runs", 6)
           /\ ~Replaces(6, "supplier_discovery_runs")
    BY DEF LastlyBy, Replaces, Creator
  <2>. QED
    BY <2>1, CheckOf, FifteenMigrations
<1>13. CheckAt(15, "product_supplier_matches")
         = SupplierHardening.checks["product_supplier_matches"]
  <2>1. LastlyBy(15, "product_supplier_matches", 9)
           /\ Replaces(9, "product_supplier_matches")
    BY DEF LastlyBy, Replaces, Creator
  <2>. QED
    BY <2>1, CheckOf, FifteenMigrations
<1>14. CheckAt(15, "supplier_merge_suggestions")
         = DiscoveryTables.tables["supplier_merge_suggestions"]
  <2>1. LastlyBy(15, "supplier_merge_suggestions", 6)
           /\ ~Replaces(6, "supplier_merge_suggestions")
    BY DEF LastlyBy, Replaces, Creator
  <2>. QED
    BY <2>1, CheckOf, FifteenMigrations
<1>15. CheckAt(15, "rfq_task_records") = RfqHardening.tables["rfq_task_records"]
  <2>1. LastlyBy(15, "rfq_task_records", 10) /\ ~Replaces(10, "rfq_task_records")
    BY DEF LastlyBy, Replaces, Creator
  <2>. QED
    BY <2>1, CheckOf, FifteenMigrations
<1>16. CheckAt(15, "outbound_message_logs")
         = DeliveryTables.tables["outbound_message_logs"]
  <2>1. LastlyBy(15, "outbound_message_logs", 7) /\ ~Replaces(7, "outbound_message_logs")
    BY DEF LastlyBy, Replaces, Creator
  <2>. QED
    BY <2>1, CheckOf, FifteenMigrations
<1>17. CheckAt(15, "quote_task_records") = QuoteIntake.tables["quote_task_records"]
  <2>1. LastlyBy(15, "quote_task_records", 11) /\ ~Replaces(11, "quote_task_records")
    BY DEF LastlyBy, Replaces, Creator
  <2>. QED
    BY <2>1, CheckOf, FifteenMigrations
<1>18. CheckAt(15, "comparison_items") = ComparisonTables.tables["comparison_items"]
  <2>1. LastlyBy(15, "comparison_items", 13) /\ ~Replaces(13, "comparison_items")
    BY DEF LastlyBy, Replaces, Creator
  <2>. QED
    BY <2>1, CheckOf, FifteenMigrations
<1>19. CheckAt(15, "comparison_offers") = ComparisonTables.tables["comparison_offers"]
  <2>1. LastlyBy(15, "comparison_offers", 13) /\ ~Replaces(13, "comparison_offers")
    BY DEF LastlyBy, Replaces, Creator
  <2>. QED
    BY <2>1, CheckOf, FifteenMigrations
<1>20. CheckAt(15, "recommendations") = Recommendations.tables["recommendations"]
  <2>1. LastlyBy(15, "recommendations", 15) /\ ~Replaces(15, "recommendations")
    BY DEF LastlyBy, Replaces, Creator
  <2>. QED
    BY <2>1, CheckOf, FifteenMigrations
<1>. QED
  BY <1>1, <1>2, <1>3, <1>4, <1>5, <1>6, <1>7, <1>8, <1>9, <1>10, <1>11, <1>12, <1>13,
     <1>14, <1>15, <1>16, <1>17, <1>18, <1>19, <1>20

\* The application writes all that the checks of its tables admit, and no more.
LEMMA WrittenFits ==
  ASSUME NEW t \in DOMAIN Written
  PROVE  Written[t] = CheckAt(15, t) /\ Written[t] # {}
<1>1. CASE t = "tenders"
  <2>1. Written["tenders"] = TenderStatus
    BY DEF Written
  <2>2. TenderStatus = QuoteComparison.checks["tenders"] /\ TenderStatus # {}
    BY DEF QuoteComparison, Adds, NoTables, TenderStatus, QuoteTables,
           ExpandStateConstraints
  <2>. QED
    BY <1>1, <2>1, <2>2, LastChecks
<1>2. CASE t = "tender_documents"
  <2>1. Written["tender_documents"] = DocumentStatus
    BY DEF Written
  <2>2. DocumentStatus = TextExtraction.checks["tender_documents"] /\ DocumentStatus # {}
    BY DEF TextExtraction, Adds, NoTables, DocumentStatus
  <2>. QED
    BY <1>2, <2>1, <2>2, LastChecks
<1>3. CASE t = "catalog_products"
  <2>1. Written["catalog_products"] = ProductStatus
    BY DEF Written
  <2>2. ProductStatus = QuoteComparison.checks["catalog_products"] /\ ProductStatus # {}
    BY DEF QuoteComparison, Adds, NoTables, ProductStatus, QuoteTables,
           ExpandStateConstraints
  <2>. QED
    BY <1>3, <2>1, <2>2, LastChecks
<1>4. CASE t = "tender_suppliers"
  <2>1. Written["tender_suppliers"] = SupplierStatus
    BY DEF Written
  <2>2. SupplierStatus = QuoteComparison.checks["tender_suppliers"] /\ SupplierStatus # {}
    BY DEF QuoteComparison, Adds, NoTables, SupplierStatus, QuoteTables,
           ExpandStateConstraints
  <2>. QED
    BY <1>4, <2>1, <2>2, LastChecks
<1>5. CASE t = "rfq_requests"
  <2>1. Written["rfq_requests"] = RfqStatus
    BY DEF Written
  <2>2. RfqStatus = RfqHardening.checks["rfq_requests"] /\ RfqStatus # {}
    BY DEF RfqHardening, Adds, NoTables, RfqStatus
  <2>. QED
    BY <1>5, <2>1, <2>2, LastChecks
<1>6. CASE t = "email_messages"
  <2>1. Written["email_messages"] = EmailMessageStatus
    BY DEF Written
  <2>2. EmailMessageStatus = RfqHardening.checks["email_messages"]
           /\ EmailMessageStatus # {}
    BY DEF RfqHardening, Adds, NoTables, EmailMessageStatus
  <2>. QED
    BY <1>6, <2>1, <2>2, LastChecks
<1>7. CASE t = "quotes"
  <2>1. Written["quotes"] = QuoteStatus
    BY DEF Written
  <2>2. QuoteStatus = AnalysisContract.checks["quotes"] /\ QuoteStatus # {}
    BY DEF AnalysisContract, Adds, NoTables, QuoteStatus
  <2>. QED
    BY <1>7, <2>1, <2>2, LastChecks
<1>8. CASE t = "quote_extraction_runs"
  <2>1. Written["quote_extraction_runs"] = QuoteExtractionRunStatus
    BY DEF Written
  <2>2. QuoteExtractionRunStatus = AnalysisContract.checks["quote_extraction_runs"]
           /\ QuoteExtractionRunStatus # {}
    BY DEF AnalysisContract, Adds, NoTables, QuoteExtractionRunStatus, JobStatuses
  <2>. QED
    BY <1>8, <2>1, <2>2, LastChecks
<1>9. CASE t = "comparisons"
  <2>1. Written["comparisons"] = ComparisonStatus
    BY DEF Written
  <2>2. ComparisonStatus = ComparisonTables.tables["comparisons"] /\ ComparisonStatus # {}
    BY DEF ComparisonTables, Adds, NoTables, ComparisonStatus, Both, Comparisons,
           ComparisonLines
  <2>. QED
    BY <1>9, <2>1, <2>2, LastChecks
<1>10. t \in {"tenders", "tender_documents", "catalog_products", "tender_suppliers",
         "rfq_requests", "email_messages", "quotes", "quote_extraction_runs",
                "comparisons"}
  BY DEF Written
<1>. QED
  BY <1>1, <1>2, <1>3, <1>4, <1>5, <1>6, <1>7, <1>8, <1>9, <1>10

\* The tables a model declares a status check for.
Checked ==
  {"tenders", "tender_documents", "catalog_products",
   "tender_suppliers", "rfq_requests", "email_messages",
   "quotes", "quote_extraction_runs", "comparisons",
   "extraction_runs", "ai_extraction_runs", "supplier_discovery_runs",
   "product_supplier_matches", "supplier_merge_suggestions", "rfq_task_records",
   "outbound_message_logs", "quote_task_records", "comparison_items",
   "comparison_offers", "recommendations"}

LEMMA BothSay ==
  ASSUME NEW f, NEW g
  PROVE  /\ DOMAIN Both(f, g) = DOMAIN f \cup DOMAIN g
         /\ \A t \in DOMAIN f : Both(f, g)[t] = f[t]
         /\ \A t \in DOMAIN g : t \notin DOMAIN f => Both(f, g)[t] = g[t]
  BY DEF Both

LEMMA DeclaredForTendersSays ==
  /\ DOMAIN DeclaredForTenders =
       {"users", "audit_events", "tenders", "tender_documents", "extraction_runs",
        "document_pages", "document_qualities", "ai_extraction_runs",
        "catalog_products", "catalog_product_revisions", "extracted_evidence",
        "evidence_references", "catalog_snapshots"}
  /\ DeclaredForTenders["tenders"] = TenderModels["tenders"]
  /\ DeclaredForTenders["tender_documents"] = TenderModels["tender_documents"]
  /\ DeclaredForTenders["extraction_runs"] = ProcessingModels["extraction_runs"]
  /\ DeclaredForTenders["ai_extraction_runs"] = CatalogModels["ai_extraction_runs"]
  /\ DeclaredForTenders["catalog_products"] = CatalogModels["catalog_products"]
  /\ \A t \in DOMAIN DeclaredForTenders : t \notin Checked => DeclaredForTenders[t] = {}
  BY DEF DeclaredForTenders, Both, Checked, ModelTables, TenderModels,
         ProcessingModels, CatalogModels

LEMMA DeclaredForRfqsSays ==
  /\ DOMAIN DeclaredForRfqs =
       {"supplier_discovery_runs", "suppliers", "supplier_contacts",
        "supplier_sources", "tender_suppliers", "product_supplier_matches",
        "supplier_merge_suggestions", "rfq_requests", "rfq_versions",
        "email_attachments", "email_messages", "rfq_task_records",
        "outbound_message_logs"}
  /\ DeclaredForRfqs["supplier_discovery_runs"]
         = SupplierModels["supplier_discovery_runs"]
  /\ DeclaredForRfqs["tender_suppliers"] = TenderSupplierModels["tender_suppliers"]
  /\ DeclaredForRfqs["product_supplier_matches"]
         = TenderSupplierModels["product_supplier_matches"]
  /\ DeclaredForRfqs["supplier_merge_suggestions"]
         = TenderSupplierModels["supplier_merge_suggestions"]
  /\ DeclaredForRfqs["rfq_requests"] = RfqModels["rfq_requests"]
  /\ DeclaredForRfqs["email_messages"] = MessageModels["email_messages"]
  /\ DeclaredForRfqs["rfq_task_records"] = MessageModels["rfq_task_records"]
  /\ DeclaredForRfqs["outbound_message_logs"] = MessageModels["outbound_message_logs"]
  /\ \A t \in DOMAIN DeclaredForRfqs : t \notin Checked => DeclaredForRfqs[t] = {}
  BY DEF DeclaredForRfqs, Both, Checked, SupplierModels, TenderSupplierModels,
         RfqModels, MessageModels

LEMMA DeclaredForQuotesSays ==
  /\ DOMAIN DeclaredForQuotes =
       {"quotes", "quote_documents", "quote_extraction_runs",
        "quote_evidence_references", "quote_extraction_artifacts", "quote_items",
        "quote_item_revisions", "quote_task_records", "comparison_runs"}
  /\ DeclaredForQuotes["quotes"] = QuoteModels["quotes"]
  /\ DeclaredForQuotes["quote_extraction_runs"] = QuoteRunModels["quote_extraction_runs"]
  /\ DeclaredForQuotes["quote_task_records"] = QuoteTaskModels["quote_task_records"]
  /\ \A t \in DOMAIN DeclaredForQuotes : t \notin Checked => DeclaredForQuotes[t] = {}
  BY DEF DeclaredForQuotes, Both, Checked, QuoteModels, QuoteRunModels,
         QuoteItemModels, QuoteTaskModels

LEMMA DeclaredForComparisonsSays ==
  /\ DOMAIN DeclaredForComparisons =
       {"comparisons", "comparison_items", "comparison_offers", "recommendations"}
  /\ DeclaredForComparisons["comparisons"] = ComparisonModels["comparisons"]
  /\ DeclaredForComparisons["comparison_items"] = ComparisonModels["comparison_items"]
  /\ DeclaredForComparisons["comparison_offers"] = ComparisonModels["comparison_offers"]
  /\ DeclaredForComparisons["recommendations"] = RecommendationModels["recommendations"]
  /\ \A t \in DOMAIN DeclaredForComparisons : t \notin Checked
         => DeclaredForComparisons[t] = {}
  BY DEF DeclaredForComparisons, Both, Checked, ComparisonModels, RecommendationModels

\* No table is declared twice.
LEMMA DeclaredBy ==
  /\ DOMAIN Declared = UNION {DOMAIN DeclaredForTenders, DOMAIN DeclaredForRfqs,
                              DOMAIN DeclaredForQuotes, DOMAIN DeclaredForComparisons}
  /\ \A t \in DOMAIN DeclaredForTenders : Declared[t] = DeclaredForTenders[t]
  /\ \A t \in DOMAIN DeclaredForRfqs : Declared[t] = DeclaredForRfqs[t]
  /\ \A t \in DOMAIN DeclaredForQuotes : Declared[t] = DeclaredForQuotes[t]
  /\ \A t \in DOMAIN DeclaredForComparisons : Declared[t] = DeclaredForComparisons[t]
<1>. DEFINE D == Both(DeclaredForTenders, DeclaredForRfqs)
            E == Both(DeclaredForQuotes, DeclaredForComparisons)
<1>1. /\ DOMAIN D = DOMAIN DeclaredForTenders \cup DOMAIN DeclaredForRfqs
      /\ \A t \in DOMAIN DeclaredForTenders : D[t] = DeclaredForTenders[t]
      /\ \A t \in DOMAIN DeclaredForRfqs :
           t \notin DOMAIN DeclaredForTenders => D[t] = DeclaredForRfqs[t]
  BY BothSay
<1>2. /\ DOMAIN E = DOMAIN DeclaredForQuotes \cup DOMAIN DeclaredForComparisons
      /\ \A t \in DOMAIN DeclaredForQuotes : E[t] = DeclaredForQuotes[t]
      /\ \A t \in DOMAIN DeclaredForComparisons :
           t \notin DOMAIN DeclaredForQuotes => E[t] = DeclaredForComparisons[t]
  BY BothSay
<1>3. /\ DOMAIN Declared = DOMAIN D \cup DOMAIN E
      /\ \A t \in DOMAIN D : Declared[t] = D[t]
      /\ \A t \in DOMAIN E : t \notin DOMAIN D => Declared[t] = E[t]
  BY BothSay DEF Declared
<1>. HIDE DEF D, E
<1>4. /\ \A t \in DOMAIN DeclaredForRfqs : t \notin DOMAIN DeclaredForTenders
      /\ \A t \in DOMAIN DeclaredForComparisons : t \notin DOMAIN DeclaredForQuotes
  BY DeclaredForTendersSays, DeclaredForRfqsSays, DeclaredForQuotesSays,
     DeclaredForComparisonsSays
<1>5. \A t \in DOMAIN DeclaredForQuotes \cup DOMAIN DeclaredForComparisons :
        t \notin DOMAIN DeclaredForTenders /\ t \notin DOMAIN DeclaredForRfqs
  BY DeclaredForTendersSays, DeclaredForRfqsSays, DeclaredForQuotesSays,
     DeclaredForComparisonsSays
<1>. QED
  BY <1>1, <1>2, <1>3, <1>4, <1>5

LEMMA DeclaredTables ==
  DOMAIN Declared = DOMAIN Creator
  BY DeclaredBy, DeclaredForTendersSays, DeclaredForRfqsSays, DeclaredForQuotesSays,
     DeclaredForComparisonsSays DEF Creator

LEMMA DeclaredIs ==
  /\ Declared["tenders"] = TenderModels["tenders"]
  /\ Declared["tender_documents"] = TenderModels["tender_documents"]
  /\ Declared["catalog_products"] = CatalogModels["catalog_products"]
  /\ Declared["tender_suppliers"] = TenderSupplierModels["tender_suppliers"]
  /\ Declared["rfq_requests"] = RfqModels["rfq_requests"]
  /\ Declared["email_messages"] = MessageModels["email_messages"]
  /\ Declared["quotes"] = QuoteModels["quotes"]
  /\ Declared["quote_extraction_runs"] = QuoteRunModels["quote_extraction_runs"]
  /\ Declared["comparisons"] = ComparisonModels["comparisons"]
  /\ Declared["extraction_runs"] = ProcessingModels["extraction_runs"]
  /\ Declared["ai_extraction_runs"] = CatalogModels["ai_extraction_runs"]
  /\ Declared["supplier_discovery_runs"] = SupplierModels["supplier_discovery_runs"]
  /\ Declared["product_supplier_matches"]
         = TenderSupplierModels["product_supplier_matches"]
  /\ Declared["supplier_merge_suggestions"]
         = TenderSupplierModels["supplier_merge_suggestions"]
  /\ Declared["rfq_task_records"] = MessageModels["rfq_task_records"]
  /\ Declared["outbound_message_logs"] = MessageModels["outbound_message_logs"]
  /\ Declared["quote_task_records"] = QuoteTaskModels["quote_task_records"]
  /\ Declared["comparison_items"] = ComparisonModels["comparison_items"]
  /\ Declared["comparison_offers"] = ComparisonModels["comparison_offers"]
  /\ Declared["recommendations"] = RecommendationModels["recommendations"]
  /\ \A t \in DOMAIN Declared : t \notin Checked => Declared[t] = {}
<1>1. \A t \in DOMAIN Declared : t \notin Checked => Declared[t] = {}
  BY DeclaredBy, DeclaredForTendersSays, DeclaredForRfqsSays, DeclaredForQuotesSays,
     DeclaredForComparisonsSays
<1>2. /\ Declared["tenders"] = TenderModels["tenders"]
      /\ Declared["tender_documents"] = TenderModels["tender_documents"]
      /\ Declared["catalog_products"] = CatalogModels["catalog_products"]
      /\ Declared["extraction_runs"] = ProcessingModels["extraction_runs"]
      /\ Declared["ai_extraction_runs"] = CatalogModels["ai_extraction_runs"]
  BY DeclaredBy, DeclaredForTendersSays
<1>3. /\ Declared["tender_suppliers"] = TenderSupplierModels["tender_suppliers"]
      /\ Declared["rfq_requests"] = RfqModels["rfq_requests"]
      /\ Declared["email_messages"] = MessageModels["email_messages"]
      /\ Declared["supplier_discovery_runs"] = SupplierModels["supplier_discovery_runs"]
      /\ Declared["product_supplier_matches"]
             = TenderSupplierModels["product_supplier_matches"]
      /\ Declared["supplier_merge_suggestions"]
             = TenderSupplierModels["supplier_merge_suggestions"]
      /\ Declared["rfq_task_records"] = MessageModels["rfq_task_records"]
      /\ Declared["outbound_message_logs"] = MessageModels["outbound_message_logs"]
  BY DeclaredBy, DeclaredForRfqsSays
<1>4. /\ Declared["quotes"] = QuoteModels["quotes"]
      /\ Declared["quote_extraction_runs"] = QuoteRunModels["quote_extraction_runs"]
      /\ Declared["quote_task_records"] = QuoteTaskModels["quote_task_records"]
  BY DeclaredBy, DeclaredForQuotesSays
<1>5. /\ Declared["comparisons"] = ComparisonModels["comparisons"]
      /\ Declared["comparison_items"] = ComparisonModels["comparison_items"]
      /\ Declared["comparison_offers"] = ComparisonModels["comparison_offers"]
      /\ Declared["recommendations"] = RecommendationModels["recommendations"]
  BY DeclaredBy, DeclaredForComparisonsSays
<1>. QED
  BY <1>1, <1>2, <1>3, <1>4, <1>5

LEMMA DeclaredFits ==
  ASSUME NEW t \in DOMAIN Declared
  PROVE  Declared[t] \subseteq CheckAt(15, t)
<1>1. CASE t = "tenders"
  <2>1. TenderModels["tenders"] \subseteq QuoteComparison.checks["tenders"]
    BY DEF QuoteComparison, Adds, NoTables, TenderModels, QuoteTables,
           ExpandStateConstraints, JobStatuses, TaskStatuses
  <2>. QED
    BY <1>1, <2>1, LastChecks, DeclaredIs
<1>2. CASE t = "tender_documents"
  <2>1. TenderModels["tender_documents"]
           \subseteq TextExtraction.checks["tender_documents"]
    BY DEF TextExtraction, Adds, NoTables, TenderModels, JobStatuses, TaskStatuses
  <2>. QED
    BY <1>2, <2>1, LastChecks, DeclaredIs
<1>3. CASE t = "catalog_products"
  <2>1. CatalogModels["catalog_products"]
           \subseteq QuoteComparison.checks["catalog_products"]
    BY DEF QuoteComparison, Adds, NoTables, CatalogModels, QuoteTables,
           ExpandStateConstraints, JobStatuses, TaskStatuses
  <2>. QED
    BY <1>3, <2>1, LastChecks, DeclaredIs
<1>4. CASE t = "tender_suppliers"
  <2>1. TenderSupplierModels["tender_suppliers"]
           \subseteq QuoteComparison.checks["tender_suppliers"]
    BY DEF QuoteComparison, Adds, NoTables, TenderSupplierModels, QuoteTables,
           ExpandStateConstraints, JobStatuses, TaskStatuses
  <2>. QED
    BY <1>4, <2>1, LastChecks, DeclaredIs
<1>5. CASE t = "rfq_requests"
  <2>1. RfqModels["rfq_requests"] \subseteq RfqHardening.checks["rfq_requests"]
    BY DEF RfqHardening, Adds, NoTables, RfqModels, JobStatuses, TaskStatuses
  <2>. QED
    BY <1>5, <2>1, LastChecks, DeclaredIs
<1>6. CASE t = "email_messages"
  <2>1. MessageModels["email_messages"] \subseteq RfqHardening.checks["email_messages"]
    BY DEF RfqHardening, Adds, NoTables, MessageModels, JobStatuses, TaskStatuses
  <2>. QED
    BY <1>6, <2>1, LastChecks, DeclaredIs
<1>7. CASE t = "quotes"
  <2>1. QuoteModels["quotes"] \subseteq AnalysisContract.checks["quotes"]
    BY DEF AnalysisContract, Adds, NoTables, QuoteModels, JobStatuses, TaskStatuses
  <2>. QED
    BY <1>7, <2>1, LastChecks, DeclaredIs
<1>8. CASE t = "quote_extraction_runs"
  <2>1. QuoteRunModels["quote_extraction_runs"]
           \subseteq AnalysisContract.checks["quote_extraction_runs"]
    BY DEF AnalysisContract, Adds, NoTables, QuoteRunModels, JobStatuses, TaskStatuses
  <2>. QED
    BY <1>8, <2>1, LastChecks, DeclaredIs
<1>9. CASE t = "comparisons"
  <2>1. ComparisonModels["comparisons"] \subseteq ComparisonTables.tables["comparisons"]
    BY DEF ComparisonTables, Adds, NoTables, ComparisonModels, Both, Comparisons,
           ComparisonLines, JobStatuses, TaskStatuses
  <2>. QED
    BY <1>9, <2>1, LastChecks, DeclaredIs
<1>10. CASE t = "extraction_runs"
  <2>1. ProcessingModels["extraction_runs"]
           \subseteq TextExtraction.tables["extraction_runs"]
    BY DEF TextExtraction, Adds, NoTables, ProcessingModels, JobStatuses, TaskStatuses
  <2>. QED
    BY <1>10, <2>1, LastChecks, DeclaredIs
<1>11. CASE t = "ai_extraction_runs"
  <2>1. CatalogModels["ai_extraction_runs"]
           \subseteq ReviewTables.tables["ai_extraction_runs"]
    BY DEF ReviewTables, Adds, NoTables, CatalogModels, Both, AIExtractionRuns,
           CatalogTables, JobStatuses, TaskStatuses
  <2>. QED
    BY <1>11, <2>1, LastChecks, DeclaredIs
<1>12. CASE t = "supplier_discovery_runs"
  <2>1. SupplierModels["supplier_discovery_runs"]
           \subseteq DiscoveryTables.tables["supplier_discovery_runs"]
    BY DEF DiscoveryTables, Adds, NoTables, SupplierModels, Both, SupplierMasters,
           TenderSuppliers, JobStatuses, TaskStatuses
  <2>. QED
    BY <1>12, <2>1, LastChecks, DeclaredIs
<1>13. CASE t = "product_supplier_matches"
  <2>1. TenderSupplierModels["product_supplier_matches"]
           \subseteq SupplierHardening.checks["product_supplier_matches"]
    BY DEF SupplierHardening, Adds, NoTables, TenderSupplierModels, JobStatuses,
           TaskStatuses
  <2>. QED
    BY <1>13, <2>1, LastChecks, DeclaredIs
<1>14. CASE t = "supplier_merge_suggestions"
  <2>1. TenderSupplierModels["supplier_merge_suggestions"]
           \subseteq DiscoveryTables.tables["supplier_merge_suggestions"]
    BY DEF DiscoveryTables, Adds, NoTables, TenderSupplierModels, Both,
           SupplierMasters, TenderSuppliers, JobStatuses, TaskStatuses
  <2>. QED
    BY <1>14, <2>1, LastChecks, DeclaredIs
<1>15. CASE t = "rfq_task_records"
  <2>1. MessageModels["rfq_task_records"]
           \subseteq RfqHardening.tables["rfq_task_records"]
    BY DEF RfqHardening, Adds, NoTables, MessageModels, JobStatuses, TaskStatuses
  <2>. QED
    BY <1>15, <2>1, LastChecks, DeclaredIs
<1>16. CASE t = "outbound_message_logs"
  <2>1. MessageModels["outbound_message_logs"]
           \subseteq DeliveryTables.tables["outbound_message_logs"]
    BY DEF DeliveryTables, Adds, NoTables, MessageModels, JobStatuses, TaskStatuses
  <2>. QED
    BY <1>16, <2>1, LastChecks, DeclaredIs
<1>17. CASE t = "quote_task_records"
  <2>1. QuoteTaskModels["quote_task_records"]
           \subseteq QuoteIntake.tables["quote_task_records"]
    BY DEF QuoteIntake, Adds, NoTables, QuoteTaskModels, JobStatuses, TaskStatuses
  <2>. QED
    BY <1>17, <2>1, LastChecks, DeclaredIs
<1>18. CASE t = "comparison_items"
  <2>1. ComparisonModels["comparison_items"]
           \subseteq ComparisonTables.tables["comparison_items"]
    BY DEF ComparisonTables, Adds, NoTables, ComparisonModels, Both, Comparisons,
           ComparisonLines, JobStatuses, TaskStatuses
  <2>. QED
    BY <1>18, <2>1, LastChecks, DeclaredIs
<1>19. CASE t = "comparison_offers"
  <2>1. ComparisonModels["comparison_offers"]
           \subseteq ComparisonTables.tables["comparison_offers"]
    BY DEF ComparisonTables, Adds, NoTables, ComparisonModels, Both, Comparisons,
           ComparisonLines, JobStatuses, TaskStatuses
  <2>. QED
    BY <1>19, <2>1, LastChecks, DeclaredIs
<1>20. CASE t = "recommendations"
  <2>1. RecommendationModels["recommendations"]
           \subseteq Recommendations.tables["recommendations"]
    BY DEF Recommendations, Adds, NoTables, RecommendationModels, JobStatuses,
           TaskStatuses
  <2>. QED
    BY <1>20, <2>1, LastChecks, DeclaredIs
<1>. QED
  BY <1>1, <1>2, <1>3, <1>4, <1>5, <1>6, <1>7, <1>8, <1>9, <1>10, <1>11, <1>12, <1>13,
     <1>14, <1>15, <1>16, <1>17, <1>18, <1>19, <1>20, DeclaredIs DEF Checked

-----------------------------------------------------------------------------
(* A row is written                                                           *)

NewRow(t, s, k, o) ==
  [table |-> t, status |-> s, key |-> k, owner |-> o,
   sendKey |-> IF t = "email_messages" THEN k ELSE None,
   parts |-> Needs(t, s) \cap Schema[revision].tables,
   deleted |-> t = "tender_documents" /\ s = "deleted"]

LEMMA RowIsMade ==
  ASSUME NEW t \in RowTables, NEW s \in Statuses, NEW k \in KeyValues \cup {None},
         NEW o \in {"system", "person", "none"}, NEW sendKey \in Keys \cup {None},
         NEW parts, parts \subseteq TablesAt(Latest), NEW deleted \in BOOLEAN
  PROVE  [table |-> t, status |-> s, key |-> k, owner |-> o, sendKey |-> sendKey,
          parts |-> parts, deleted |-> deleted] \in Row
  BY DEF Row

\* While a table has room there is a free key, and the least is taken.
LEMMA RoomForOne ==
  ASSUME NEW rs, NEW t \in RowTables, Cardinality(Present(rs)) < Capacity[t],
         NEW id, id = CHOOSE i \in Ids \ Present(rs) : \A j \in Ids \ Present(rs) : i <= j
  PROVE  id \in Ids /\ id \notin Present(rs)
<1>1. Ids \ Present(rs) # {}
  <2>. SUFFICES ASSUME Ids \subseteq Present(rs)
                PROVE  FALSE
    OBVIOUS
  <2>1. Present(rs) = Ids
    BY DEF Present
  <2>2. Cardinality(Ids) \in Nat
    BY RowsAssumption, FS_CardinalityType
  <2>. QED
    BY <2>1, <2>2, RowsAssumption
<1>2. Ids \ Present(rs) \subseteq Nat
  BY RowsAssumption
<1>3. \E i \in Ids \ Present(rs) : \A j \in Ids \ Present(rs) : i <= j
  BY <1>1, <1>2, LeastNatural
<1>. QED
  BY <1>3

LEMMA NewStatusIsKnown ==
  ASSUME NEW r \in 1..15, NEW t \in RowTables \cap TablesAt(r), NEW s \in StatusesAt(r, t)
  PROVE  s \in Statuses
<1>1. CheckAt(r, t) \subseteq Statuses
  BY StatusesOfRevision
<1>2. Schema[r].check[t] = CheckAt(r, t)
  BY SchemaIs
<1>3. CASE r = Latest /\ t \in DOMAIN Written
  <2>1. s \in Written[t]
    BY <1>3 DEF StatusesAt
  <2>. QED
    BY <1>1, <1>3, <2>1, WrittenFits, FifteenMigrations
<1>4. CASE ~(r = Latest /\ t \in DOMAIN Written)
  <2>1. s \in IF CheckAt(r, t) = {} THEN {"stored"} ELSE CheckAt(r, t)
    BY <1>2, <1>4 DEF StatusesAt
  <2>. QED
    BY <1>1, <1>4, <2>1, SomeStatuses, FifteenMigrations
<1>. QED
  BY <1>3, <1>4

LEMMA WriteAdds ==
  ASSUME revision \in 0..15, rows \in Rows, Write
  PROVE  /\ revision \in 1..15 /\ revision' = revision
         /\ Admits(revision, rows')
         /\ \E t \in RowTables \cap TablesAt(revision) :
            \E s \in StatusesAt(revision, t), k \in Keys \cup {None}, o \in {"system",
                   "person", "none"},
               id \in Ids :
              /\ t = "email_messages" => k \in Keys
              /\ rows[id] = None
              /\ rows' = [rows EXCEPT ![id] = NewRow(t, s, k, o)]
<1>1. revision \in 1..15 /\ revision' = revision
  BY DEF Write
<1>2. PICK t \in DOMAIN Schema[revision].check :
        /\ Cardinality(Present(rows)) < Capacity[t]
        /\ \E s \in StatusesAt(revision, t), o \in Owners(t),
              k \in IF t \in DOMAIN KeyOf THEN Keys ELSE {None} :
             LET id == CHOOSE i \in Ids \ Present(rows) :
                         \A j \in Ids \ Present(rows) : i <= j
             IN  rows' = [rows EXCEPT ![id] = NewRow(t, s, k, o)]
                    /\ Admits(revision, rows')
  BY Zenon DEF Write, NewRow
<1>3. PICK s \in StatusesAt(revision, t), o \in Owners(t),
           k \in IF t \in DOMAIN KeyOf THEN Keys ELSE {None} :
        LET id == CHOOSE i \in Ids \ Present(rows) :
                    \A j \in Ids \ Present(rows) : i <= j
        IN  rows' = [rows EXCEPT ![id] = NewRow(t, s, k, o)] /\ Admits(revision, rows')
  BY <1>2, Zenon
<1>. DEFINE id == CHOOSE i \in Ids \ Present(rows) : \A j \in Ids \ Present(rows) : i <= j
<1>4. rows' = [rows EXCEPT ![id] = NewRow(t, s, k, o)] /\ Admits(revision, rows')
  BY <1>3, Zenon
<1>5. t \in RowTables \cap TablesAt(revision)
  BY <1>1, <1>2, SchemaIs
<1>6. id \in Ids /\ id \notin Present(rows)
  BY <1>2, <1>5, RoomForOne
<1>. HIDE DEF id
<1>7. rows[id] = None
  BY <1>6 DEF Present
<1>8. k \in Keys \cup {None} /\ (t = "email_messages" => k \in Keys)
  BY <1>3 DEF KeyOf
<1>9. o \in {"system", "person", "none"}
  BY <1>3 DEF Owners
<1>10. \E x \in Ids : /\ t = "email_messages" => k \in Keys
                     /\ rows[x] = None
                     /\ rows' = [rows EXCEPT ![x] = NewRow(t, s, k, o)]
  BY <1>4, <1>6, <1>7, <1>8, Zenon
<1>11. s \in StatusesAt(revision, t)
  BY <1>3
<1>. QED
  BY <1>1, <1>4, <1>5, <1>8, <1>9, <1>10, <1>11, Zenon

LEMMA WriteIsSound ==
  ASSUME revision \in 0..15, Sound(revision, rows), Write
  PROVE  Sound(revision, rows') /\ revision' = revision
<1>1. /\ rows \in Rows /\ KeysAreTheirs(rows) /\ SentHolds(rows)
      /\ Whole(revision, rows) /\ Out(rows)
  BY DEF Sound
<1>2. revision \in 1..15 /\ revision' = revision /\ Admits(revision, rows')
  BY <1>1, WriteAdds
<1>3. PICK t \in RowTables \cap TablesAt(revision) :
        \E s \in StatusesAt(revision, t), k \in Keys \cup {None}, o \in {"system",
               "person", "none"},
           id \in Ids :
          /\ t = "email_messages" => k \in Keys
          /\ rows[id] = None
          /\ rows' = [rows EXCEPT ![id] = NewRow(t, s, k, o)]
  BY <1>1, WriteAdds
<1>4. PICK s \in StatusesAt(revision, t), k \in Keys \cup {None}, o \in {"system",
         "person", "none"},
           id \in Ids :
        /\ t = "email_messages" => k \in Keys
        /\ rows[id] = None
        /\ rows' = [rows EXCEPT ![id] = NewRow(t, s, k, o)]
  BY <1>3
<1>. DEFINE row == NewRow(t, s, k, o)
<1>5. /\ row.table = t /\ row.status = s /\ row.key = k /\ row.owner = o
      /\ row.sendKey = IF t = "email_messages" THEN k ELSE None
      /\ row.parts = Needs(t, s) \cap TablesAt(revision)
      /\ row.deleted = (t = "tender_documents" /\ s = "deleted")
  BY <1>2, SchemaIs DEF NewRow
<1>6. row \in Row
  <2>1. s \in Statuses
    BY <1>2, NewStatusIsKnown
  <2>2. row.parts \subseteq TablesAt(Latest)
    <3>1. TablesAt(revision) \subseteq TablesAt(15)
      BY TablesGrow
    <3>. QED
      BY <1>5, <3>1, FifteenMigrations
  <2>3. row.sendKey \in Keys \cup {None} /\ k \in KeyValues \cup {None}
    BY <1>4, <1>5 DEF KeyValues
  <2>. DEFINE sendKey == row.sendKey
              parts == row.parts
              deleted == t = "tender_documents" /\ s = "deleted"
  <2>4. row = [table |-> t, status |-> s, key |-> k, owner |-> o, sendKey |-> sendKey,
               parts |-> parts, deleted |-> deleted]
    BY DEF NewRow
  <2>5. /\ t \in RowTables /\ o \in {"system", "person", "none"} /\ deleted \in BOOLEAN
        /\ sendKey \in Keys \cup {None} /\ parts \subseteq TablesAt(Latest)
        /\ k \in KeyValues \cup {None}
    BY <1>3, <1>4, <2>2, <2>3
  <2>. HIDE DEF row, sendKey, parts, deleted
  <2>. QED
    BY <2>1, <2>4, <2>5, RowIsMade
<1>. HIDE DEF row
<1>7. rows' = [rows EXCEPT ![id] = row] /\ rows[id] = None
  BY <1>4 DEF row
<1>8. rows' \in Rows
  BY <1>1, <1>6, <1>7 DEF Rows
<1>9. /\ rows'[id] = row
      /\ \A i \in Ids : i # id => rows'[i] = rows[i]
  BY <1>1, <1>7 DEF Rows
<1>10. \A i \in Present(rows') : i = id \/ (i # id /\ i \in Present(rows)
         /\ rows'[i] = rows[i])
  BY <1>1, <1>8, <1>9, InRows
<1>11. ASSUME NEW i \in Present(rows)
       PROVE  i # id /\ i \in Present(rows') /\ rows'[i] = rows[i]
  <2>1. i \in Ids /\ rows[i] # None
    BY <1>1, InRows
  <2>2. i # id
    BY <1>7, <2>1
  <2>. QED
    BY <1>8, <1>9, <2>1, <2>2, InRows
<1>12. id \in Present(rows')
  BY <1>6, <1>8, <1>9, InRows, RowsAreRows
<1>13. Lawful(revision, rows')
  BY <1>2, <1>8, AdmitsIsLawful
<1>14. KeysAreTheirs(rows')
  <2>1. ASSUME NEW i \in In(rows', "email_messages")
        PROVE  /\ rows'[i].sendKey \in Keys
               /\ rows'[i].key = rows'[i].sendKey \/ rows'[i].key
                      = Legacy(rows'[i].sendKey, i)
    <3>1. i \in Present(rows') /\ rows'[i].table = "email_messages"
      BY <1>8, InRows
    <3>2. CASE i = id
      BY <1>4, <1>5, <1>9, <3>1, <3>2
    <3>3. CASE i # id
      <4>1. i \in In(rows, "email_messages") /\ rows'[i] = rows[i]
        BY <1>1, <1>10, <3>1, <3>3, InRows
      <4>. QED
        BY <1>1, <4>1 DEF KeysAreTheirs
    <3>. QED
      BY <3>2, <3>3
  <2>. QED
    BY <2>1 DEF KeysAreTheirs
<1>15. SentHolds(rows')
  <2>. SUFFICES ASSUME NEW i \in In(rows', "email_messages"), rows'[i].status = "sent"
                PROVE  \E j \in In(rows', "email_messages") :
                         rows'[j].key = rows'[i].sendKey /\ rows'[j].status = "sent"
    BY DEF SentHolds
  <2>1. i \in Present(rows') /\ rows'[i].table = "email_messages"
    BY <1>8, InRows
  <2>2. CASE i = id
    BY <1>5, <1>9, <2>1, <2>2
  <2>3. CASE i # id
    <3>1. i \in In(rows, "email_messages") /\ rows'[i] = rows[i]
      BY <1>1, <1>10, <2>1, <2>3, InRows
    <3>2. PICK j \in In(rows, "email_messages") :
            rows[j].key = rows[i].sendKey /\ rows[j].status = "sent"
      BY <1>1, <3>1 DEF SentHolds
    <3>3. j \in In(rows', "email_messages") /\ rows'[j] = rows[j]
      BY <1>1, <1>8, <1>11, InRows
    <3>. QED
      BY <3>1, <3>2, <3>3
  <2>. QED
    BY <2>2, <2>3
<1>16. Whole(revision, rows')
  <2>1. ASSUME NEW i \in Present(rows')
        PROVE  Needs(rows'[i].table,
                 rows'[i].status) \cap TablesAt(revision) \subseteq rows'[i].parts
    BY <1>1, <1>5, <1>9, <1>10 DEF Whole
  <2>. QED
    BY <2>1 DEF Whole
<1>17. Out(rows')
  <2>1. ASSUME NEW i \in Present(rows'), rows'[i].deleted
        PROVE  rows'[i].table = "tender_documents"
                 /\ rows'[i].status \in {"deleted", "rejected"}
    <3>1. CASE i = id
      BY <1>5, <1>9, <2>1, <3>1
    <3>2. CASE i # id
      BY <1>1, <1>10, <2>1, <3>2 DEF Out
    <3>. QED
      BY <3>1, <3>2
  <2>. QED
    BY <2>1 DEF Out
<1>. QED
  BY <1>2, <1>8, <1>13, <1>14, <1>15, <1>16, <1>17 DEF Sound

-----------------------------------------------------------------------------
(* The theorems                                                               *)

\* The inductive invariant of the specification.
HistoryInv == revision \in 0..15 /\ Sound(revision, rows)

LEMMA InitIsSound == Init => HistoryInv
<1>. SUFFICES ASSUME Init PROVE HistoryInv
  OBVIOUS
<1>1. rows \in Rows
  BY DEF Init, Rows
<1>2. Present(rows) = {} /\ \A t : In(rows, t) = {}
  BY DEF Init, Present, In
<1>3. Sound(0, rows)
  BY <1>1, <1>2 DEF Sound, Lawful, KeysAreTheirs, SentHolds, Whole, Out
<1>. QED
  BY <1>3 DEF Init, HistoryInv

LEMMA StepIsSound == HistoryInv /\ [Next]_vars => HistoryInv'
<1>. SUFFICES ASSUME HistoryInv, [Next]_vars
              PROVE  revision' \in 0..15 /\ Sound(revision', rows')
  BY DEF HistoryInv, Sound, Rows, Lawful, KeysAreTheirs, SentHolds, Whole, Out,
         Present, In
<1>. USE DEF HistoryInv
<1>1. CASE Upgrade
  <2>1. /\ revision + 1 \in 1..15 /\ (revision + 1) - 1 = revision
        /\ revision' = revision + 1 /\ rows' = Migrated(revision + 1, rows)
    BY <1>1, FifteenMigrations DEF Upgrade
  <2>. QED
    BY <2>1, UpgradeIsSound
<1>2. CASE Downgrade
  <2>1. /\ revision \in 1..15 /\ revision - 1 \in 0..15 /\ revision' = revision - 1
        /\ rows' = Reverted(revision, rows)
               /\ Admits(revision - 1, Reverted(revision, rows))
    BY <1>2 DEF Downgrade
  <2>. QED
    BY <2>1, DowngradeIsSound
<1>3. CASE Write
  BY <1>3, WriteIsSound
<1>4. CASE UNCHANGED vars
  BY <1>4 DEF vars
<1>. QED
  BY <1>1, <1>2, <1>3, <1>4 DEF Next

LEMMA Invariance == Spec => []HistoryInv
  BY InitIsSound, StepIsSound, PTL DEF Spec

\* Whatever rows the versions of the application wrote, and whatever was upgraded
\* and downgraded before, the next migration applies to them: a check that is
\* replaced admits the statuses that are there, and a key that is added finds
\* the values apart.
THEOREM UpgradesAreNeverRefused == Spec => []UpgradeIsNeverRefused
<1>1. HistoryInv => UpgradeIsNeverRefused
  <2>. SUFFICES ASSUME HistoryInv, revision < Latest
                PROVE  Admits(revision + 1, Migrated(revision + 1, rows))
    BY DEF UpgradeIsNeverRefused
  <2>1. revision + 1 \in 1..15 /\ (revision + 1) - 1 = revision /\ revision + 1 \in 0..15
    BY FifteenMigrations DEF HistoryInv
  <2>2. Sound(revision + 1, Migrated(revision + 1, rows))
    BY <2>1, UpgradeIsSound DEF HistoryInv
  <2>. QED
    BY <2>1, <2>2, AdmitsIsLawful DEF Sound
<1>. QED
  BY <1>1, Invariance, PTL

\* However the schema moved, an e-mail that was sent is found by its send key
\* wherever that key is unique: the tenth migration hands a key that several
\* attempts share to one that was sent, the downgrade below it does not undo
\* that, and the next upgrade does not pass it on.
THEOREM SentMessagesHoldTheirKeys == Spec => []SentHoldsItsKey
<1>1. HistoryInv => SentHoldsItsKey
  BY DEF HistoryInv, Sound, SentHolds, SentHoldsItsKey
<1>. QED
  BY <1>1, Invariance, PTL

\* Whatever is upgraded, downgraded and written, and in whatever order, a
\* document that was deleted is never offered for processing again: the
\* migrations that change the statuses of documents only ever reject it.
THEOREM DeletedDocumentsStayOut == Spec => []DeletedStaysOut
<1>1. HistoryInv => DeletedStaysOut
  BY DEF HistoryInv, Sound, Out, DeletedStaysOut
<1>. QED
  BY <1>1, Invariance, PTL

\* What a status says is kept beside the row at every revision where there is a
\* table for it, also after the table was dropped and created again: the text of
\* a document, the document of a quote, the answer a completed run was made from;
\* and a document that was deleted stays out.
THEOREM StatusesAreTrue == Spec => []StatusesStayTrue
<1>1. HistoryInv => StatusesStayTrue
  <2>. SUFFICES ASSUME HistoryInv PROVE NothingIsMissing /\ DeletedStaysOut
    BY DEF StatusesStayTrue
  <2>1. Schema[revision].tables = TablesAt(revision)
    BY SchemaIs DEF HistoryInv
  <2>2. NothingIsMissing
    BY <2>1 DEF HistoryInv, Sound, Whole, NothingIsMissing
  <2>3. DeletedStaysOut
    BY DEF HistoryInv, Sound, Out, DeletedStaysOut
  <2>. QED
    BY <2>2, <2>3
<1>. QED
  BY <1>1, Invariance, PTL

\* The migrated database has the tables of the models and admits the statuses that
\* they declare and the application writes, and every row that comes through the
\* migrations is one it can read.
THEOREM LatestIsTheCodes == Spec => []LatestFitsTheCode
<1>1. HistoryInv => LatestFitsTheCode
  <2>. SUFFICES ASSUME HistoryInv, revision = 15
                PROVE  /\ TablesAt(15) = DOMAIN Declared
                       /\ \A t \in DOMAIN Declared : Declared[t] \subseteq CheckAt(15, t)
                       /\ \A t \in DOMAIN Written : Written[t] \subseteq CheckAt(15, t)
                       /\ \A i \in Present(rows) :
                            /\ rows[i] \in Row
                            /\ rows[i].table \in DOMAIN Written =>
                                 rows[i].status \in Written[rows[i].table]
    BY FifteenMigrations, Zenon DEF LatestFitsTheCode
  <2>1. TablesAt(15) = DOMAIN Declared
    <3>1. 15 \in 0..15 /\ \A t \in DOMAIN Creator : Creator[t] <= 15
      BY DEF Creator
    <3>. QED
      BY <3>1, TablesOfRevision, DeclaredTables
  <2>2. ASSUME NEW i \in Present(rows)
        PROVE  /\ rows[i] \in Row
               /\ rows[i].table \in DOMAIN Written =>
                    rows[i].status \in Written[rows[i].table]
    <3>1. rows \in Rows /\ Lawful(15, rows)
      BY DEF HistoryInv, Sound
    <3>2. rows[i] \in Row
      BY <3>1, InRows
    <3>3. CheckAt(15, rows[i].table) = {} \/ rows[i].status \in CheckAt(15, rows[i].table)
      BY <3>1 DEF Lawful
    <3>. QED
      BY <3>2, <3>3, WrittenFits
  <2>. QED
    BY <2>1, <2>2, DeclaredFits, WrittenFits
<1>. QED
  BY <1>1, Invariance, PTL
=============================================================================
