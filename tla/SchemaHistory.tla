----------------------------- MODULE SchemaHistory -----------------------------
(***************************************************************************)
(* The database through its migrations: what each migration does to the    *)
(* rows that are there, which rows keep it from being applied or undone,   *)
(* and the rows the application of the time writes in between.             *)
(*                                                                         *)
(* A command of Alembic is one transaction (alembic/env.py): a migration   *)
(* that the rows do not admit leaves the database as it was, so a step of  *)
(* one revision is a command and longer ones are sequences of steps.  A    *)
(* row is written once, with the status it has when the migrations run.    *)
(***************************************************************************)
EXTENDS SchemaTables, FiniteSets

CONSTANTS
  RowTables,  \* the tables whose rows are followed
  Keys,       \* send keys of e-mails, and pages a supplier was found on
  Ids,        \* primary keys, which count the attempts of an e-mail too
  Capacity,   \* bound: a table gets no row while there are as many in all
  None

VARIABLES
  revision,   \* how many migrations are applied
  rows        \* by primary key, a row of some table or None

vars == <<revision, rows>>

Latest == Len(Migrations)

-----------------------------------------------------------------------------
(* The schema of a revision: what the migrations up to it have said last. *)

\* By table, the statuses a row may have since migration i.
Checks(i) == Both(Migrations[i].checks, Migrations[i].tables)

TablesAt(r) == UNION {DOMAIN Migrations[i].tables : i \in 1..r}

\* The last migration that creates the table or replaces its check.
LastOn(r, t) ==
  CHOOSE i \in 1..r : t \in DOMAIN Checks(i) /\ \A j \in (i + 1)..r : t \notin DOMAIN Checks(j)

CheckAt(r, t) == Checks(LastOn(r, t))[t]

\* The unique keys that were added and not dropped since.
KeysAt(r) ==
  UNION {{k \in Migrations[i].keys : \A j \in i..r : k \notin Migrations[j].dropped} : i \in 1..r}

\* check: by followed table, the statuses a row may have.
Schema ==
  [r \in 0..Latest |->
     [tables |-> TablesAt(r), keys |-> KeysAt(r),
      check |-> [t \in RowTables \cap TablesAt(r) |-> CheckAt(r, t)]]]

\* What some check admits; a table without one has rows of one status.
Statuses ==
  {"stored"} \cup UNION {UNION {Checks(i)[t] : t \in DOMAIN Checks(i)} : i \in 1..Latest}

\* "legacy" is the digest the tenth migration makes of a key and an id.
KeyValues == Keys \cup [legacy : Keys, id : Ids]

\* parts: the tables that hold a row this one needs.  owner: the user behind
\* a tender or a document.  deleted, sendKey: history, whether the document
\* was ever deleted, and the key the e-mail was written with.
Row == [table : RowTables, status : Statuses, key : KeyValues \cup {None},
        sendKey : Keys \cup {None}, owner : {"system", "person", "none"},
        parts : SUBSET TablesAt(Latest), deleted : BOOLEAN]

ASSUME RowsAssumption ==
  /\ Ids \subseteq Nat /\ IsFiniteSet(Ids)
  /\ \A t \in RowTables : Capacity[t] \in Nat /\ Capacity[t] <= Cardinality(Ids)
  /\ None \notin Row \cup Keys
  /\ Keys \cap [legacy : Keys, id : Ids] = {}

Present(rs) == {i \in Ids : rs[i] # None}

In(rs, t) == {i \in Present(rs) : rs[i].table = t}

\* The unique keys that the migrations add or drop under rows.
KeyOf == [email_messages   |-> "uq_email_messages_idempotency_key",
          supplier_sources |-> "uq_supplier_sources_url"]

Admits(r, rs) ==
  /\ \A i \in Present(rs) :
       /\ rs[i].table \in DOMAIN Schema[r].check
       /\ LET check == Schema[r].check[rs[i].table] IN
          check = {} \/ rs[i].status \in check
  /\ \A t \in DOMAIN KeyOf : KeyOf[t] \in Schema[r].keys =>
       \A i, j \in In(rs, t) : i # j => rs[i].key # rs[j].key

-----------------------------------------------------------------------------
(* What the migrations do to rows. *)

SetStatus(rs, t, from, to) ==
  [i \in Ids |-> IF i \in In(rs, t) /\ rs[i].status \in from
                 THEN [rs[i] EXCEPT !.status = to] ELSE rs[i]]

AddPart(rs, t, statuses, part) ==
  [i \in Ids |-> IF i \in In(rs, t) /\ rs[i].status \in statuses
                 THEN [rs[i] EXCEPT !.parts = @ \cup {part}] ELSE rs[i]]

RejectUnknown(rs) ==
  SetStatus(rs, "tender_documents", Statuses \ {"uploaded", "rejected"}, "rejected")

\* Mutant of First: the first attempt keeps the key.
FirstAttempt(rs, i, j) == i <= j

\* One of the messages that share a key keeps it: one that was sent, if any.
First(rs, i, j) ==
  LET Rank(k) == IF rs[k].status = "sent" THEN 0 ELSE 1
  IN  Rank(i) < Rank(j) \/ (Rank(i) = Rank(j) /\ i <= j)

ReconcileLegacyMessages(rs) ==
  [i \in Ids |->
     IF i \in In(rs, "email_messages")
        /\ \E j \in In(rs, "email_messages") : rs[j].key = rs[i].key /\ ~First(rs, i, j)
     THEN [rs[i] EXCEPT !.key = [legacy |-> @, id |-> i]]
     ELSE rs[i]]

\* The column is new, and has a default.
CandidateMatches(rs) == SetStatus(rs, "product_supplier_matches", Statuses, "candidate")

DocumentEveryQuote(rs) == AddPart(rs, "quotes", Statuses, "quote_documents")

\* Mutant of KeepAnswers: the runs that reuse an answer are left without.
KeepOwnAnswers(rs) ==
  AddPart(rs, "quote_extraction_runs", {"completed"}, "quote_extraction_artifacts")

\* The statement also asks for a raw_response, which completing a run always
\* stores, and which a run that is reused was completed with.
KeepAnswers(rs) ==
  AddPart(rs, "quote_extraction_runs", {"completed", "reused"},
          "quote_extraction_artifacts")

\* Mutant of Migrated: the messages are left as they are.
MigratedAsIs(r, rs) ==
  CASE Migrations[r] = DocumentManagement -> RejectUnknown(rs)
    [] Migrations[r] = SupplierHardening -> CandidateMatches(rs)
    [] Migrations[r] = QuoteIntake -> DocumentEveryQuote(rs)
    [] Migrations[r] = AnalysisContract -> KeepAnswers(rs)
    [] OTHER -> rs

Migrated(r, rs) ==
  CASE Migrations[r] = DocumentManagement -> RejectUnknown(rs)
    [] Migrations[r] = SupplierHardening -> CandidateMatches(rs)
    [] Migrations[r] = RfqHardening -> ReconcileLegacyMessages(rs)
    [] Migrations[r] = QuoteIntake -> DocumentEveryQuote(rs)
    [] Migrations[r] = AnalysisContract -> KeepAnswers(rs)
    [] OTHER -> rs

RejectDeleted(rs) == SetStatus(rs, "tender_documents", {"deleted"}, "rejected")

ForgetProcessing(rs) ==
  SetStatus(rs, "tender_documents",
            {"queued", "processing", "text_extracted", "ready_for_ai", "needs_ocr",
             "failed"}, "uploaded")

ForgetMatchStatus(rs) == SetStatus(rs, "product_supplier_matches", Statuses, "stored")

\* What is left when migration r is undone.
Reverted(r, rs) ==
  LET data == CASE Migrations[r] = DocumentManagement -> RejectDeleted(rs)
                [] Migrations[r] = TextExtraction -> ForgetProcessing(rs)
                [] Migrations[r] = SupplierHardening -> ForgetMatchStatus(rs)
                [] OTHER -> rs
  IN  [i \in Ids |->
         IF i \notin Present(data) \/ data[i].table \notin Schema[r - 1].tables THEN None
         ELSE [data[i] EXCEPT !.parts = @ \cap Schema[r - 1].tables]]

-----------------------------------------------------------------------------
Init ==
  /\ revision = 0
  /\ rows = [i \in Ids |-> None]

Upgrade ==
  /\ revision < Latest
  /\ Admits(revision + 1, Migrated(revision + 1, rows))
  /\ revision' = revision + 1
  /\ rows' = Migrated(revision + 1, rows)

\* The user the second migration inserts cannot be deleted under its rows.
Downgrade ==
  /\ revision > 0
  /\ Migrations[revision] = AuditEvents =>
       \A i \in Present(rows) : rows[i].owner # "system"
  /\ Admits(revision - 1, Reverted(revision, rows))
  /\ revision' = revision - 1
  /\ rows' = Reverted(revision, rows)

\* What the application keeps beside a row.
Needs(t, s) ==
  CASE t = "tender_documents" /\ s \in {"text_extracted", "ready_for_ai", "needs_ocr"} ->
         {"extraction_runs"}
    [] t = "quotes" -> {"quote_documents"}
    [] t = "quote_extraction_runs" /\ s \in {"completed", "reused"} ->
         {"quote_extraction_artifacts"}
    [] OTHER -> {}

Owners(t) ==
  IF t \notin {"tenders", "tender_documents"} THEN {"none"}
  ELSE IF revision = 1 THEN {"person"} ELSE {"person", "system"}

\* The statuses the application of a revision writes: of the older ones only
\* what their checks admit is known.
StatusesAt(r, t) ==
  IF r = Latest /\ t \in DOMAIN Written THEN Written[t]
  ELSE IF Schema[r].check[t] = {} THEN {"stored"} ELSE Schema[r].check[t]

Write ==
  /\ revision > 0
  /\ \E t \in DOMAIN Schema[revision].check :
       /\ Cardinality(Present(rows)) < Capacity[t]
       /\ \E s \in StatusesAt(revision, t), o \in Owners(t),
             k \in IF t \in DOMAIN KeyOf THEN Keys ELSE {None} :
            LET id  == CHOOSE i \in Ids \ Present(rows) :
                         \A j \in Ids \ Present(rows) : i <= j
                row == [table |-> t, status |-> s, key |-> k, owner |-> o,
                        sendKey |-> IF t = "email_messages" THEN k ELSE None,
                        parts |-> Needs(t, s) \cap Schema[revision].tables,
                        deleted |-> t = "tender_documents" /\ s = "deleted"]
            IN  /\ rows' = [rows EXCEPT ![id] = row]
                /\ Admits(revision, rows')
  /\ UNCHANGED revision

Next == Upgrade \/ Downgrade \/ Write

Spec == Init /\ [][Next]_vars

-----------------------------------------------------------------------------
(* Properties *)

\* An upgrade is never refused, whatever rows the versions of the application
\* and earlier upgrades and downgrades have left.
UpgradeIsNeverRefused ==
  revision < Latest => Admits(revision + 1, Migrated(revision + 1, rows))

\* No e-mail that was sent loses its send key to one that was not: at the
\* revisions where the key is unique, whoever asks for it finds the sent one.
SentHoldsItsKey ==
  "uq_email_messages_idempotency_key" \in Schema[revision].keys =>
    \A i \in In(rows, "email_messages") : rows[i].status = "sent" =>
      \E j \in In(rows, "email_messages") :
        rows[j].key = rows[i].sendKey /\ rows[j].status = "sent"

NothingIsMissing ==
  \A i \in Present(rows) :
    Needs(rows[i].table, rows[i].status) \cap Schema[revision].tables \subseteq rows[i].parts

DeletedStaysOut ==
  \A i \in Present(rows) : rows[i].deleted => rows[i].status \in {"deleted", "rejected"}

\* What a status says of a row stays true however the schema moved back and
\* forth: a document with text has its extraction, a quote its document, a
\* completed run the answer it was made from; and a document that was deleted
\* is not offered for processing again.
StatusesStayTrue == NothingIsMissing /\ DeletedStaysOut

\* The migrated database has the tables the models declare, its checks admit every
\* status that they declare and that the application writes (it may admit more), and
\* it holds nothing the application cannot read.  Unique keys are not compared.
LatestFitsTheCode ==
  revision = Latest =>
    /\ TablesAt(Latest) = DOMAIN Declared
    /\ \A t \in DOMAIN Declared : Declared[t] \subseteq CheckAt(Latest, t)
    /\ \A t \in DOMAIN Written : Written[t] \subseteq CheckAt(Latest, t)
    /\ \A i \in Present(rows) :
         /\ rows[i] \in Row
         /\ rows[i].table \in DOMAIN Written => rows[i].status \in Written[rows[i].table]
=============================================================================
