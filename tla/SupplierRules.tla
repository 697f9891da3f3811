----------------------------- MODULE SupplierRules -----------------------------
(***************************************************************************)
(* Which known supplier a suggested company is taken for: the comparison   *)
(* of SupplierDeduplicationService and what is made of its best result.    *)
(* Pure operators.                                                         *)
(*                                                                         *)
(* A company is known by its web domain, its names and its city, all       *)
(* normalized, and by its contacts.  How alike two names are is a constant *)
(* of the environment (difflib), in thousandths.  Scores are counted in    *)
(* units of 1/20000, so that weights times ratios are exact.               *)
(***************************************************************************)
EXTENDS Missing, Integers, FiniteSets

CONSTANTS
  Names,  \* normalized names
  Alike   \* how alike two different names are

ASSUME AlikeAssumption ==
  /\ None \notin Names
  /\ Alike \in [Names \X Names -> 0..999]

\* SequenceMatcher.ratio: two names that are both missing are equal.
Ratio(a, b) ==
  CASE a = b -> 1000
    [] a # b /\ None \in {a, b} -> 0
    [] a # b /\ None \notin {a, b} -> Alike[<<a, b>>]

Same(a, b) == a # None /\ a = b

\* What a comparison awards for each signal, in 1/20000.
Weight == [domain |-> 12000, email |-> 7000, phone |-> 6000, city |-> 1000]

\* Names count from 0.65 on, the legal one 0.30 and the trade one 0.25.
NameScore(ratio, weight) == IF ratio >= 650 THEN ratio * weight ELSE 0

\* A suggested company, or a supplier and its contacts.
Company(Domains, Emails, Phones, Cities) ==
  [domain : Domains \cup {None}, emails : SUBSET Emails, phones : SUBSET Phones,
   legal : Names \cup {None}, trade : Names \cup {None}, city : Cities \cup {None}]

ExactIdentity(a, b) ==
  \/ Same(a.domain, b.domain)
  \/ a.emails \cap b.emails # {}
  \/ a.phones \cap b.phones # {}
  \/ Same(a.legal, b.legal)

\* Mutant of RawScore: the domain weighs what an address weighs.
RawScoreLightDomain(a, b) ==
  (IF Same(a.domain, b.domain) THEN Weight.email ELSE 0)
  + (IF a.emails \cap b.emails # {} THEN Weight.email ELSE 0)
  + (IF a.phones \cap b.phones # {} THEN Weight.phone ELSE 0)
  + NameScore(Ratio(a.legal, b.legal), 6) + NameScore(Ratio(a.trade, b.trade), 5)
  + (IF Same(a.city, b.city) THEN Weight.city ELSE 0)

RawScore(a, b) ==
  (IF Same(a.domain, b.domain) THEN Weight.domain ELSE 0)
  + (IF a.emails \cap b.emails # {} THEN Weight.email ELSE 0)
  + (IF a.phones \cap b.phones # {} THEN Weight.phone ELSE 0)
  + NameScore(Ratio(a.legal, b.legal), 6) + NameScore(Ratio(a.trade, b.trade), 5)
  + (IF Same(a.city, b.city) THEN Weight.city ELSE 0)

Bounded(score) == IF score > 20000 THEN 20000 ELSE score

\* compare: a signal is what is exact, or what scores.
HasSignals(a, b) == ExactIdentity(a, b) \/ RawScore(a, b) > 0

DuplicateStatus(a, b) ==
  IF ExactIdentity(a, b) THEN "duplicate"
  ELSE IF Bounded(RawScore(a, b)) >= 8000 THEN "possible_duplicate" ELSE "unique"

\* find_best compares the scores, and then whether the identity is exact.
AtLeast(a, b, c) ==
  \/ Bounded(RawScore(a, b)) > Bounded(RawScore(a, c))
  \/ /\ Bounded(RawScore(a, b)) = Bounded(RawScore(a, c))
     /\ ExactIdentity(a, c) => ExactIdentity(a, b)

\* find_best: suppliers that were merged are skipped.
Known(a, suppliers) ==
  {s \in suppliers : s.merged = None /\ HasSignals(a, s.company)}

Best(a, suppliers) ==
  {s \in Known(a, suppliers) :
     \A t \in Known(a, suppliers) : AtLeast(a, s.company, t.company)}

\* DeduplicateSuppliersV2: the first of the best is taken if it is a duplicate,
\* and None, for a new supplier, if not.  A supplier: its place in the list, its
\* company, and whether it was merged.
TakenFor(a, suppliers) ==
  LET best == Best(a, suppliers)
      first == CHOOSE s \in best : \A t \in best : s.no <= t.no
  IN IF best # {} /\ DuplicateStatus(a, first.company) = "duplicate" THEN first ELSE None
=============================================================================
