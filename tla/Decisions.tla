------------------------------- MODULE Decisions -------------------------------
(***************************************************************************)
(* What the deterministic rules decide as their inputs grow: the lines of  *)
(* the approved quotes of a comparison, the products an item is matched    *)
(* with, the specifications of a quote, a measure that is normalized, the  *)
(* text two extractors find, and the suppliers companies are taken for.    *)
(* An input is about one of these topics; the rules themselves are in      *)
(* ComparisonRules, QuoteRules, DocumentRules and SupplierRules.           *)
(***************************************************************************)
EXTENDS ComparisonRules, QuoteRules, DocumentRules, SupplierRules

CONSTANTS
  Lines,         \* the lines that may be quoted
  Weights,       \* the weights that may be asked for
  MaxLines,      \* bound: lines of a comparison
  CatalogLines,  \* the products an item may be matched with
  Items,         \* the quoted items that are matched
  Keys,          \* names of specifications
  Values,        \* their values, none of which is part of another
  Amounts,       \* thousandths, which every conversion divides
  Units,         \* written units
  Lengths,       \* characters of a page
  PageAreas,     \* square inches of a page
  MaxPages,      \* bound: pages of a text
  Companies,     \* the companies that may be suggested
  MaxSuppliers   \* bound: rows of suppliers

VARIABLE input  \* what the rules are applied to

\* A row of suppliers: its place in the order of list_suppliers, the company
\* with its contacts, and the row it was merged into.
SupplierRow ==
  [no : Nat, company : Company(STRING, STRING, STRING, STRING), merged : Nat \cup {None}]

\* What is stored of a quote and of a company, and what the API accepts.
ASSUME InputsAssumption ==
  /\ None \notin Int \cup SupplierRow
  /\ Lines \subseteq LineTypes(Nat, Nat, STRING, STRING)
  /\ \A w \in Weights : AcceptedWeights(w)
  /\ Companies \subseteq Company(STRING, STRING, STRING, STRING)

\* Products are identified; whatever is compared has finitely many words.
ASSUME CatalogAssumption ==
  /\ \A p \in CatalogLines : p.id \in Nat
  /\ \A p, q \in CatalogLines : p.id = q.id => p = q
  /\ \A x \in CatalogLines \cup Items : IsFiniteSet(x.words)

\* The words that are written, and those they become.
Words == {u.word : u \in Units} \cup DOMAIN CatalogUnits \cup DOMAIN QuotedUnits
           \cup DOMAIN ComparedUnits

WrittenUnit == [word : Words, dot : BOOLEAN]

\* A conversion is exact: what may be converted is a whole number of the larger unit.
ASSUME MeasuresAssumption ==
  /\ \A a \in Amounts : a \in Nat /\ (a >= 100000 => a % 1000 = 0)
  /\ Units \subseteq WrittenUnit /\ None \notin WrittenUnit

-----------------------------------------------------------------------------
Texts == UNION {[1..n -> [characters : Lengths, area : PageAreas]] : n \in 0..MaxPages}

ASSUME TextsAssumption ==
  Lengths \subseteq Nat /\ PageAreas \subseteq Nat /\ None \notin Texts

\* Pages without text.
Blank == {t \in Texts : \A n \in DOMAIN t : t[n].characters = 0}

Specifications == UNION {[K -> Values] : K \in SUBSET Keys}

\* Rows of suppliers, in the order of list_suppliers.
Rows == 1..MaxSuppliers

Init ==
  \/ input \in [topic : {"comparison"}, lines : {{}}, quoting : SUBSET Suppliers,
                weights : Weights]
  \/ input \in [topic : {"matching"}, item : Items, products : {{}}]
  \/ input \in [topic : {"specifications"}, requested : Specifications, quoted : {<< >>}]
  \/ input \in [topic : {"units"}, amount : Amounts, unit : Units]
  \/ input \in [topic : {"documents"}, primary : Blank \cup {None}, fallback : Blank \cup {None}]
  \/ input = [topic |-> "suppliers", suppliers |-> {}, unstored |-> {}]

About(topic) == input.topic = topic

-----------------------------------------------------------------------------
(* How the input of a topic grows *)

\* One more line of a supplier with an approved quote.
AddLine(l) ==
  /\ Cardinality(input.lines) < MaxLines
  /\ l.supplier \in input.quoting
  /\ LET no == IF [no |-> 1, line |-> l] \in input.lines THEN 2 ELSE 1 IN
     input' = [input EXCEPT !.lines = @ \cup {[no |-> no, line |-> l]}]

AddProduct(p) ==
  input' = [input EXCEPT !.products = @ \cup {p}]

\* One more specification of the quoted item is known.
AddSpecification(k, v) ==
  /\ k \notin DOMAIN input.quoted
  /\ input' = [input EXCEPT !.quoted =
       [j \in DOMAIN input.quoted \cup {k} |-> IF j = k THEN v ELSE input.quoted[j]]]

\* What was normalized is normalized again.
Normalize ==
  LET q == CatalogQuantity(input.amount, input.unit) IN
  input' = [input EXCEPT !.amount = q.amount, !.unit = q.unit]

\* An extractor finds more on a page.
AddText(extractor, n, characters) ==
  /\ input[extractor] # None
  /\ n \in DOMAIN input[extractor] /\ characters > input[extractor][n].characters
  /\ input' = [input EXCEPT ![extractor][n].characters = characters]

\* DeduplicateSuppliersV2, for one candidate: the supplier it is taken for, or a
\* new one whose contacts are not stored before the next stage.
Suggest(c) ==
  LET taken == TakenFor(c, input.suppliers)
      next == Cardinality(input.suppliers) + 1
      new == [no |-> next, company |-> [c EXCEPT !.emails = {}, !.phones = {}],
              merged |-> None]
  IN /\ taken = None => next \in Rows
     /\ input' = [input EXCEPT
          !.suppliers = IF taken = None THEN @ \cup {new} ELSE @,
          !.unstored = @ \cup {<<c, IF taken = None THEN next ELSE taken.no>>}]

\* DiscoverSupplierContactsV2, for the candidates so far.
StoreContacts ==
  /\ input.unstored # {}
  /\ LET Of(s) == {u[1] : u \in {u \in input.unstored : u[2] = s.no}} IN
     input' = [input EXCEPT
       !.suppliers = {[s EXCEPT
         !.company.emails = @ \cup UNION {c.emails : c \in Of(s)},
         !.company.phones = @ \cup UNION {c.phones : c \in Of(s)}] : s \in @},
       !.unstored = {}]

\* MergeSuppliers: the contacts are copied, the domain and the names are not.
MergeInto(s, t) ==
  /\ s # t /\ s.merged = None
  /\ input' = [input EXCEPT !.suppliers = (@ \ {s, t}) \cup
       {[s EXCEPT !.merged = t.no],
        [t EXCEPT !.company.emails = @ \cup s.company.emails,
                  !.company.phones = @ \cup s.company.phones]}]

Next ==
  \/ About("comparison") /\ \E l \in Lines : AddLine(l)
  \/ About("matching") /\ \E p \in CatalogLines : AddProduct(p)
  \/ About("specifications") /\ \E k \in Keys, v \in Values : AddSpecification(k, v)
  \/ About("units") /\ Normalize
  \/ About("documents") /\ \E x \in {"primary", "fallback"}, n \in 1..MaxPages, c \in Lengths :
       AddText(x, n, c)
  \/ About("suppliers") /\ \E c \in Companies : Suggest(c)
  \/ About("suppliers") /\ StoreContacts
  \/ About("suppliers") /\ \E s, t \in input.suppliers : MergeInto(s, t)

Spec == Init /\ [][Next]_input

-----------------------------------------------------------------------------
(* Properties *)

Compared == Comparison(input.lines, input.quoting)

Recommended == Recommendation(Compared, input.weights)

LinesOf(s, p) == {l.line : l \in {l \in input.lines : l.line.supplier = s /\ l.line.product = p}}

\* Whoever is recommended has quoted every requested product, in the quantity
\* and the unit that were asked for and not against the specifications, and
\* nobody's line is unidentified or contradicted by a second one.
RecommendedIsComplete ==
  About("comparison") /\ Recommended.status = "ready" =>
    /\ \A l \in input.lines : l.line.product # None
    /\ \A k, l \in input.lines :
         k.line.supplier = l.line.supplier /\ k.line.product = l.line.product => k = l
    /\ \A p \in Products : \E l \in LinesOf(Recommended.supplier, p) :
         /\ l.quantity = Requested[p].value /\ l.unit = Requested[p].unit
         /\ l.compliance # "non_compliant"

\* Everything the recommendation looks at is known of a supplier.
IsKnown(s) ==
  \A p \in Products : \E l \in LinesOf(s, p) :
    /\ l.total # None /\ l.total > 0 /\ DaysOf(l) # None /\ DaysOf(l) > 0
    /\ l.compliance \in {"compliant", "partial"}

\* The only line of a supplier for a product.
LineOf(s, p) == CHOOSE l \in LinesOf(s, p) : TRUE

Technically(l) == IF l.compliance = "compliant" THEN 1 ELSE 0

\* s is nowhere worse than t.
IsNoWorse(s, t) ==
  LET NoWorse(a, b) == /\ a.total <= b.total /\ DaysOf(a) <= DaysOf(b)
                       /\ Technically(a) >= Technically(b)
  IN \A p \in Products : NoWorse(LineOf(s, p), LineOf(t, p))

\* Nobody who could have been recommended is at least as good as the recommended
\* supplier in every product, price, delivery time and compliance.
WinnerIsUndominated ==
  About("comparison") /\ Recommended.status = "ready" =>
    \A s \in Eligible(Compared, input.weights) \ {Recommended.supplier} :
      IsKnown(s) /\ IsKnown(Recommended.supplier) => ~IsNoWorse(s, Recommended.supplier)

\* The legacy comparator, too, never prefers a supplier to one that is at least as
\* good in everything, as long as both have quoted everything once, with a delivery
\* time at each line: it does not look at the one of the whole quote, and a supplier
\* who gives only that loses to slower ones.
LegacyPrefersBetter ==
  About("comparison") =>
    LET Once(s) == \A p \in Products : Cardinality({l \in input.lines :
                     l.line.supplier = s /\ l.line.product = p}) = 1
        identified == \A l \in input.lines : l.line.product # None
        full == {s \in Suppliers : /\ Once(s) /\ IsKnown(s)
                                   /\ \A p \in Products : LineOf(s, p).days # None}
    IN \A s, t \in full :
         identified /\ IsNoWorse(s, t) => LegacyScore(input.lines, s) >= LegacyScore(input.lines, t)

\* Who is recommended could not have been chosen better: by what was asked, by
\* what the others quoted, and in the way of the legacy comparator as well.
RecommendationIsSound == RecommendedIsComplete /\ WinnerIsUndominated /\ LegacyPrefersBetter

\* An item whose name is in, or contains, the names of two products is never
\* assigned to one of them without a question.
NamedTwiceIsAsked ==
  About("matching") /\ (\E p, q \in input.products : p # q /\ NamesOverlap(p, input.item)
                                                   /\ NamesOverlap(q, input.item)) =>
    Match(input.products, input.item).status = "possible_match"

Complies == ComplianceOf(input.requested, input.quoted)

\* A conflict with the request is never made good by what else is quoted.
ConflictsStay ==
  [][About("specifications") /\ Complies = "non_compliant" => Complies' = "non_compliant"]_input

\* What one of a unit is, in thousandths of the smallest unit of its kind.
Worth ==
  [g |-> 1, kg |-> 1000, ml |-> 1, l |-> 1000, mm |-> 1, cm |-> 10, m |-> 1000, pieza |-> 1]

InSmallest(amount, unit) == amount * Worth[CatalogUnit(unit).word]

\* Normalizing a measure, once or again, changes how it is written and not how
\* much it is.
AmountIsKept ==
  [][About("units") /\ CatalogUnit(input.unit).word \in DOMAIN Worth =>
       InSmallest(input.amount, input.unit) = InSmallest(input.amount', input.unit')]_input

\* The units that the three tables have in common.
Common == {"pieza", "kg", "l", "m", "caja", "paquete"}

\* What is asked for in such a unit and quoted in the same amount, in any of its
\* words, is a match: the request goes through two of the tables and the quote
\* through two, and they meet.  ("ud" is in the table of the request only, and a
\* full stop is dropped there only.)
SynonymsMatch ==
  About("units") =>
    \A written \in Units :
      /\ ~written.dot /\ written.word # "ud"
      /\ CatalogUnit(written).word \in Common
      /\ CatalogUnit(written) = CatalogUnit(input.unit)
      => CompareQuantity(RequestedAs(input.amount, input.unit),
                         QuotedAs(input.amount, written)) = "matched"

\* The amount of a measure is neither lost when it is normalized nor when the
\* request and the quote are brought together.
MeasuresAgree == AmountIsKept /\ []SynonymsMatch

\* A text of at least 100 characters or the longest is kept.
TextIsNotLost ==
  About("documents") =>
    LET kept == Extract(input.primary, input.fallback) IN
    \A text \in {input.primary, input.fallback} \ {None} :
      kept # None /\ (Characters(kept) >= 100 \/ Characters(kept) >= Characters(text))

\* A failure of one extractor loses nothing of what the other has found, and more
\* text on a page never makes the decision on the document worse.
TextCounts ==
  /\ []TextIsNotLost
  /\ [][\A x \in {"primary", "fallback"} :
         About("documents") /\ input[x] # None =>
           Rank(Decision(input'[x])) >= Rank(Decision(input[x]))]_input

\* However similar other suppliers are, a company is never given a second row
\* while a supplier with its domain exists that was not merged: no score without
\* an exact signal reaches the weight of a domain.
OneSupplierPerDomain ==
  About("suppliers") =>
    \A s, t \in input.suppliers :
      s.merged = None /\ t.merged = None /\ Same(s.company.domain, t.company.domain) => s = t
=============================================================================
