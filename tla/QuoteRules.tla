------------------------------ MODULE QuoteRules ------------------------------
(***************************************************************************)
(* How the words of a quote are brought together with the words of the     *)
(* request: the three tables of units a word goes through before two       *)
(* quantities are compared, the matching of a quoted item with the         *)
(* requested products, and the evaluation of its specifications.  Pure     *)
(* operators.                                                              *)
(*                                                                         *)
(* A word stands for a text with its case and spaces already gone: every   *)
(* reader removes them before it compares.  A name is a sequence of words, *)
(* none of which is part of another, so that a name is in a text where its *)
(* words are.  Quantities are counted in thousandths.                      *)
(***************************************************************************)
EXTENDS Missing, Integers, Sequences, FiniteSets, FiniteSetsExt

-----------------------------------------------------------------------------
(* Units *)

\* Aliases: by unit, the words for it.  A word that is no alias is its own unit.
UnitIn(aliases, word) ==
  IF \E u \in DOMAIN aliases : word \in aliases[u]
    THEN CHOOSE u \in DOMAIN aliases : word \in aliases[u] ELSE word

\* A written unit: a word, and whether a full stop follows it.
Written(word, dot) == [word |-> word, dot |-> dot]

Plain(word) == Written(word, FALSE)

\* CatalogNormalizer.UNIT_ALIASES.
CatalogUnits ==
  [pieza |-> {"pieza", "piezas", "pza", "pzas", "unidad", "unidades", "ud"},
   kg |-> {"kg", "kilogramo", "kilogramos"}, g |-> {"g", "gramo", "gramos"},
   l |-> {"l", "lt", "litro", "litros"}, ml |-> {"ml", "mililitro", "mililitros"},
   m |-> {"m", "metro", "metros"}, cm |-> {"cm"}, mm |-> {"mm"},
   caja |-> {"caja", "cajas"}, paquete |-> {"paquete", "paquetes"},
   juego |-> {"juego", "juegos"}, servicio |-> {"servicio", "servicios"}]

\* CatalogNormalizer.normalize_unit: a full stop is dropped with an alias only.
CatalogUnit(written) ==
  IF written # None /\ (\E u \in DOMAIN CatalogUnits : written.word \in CatalogUnits[u])
    THEN Plain(UnitIn(CatalogUnits, written.word)) ELSE written

\* The units that are converted, from how much on, into what, and divided by what.
Conversions ==
  {[from |-> "g", least |-> 1000, by |-> 1000, to |-> "kg"],
   [from |-> "ml", least |-> 1000, by |-> 1000, to |-> "l"],
   [from |-> "cm", least |-> 100, by |-> 100, to |-> "m"],
   [from |-> "mm", least |-> 1000, by |-> 1000, to |-> "m"]}

\* Mutant of CatalogQuantity: the amount is converted, and its unit is not.
CatalogQuantityKeepsUnit(amount, written) ==
  LET unit == CatalogUnit(written)
      applicable == {c \in Conversions : unit = Plain(c.from) /\ amount >= c.least * 1000}
  IN IF amount = None \/ unit = None \/ applicable = {} THEN [amount |-> amount, unit |-> unit]
     ELSE LET c == CHOOSE c \in applicable : TRUE IN
          [amount |-> amount \div c.by, unit |-> unit]

\* CatalogNormalizer.normalize_quantity.
CatalogQuantity(amount, written) ==
  LET unit == CatalogUnit(written)
      applicable == {c \in Conversions : unit = Plain(c.from) /\ amount >= c.least * 1000}
  IN IF amount = None \/ unit = None \/ applicable = {} THEN [amount |-> amount, unit |-> unit]
     ELSE LET c == CHOOSE c \in applicable : TRUE IN
          [amount |-> amount \div c.by, unit |-> Plain(c.to)]

\* Unit.ALIASES, which a quoted unit goes through.
QuotedUnits ==
  [piece |-> {"pza", "pzas", "pieza", "piezas", "pcs", "pc", "unidad", "unidades"},
   meter |-> {"m", "metro", "metros"}, kilogram |-> {"kg", "kilogramo", "kilogramos"},
   liter |-> {"l", "litro", "litros"}, set |-> {"set", "juego"},
   service |-> {"service", "servicio"}]

QuotedUnit(written) ==
  IF written = None \/ written.dot THEN written ELSE Plain(UnitIn(QuotedUnits, written.word))

\* ComparisonNormalizer._UNIT_ALIASES, which both go through in the end.
ComparedUnits ==
  [piece |-> {"piece", "pieces", "pieza", "piezas", "pza", "pzas", "pc", "pcs", "unit",
              "unidad", "unidades"},
   box |-> {"box", "boxes", "caja", "cajas"},
   pack |-> {"pack", "packs", "package", "paquete", "paquetes"},
   kg |-> {"kg", "kilogram", "kilograms", "kilogramo", "kilogramos"},
   l |-> {"l", "lt", "liter", "liters", "litro", "litros"},
   m |-> {"m", "meter", "meters", "metro", "metros"}]

ComparedUnit(written) ==
  IF written = None \/ written.dot THEN written ELSE Plain(UnitIn(ComparedUnits, written.word))

\* What the comparison sees of a requested and of a quoted quantity.
RequestedAs(amount, written) ==
  LET q == CatalogQuantity(amount, written) IN [value |-> q.amount, unit |-> ComparedUnit(q.unit)]

QuotedAs(amount, written) == [quantity |-> amount, unit |-> ComparedUnit(QuotedUnit(written))]

-----------------------------------------------------------------------------
(* QuoteProductMatcher: scores are counted in units of 1/6000 *)

Full == 6000

\* _similarity, weighted.
Lexical(a, b) ==
  IF a = {} \/ b = {} THEN 0 ELSE (Cardinality(a \cap b) * 5100) \div Cardinality(a \cup b)

Contains(text, name) ==
  name # << >> /\ \E i, j \in 1..Len(text) : SubSeq(text, i, j) = name

NamesOverlap(product, item) ==
  Contains(product.name, item.name) \/ Contains(item.name, product.name)

\* Within five percent.
CloseQuantity(product, item) ==
  /\ None \notin {product.quantity, item.quantity} /\ product.quantity > 0
  /\ LET d == item.quantity - product.quantity
     IN Max({d, -d}) * 20 <= product.quantity

SameUnit(product, item) == item.unit # None /\ item.unit = product.unit

MatchScore(product, item) ==
  IF NamesOverlap(product, item) THEN Full
  ELSE Min({Full, Lexical(item.words, product.words)
                    + (IF SameUnit(product, item) THEN 480 ELSE 0)
                    + (IF CloseQuantity(product, item) THEN 420 ELSE 0)})

\* The first of the candidates, by score and then by identifier.
BestProduct(products, item) ==
  CHOOSE p \in products : \A q \in products \ {p} :
    \/ MatchScore(p, item) > MatchScore(q, item)
    \/ MatchScore(p, item) = MatchScore(q, item) /\ p.id < q.id

\* Mutant of Match: the second best is not looked at.
MatchBest(products, item) ==
  IF products = {} THEN [product |-> None, status |-> "unmatched"]
  ELSE LET best == BestProduct(products, item)
           score == MatchScore(best, item)
       IN CASE score >= 5400 -> [product |-> best.id, status |-> "matched"]
            [] score < 5400 /\ score >= 3300 -> [product |-> best.id, status |-> "possible_match"]
            [] score < 3300 -> [product |-> None, status |-> "unmatched"]

\* A match needs 0.90 and a lead of 0.10, a possible match 0.55.
Match(products, item) ==
  IF products = {} THEN [product |-> None, status |-> "unmatched"]
  ELSE LET best == BestProduct(products, item)
           score == MatchScore(best, item)
           second == Max({0} \cup {MatchScore(p, item) : p \in products \ {best}})
           certain == score >= 5400 /\ score - second >= 600
       IN CASE certain -> [product |-> best.id, status |-> "matched"]
            [] ~certain /\ score >= 3300 -> [product |-> best.id, status |-> "possible_match"]
            [] score < 3300 -> [product |-> None, status |-> "unmatched"]

-----------------------------------------------------------------------------
(* TechnicalComplianceEvaluator *)

\* Mutant of ComplianceOf: what is quoted is weighed against what conflicts.
ComplianceByMajority(requested, quoted) ==
  LET checked == DOMAIN requested \cap DOMAIN quoted
      agreed == {k \in checked : requested[k] = quoted[k]}
  IN CASE checked = {} -> "unknown"
       [] checked # {} /\ 2 * Cardinality(agreed) < Cardinality(checked) -> "non_compliant"
       [] checked # {} /\ 2 * Cardinality(agreed) >= Cardinality(checked) ->
            IF agreed = DOMAIN requested THEN "compliant" ELSE "partial"

\* Specifications are functions from keys to values; two values agree if one is in
\* the other, which of these values means that they are equal.
ComplianceOf(requested, quoted) ==
  LET checked == DOMAIN requested \cap DOMAIN quoted
      agreed == {k \in checked : requested[k] = quoted[k]}
  IN CASE checked = {} -> "unknown"
       [] checked # {} /\ agreed # checked -> "non_compliant"
       [] checked # {} /\ agreed = checked ->
            IF agreed = DOMAIN requested THEN "compliant" ELSE "partial"
=============================================================================
