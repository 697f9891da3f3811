--------------------------- MODULE ComparisonRules ---------------------------
(***************************************************************************)
(* What a comparison and a recommendation contain: the comparison builder  *)
(* (v2), the recommendation engine that reads what it builds, and the      *)
(* legacy comparison engine, which does both at once.  Nothing here has a  *)
(* state: the lines of the approved quotes go in, a result comes out.      *)
(*                                                                         *)
(* Numbers.  A score is a sum of weights times ratios.  Ratios are counted *)
(* in units of 1/Scale and weights in units of 1/Whole, so that everything *)
(* is exact where Scale is a multiple of every amount and every number of  *)
(* days that occurs; the code keeps 28 digits instead.  Only the total is  *)
(* rounded, to hundredths, half to even.                                   *)
(***************************************************************************)
EXTENDS Missing, Integers, FiniteSets, FiniteSetsExt

CONSTANTS
  Suppliers,   \* the participants
  Requested,   \* the snapshot: by product, a quantity and a unit
  Scale        \* a ratio of 1

Whole == 10000  \* a weight of 1

Products == DOMAIN Requested

\* A snapshot has products, and a comparison without them raises.
ASSUME RulesAssumption ==
  /\ IsFiniteSet(Suppliers)
  /\ IsFiniteSet(Products) /\ Products # {}
  /\ Scale \in Nat \ {0}

-----------------------------------------------------------------------------
(* Values *)

Compliance == {"compliant", "partial", "non_compliant", "unknown"}

\* A line of an approved quote: the item, and the header of its quote as far as
\* it stands in for the item.  Units are normalized; "??": a currency that is not
\* a three-letter code.
LineTypes(Amounts, Days, Units, Currencies) ==
  [supplier : Suppliers, product : Products \cup {None},
   quantity : Amounts \cup {None}, unit : Units \cup {None},
   unitPrice : Amounts \cup {None}, total : Amounts \cup {None},
   currency : Currencies \cup {None, "??"}, quoteCurrency : Currencies \cup {None},
   compliance : Compliance,
   days : Days \cup {None}, quoteDays : Days \cup {None}, text : BOOLEAN]

\* RecommendationWeights: what the API accepts.
AcceptedWeights(w) ==
  /\ \A k \in {"technical", "price", "delivery"} : w[k] \in 0..Whole
  /\ w.technical + w.price + w.delivery \in (Whole - 1)..(Whole + 1)

-----------------------------------------------------------------------------
(* ComparisonNormalizer *)

CurrencyOf(line) == IF line.currency # None THEN line.currency ELSE line.quoteCurrency

\* money: an amount whose currency is not a code has none.
Money(amount, currency) ==
  [amount |-> amount, currency |-> IF currency = "??" THEN None ELSE currency]

DaysOf(line) == IF line.days # None THEN line.days ELSE line.quoteDays

\* Mutant of CompareQuantity: the units are not compared.
CompareQuantityOnly(requested, line) ==
  CASE requested.value = None \/ line.quantity = None -> "unknown"
    [] requested.unit = None \/ line.unit = None -> "unknown"
    [] OTHER -> IF requested.value # line.quantity THEN "quantity_mismatch" ELSE "matched"

CompareQuantity(requested, line) ==
  IF None \in {requested.value, line.quantity, requested.unit, line.unit} THEN "unknown"
  ELSE CASE requested.unit # line.unit -> "unit_mismatch"
         [] requested.unit = line.unit /\ requested.value # line.quantity ->
              "quantity_mismatch"
         [] OTHER -> "matched"

-----------------------------------------------------------------------------
(* ComparisonBuilder *)

\* _build_offer; a warning is a severity and a code.
OfferWarnings(line, requested) ==
  LET currency == CurrencyOf(line)
      priced == line.unitPrice # None \/ line.total # None
      quantity == CompareQuantity(requested, line)
      gaps == {c \in {"missing_price", "missing_currency", "compliance_unknown",
                      "delivery_unknown"} :
                 CASE c = "missing_price" -> ~priced
                   [] c = "missing_currency" -> priced /\ currency = None
                   [] c = "compliance_unknown" -> line.compliance = "unknown"
                   [] c = "delivery_unknown" -> DaysOf(line) = None /\ ~line.text}
  IN {<<"warning", c>> :
        c \in gaps
              \cup ({quantity} \cap {"quantity_mismatch", "unit_mismatch"})
              \cup {c \in {"delivery_not_normalized"} : DaysOf(line) = None /\ line.text}
              \cup {c \in {"incomplete_quote"} : gaps # {}}}

QuotedOffer(line, requested) ==
  [status |-> "quoted", quantity |-> CompareQuantity(requested, line),
   unitPrice |-> Money(line.unitPrice, CurrencyOf(line)),
   total |-> Money(line.total, CurrencyOf(line)),
   compliance |-> line.compliance, days |-> DaysOf(line),
   warnings |-> OfferWarnings(line, requested)]

NoMoney == [amount |-> None, currency |-> None]

\* An offer that is missing, or invalid because there are several.
EmptyOffer(status, warnings) ==
  [status |-> status, quantity |-> "unknown", unitPrice |-> NoMoney, total |-> NoMoney,
   compliance |-> "unknown", days |-> None, warnings |-> warnings]

\* Each line has a number, so that equal lines are two.
OfferOf(lines, s, p) ==
  LET own == {l \in lines : l.line.supplier = s /\ l.line.product = p} IN
  CASE own = {} -> EmptyOffer("missing", {<<"warning", "missing_product_quote">>})
    [] Cardinality(own) > 1 -> EmptyOffer("invalid", {<<"critical", "duplicate_quote_item">>})
    [] OTHER -> QuotedOffer((CHOOSE l \in own : TRUE).line, Requested[p])

OfferCurrency(o) ==
  IF o.unitPrice.currency # None THEN o.unitPrice.currency ELSE o.total.currency

\* The suppliers whose price of an item has an amount and a currency.
CompletePrices(offers) ==
  {s \in Suppliers : /\ offers[s].status = "quoted"
                     /\ offers[s].unitPrice.amount # None \/ offers[s].total.amount # None
                     /\ OfferCurrency(offers[s]) # None}

MonetaryStatus(offers) ==
  LET complete == CompletePrices(offers)
      currencies == {OfferCurrency(offers[s]) : s \in complete}
  IN CASE Cardinality(currencies) > 1 -> "requires_normalization"
       [] Cardinality(currencies) <= 1 /\ Cardinality(complete) >= 2 -> "comparable"
       [] OTHER -> "insufficient_data"

BuildItem(lines, p) ==
  LET offers == [s \in Suppliers |-> OfferOf(lines, s, p)]
      money == MonetaryStatus(offers)
  IN [offers |-> offers, money |-> money,
      warnings |-> {<<"warning", c>> : c \in {c \in {"requested_quantity_unknown",
           "requested_unit_unknown", "currency_mismatch"} :
             CASE c = "requested_quantity_unknown" -> Requested[p].value = None
               [] c = "requested_unit_unknown" -> Requested[p].unit = None
               [] c = "currency_mismatch" -> money = "requires_normalization"}}]

\* The warnings of the comparison itself; quoting: who has an approved quote.
GlobalWarnings(lines, quoting) ==
  (IF \E l \in lines : l.line.product = None
     THEN {<<"critical", "product_unidentified">>} ELSE {})
  \cup (IF Suppliers \ quoting # {}
          THEN {<<"warning", "supplier_without_valid_quote">>} ELSE {})
  \cup (IF \E s \in quoting : \A l \in lines : l.line.supplier # s
          THEN {<<"warning", "incomplete_quote">>} ELSE {})

Critical(warnings) == \E w \in warnings : w[1] = "critical"

\* Comparison.complete; a snapshot without products raises instead.
Comparison(lines, quoting) ==
  LET items == [p \in Products |-> BuildItem(lines, p)]
      global == GlobalWarnings(lines, quoting)
      critical == \/ Critical(global)
                  \/ \E p \in Products : Critical(items[p].warnings)
                  \/ \E p \in Products, s \in Suppliers :
                       Critical(items[p].offers[s].warnings)
  IN [status |-> IF critical THEN "invalid" ELSE "ready", items |-> items,
      warnings |-> global]

-----------------------------------------------------------------------------
(* RecommendationEngine *)

Least(S) == IF S = {} THEN None ELSE Min(S)

Quoting(item) == {s \in Suppliers : item.offers[s].status = "quoted"}

\* _minimum_price: of everybody who quoted, eligible or not.
MinimumPrice(item) ==
  IF item.money # "comparable" THEN None
  ELSE Least({item.offers[s].total.amount : s \in {s \in Quoting(item) :
                item.offers[s].total.amount # None /\ item.offers[s].total.currency # None}})

MinimumDelivery(item) ==
  Least({item.offers[s].days : s \in {s \in Quoting(item) : item.offers[s].days # None}})

TechnicalScore(offer) ==
  CASE offer.compliance = "compliant" -> Scale
    [] offer.compliance = "partial" -> Scale \div 2
    [] OTHER -> None

\* What _price_score and _delivery_score have in common.
RatioTo(minimum, value) ==
  CASE value = None \/ minimum = None -> None
    [] value # None /\ minimum = 0 -> IF value = 0 THEN Scale ELSE 0
    [] OTHER -> IF value <= 0 THEN None ELSE Min({Scale, (minimum * Scale) \div value})

PriceScore(item, offer) ==
  IF item.money # "comparable" \/ offer.total.currency = None THEN None
  ELSE RatioTo(MinimumPrice(item), offer.total.amount)

DeliveryScore(item, offer) == RatioTo(MinimumDelivery(item), offer.days)

\* Mutant of ItemReasons: the quantity is not looked at.
ItemReasonsAnyQuantity(item, offer, w) ==
  IF offer.status # "quoted" THEN {offer.status}
  ELSE {r \in {"non_compliant", "technical_unknown",
               "price_not_comparable", "delivery_not_comparable"} :
          CASE r = "non_compliant" -> offer.compliance = "non_compliant"
            [] r = "technical_unknown" -> w.technical > 0 /\ TechnicalScore(offer) = None
            [] r = "price_not_comparable" -> w.price > 0 /\ PriceScore(item, offer) = None
            [] r = "delivery_not_comparable" ->
                 w.delivery > 0 /\ DeliveryScore(item, offer) = None}

\* _candidate: why an offer excludes its supplier.
ItemReasons(item, offer, w) ==
  IF offer.status # "quoted" THEN {offer.status}
  ELSE {r \in {"quantity_not_matched", "non_compliant", "technical_unknown",
               "price_not_comparable", "delivery_not_comparable"} :
          CASE r = "quantity_not_matched" -> offer.quantity # "matched"
            [] r = "non_compliant" -> offer.compliance = "non_compliant"
            [] r = "technical_unknown" -> w.technical > 0 /\ TechnicalScore(offer) = None
            [] r = "price_not_comparable" -> w.price > 0 /\ PriceScore(item, offer) = None
            [] r = "delivery_not_comparable" ->
                 w.delivery > 0 /\ DeliveryScore(item, offer) = None}

Reasons(x, s, w) ==
  UNION {ItemReasons(x.items[p], x.items[p].offers[s], w) : p \in Products}

Eligible(x, w) == {s \in Suppliers : Reasons(x, s, w) = {}}

\* Decimal.quantize: half to even.
RoundHalfEven(n, d) ==
  LET q == n \div d
      r == n % d
  IN IF 2 * r > d \/ (2 * r = d /\ q % 2 = 1) THEN q + 1 ELSE q

\* In hundredths of a percent: an average over the products, for every weight.
Score(x, s, w) ==
  LET Of(p) ==
        LET item == x.items[p]
            offer == item.offers[s]
        IN (IF w.technical > 0 THEN w.technical * TechnicalScore(offer) ELSE 0)
           + (IF w.price > 0 THEN w.price * PriceScore(item, offer) ELSE 0)
           + (IF w.delivery > 0 THEN w.delivery * DeliveryScore(item, offer) ELSE 0)
  IN RoundHalfEven(MapThenSumSet(Of, Products), Scale * Cardinality(Products))

\* Only a ready comparison is taken.  A score above 100 raises ValidationError;
\* two best scores that are equal once rounded withhold the recommendation.
Recommendation(x, w) ==
  LET eligible == Eligible(x, w)
      best == {s \in eligible : \A t \in eligible : Score(x, s, w) >= Score(x, t, w)}
  IN CASE x.status # "ready" -> [status |-> "refused", supplier |-> None]
       [] x.status = "ready" /\ (\E s \in eligible : Score(x, s, w) > Whole) ->
            [status |-> "refused", supplier |-> None]
       [] OTHER ->
            IF Cardinality(best) # 1 THEN [status |-> "withheld", supplier |-> None]
            ELSE [status |-> "ready", supplier |-> CHOOSE s \in best : TRUE]

-----------------------------------------------------------------------------
(* ComparisonEngine, the legacy one: every line is scored, and what is unknown *)
(* counts for one half.                                                        *)

SameProduct(lines, l) == {m \in lines : m.line.product = l.line.product}

LegacyTechnical(l) ==
  CASE l.line.compliance = "compliant" -> Scale
    [] l.line.compliance = "non_compliant" -> 0
    [] OTHER -> Scale \div 2

\* A currency counts only with a price; the minimum is taken over one currency.
LegacyPrice(lines, l) ==
  LET same == SameProduct(lines, l)
      currencies == {m.line.currency : m \in {m \in same :
        m.line.currency # None /\ (m.line.total # None \/ m.line.unitPrice # None)}}
      minimum == Least({m.line.total : m \in {m \in same : m.line.total # None}})
  IN CASE Cardinality(currencies) > 1 \/ l.line.total = None -> Scale \div 2
       [] Cardinality(currencies) <= 1 /\ l.line.total = 0 -> Scale
       [] Cardinality(currencies) <= 1 /\ l.line.total # None /\ l.line.total > 0 ->
            IF minimum = 0 THEN Scale \div 2 ELSE (minimum * Scale) \div l.line.total

\* The baseline is at least one day.
LegacyDelivery(lines, l) ==
  LET minimum == Least({m.line.days : m \in {m \in SameProduct(lines, l) : m.line.days # None}})
  IN CASE l.line.days = None -> Scale \div 2
       [] l.line.days = 0 -> Scale
       [] OTHER -> Min({Scale, (Max({minimum, 1}) * Scale) \div l.line.days})

\* Every line is rounded by itself.
LegacyLineScore(lines, l) ==
  RoundHalfEven(5000 * LegacyTechnical(l) + 3500 * LegacyPrice(lines, l)
                  + 1500 * LegacyDelivery(lines, l), Scale)

\* The average over the lines of the supplier, however many products they cover.
LegacyScore(lines, s) ==
  LET own == {l \in lines : l.line.supplier = s}
      Of(l) == LegacyLineScore(lines, l)
  IN RoundHalfEven(MapThenSumSet(Of, own), Cardinality(own))

=============================================================================
