------------------------------ MODULE MCDecisions ------------------------------
(* A small instance of Decisions. *)
EXTENDS Decisions

MCSuppliers == {"s1", "s2"}

MCRequested == [p1 |-> [value |-> 2, unit |-> "piece"], p2 |-> [value |-> 4, unit |-> "kg"]]

\* A line that answers the request, and what may differ from it.
Offered(s, p) ==
  [supplier |-> s, product |-> p, quantity |-> Requested[p].value,
   unit |-> Requested[p].unit, unitPrice |-> None, total |-> 60, currency |-> "MXN",
   quoteCurrency |-> None, compliance |-> "compliant", days |-> 4, quoteDays |-> None,
   text |-> FALSE]

MCLines ==
  {[Offered("s1", "p1") EXCEPT !.product = None, !.quantity = 2, !.unit = None]}
  \cup UNION {{Offered(s, p), [Offered(s, p) EXCEPT !.days = 2],
               [Offered(s, p) EXCEPT !.total = 120, !.days = 2],
               [Offered(s, p) EXCEPT !.total = 120, !.compliance = "partial", !.days = None,
                                     !.quoteDays = 4],
               [Offered(s, p) EXCEPT !.quantity = 3]} : s \in Suppliers, p \in Products}
  \cup {[Offered("s2", "p1") EXCEPT !.currency = None],
        [Offered("s1", "p2") EXCEPT !.compliance = "non_compliant"],
        [Offered("s2", "p2") EXCEPT !.total = None, !.currency = "USD", !.days = None]}

MCWeights ==
  {[technical |-> 5000, price |-> 3000, delivery |-> 2000],
   [technical |-> 0, price |-> 10000, delivery |-> 0],
   [technical |-> 2000, price |-> 0, delivery |-> 8000]}

Named(id, name) ==
  [id |-> id, name |-> name, words |-> {name[n] : n \in DOMAIN name},
   quantity |-> 2000, unit |-> "piece"]

MCCatalogLines ==
  {Named(1, <<"steel", "pipe">>), Named(2, <<"steel", "pipe", "cap">>), Named(3, <<"cap">>),
   [Named(4, <<"brass", "pipe">>) EXCEPT !.quantity = 5000, !.unit = "m"]}

MCItems ==
  {Named(0, <<"steel", "pipe">>), Named(0, <<"cap", "pipe">>),
   [Named(0, <<"brass", "cap">>) EXCEPT !.quantity = None, !.unit = None],
   [Named(0, << >>) EXCEPT !.quantity = 2050]}

MCAmounts == {0, 500, 1000, 99000, 100000, 999000, 1000000, 1500000}

MCUnits ==
  {Plain(w) : w \in UNION {CatalogUnits[u] : u \in DOMAIN CatalogUnits} \cup {"rollo"}}
  \cup {Written("pza", TRUE)}

MCNames == {"acme", "acma", "other"}

MCAlike == [n \in MCNames \X MCNames |-> IF "other" \in {n[1], n[2]} THEN 300 ELSE 999]

Suggested(domain, legal, email) ==
  [domain |-> domain, legal |-> legal, trade |-> None, city |-> "city",
   emails |-> IF email = None THEN {} ELSE {email}, phones |-> {}]

MCCompanies ==
  {Suggested("a.com", "acme", None),
   [Suggested("a.com", "other", "x@a.com") EXCEPT !.trade = "other", !.city = None],
   Suggested("b.com", "acma", "x@a.com"), Suggested(None, "acma", None)}
=============================================================================
