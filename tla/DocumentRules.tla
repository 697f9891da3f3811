----------------------------- MODULE DocumentRules -----------------------------
(***************************************************************************)
(* Which text of a document is kept, and what is made of it: the choice    *)
(* between the two extractors of the fallback strategy, and the quality    *)
(* decision on its pages.  Pure operators.                                 *)
(*                                                                         *)
(* A text is a sequence of pages; a page has a number of characters and an *)
(* area in square inches.  An extractor that raised has no text, None.     *)
(* The limits are the defaults of the settings.                            *)
(***************************************************************************)
EXTENDS Missing, Integers, Sequences, FiniteSets, FiniteSetsExt

\* DocumentPage.is_empty.
EmptyPages(text) == Cardinality({n \in DOMAIN text : text[n].characters < 5})

Characters(text) == MapThenSumSet(LAMBDA n : text[n].characters, DOMAIN text)

\* max(total_area, 1.0).
Area(text) == Max({1, MapThenSumSet(LAMBDA n : text[n].area, DOMAIN text)})

\* FallbackDocumentTextExtractor._is_sufficient: at least 100 characters, 20 a
\* page, and at most 60 percent of the pages empty.
IsSufficient(text) ==
  /\ text # << >>
  /\ Characters(text) >= 100
  /\ 100 * EmptyPages(text) <= 60 * Len(text)
  /\ Characters(text) >= 20 * Len(text)

\* _score: the second text is kept only if it is better.
Better(second, first) ==
  \/ Characters(second) > Characters(first)
  \/ /\ Characters(second) = Characters(first)
     /\ LET a == EmptyPages(second) * Len(first)
            b == EmptyPages(first) * Len(second)
        IN a < b \/ (a = b /\ Len(second) > Len(first))

\* extract.
Extract(primary, fallback) ==
  CASE primary # None /\ IsSufficient(primary) -> primary
    [] fallback = None -> primary
    [] primary = None -> fallback
    [] OTHER -> IF Better(fallback, primary) THEN fallback ELSE primary

Ready(text) ==
  /\ text # << >>
  /\ Characters(text) >= 200
  /\ 4 * EmptyPages(text) <= Len(text)
  /\ 2 * Characters(text) >= 3 * Area(text)

NeedsOcr(text) ==
  \/ text = << >>
  \/ Characters(text) <= 50
  \/ 2 * EmptyPages(text) >= Len(text)
  \/ 2 * Characters(text) <= Area(text)

\* Mutant of Decision: a short text is reviewed before it is scanned.
DecisionShortFirst(text) ==
  IF Ready(text) THEN "ready_for_ai"
  ELSE IF Characters(text) > 100 /\ NeedsOcr(text) THEN "needs_ocr" ELSE "manual_review"

\* DocumentQualityEvaluator.evaluate.
Decision(text) ==
  IF Ready(text) THEN "ready_for_ai"
  ELSE IF NeedsOcr(text) THEN "needs_ocr" ELSE "manual_review"

\* From what has to be scanned again to what can be used.
Rank(decision) ==
  CASE decision = "needs_ocr" -> 0
    [] decision = "manual_review" -> 1
    [] decision = "ready_for_ai" -> 2
=============================================================================
