-------------------------- MODULE CatalogMatcher --------------------------
(***************************************************************************)
(* catalog-matcher.ts: which part of the catalog a scan shows, from its    *)
(* name, its size and the quality of the photo; and catalog-search.ts:     *)
(* which part a question names.  Pure functions.  Scores are integers out  *)
(* of Scale, rounded down where the code has fractions; lengths are        *)
(* millimetres.                                                            *)
(***************************************************************************)
EXTENDS Integers, FiniteSets, FiniteSetsExt, SequencesExt

CONSTANTS
    Tokens,      \* words a name may contain, after tokenizePartText
    Identifiers, \* those that carry a digit
    Limit        \* MAX_CATALOG_SEARCH_LIMIT

ASSUME TokensAssumption == IsFiniteSet(Tokens) /\ Identifiers \subseteq Tokens

Scale == 1000
None == -1       \* a length, or a score, that is not known

MATCH_THRESHOLD == 720
MATCH_MARGIN == 120
CANDIDATE_FLOOR == 350
UNCORROBORATED_CONFIDENCE_CAP == 700
MAX_ALTERNATIVES == 3

Larger(a, b) == IF a > b THEN a ELSE b
Smaller(a, b) == IF a < b THEN a ELSE b
Distance(a, b) == IF a > b THEN a - b ELSE b - a

---------------------------------------------------------------------------
(* Words.  An identifier counts three times.                               *)
Weight(tokens) == Cardinality(tokens) + 2 * Cardinality(tokens \cap Identifiers)

NameScore(scan, part) ==
    LET known == part.sku \cup part.name
        shared == Weight(scan.name \cap known)
        recall == (Scale * shared) \div Weight(scan.name)
        precision == (Scale * shared) \div Weight(known)
        bonus == IF scan.name \cap part.sku \cap Identifiers = {} THEN 0 ELSE Scale \div 10
    IN IF scan.name = {} \/ known = {}
       THEN 0
       ELSE Smaller(Scale, (75 * recall + 25 * precision) \div 100 + bonus)

DescriptionScore(scan, part) ==
    IF scan.description = {} \/ part.description = {}
    THEN None
    ELSE (Scale * Weight(scan.description \cap part.description))
           \div Weight(scan.description \cup part.description)

---------------------------------------------------------------------------
(* Sizes.  Full score within the larger of 2 mm and a share of the         *)
(* catalogued length, none at three times that.                            *)
AxisScore(measured, catalogued, percent) ==
    LET allowed == Larger(200, percent * catalogued)
        error == 100 * Distance(measured, catalogued)
    IN IF error <= allowed
       THEN Scale
       ELSE Larger(0, Scale - (Scale * (error - allowed)) \div (2 * allowed))

(* The scan may lie either way round.                                      *)
PlanarScore(scan, part) ==
    LET Short(x) == Smaller(x.length, x.width)
        Long(x) == Larger(x.length, x.width)
    IN (AxisScore(Short(scan), Short(part), 5) + AxisScore(Long(scan), Long(part), 5)) \div 2

DimensionScore(scan, part) ==
    IF None \in {part.length, part.width}
    THEN None
    ELSE IF None \in {scan.height, part.height}
    THEN PlanarScore(scan, part)
    ELSE (75 * PlanarScore(scan, part) + 25 * AxisScore(scan.height, part.height, 10)) \div 100

(* Half the rectangle fit, half the calibration of the mat: 2 pixels of    *)
(* error are good, 8 are useless.                                          *)
ScanQuality(scan) ==
    LET calibration == (Scale * Larger(0, Smaller(6, 8 - scan.rms))) \div 6
    IN (scan.confidence + calibration) \div 2

---------------------------------------------------------------------------
(* The blend of the scores there are, discounted by the quality.           *)
Share(weight, score) == IF score = None THEN <<0, 0>> ELSE <<weight * score, weight>>

Similarity(scan, part) ==
    LET name == Share(45, NameScore(scan, part))
        size == Share(45, DimensionScore(scan, part))
        description == Share(10, DescriptionScore(scan, part))
    IN (name[1] + size[1] + description[1]) \div (name[2] + size[2] + description[2])

Discounted(score, quality) == (score * (100 * Scale - 35 * (Scale - quality))) \div (100 * Scale)

(* Mutant of Confidence: a part of unknown size is trusted by its name.    *)
Uncapped(scan, part) == Discounted(Similarity(scan, part), ScanQuality(scan))

(* Name agreement alone is never identity.                                 *)
Confidence(scan, part) ==
    LET confidence == Discounted(Similarity(scan, part), ScanQuality(scan))
    IN IF DimensionScore(scan, part) = None
       THEN Smaller(confidence, UNCORROBORATED_CONFIDENCE_CAP)
       ELSE confidence

(* catalog is a sequence of parts in the order of their SKUs, which        *)
(* decides between equals.                                                 *)
Before(score, i, j) == score[i] > score[j] \/ (score[i] = score[j] /\ i < j)

Unmatched == 0

(* decideCatalogMatch.  Parts are named by their place in the catalog.     *)
DecideByScore(score) ==
    LET plausible == {i \in DOMAIN score : score[i] >= CANDIDATE_FLOOR}
        better(i) == {j \in plausible : Before(score, j, i)}
        best == CHOOSE i \in plausible : better(i) = {}
        leads == \A i \in plausible \ {best} : score[best] - score[i] >= MATCH_MARGIN
    IN IF plausible = {}
       THEN [status |-> "NO_MATCH", part |-> Unmatched, candidates |-> {}]
       ELSE IF score[best] >= MATCH_THRESHOLD /\ leads
       THEN [status |-> "MATCHED", part |-> best, candidates |-> {}]
       ELSE [status |-> "AMBIGUOUS", part |-> Unmatched,
             candidates |-> {i \in plausible : Cardinality(better(i)) < MAX_ALTERNATIVES}]

Scores(scan, catalog) == <<>> \o [i \in DOMAIN catalog |-> Confidence(scan, catalog[i])]

DecideCatalogMatch(scan, catalog) == DecideByScore(Scores(scan, catalog))

---------------------------------------------------------------------------
(* What the verdict promises, said without its arithmetic.  A match is of  *)
(* a part whose size is known and that leads every other part by the       *)
(* margin, so two parts that look alike are never told apart.  Turning the *)
(* scan, or listing the catalog in another order, changes nothing; and an  *)
(* operator is offered every plausible part, or the three best.            *)
Turned(scan) == [scan EXCEPT !.length = scan.width, !.width = scan.length]

MatchIsSafe(scan, catalog) ==
    LET score == Scores(scan, catalog)
        v == DecideCatalogMatch(scan, catalog)
        w == DecideCatalogMatch(scan, Reverse(catalog))
    IN /\ v.status = "MATCHED" =>
            /\ catalog[v.part].length # None /\ catalog[v.part].width # None
            /\ \A i \in DOMAIN catalog \ {v.part} : score[i] + MATCH_MARGIN <= score[v.part]
            /\ w.part = Len(catalog) + 1 - v.part
       /\ w.status = v.status
       /\ DecideCatalogMatch(Turned(scan), catalog) = v
       /\ v.status = "AMBIGUOUS" =>
            /\ v.candidates # {} /\ Cardinality(v.candidates) <= MAX_ALTERNATIVES
            /\ \A i \in DOMAIN catalog \ v.candidates :
                 \/ score[i] < CANDIDATE_FLOOR
                 \/ /\ Cardinality(v.candidates) = MAX_ALTERNATIVES
                    /\ \A j \in v.candidates : score[j] >= score[i]

---------------------------------------------------------------------------
(* Searching the catalog.                                                  *)

(* An identifier counts twice here.                                        *)
SearchWeight(tokens) == Cardinality(tokens) + Cardinality(tokens \cap Identifiers)

Searchable(part) == part.sku \cup part.name \cup part.description

ExactSku(query, part) == query = part.sku

(* A question with identifiers is about parts that carry one of them.      *)
Hits(query, catalog) ==
    {i \in DOMAIN catalog :
       LET matched == query \cap Searchable(catalog[i])
       IN \/ ExactSku(query, catalog[i])
          \/ /\ matched # {}
             /\ query \cap Identifiers # {} => matched \cap Identifiers # {}}

SearchScore(query, part) ==
    IF ExactSku(query, part) THEN Scale
    ELSE (Scale * SearchWeight(query \cap Searchable(part))) \div SearchWeight(query)

(* searchParts: the best Limit hits, strongest first.                      *)
SearchParts(query, catalog) ==
    LET score == [i \in DOMAIN catalog |-> SearchScore(query, catalog[i])]
        ranked == SetToSortSeq(Hits(query, catalog), LAMBDA i, j : Before(score, i, j))
    IN IF query = {} THEN <<>> ELSE SubSeq(ranked, 1, Smaller(Limit, Len(ranked)))

(* resolvePartQuery: a tie at the top is not broken.                       *)
ResolvePartQuery(query, catalog) ==
    LET hits == SearchParts(query, catalog)
        scoreOf(i) == SearchScore(query, catalog[i])
        top == {hits[n] : n \in {m \in DOMAIN hits : scoreOf(hits[m]) = scoreOf(hits[1])}}
    IN IF hits = <<>> THEN [status |-> "not_found", parts |-> {}]
       ELSE IF Cardinality(top) = 1 THEN [status |-> "resolved", parts |-> top]
       ELSE [status |-> "ambiguous", parts |-> top]

---------------------------------------------------------------------------
(* What an answer about a part promises: it is about a part that carries   *)
(* an identifier of the question, if the question has one; and unless as   *)
(* many parts tie as are listed, a part named by its SKU is never passed   *)
(* over, and the order of the catalog does not matter.                     *)
AnswerIsAboutTheQuestion(query, catalog) ==
    LET answer == ResolvePartQuery(query, catalog)
        reversed == ResolvePartQuery(query, Reverse(catalog))
        named == {i \in DOMAIN catalog : catalog[i].sku # {} /\ ExactSku(query, catalog[i])}
        Carries(i) == query \cap Identifiers \cap Searchable(catalog[i])
    IN /\ \A i \in answer.parts : query \cap Identifiers # {} => Carries(i) # {}
       /\ Cardinality(answer.parts) < Limit =>
            /\ named \subseteq answer.parts
            /\ reversed.status = answer.status
            /\ reversed.parts = {Len(catalog) + 1 - i : i \in answer.parts}

============================================================================
