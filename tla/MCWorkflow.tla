---------------------------- MODULE MCWorkflow ----------------------------
(***************************************************************************)
(* Two requests, two bins of different size, a catalog of two brackets     *)
(* that look alike, and what the matcher says of three scans.              *)
(***************************************************************************)
EXTENDS Workflow, CatalogMatcher

CONSTANTS x1, x2

MCTokens == {"M3", "M4", "bracket"}
MCIdentifiers == {"M3", "M4"}

Part(name, length, width) ==
    [sku |-> {}, name |-> name, description |-> {}, length |-> length, width |-> width,
     height |-> None]

Scan(name, length, width, confidence) ==
    [name |-> name, description |-> {}, length |-> length, width |-> width,
     height |-> None, confidence |-> confidence, rms |-> 2]

(* p and q look alike.  n comes from registering a bad photo of m.         *)
PartOf ==
    [p |-> Part({"M3", "bracket"}, 40, 20), q |-> Part({"M3", "bracket"}, 41, 20),
     m |-> Part({"M4", "bracket"}, 80, 25), n |-> Part({"M4", "bracket"}, 80, 25)]

ScanOf ==
    [alike |-> Scan({"M3", "bracket"}, 40, 20, Scale),
     other |-> Scan({"M3", "bracket"}, 20, 41, Scale),
     clear |-> Scan({"M4", "bracket"}, 80, 25, Scale),
     blurred |-> [Scan({"M4", "bracket"}, 80, 25, 0) EXCEPT !.rms = 8]]

MCParts == DOMAIN PartOf
MCScans == DOMAIN ScanOf
MCRegistered == [s \in MCScans |-> IF s = "blurred" THEN {"n"} ELSE {}]

(* The parts a scan looks like, and what the matcher then says.            *)
Looks ==
    [s \in MCScans |-> IF s \in {"alike", "other"} THEN {"p", "q"} ELSE {"m", "n"}]

Verdicts ==
    [s \in MCScans, C \in SUBSET MCParts |->
       LET seen == Looks[s] \cap C
           clear == Cardinality(seen) = 1 /\ s # "blurred"
       IN [status |-> IF seen = {} THEN "NO_MATCH" ELSE IF clear THEN "MATCHED" ELSE "AMBIGUOUS",
           part |-> IF clear THEN CHOOSE p \in seen : TRUE ELSE NoPart,
           candidates |-> IF clear THEN {} ELSE seen]]

MCVerdict(s, C) == Verdicts[s, C]

SkuOrder == <<"m", "n", "p", "q">>

VerdictIsOfTheMatcher(s, C) ==
    LET listed == SelectSeq(SkuOrder, LAMBDA p : p \in C)
        v == DecideCatalogMatch(ScanOf[s], [i \in DOMAIN listed |-> PartOf[listed[i]]])
    IN MCVerdict(s, C) =
         [status |-> v.status, part |-> IF v.part = Unmatched THEN NoPart ELSE listed[v.part],
          candidates |-> {listed[i] : i \in v.candidates}]

MCBins == {1, 2}
MCCapacity == <<1, 2>>

Ask(kind, key) ==
    [kind |-> kind, valid |-> TRUE, key |-> key, bin |-> NoBin, part |-> NoPart,
     verify |-> TRUE, scan |-> NoScan, given |-> NoRow, photo |-> TRUE, sure |-> TRUE,
     quantity |-> 1]
Fetch(key, part, bin) == [Ask("RETRIEVAL", key) EXCEPT !.part = part, !.bin = bin]
Store(key, scan) == [Ask("PUTAWAY", key) EXCEPT !.scan = scan]
Row(p, n) == [Nothing EXCEPT ![p] = n]

Scenario(a, b, statuses, rows, clerks) ==
    [request |-> x1 :> a @@ x2 :> b, binStatus |-> statuses, stock |-> rows, clerks |-> clerks]

MCScenarios ==
    { \* one scan is sent twice with the same confirmation
      Scenario([Store("a", "alike") EXCEPT !.given = "r"],
               [Store("a", "alike") EXCEPT !.given = "r", !.bin = 2],
               <<"AVAILABLE", "OCCUPIED">>, <<Nothing, Row("q", 1)>>, Clerks),
      \* a confirmation is sent with a scan it was not given for
      Scenario([Store("a", "alike") EXCEPT !.given = "r"],
               [Store("b", "other") EXCEPT !.given = "r"],
               <<"AVAILABLE", "AVAILABLE">>, <<Nothing, Nothing>>, Clerks),
      \* a part is put away while its double is registered; bad requests
      Scenario(Store("a", "clear"), [Store("b", "clear") EXCEPT !.photo = FALSE],
               <<"OCCUPIED", "AVAILABLE">>, <<Row("m", 1), Nothing>>, Clerks),
      Scenario([Store("a", "clear") EXCEPT !.valid = FALSE],
               [Fetch("b", "p", NoBin) EXCEPT !.valid = FALSE],
               <<"OCCUPIED", "AVAILABLE">>, <<Row("m", 1), Nothing>>, {}) }
    \cup
    { \* one bin is asked for twice, by its part or by its code
      Scenario(Fetch("a", p, 1), [Fetch("a", NoPart, 1) EXCEPT !.verify = v],
               <<"OCCUPIED", "OCCUPIED">>, <<Row("p", 1), Row("p", 2)>>, {})
        : p \in {"p", NoPart}, v \in BOOLEAN }
    \cup
    { \* pieces of a part whose bin is out, while the other bin is fetched
      Scenario([Store("a", "clear") EXCEPT !.quantity = n, !.bin = b],
               Fetch("a", "p", NoBin),
               <<"CHECKED_OUT", status>>, <<Row("m", 1), IF status = "AVAILABLE" THEN Nothing ELSE Row("p", 1)>>, {})
        : n \in 1 .. 2, b \in {NoBin, 2}, status \in {"AVAILABLE", "OCCUPIED"} }

(* Scans against catalogs of two parts and of four.                        *)
SampleParts ==
    {[Part(words[1], length, 20) EXCEPT !.sku = words[2], !.height = height] :
       words \in {<<{"bracket"}, {}>>, <<{"M3", "bracket"}, {}>>, <<{"bracket"}, {"M3"}>>},
       length \in {None, 40, 44}, height \in {None, 10}}

SampleScans ==
    {[Scan({"M3", "bracket"}, length, 20, confidence) EXCEPT !.height = 10] :
       length \in {15, 40, 43}, confidence \in {0, Scale}}

SampleMatchesAreSafe ==
    \A s \in SampleScans : \A a, b \in SampleParts :
      /\ MatchIsSafe(s, <<a, b>>)
      /\ s.length = 43 => MatchIsSafe(s, <<a, PartOf["p"], b, a>>)

(* What the matcher promises about any scan, that it is the matcher's      *)
(* verdicts the workflows are run with, and what an answer to a question   *)
(* about a part promises.  All of it is about constants, so it is enough   *)
(* to look where a behaviour starts.                                       *)
MatchIsSound ==
    Init =>
      /\ SampleMatchesAreSafe
      /\ \A s \in MCScans, C \in SUBSET MCParts : VerdictIsOfTheMatcher(s, C)
      /\ \A query \in SUBSET MCTokens : \A a, b \in SampleParts :
           AnswerIsAboutTheQuestion(query, <<PartOf["m"], a, b>>)

===========================================================================
