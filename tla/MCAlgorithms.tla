--------------------------- MODULE MCAlgorithms ---------------------------
(* The modules without a state of their own, on samples of their inputs: a   *)
(* sample is taken, and what its module promises must hold of it.  Each      *)
(* property is stated of the step that takes the sample.                     *)
EXTENDS Integers, Sequences, FiniteSets, TLC

CONSTANTS None, Invalid

VARIABLE sample  \* [of, data]: what the sample is of, None before it is taken

Upto(n, S) == UNION {[1..k -> S] : k \in 0..n}

-----------------------------------------------------------------------------
\* Rows: two lines of two words each, what else a detector finds there - marks over and
\* under, a word without a line, a rule, a tall word - and up to two drawn lines.

Rw == INSTANCE Rows
Word(x0, y0, x1, y1, line) == [x0 |-> x0, y0 |-> y0, x1 |-> x1, y1 |-> y1, line |-> line]
Stroke(lo, hi, y) == [x_lo |-> lo, x_hi |-> hi, y |-> y]
PageWords == <<Word(0, 0, 40, 20, 1), Word(50, 0, 90, 20, 1), Word(0, 30, 40, 50, 2), Word(50, 30, 90, 50, 2)>>
MoreWords == {<<>>, <<Word(60, -8, 64, -4, 0)>>, <<Word(60, 22, 66, 28, 0)>>, <<Word(96, 4, 110, 24, 0)>>,
              <<Word(0, 52, 160, 56, 2)>>, <<Word(60, -8, 64, -4, 1), Word(60, 22, 66, 28, 0)>>, <<Word(96, 4, 110, 44, 2)>>}
Strokes == {Stroke(lo, hi, y) : lo \in {0, 48}, hi \in {90, 120}, y \in {-5, 10, 25, 40}} \cup {Stroke(0, 20, y) : y \in {10, 40}}
Drawings == {<<>>} \cup {<<s>> : s \in Strokes}
            \cup {<<s, t>> : s \in {Stroke(0, 90, 10), Stroke(48, 60, -5)}, t \in {Stroke(0, 20, 40), Stroke(48, 90, 25)}}
RowSamples == [words : {PageWords \o more : more \in MoreWords}, strokes : Drawings]

\* A reviewer's lines are an edit of the rows, which keep their words: see Rows.
DrawnLineEditsItsRow ==
    [][sample'.of = "rows" => Rw!DrawnLineEditsItsRow(sample'.data.words, sample'.data.strokes)]_sample

\* rows.py:333: a stroke that replaces a row never takes another row's words.
NeighbourKeepsItsWords ==
    [][sample'.of = "rows" => Rw!NeighbourKeepsItsWords(sample'.data.words, sample'.data.strokes)]_sample

-----------------------------------------------------------------------------
\* Numbering: up to three rows, beside, within and over each other, and up to three words

Nb == INSTANCE Numbering WITH MaxBandHeight <- 20, StripsMax <- 3, PillWidth <- 8, PillHeight <- 8, PillInset <- 2,
                              ColumnGap <- 2, MarginLanes <- 2, ChipSizes <- <<8, 6>>, ChipGap <- 1, EdgePad <- 2
Row(y, height, x, words) ==
    [band |-> Nb!Box(x, y, x + 20 * words, y + height),
     words |-> [i \in 1..words |-> Nb!Box(x + 20 * (i - 1), y, x + 20 * i - 4, y + height)]]
RowsAt(y) == {Row(y, height, x, words) : height \in {10, 16}, x \in {0, 40}, words \in {1, 2}}
NumberedRows ==
    {<<a>> : a \in RowsAt(0)} \cup {<<a, b>> : a \in RowsAt(0), b \in RowsAt(12)} \cup {<<Row(0, 60, 0, 1), Row(0, 60, 0, 1), Row(0, 60, 0, 1)>>}
    \cup {<<a, b, c>> : a \in {Row(0, 10, 40, 2), Row(0, 16, 0, 1)}, b \in {Row(12, 10, 40, 1), Row(0, 10, 0, 1)}, c \in RowsAt(12) \cup RowsAt(30)}
WordBoxes == {Nb!Box(x, y, x + width, y + 10) : x \in {10, 24, 40}, y \in {10, 22}, width \in {8, 16}}
NumberedWords == {<<a, b>> : a \in WordBoxes, b \in WordBoxes} \cup {<<Nb!Box(10, 10, 26, 20), b, c>> : b \in WordBoxes, c \in WordBoxes}

\* Every row is in one band with a pill clear of the writing, and every chip is clear: see Numbering.
NumbersStandClear ==
    [][/\ sample'.of = "numbered rows" => Nb!EveryRowInOneBand(sample'.data) /\ Nb!PillsClear(sample'.data)
       /\ sample'.of = "numbered words" => Nb!LabelsClear(sample'.data)]_sample

-----------------------------------------------------------------------------
\* Evidence: one item or two, whose sentences name the person in full, in part or not

Ev == INSTANCE Evidence WITH PrefixSentences <- 1, MaxQuotes <- 1, MaxHits <- 5
AnnLee == [id |-> "ann", name |-> "Ann Lee", first |-> "Ann"]
Sentences == {{}, {"Ann"}, {"Ann", "Ann Lee"}}
ShelfItems == [id : {"i1"}, people : {{}, {"ann"}}, story : Upto(1, Sentences), transcription : Upto(2, Sentences),
               draft : BOOLEAN, status : {"catalogued", "draft"}]
OtherItem == [id |-> "i2", people |-> {}, story |-> <<{"Ann"}>>, transcription |-> <<>>, draft |-> FALSE, status |-> "catalogued"]
EvidenceSamples == {<<i>> : i \in ShelfItems} \cup {<<OtherItem, i>> : i \in ShelfItems}

\* An item that attests the person is found, and quoted at the person: see Evidence.
EvidenceFound == [][sample'.of = "evidence" => Ev!EvidenceFound(sample'.data, AnnLee)]_sample

-----------------------------------------------------------------------------
\* Records: tables of one or two people or places, some of them malformed, and every
\* decision about one; items of every type with the fields a sidecar may have

Rc == INSTANCE Records WITH RecordIds <- {"p", "q", "r", "i"}, ViableDates <- {"1890", "1891"}
RawPerson(id) ==
    [id : {id}, name : {"A"}]
    \cup [id : {id}, name : {"A"}, status : {"estimated", "sure"}, basis : {[text |-> "b"], [by |-> "x"]}]
    \cup [id : {id}, name : {"A", ""}, status : {"proposed"},
          dob : [date : {"1890", "1890-13"}, precision : {"exact", "between"}]
                \cup [date : {"1890"}, precision : {"before", "between"}, date2 : {"1891"}]]
RawPlace == [id : {"p", "9"}, name : {"P"}, precision : {"exact", "near"}]
            \cup [id : {"p"}, name : {"P"}, status : {"confirmed", "proposed", "estimated"}, precision : {"town"}]
RawEdge == [a : {"p"}, b : {"q", "r"}, kind : {"spouse", "friend"}]
PeopleTables == [people : {<<x>> : x \in RawPerson("p")} \cup {<<x, [id |-> "q", name |-> "A"]>> : x \in RawPerson("p")},
                 relationships : {<<>>} \cup {<<e>> : e \in RawEdge}]
PlaceTables == [places : {<<x>> : x \in RawPlace} \cup {<<x, y>> : x \in RawPlace, y \in RawPlace}]
Decided == [decision : {"attested", "estimated", "pending", "delete"}, basis : {None, [text |-> "said", by |-> "ann"], [by |-> "ann"]}]
TableSamples ==
    {[people |-> t, places |-> [places |-> <<>>], by |-> d] : t \in PeopleTables, d \in Decided}
    \cup {[people |-> [people |-> <<>>, relationships |-> <<>>], places |-> t, by |-> d] : t \in PlaceTables, d \in Decided}
RawItems ==
    LET of(type) == [id |-> "i", type |-> type, status |-> "draft", date |-> "1890"] IN
    UNION {
        {of(type) @@ more : more \in
            [title : {"", "t"}, story : {"", "s"}, transcription : {"", "t"}]
            \cup [title : {"t"}, story : {"s"}, clarification : BOOLEAN, people : {<<>>, <<"a">>}]
            \cup [title : {"t"}, story : {"s"}, reflection : BOOLEAN, clarification : BOOLEAN, places : {<<>>, <<"a">>}]
            \cup [title : {"t"}, transcription : {"s"}, evidence : BOOLEAN, items : {<<>>, <<"a">>}]}
        : type \in Rc!ItemTypes}
Asset(kind) == [kind |-> kind, file |-> <<kind, 1>>]
ItemSamples == [raw : RawItems, assets : SUBSET {Asset("story"), Asset("image"), Asset("transcription")}]

\* What was accepted and what a decision makes of it is accepted again, with its texts: see Records.
RecordsReadBack ==
    [][/\ sample'.of = "tables" => Rc!TablesReadBack(sample'.data.people, sample'.data.places, "p", sample'.data.by.decision, sample'.data.by.basis)
       /\ sample'.of = "item" => Rc!ItemKeepsItsTexts(sample'.data.raw, sample'.data.assets, 2)]_sample

-----------------------------------------------------------------------------
\* Gedcom: files of two families of four people, or of one person's dates, residences and
\* ties; record sets of three people with up to three edges of every standing

Gd == INSTANCE Gedcom
Pay(mark, words, to) == [mark |-> mark, words |-> words, to |-> to]
Fam(husb, wife, children, marriage, pending) ==
    [members |-> (IF husb = None THEN <<>> ELSE <<[role |-> "HUSB", id |-> husb]>>)
                 \o (IF wife = None THEN <<>> ELSE <<[role |-> "WIFE", id |-> wife]>>),
     children |-> children, marriage |-> marriage, notes |-> {}, pending |-> pending]
MemberIds(fam) == {fam.members[i].id : i \in DOMAIN fam.members}
Fams == {fam \in {Fam(h, w, c, m, p) : h \in {None, 1, 2}, w \in {None, 1, 3}, c \in SUBSET {3, 4},
                                       m \in {None, Pay("ABT", <<1890>>, <<>>)}, p \in BOOLEAN} :
            /\ fam.members # <<>> /\ Cardinality(MemberIds(fam)) = Len(fam.members)
            /\ MemberIds(fam) \cap fam.children = {}
            /\ Len(fam.members) < 2 => fam.marriage = None}
Indi(i, birth, residences, associations, pending) ==
    [id |-> i, name |-> "N", birth |-> birth, residences |-> residences, notes |-> {}, associations |-> associations, pending |-> pending]
Births == {None, Pay("BET", <<1890>>, <<1891>>), Pay("FROM", <<1890>>, <<1891>>), Pay("()", <<>>, <<>>), Pay("INT", <<1890>>, <<>>)}
          \cup {Pay(mark, words, <<>>) : mark \in {"ABT", "EST", "BEF", ""}, words \in {<<1890>>, <<"JAN", 1890>>}}
Stays == {{}} \cup {{[payload |-> payload, place |-> place, note |-> None]} :
            payload \in {None, Pay("FROM", <<1890>>, <<1891>>), Pay("", <<1890>>, <<>>), Pay("FROM only", <<1890>>, <<>>)},
            place \in {None, "here", "there"}}
TreeFiles ==
    {[families |-> {f, g}, people |-> {Indi(i, None, {}, {}, i \in pending) : i \in 1..4}, places |-> {}] :
        f \in Fams, g \in Fams, pending \in {{}, {1}, {3}}}
    \cup {[families |-> {}, places |-> {[id |-> "pl1", name |-> "here", pending |-> pp]},
           people |-> {Indi(1, birth, stays, {[other |-> 2, label |-> label]}, FALSE), Indi(2, None, {}, {}, pending)}] :
        birth \in Births, stays \in Stays, label \in {"in-law", "sibling"}, pp \in BOOLEAN, pending \in BOOLEAN}
Kinsman(i, status, basis) ==
    [id |-> i, name |-> "N", pronouns |-> IF i = 1 THEN "she" ELSE None, dob |-> None, residence |-> {}, status |-> status, basis |-> basis]
Tie(a, b, kind, status) == [a |-> a, b |-> b, kind |-> kind, date |-> None, status |-> status]
Ties == {Tie(1, 2, "spouse", s) : s \in {None, "estimated", "proposed"}} \cup {Tie(1, 3, "parent", s) : s \in {None, "estimated"}}
        \cup {Tie(2, 3, "parent", None), Tie(3, 1, "inlaw", None)}
Trees == {[people |-> {Kinsman(1, "confirmed", None), Kinsman(2, second, basis), Kinsman(3, third, None)}, places |-> {}, edges |-> edges] :
            second \in {"estimated", "proposed"}, third \in {None, "proposed"}, basis \in {None, "said"},
            edges \in {ties \in SUBSET Ties : Cardinality(ties) <= 3}}
AStory == [status |-> "catalogued", text |-> "t", people |-> {1}]

\* What is confirmed survives export and import, and no proposal leaves: see Gedcom.
TreeFileKept ==
    [][/\ sample'.of = "tree file" => Gd!ConfirmedRoundTrip(sample'.data)
       /\ sample'.of = "tree" => Gd!GuessesExplained(sample'.data, {AStory}, <<>>)]_sample

-----------------------------------------------------------------------------
\* LayoutPass: up to three lines of a transcription and two detections of one pass, or
\* of two passes at a right angle with up to two lines a model reported

Tokens == {"dad", "Dad", "love", "tea", "today", "~tea~"}
PlainToken == [t \in Tokens |-> CASE t = "Dad" -> "dad" [] t = "~tea~" -> "tea" [] OTHER -> t]
TokenLetters == [t \in Tokens |-> CASE t = "love" -> 4 [] t = "today" -> 5 [] OTHER -> 3]
Lp == INSTANCE LayoutPass WITH Plain <- PlainToken, Letters <- TokenLetters, Struck <- {"~tea~"}, Scale <- 1000
LineBoxes == {Lp!Box(10, 10, 110, 30), Lp!Box(10, 20, 110, 40), Lp!Box(20, 60, 120, 80), Lp!Box(10, 60, 30, 80)}
Found(boxes) == [box : boxes, text : {<<"dad">>, <<"tea", "today">>, <<"love">>}, score : {90}, orientation : {0}]
FoundPairs == {<<d, e>> : d \in Found({Lp!Box(10, 10, 110, 30), Lp!Box(10, 60, 30, 80)}),
                          e \in Found({Lp!Box(10, 20, 110, 40), Lp!Box(20, 60, 120, 80)})}
LineTexts == {<<"Dad">>, <<"love", "dad">>, <<"tea", "today">>, <<"~tea~">>}
Transcriptions == Upto(2, LineTexts) \cup {<<<<"Dad">>, <<"tea", "today">>, t>> : t \in LineTexts}
Singles == {<<>>} \cup {<<d>> : d \in Found(LineBoxes)}
SingleLayouts == [texts : Transcriptions, found : Singles \cup FoundPairs, unsure : {None}]
                 \cup [texts : Transcriptions, found : Singles, unsure : {{<<1, "dad">>}}]
Reports == [box : {Lp!Box(50, 100, 550, 300), Lp!Box(0, 0, 0, 0)}, degrees : {0, 90}, text : {<<"Dad">>, <<"tea", "today">>}]
Passes == {<<[degrees |-> 0, lines |-> <<d>>]>> : d \in Found(LineBoxes)}
          \cup {<<[degrees |-> 90, lines |-> <<p[1]>>], [degrees |-> 0, lines |-> <<p[2]>>]>> : p \in FoundPairs}
MultiLayouts == [passes : Passes, reports : Upto(1, Reports) \cup {<<r, s>> : r \in Reports, s \in {[box |-> Lp!Box(50, 100, 550, 300), degrees |-> 0, text |-> <<"tea", "today">>]}},
                 texts : {<<>>, <<<<"Dad">>>>, <<<<"love", "dad">>, <<"Dad">>>>},
                 clip : {None, [b \in LineBoxes |-> IF b.y0 = 60 THEN None ELSE <<"love">>]}]
Single(s) == Lp!BuildLayout(s.texts, s.found, s.unsure, <<>>, 200, 100)
Multi(s) == Lp!MultiLayout(s.passes, s.reports, s.texts, s.clip, 200, 100, TRUE)

\* No ink is two lines', no conflict stays, no word is lost where the model reported its lines,
\* and a turn keeps the lines that were read where they were: see LayoutPass.
LayoutKept ==
    [][/\ sample'.of = "page" => LET layout == Single(sample'.data) IN
           /\ Lp!BoxesHandedOutOnce(layout) /\ Lp!ConflictsSettled(layout)
           /\ \A quarters \in 1..3 : Lp!TurnKeepsReadLines(layout, quarters)
       /\ sample'.of = "turned page" => LET layout == Multi(sample'.data) IN
           /\ Lp!ConflictsSettled(layout)
           /\ sample'.data.reports # <<>> => Lp!TranscriptionKept(layout, sample'.data.texts)]_sample

-----------------------------------------------------------------------------
\* Documents: piles of up to three pages, what a document of three mentions names, and
\* the classification of two pages one of which has an entry of either vocabulary

Names == {"Ann", "ann", "Mum", "B. Roe", "B Roe"}
SmallLetters == [n \in Names |-> IF n = "Ann" THEN "ann" ELSE n]
IdForm == [n \in Names |-> CASE n \in {"Ann", "ann"} -> "ann" [] n = "Mum" -> "mum" [] OTHER -> "b-roe"]
Dc == INSTANCE Documents WITH KinTerms <- {"Mum"}, Folded <- SmallLetters, Slug <- IdForm, MaxPeople <- 3
Flag(starts, ends) == [starts |-> starts, ends |-> ends, greeting |-> IF starts THEN "Dear" ELSE None, signoff |-> IF ends THEN "Yours" ELSE None]
Scan(kind, width, number, flag) == [kind |-> kind, width |-> width, height |-> 100, number |-> number, flag |-> flag]
Scans == {Scan(kind, width, 0, None) : kind \in {"photo", "drawing"}, width \in {70, 50}}
         \cup {Scan(kind, 70, number, None) : kind \in {"text", "handwriting"}, number \in {0, 1, 2}}
         \cup {Scan(kind, 50, 0, None) : kind \in {"text", "handwriting"}}
         \cup {Scan(kind, 70, 0, flag) : kind \in {"text", "handwriting"}, flag \in {Flag(TRUE, FALSE), Flag(FALSE, TRUE)}}
Piles == Upto(3, Scans) \ {<<>>}
Individual(id, name, status) == [id |-> id, name |-> name, status |-> status]
Standing == {<<>>, <<Individual(<<"ann", 1>>, "Ann", "attested")>>,
             <<Individual(<<"b-roe", 1>>, "B Roe", "attested"), Individual(<<"mum", 1>>, "Mum", "proposed")>>}
Entries == [name : Names \cup {None}, match : {None}] \cup [name : {"Ann", "Mum"}, match : {<<"mum", 1>>}]
NameSamples == [people : Standing, entries : Upto(3, Entries)]
Classifications ==
    [entry : {"text", "photo", "form", "printed"}, again : {{}, {"p"}},
     answer : [kind : Dc!ContentKinds \cup {"text"}, confidence : {90}, medium : Dc!Mediums \cup {None}]]

\* Pages make whole documents, names make records of their own, and a page of text is
\* read whatever its kind is called: see Documents.
DocumentsKept ==
    [][/\ sample'.of = "pile" =>
           LET pile == [i \in DOMAIN sample'.data |-> [sample'.data[i] EXCEPT !.kind = Dc!CategoryOf([kind |-> @])]] IN
           Dc!SidesOfASheet(Dc!ScoreBoundaries(sample'.data), sample'.data) /\ Dc!SidesOfASheet(Dc!WriteBoundaries(sample'.data), pile)
       /\ sample'.of = "names" => Dc!NamesToRecords(sample'.data.people, sample'.data.entries)
       /\ sample'.of = "kinds" =>
           Dc!PagesHaveAWay(Dc!RunClassify([p \in {"p"} |-> [kind |-> sample'.data.entry, medium |-> None]],
                                           [p \in {"p", "r"} |-> sample'.data.answer], sample'.data.again))]_sample

\* TECHSPEC.md 707: a page starting "2" continues its document.
ContinuationJoins == [][sample'.of = "pile" => Dc!ContinuationJoins(Dc!WriteBoundaries(sample'.data), sample'.data)]_sample

-----------------------------------------------------------------------------
Take(of, data) == sample' = [of |-> of, data |-> data]

TakeSample ==
    /\ sample.of = None
    /\ \/ \E s \in RowSamples : Take("rows", s)
       \/ \E s \in NumberedRows : Take("numbered rows", s)
       \/ \E s \in NumberedWords : Take("numbered words", s)
       \/ \E s \in EvidenceSamples : Take("evidence", s)
       \/ \E s \in TableSamples : Take("tables", s)
       \/ \E s \in ItemSamples : Take("item", s)
       \/ \E s \in TreeFiles : Take("tree file", s)
       \/ \E s \in Trees : Take("tree", s)
       \/ \E s \in SingleLayouts : Take("page", s)
       \/ \E s \in MultiLayouts : Take("turned page", s)
       \/ \E s \in Piles : Take("pile", s)
       \/ \E s \in NameSamples : Take("names", s)
       \/ \E s \in Classifications : Take("kinds", s)
=============================================================================
