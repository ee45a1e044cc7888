---------------------------- MODULE LayoutPass ----------------------------
(* The layout of a page read in strips (pipeline/layout.py, tools/gates.py,  *)
(* tools/reading.py): the transcription's lines located by what a text       *)
(* detector recognised, or by the boxes a model reported.  A text is a       *)
(* sequence of tokens; a confidence is a percentage, and the box of a line   *)
(* that has none is None.                                                    *)
EXTENDS Geometry, Functions

CONSTANTS
    Plain,    \* a token's normal form
    Letters,  \* and its number of letters
    Struck,   \* the tokens a writer struck out
    Scale,    \* reported boxes are in so many parts of the page's size
    None

-----------------------------------------------------------------------------
\* texts (tools/text.py)
Normal(text) == [i \in DOMAIN text |-> Plain[text[i]]]
Words(text) == Range(Normal(text))
Glyphs(text) == FoldSeq(LAMBDA token, n : n + Letters[token], 0, text)
Jaccard(a, b) ==  \* as a fraction
    IF a = {} /\ b = {} THEN <<1, 1>>
    ELSE IF a = {} \/ b = {} THEN <<0, 1>>
    ELSE <<Cardinality(a \cap b), Cardinality(a \cup b)>>
Above(s, t) == s[1] * t[2] > t[1] * s[2]
Alike(s) == 100 * s[1] >= 34 * s[2]

\* boxes (tools/box.py): the share of the smaller box that both cover
Area(b) == Max({0, Width(b)}) * Max({0, Height(b)})
Shared(a, b) == Max({0, Min({a.x1, b.x1}) - Max({a.x0, b.x0})}) * Max({0, Min({a.y1, b.y1}) - Max({a.y0, b.y0})})
SmallerArea(a, b) == Min({Area(a), Area(b)})
HalfShared(a, b) == Shared(a, b) > 0 /\ 2 * Shared(a, b) >= SmallerArea(a, b)

Level(degrees) == degrees % 180 <= 45 \/ degrees % 180 >= 135
ReadingAxis(b, degrees) == IF Level(degrees) THEN Width(b) ELSE Height(b)
AspectConsistent(degrees, b) ==
    LET axis == degrees % 180 IN
    IF b = None \/ (Width(b) <= 2 * Height(b) /\ Height(b) <= 2 * Width(b)) THEN TRUE
    ELSE IF Width(b) > 2 * Height(b) THEN ~(60 <= axis /\ axis <= 120)
    ELSE axis > 30 /\ axis < 150

\* a text whose letters would be under two pixels along the box, or much wider than it is deep
TextOutOfBox(text, b, degrees) ==
    LET axis == ReadingAxis(b, degrees)
        depth == IF degrees % 180 # 0 THEN Width(b) ELSE Height(b)
        glyphs == Max({1, Glyphs(text)})
    IN  IF text = <<>> THEN axis > 0
        ELSE axis < 2 * glyphs
          \/ (axis > 30 * glyphs /\ 10 * axis > (IF Glyphs(text) >= 8 THEN 26 ELSE 17) * depth * glyphs)

-----------------------------------------------------------------------------
\* which detection is which line: each, from the top, is the free line it reads most like

ByTop(dets) == SortSeq([d \in DOMAIN dets |-> d], LAMBDA c, d : dets[c].box.y0 < dets[d].box.y0)
MostAlike(texts, free, det) ==
    CHOOSE v \in free : \A u \in free :
        LET sv == Jaccard(Words(det.text), Words(texts[v]))
            su == Jaccard(Words(det.text), Words(texts[u]))
        IN  Above(sv, su) \/ (~Above(su, sv) /\ v <= u)
ReadBy(texts, dets) ==  \* the line of each detection, or 0
    LET Read(of, d) ==
            LET free == DOMAIN texts \ Range(of)
                best == MostAlike(texts, free, dets[d])
            IN  IF free # {} /\ Alike(Jaccard(Words(dets[d].text), Words(texts[best]))) THEN [of EXCEPT ![d] = best] ELSE of
    IN  FoldLeft(Read, [d \in DOMAIN dets |-> 0], ByTop(dets))

Match(det, box, source) ==
    [box |-> box, source |-> source, orientation |-> det.orientation, rec |-> det.text, score |-> det.score]
Plausible(text, b) == text # <<>> /\ Width(b) > 0 /\ Height(b) > 0 /\ ~TextOutOfBox(text, b, 0)

\* the lines nothing was read for take the rest of the detections, in order
RestEvenRead(dets, of) == ByTop(dets)  \* variant: detections that were read are handed out again
Rest(dets, of) == SelectSeq(ByTop(dets), LAMBDA d : of[d] = 0)
AssociateLines(texts, dets) ==
    LET of == ReadBy(texts, dets)
        boxless == SelectSeq([v \in DOMAIN texts |-> v], LAMBDA v : v \notin Range(of))
        rest == Rest(dets, of)
        given == Min({Len(boxless), Len(rest)})
        matches == [v \in DOMAIN texts |->
            IF v \in Range(of) THEN LET det == dets[CHOOSE d \in DOMAIN dets : of[d] = v] IN Match(det, det.box, "content")
            ELSE IF \E k \in 1..given : boxless[k] = v
                 THEN LET det == dets[rest[CHOOSE k \in 1..given : boxless[k] = v]] IN
                      Match(det, IF Plausible(texts[v], det.box) THEN det.box ELSE None, "positional")
                 ELSE None]
    IN  [matches |-> matches, unmatched |-> [k \in 1..(Len(rest) - given) |-> dets[rest[given + k]]]]

-----------------------------------------------------------------------------
\* Where a line is when a model reported its place as well: report is None or
\* [box, degrees], in parts of the page.

Scaled(b, width, height) ==
    Box((b.x0 * width) \div Scale, (b.y0 * height) \div Scale, (b.x1 * width) \div Scale, (b.y1 * height) \div Scale)
Upright(report, match, box, trusted) ==  \* the first orientation the box's shape allows
    LET reported == IF report = None THEN <<>> ELSE <<report.degrees>>
        read == IF match = None THEN <<>> ELSE <<match.orientation>>
        candidates == (IF trusted THEN reported \o read ELSE read \o reported) \o <<0>>
        fit == {i \in DOMAIN candidates : AspectConsistent(candidates[i], box)}
    IN  candidates[IF fit = {} THEN 1 ELSE Min(fit)]

Anchor(report, match, text, width, height, trusted) ==
    LET At(box, source) == [box |-> box, source |-> source, orientation |-> Upright(report, match, box, trusted)]
        placed == report # None /\ (Width(report.box) > 0 \/ Height(report.box) > 0)
        scaled == Scaled(report.box, width, height)
        held == match # None /\ match.box # None /\ ~TextOutOfBox(text, match.box, match.orientation)
    IN  IF ~placed
        THEN At(IF match = None THEN None ELSE match.box,
                IF match # None /\ match.source = "content" THEN "content" ELSE "positional")
        ELSE IF held
        THEN IF HalfShared(scaled, match.box) THEN At(scaled, "report")
             ELSE IF match.source = "positional" /\ ~Alike(Jaccard(Words(match.rec), Words(text))) THEN At(scaled, "report")
             ELSE At(match.box, match.source)
        ELSE IF ~TextOutOfBox(text, scaled, report.degrees) THEN At(scaled, "report")
        ELSE At(None, "report")

-----------------------------------------------------------------------------
\* The page's layout: a line per line of the transcription, in its order.
\* unsure is None, or the pairs <<line, word>> its reader was unsure of.

WordConf(token, unsure, line) ==
    IF token \in Struck THEN 0
    ELSE IF unsure # None /\ <<line, Plain[token]>> \in unsure THEN 0 ELSE 100
WordConfs(text, unsure, line) == [i \in DOMAIN text |-> WordConf(text[i], unsure, line)]
Mean(confs) == IF confs = <<>> THEN 0 ELSE FoldSeq(LAMBDA c, n : n + c, 0, confs) \div Len(confs)

Line(index, text, box, conf, confs, source, orientation, rec, score) ==
    [index |-> index, text |-> text, box |-> box, conf |-> conf, words |-> confs, source |-> source,
     orientation |-> orientation, rec |-> rec, score |-> score]

\* located is the lines with a box of the model's own; the rest have their detection's
BuildLayout(texts, dets, unsure, located, width, height) ==
    LET association == AssociateLines(texts, dets)
        line(v) ==
            LET text == texts[v]
                match == association.matches[v]
                confs == WordConfs(text, unsure, v)
                anchor == Anchor([box |-> located[v], degrees |-> 0], match, text, width, height, FALSE)
            IN  IF v \in DOMAIN located THEN Line(v, text, anchor.box, Mean(confs), confs, anchor.source, 0, <<>>, 0)
                ELSE IF match = None THEN Line(v, text, None, 0, confs, None, 0, <<>>, 0)
                ELSE Line(v, text, match.box, Mean(confs), confs, match.source, match.orientation, match.rec, match.score)
    IN  [width |-> width, height |-> height, lines |-> [v \in DOMAIN texts |-> line(v)],
         unmatched |-> association.unmatched]

\* the self-report applied to a layout that stands
ApplySelfreport(layout, unsure) ==
    [layout EXCEPT !.lines = [v \in DOMAIN @ |->
        LET confs == WordConfs(@[v].text, unsure, v) IN
        [@[v] EXCEPT !.words = confs, !.conf = IF confs = <<>> THEN @ ELSE Mean(confs)]]]

-----------------------------------------------------------------------------
\* the gates a layout must pass before it is written or served (tools/gates.py)

Boxed(line) == line.box # None
Tolerance == 4
Inside(b, width, height) ==
    /\ b.x0 < b.x1 /\ b.y0 < b.y1
    /\ -Tolerance <= b.x0 /\ -Tolerance <= b.y0 /\ b.x1 <= width + Tolerance /\ b.y1 <= height + Tolerance
SameRegion(a, b) == HalfShared(a.box, b.box) /\ Normal(a.text) # Normal(b.text)

Integrity(layout) == \A v \in DOMAIN layout.lines : Boxed(layout.lines[v]) => Inside(layout.lines[v].box, layout.width, layout.height)
Aspect(layout) == \A v \in DOMAIN layout.lines : AspectConsistent(layout.lines[v].orientation, layout.lines[v].box)
TextExtent(layout) == \A v \in DOMAIN layout.lines : LET line == layout.lines[v] IN
    Boxed(line) => ~TextOutOfBox(line.text, line.box, line.orientation)
Region(layout) == \A v \in DOMAIN layout.lines : \A u \in DOMAIN layout.lines : LET a == layout.lines[v] b == layout.lines[u] IN
    (v # u /\ Boxed(a) /\ Boxed(b)) => ~SameRegion(a, b)
Boxless(layout) == \A v \in DOMAIN layout.lines : Boxed(layout.lines[v])
Valid(layout) == Integrity(layout) /\ Aspect(layout) /\ TextExtent(layout) /\ Region(layout) /\ Boxless(layout)

\* of two lines in one region that say different things the surer keeps it, of equals the first
DropIn(lines, i, j) ==
    IF ~Boxed(lines[i]) \/ ~Boxed(lines[j]) THEN lines
    ELSE IF ~SameRegion(lines[i], lines[j]) THEN lines
    ELSE [lines EXCEPT ![IF lines[i].conf < lines[j].conf THEN i ELSE j].box = None]
PairsInOrder(n) == SetToSortSeq({p \in (1..n) \X (1..n) : p[1] < p[2]},
                                LAMBDA p, q : p[1] < q[1] \/ (p[1] = q[1] /\ p[2] < q[2]))
DropConflictingBoxes(lines) ==
    FoldLeft(LAMBDA kept, pair : DropIn(kept, pair[1], pair[2]), lines, PairsInOrder(Len(lines)))

-----------------------------------------------------------------------------
\* A page with text in several directions: a pass of the detector for each.
\* The reported lines, or the transcription's placed by them, and what else the
\* passes read; with no report, what the passes read.

\* a detector's word shows as unsure below this confidence
FlagBelow == 95
Confirmed(match) == match # None /\ match.source = "content"
Detections(passes) ==
    FoldLeft(LAMBDA all, pass : all \o [d \in DOMAIN pass.lines |-> [pass.lines[d] EXCEPT !.orientation = pass.degrees]], <<>>, passes)

AnchoredLine(index, text, box, sure, degrees) ==
    Line(index, text, box, IF sure THEN 100 ELSE 0, [i \in DOMAIN text |-> IF sure THEN 100 ELSE 0],
         IF sure THEN "report" ELSE "report-unconfirmed", degrees, <<>>, 0)
\* the report's own lines, those without a text left out
AnchoredLines(reports, matches, width, height) ==
    LET full == SelectSeq([i \in DOMAIN reports |-> i], LAMBDA i : reports[i].text # <<>>) IN
    [k \in DOMAIN full |-> LET r == reports[full[k]] IN
        AnchoredLine(k, r.text, Scaled(r.box, width, height), Confirmed(matches[full[k]]), r.degrees)]
\* the transcription's lines, placed by the report of their number
AnchorGuessLines(texts, reports, matches, width, height, trusted) ==
    [v \in DOMAIN texts |->
        LET report == IF v \in DOMAIN reports THEN reports[v] ELSE None
            anchor == Anchor(report, matches[v], texts[v], width, height, trusted)
        IN  AnchoredLine(v, texts[v], anchor.box, Confirmed(matches[v]), anchor.orientation)]

\* the words of a detector's own line, with the boxes it gave them or none
ReadLine(det, text, score) ==
    Line(1, text, det.box, score, [i \in DOMAIN text |-> IF score < FlagBelow THEN 0 ELSE score], "multi",
         IF AspectConsistent(det.orientation, det.box) THEN det.orientation ELSE 0, <<>>, 0)
\* clip is None, or what is read of the page at each box, None for nothing that fits it
ExtraLines(unmatched, clip) ==
    LET read == [k \in DOMAIN unmatched |-> IF clip = None THEN unmatched[k].text ELSE clip[unmatched[k].box]]
        kept == SelectSeq([k \in DOMAIN unmatched |-> k], LAMBDA k : read[k] # None)
    IN  [n \in DOMAIN kept |-> ReadLine(unmatched[kept[n]], read[kept[n]], 0)]
RecFallback(passes) ==
    LET dets == Detections(SortSeq(passes, LAMBDA p, q : p.degrees < q.degrees)) IN
    [d \in DOMAIN dets |-> ReadLine(dets[d], dets[d].text, dets[d].score)]

MultiLines(passes, reports, texts, clip, width, height, trusted) ==
    LET guess == IF texts # <<>> THEN texts ELSE [i \in DOMAIN reports |-> reports[i].text]
        association == AssociateLines(guess, Detections(passes))
        anchored == IF texts # <<>> THEN AnchorGuessLines(texts, reports, association.matches, width, height, trusted)
                    ELSE AnchoredLines(reports, association.matches, width, height)
    IN  IF reports = <<>> THEN RecFallback(passes) ELSE anchored \o ExtraLines(association.unmatched, clip)

\* one reading of a region, the richer; a line that is only a piece of another goes, wherever it is
IsAnchored(line) == line.source \in {"report", "report-unconfirmed"}
Richer(a, b) ==
    Glyphs(a.text) > Glyphs(b.text) \/ (Glyphs(a.text) = Glyphs(b.text) /\ a.conf > b.conf)
WeakerDuplicate(a, b) ==
    a.box # None /\ b.box # None /\ 10 * Shared(a.box, b.box) > 3 * SmallerArea(a.box, b.box) /\ Richer(b, a)
StruckOff(n, goes(_, _)) ==  \* each line in turn goes by one that still stands
    FoldLeft(LAMBDA kept, i : IF \E j \in kept \ {i} : goes(i, j) THEN kept \ {i} ELSE kept, 1..n, [i \in 1..n |-> i])
RegionsKeptAny(lines) ==  \* variant: the rule by regions strikes the anchored lines too
    StruckOff(Len(lines), LAMBDA i, j : WeakerDuplicate(lines[i], lines[j]))
RegionsKept(lines) == StruckOff(Len(lines), LAMBDA i, j : ~IsAnchored(lines[i]) /\ WeakerDuplicate(lines[i], lines[j]))
IsFragment(a, b) == Words(a.text) # {} /\ Cardinality(Words(a.text)) <= 2 /\ Words(a.text) \subseteq Words(b.text) /\ Words(a.text) # Words(b.text)
DedupeRegions(lines) ==
    LET regions == RegionsKept(lines)
        kept == FoldLeft(LAMBDA left, i : IF i \in left /\ \E j \in left \ {i} : IsFragment(lines[i], lines[j])
                                          THEN left \ {i} ELSE left,
                         regions, [i \in DOMAIN lines |-> i])
        order == SetToSortSeq(kept, <)
    IN  [k \in DOMAIN order |-> lines[order[k]]]

\* blocks of lines that touch, from the top, each in the transcription's order; the lines without a box last
Blocks(lines) ==
    LET joined(blocks, i, j) ==
            LET both == UNION {b \in blocks : i \in b \/ j \in b} IN {b \in blocks : b \cap both = {}} \cup {both}
    IN  FoldLeft(LAMBDA blocks, pair : IF Shared(lines[pair[1]].box, lines[pair[2]].box) > 0
                                       THEN joined(blocks, pair[1], pair[2]) ELSE blocks,
                 {{i} : i \in DOMAIN lines}, PairsInOrder(Len(lines)))
TopOf(lines, block) == Min({lines[i].box.y0 : i \in block})
OrderLines(lines) ==
    LET boxed == SelectSeq(lines, Boxed)
        blocks == SetToSortSeq(Blocks(boxed), LAMBDA b, c :
                      TopOf(boxed, b) < TopOf(boxed, c) \/ (TopOf(boxed, b) = TopOf(boxed, c) /\ Min(b) < Min(c)))
        inOrder(block) == SetToSortSeq(block, LAMBDA i, j :
                      boxed[i].index < boxed[j].index \/ (boxed[i].index = boxed[j].index /\ i < j))
    IN  FoldLeft(LAMBDA all, block : all \o [k \in DOMAIN inOrder(block) |-> boxed[inOrder(block)[k]]], <<>>, blocks)
            \o SelectSeq(lines, LAMBDA line : ~Boxed(line))

MultiLayout(passes, reports, texts, clip, width, height, trusted) ==
    LET lines == DedupeRegions(MultiLines(passes, reports, texts, clip, width, height, trusted))
        ordered == IF Cardinality({lines[i].orientation : i \in DOMAIN lines}) > 1 THEN OrderLines(lines) ELSE lines
    IN  [width |-> width, height |-> height, unmatched |-> <<>>,
         lines |-> [i \in DOMAIN ordered |-> [ordered[i] EXCEPT !.index = i]]]

-----------------------------------------------------------------------------
\* A quarter turn of the page: the boxes turn, and the layout is built again of
\* what each line read (Layout.detections, BatchReadings.rebuild_rotated_layout).

DetectionsOf(layout) ==
    LET boxed == SelectSeq(layout.lines, Boxed) IN
    [k \in DOMAIN boxed |-> [box |-> boxed[k].box, text |-> IF boxed[k].rec # <<>> THEN boxed[k].rec ELSE boxed[k].text,
                             score |-> boxed[k].score, orientation |-> boxed[k].orientation]]
        \o [k \in DOMAIN layout.unmatched |-> [layout.unmatched[k] EXCEPT !.score = 0, !.orientation = 0]]

TurnedOnNewSize(b, quarters, width, height) ==  \* variant: turned in the frame the page has afterwards
    CASE quarters = 0 -> b
      [] quarters = 1 -> Box(width - b.y1, b.x0, width - b.y0, b.x1)
      [] quarters = 2 -> Box(width - b.x1, height - b.y1, width - b.x0, height - b.y0)
      [] quarters = 3 -> Box(b.y0, height - b.x1, b.y1, height - b.x0)
Turned(b, quarters, width, height) ==
    CASE quarters = 0 -> b
      [] quarters = 1 -> Box(height - b.y1, b.x0, height - b.y0, b.x1)
      [] quarters = 2 -> Box(width - b.x1, height - b.y1, width - b.x0, height - b.y0)
      [] quarters = 3 -> Box(b.y0, width - b.x1, b.y1, width - b.x0)
RotateDetections(dets, quarters, width, height) ==
    [d \in DOMAIN dets |-> [dets[d] EXCEPT !.box = Turned(@, quarters % 4, width, height),
                                           !.orientation = (@ + 90 * (quarters % 4)) % 360]]
RebuildRotated(layout, quarters, unsure) ==
    LET sideways == quarters % 2 = 1
        dets == RotateDetections(DetectionsOf(layout), quarters, layout.width, layout.height)
    IN  BuildLayout([v \in DOMAIN layout.lines |-> layout.lines[v].text], dets, unsure, <<>>,
                    IF sideways THEN layout.height ELSE layout.width, IF sideways THEN layout.width ELSE layout.height)

-----------------------------------------------------------------------------
\* What the pass must get right.

\* a detection places one line: no two lines of a layout stand in one detection's box
BoxesHandedOutOnce(layout) ==
    \A u \in DOMAIN layout.lines : \A v \in DOMAIN layout.lines :
        (u # v /\ Boxed(layout.lines[u]) /\ Boxed(layout.lines[v])) => layout.lines[u].box # layout.lines[v].box

\* once the conflicts are settled the gate on regions has nothing to say, and no line has gained a box
ConflictsSettled(layout) ==
    LET settled == DropConflictingBoxes(layout.lines) IN
    /\ Region([layout EXCEPT !.lines = settled])
    /\ \A v \in DOMAIN settled : settled[v].box \in {None, layout.lines[v].box}

\* every word of the transcription is on the page still, whatever else the passes read of it, when the
\* model reported its lines; without a report the passes' own lines are the layout
TranscriptionKept(layout, texts) ==
    \A v \in DOMAIN texts : \E i \in DOMAIN layout.lines : Words(texts[v]) \subseteq Words(layout.lines[i].text)

\* A line that was read keeps its own ink when the page is turned: its box stays on the page and
\* as fit for its text, and the turn back brings it home.  Not so a line that shares its words
\* with another, and one that is only placed between read ones.
Elsewhere(layout, v) ==  \* the words the other lines and the detections left over have
    UNION {Words(layout.lines[u].text) \cup Words(layout.lines[u].rec) : u \in DOMAIN layout.lines \ {v}}
        \cup UNION {Words(layout.unmatched[k].text) : k \in DOMAIN layout.unmatched}
Apart(layout) == \A v \in DOMAIN layout.lines : LET line == layout.lines[v] IN
    (Words(line.text) \cup Words(line.rec)) \cap Elsewhere(layout, v) = {}
TurnKeepsReadLines(layout, quarters) ==
    LET turned == RebuildRotated(layout, quarters, None) IN
    Apart(layout) => \A v \in DOMAIN layout.lines : layout.lines[v].source = "content" =>
        /\ Inside(layout.lines[v].box, layout.width, layout.height) =>
              Inside(turned.lines[v].box, turned.width, turned.height)
        /\ RebuildRotated(turned, 4 - quarters, None).lines[v].box = layout.lines[v].box
        /\ ~TextOutOfBox(layout.lines[v].text, layout.lines[v].box, layout.lines[v].orientation) =>
              ~TextOutOfBox(turned.lines[v].text, turned.lines[v].box, turned.lines[v].orientation)
=============================================================================
