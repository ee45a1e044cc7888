---------------------------- MODULE Numbering ----------------------------
(* The numbers drawn beside rows and words so that a model can name them:   *)
(* the page cut into bands of numbered rows (document/numbered_rows.py),    *)
(* the pills beside the rows, and the chips around the words of a section   *)
(* (tools/word_numbering.py).  Rows are in their order, a row being         *)
(* [band, words] with at least one word; coordinates are even.              *)
EXTENDS Geometry

CONSTANTS
    MaxBandHeight, StripsMax,          \* the tallest band, the most bands
    PillWidth, PillHeight, PillInset,  \* a pill and its distance from its row
    ColumnGap, MarginLanes,            \* the lanes left of the writing
    ChipSizes, ChipGap, EdgePad        \* the sizes a chip is tried in, largest first

\* what the constants are (assumed where the module is instantiated)
NumberingAssumption == MaxBandHeight \in Nat \ {0} /\ StripsMax \in Nat \ {0}

\* the bands of a page

\* the places between consecutive rows: how high, and where (doubled), the highest first
Gaps(rows) ==
    LET all == {[height |-> rows[i + 1].band.y0 - rows[i].band.y1, at2 |-> rows[i + 1].band.y0 + rows[i].band.y1]
                : i \in 1..(Len(rows) - 1)}
    IN  SetToSortSeq(all, LAMBDA g, h : g.height > h.height \/ (g.height = h.height /\ g.at2 > h.at2))

\* the gap nearest an even cut, a gap within overlapping rows last of all
Penalty == 10000
CutCost(gap, strips, index, top, bottom) ==
    Distance(strips * gap.at2, 2 * (strips * top + (bottom - top) * index))
        + IF gap.height >= 0 THEN 0 ELSE 2 * strips * Penalty
NearestGap(free, strips, index, top, bottom) ==
    free[CHOOSE i \in DOMAIN free : \A j \in DOMAIN free :
            LET ci == CutCost(free[i], strips, index, top, bottom)
                cj == CutCost(free[j], strips, index, top, bottom)
            IN  ci < cj \/ (ci = cj /\ i <= j)]
CutGaps(rows, strips, top, bottom) ==
    LET Cut(chosen, i) ==
            LET free == SelectSeq(Gaps(rows), LAMBDA gap : gap.at2 \notin chosen) IN
            IF free = <<>> THEN chosen ELSE chosen \cup {NearestGap(free, strips, i, top, bottom).at2}
    IN  SetToSortSeq(FoldLeft(Cut, {}, [i \in 1..(strips - 1) |-> i]), <)

\* the doubled bounds of so many bands
Bounds(rows, bands) ==
    LET top == Min({rows[i].band.y0 : i \in DOMAIN rows})
        bottom == Max({rows[i].band.y1 : i \in DOMAIN rows})
    IN  <<2 * top>> \o CutGaps(rows, bands, top, bottom) \o <<2 * bottom>>
Tallest2(bounds) == Max({bounds[i + 1] - bounds[i] : i \in 1..(Len(bounds) - 1)})

\* as many bands as it takes, no more than there are rows
MostBands(rows) == Max({1, Min({Len(rows), StripsMax})})
FirstBands(rows) ==
    LET height == (Bounds(rows, 1)[2] - Bounds(rows, 1)[1]) \div 2
    IN  Max({1, Min({(height + MaxBandHeight - 1) \div MaxBandHeight, MostBands(rows)})})
BandsNeeded(rows) ==
    Min({b \in FirstBands(rows)..MostBands(rows) :
            b = MostBands(rows) \/ Tallest2(Bounds(rows, b)) <= 2 * MaxBandHeight})

InsideWhole(row, bounds, index, bands) ==  \* variant: a row is in the band that holds the whole of it
    bounds[index] <= 2 * row.band.y0 /\ 2 * row.band.y1 <= bounds[index + 1]
Inside(row, bounds, index, bands) ==
    /\ bounds[index] <= Centre2Y(row.band)
    /\ Centre2Y(row.band) < bounds[index + 1] \/ index = bands

\* the rows of every band that holds one; rows that share their places leave too few cuts, and the bounds run out
RenderStrips(rows) ==
    LET bands == BandsNeeded(rows)
        bounds == Bounds(rows, bands)
        strip(index) == {i \in DOMAIN rows : Inside(rows[i], bounds, index, bands)}
    IN  IF rows = <<>> THEN <<>>
        ELSE IF Len(bounds) < bands + 1 THEN "IndexError"
        ELSE SelectSeq([index \in 1..bands |-> strip(index)], LAMBDA inside : inside # {})

-----------------------------------------------------------------------------
\* the pills beside the rows of a band

InkOf(rows) == UNION {Range(rows[i].words) : i \in DOMAIN rows}
Fits(box, ink, placed) == ~\E other \in ink \cup Range(placed) : Overlaps(box, other)

LeftEdge(row) == Min({w.x0 : w \in Range(row.words)})
RightEdge(row) == Max({w.x1 : w \in Range(row.words)})
EndCentre(row, left) ==  \* the height of the word at that end, the first of them
    LET at == {i \in DOMAIN row.words : IF left THEN row.words[i].x0 = LeftEdge(row) ELSE row.words[i].x1 = RightEdge(row)}
    IN  Centre2Y(row.words[Min(at)]) \div 2
PillAt(x, centre) == Box(x, centre - PillHeight \div 2, x + PillWidth, centre - PillHeight \div 2 + PillHeight)

MarginColumn(rows) == Max({0, Min({LeftEdge(rows[i]) : i \in DOMAIN rows}) - ColumnGap - PillWidth})
InLane(box, ink, placed) ==
    LET lane(n) == Box(box.x0 - n * (Width(box) + ColumnGap), box.y0, box.x1 - n * (Width(box) + ColumnGap), box.y1)
        free == {n \in 0..(MarginLanes - 1) : lane(n).x0 >= 0 /\ Fits(lane(n), ink, placed)}
    IN  IF free = {} THEN box ELSE lane(Min(free))

PillFor(row, rows, placed) ==
    LET left == PillAt(LeftEdge(row) - PillInset - PillWidth, EndCentre(row, TRUE))
        right == PillAt(RightEdge(row) + PillInset, EndCentre(row, FALSE))
    IN  IF Fits(left, InkOf(rows), placed) THEN left
        ELSE IF Fits(right, InkOf(rows), placed) THEN right
        ELSE InLane(PillAt(MarginColumn(rows), EndCentre(row, TRUE)), InkOf(rows), placed)
PillBoxes(rows) ==
    FoldLeft(LAMBDA placed, row : Append(placed, PillFor(row, rows, placed)), <<>>, rows)

PointerSide(pill, row) == IF Centre2X(pill) < Centre2X(row.band) THEN "right" ELSE "left"

-----------------------------------------------------------------------------
\* the chips around the words of a section

\* from top to bottom by their centres, those on a level from left to right
NumberedOrder(boxes) ==
    SortSeq([i \in DOMAIN boxes |-> i], LAMBDA i, j :
        Centre2Y(boxes[i]) < Centre2Y(boxes[j]) \/ (Centre2Y(boxes[i]) = Centre2Y(boxes[j]) /\ boxes[i].x0 < boxes[j].x0))

\* the places around a box, by the corner they start at, in the order they are tried
ChipAt(x, y, size) == Box(x, y, x + size, y + size)
Candidates(b, size) ==
    LET west == b.x0 - ChipGap - size   east == b.x1 + ChipGap
        north == b.y0 - ChipGap - size  south == b.y1 + ChipGap
        middle(n) == b.x0 + (n * Width(b)) \div 6 - size \div 2
        level(n) == b.y0 + (n * Height(b)) \div 6 - size \div 2
        corners == <<<<west, north>>, <<middle(3), north>>, <<middle(3), south>>, <<west, level(3)>>, <<east, level(3)>>,
                     <<east, north>>, <<west, south>>, <<east, south>>, <<middle(2), north>>, <<middle(4), north>>,
                     <<middle(2), south>>, <<middle(4), south>>, <<west, level(2)>>, <<west, level(4)>>,
                     <<east, level(2)>>, <<east, level(4)>>>>
    IN  [i \in DOMAIN corners |-> ChipAt(corners[i][1], corners[i][2], size)]

IntersectsTouching(chip, box) == Overlaps(chip, box)  \* variant: chips may come as near as they like
Intersects(chip, box) ==
    ~(chip.x1 + EdgePad <= box.x0 \/ chip.x0 - EdgePad >= box.x1 \/ chip.y1 + EdgePad <= box.y0 \/ chip.y0 - EdgePad >= box.y1)

\* the first size and place that is free of the other words and of the chips placed before
PlaceChip(boxes, word, placed) ==
    LET free(k, c) == LET chip == Candidates(boxes[word], ChipSizes[k])[c] IN
            ~\E j \in DOMAIN boxes \ {word} : Intersects(chip, boxes[j])
        clear(k, c) == free(k, c) /\ ~\E p \in placed : Intersects(Candidates(boxes[word], ChipSizes[k])[c], p.rect)
        sizes == {k \in DOMAIN ChipSizes : \E c \in 1..16 : clear(k, c)}
        k == Min(sizes)
    IN  IF sizes = {} THEN [placed |-> FALSE, rect |-> Candidates(boxes[word], ChipSizes[1])[1]]
        ELSE [placed |-> TRUE, rect |-> Candidates(boxes[word], ChipSizes[k])[Min({c \in 1..16 : clear(k, c)})]]
PlaceChips(boxes) ==
    FoldLeft(LAMBDA chips, word : Append(chips, PlaceChip(boxes, word, {c \in Range(chips) : c.placed})),
             <<>>, NumberedOrder(boxes))
Unplaced(chips) == {i \in DOMAIN chips : ~chips[i].placed}

-----------------------------------------------------------------------------
\* Every row is numbered in exactly one band of a page, and no band is
\* empty, unless rows side by side leave fewer places to cut than bands.
EveryRowInOneBand(rows) ==
    LET strips == RenderStrips(rows) IN
    strips # "IndexError" =>
        /\ \A i \in DOMAIN rows : \E n \in DOMAIN strips : i \in strips[n]
        /\ \A m, n \in DOMAIN strips : m # n => strips[m] \cap strips[n] = {}

\* A chip stands clear of every other word and every other chip, or is
\* reported as unplaced; a pill covers writing or another pill only when its
\* own sides and every lane were taken.
LabelsClear(boxes) ==
    LET chips == PlaceChips(boxes)
        order == NumberedOrder(boxes)
        near(b, c) == Overlaps(Box(b.x0 - EdgePad, b.y0 - EdgePad, b.x1 + EdgePad, b.y1 + EdgePad), c)
    IN  \A m \in DOMAIN chips \ Unplaced(chips) :
            /\ \A n \in DOMAIN chips \ (Unplaced(chips) \cup {m}) : ~near(chips[m].rect, chips[n].rect)
            /\ \A j \in DOMAIN boxes \ {order[m]} : ~near(chips[m].rect, boxes[j])
PillsClear(rows) ==
    LET pills == PillBoxes(rows) IN
    \A m \in DOMAIN pills :
        pills[m].x0 # MarginColumn(rows) =>
            /\ \A w \in InkOf(rows) : ~Overlaps(pills[m], w)
            /\ \A n \in DOMAIN pills : n < m => ~Overlaps(pills[m], pills[n])

=============================================================================
