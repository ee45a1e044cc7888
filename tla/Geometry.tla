---------------------------- MODULE Geometry -----------------------------
(* Boxes on a page (document/rectangle.py, document/word.py) in whole       *)
(* pixels.  A centre is kept doubled, so that it is whole as well.          *)
EXTENDS Integers, Sequences, SequencesExt, FiniteSetsExt

Box(x0, y0, x1, y1) == [x0 |-> x0, y0 |-> y0, x1 |-> x1, y1 |-> y1]
Width(b) == b.x1 - b.x0
Height(b) == b.y1 - b.y0
Centre2X(b) == b.x0 + b.x1  \* twice the centre
Centre2Y(b) == b.y0 + b.y1
Distance(a, b) == IF a < b THEN b - a ELSE a - b

Overlaps(b, c) == b.x0 < c.x1 /\ c.x0 < b.x1 /\ b.y0 < c.y1 /\ c.y0 < b.y1
OverlapsX(b, c) == Min({b.x1, c.x1}) > Max({b.x0, c.x0})
OverlapY(b, c) == Min({b.y1, c.y1}) - Max({b.y0, c.y0})

Union(boxes) == Box(Min({b.x0 : b \in boxes}), Min({b.y0 : b \in boxes}),
                    Max({b.x1 : b \in boxes}), Max({b.y1 : b \in boxes}))

\* a rule is this much wider than high; a letter is narrower than high
RuleAspect == 8
IsWide(b) == Width(b) >= RuleAspect * Height(b)
IsLetter(b) == 4 * Width(b) < 3 * Height(b)

\* the square of a box's distance to a point, and to a level stroke [x_lo, x_hi, y]
Square(n) == n * n
GapTo(lo, hi, from, to) == Max({lo - to, 0, from - hi})
DistanceToPoint2(b, x, y) == Square(GapTo(b.x0, b.x1, x, x)) + Square(GapTo(b.y0, b.y1, y, y))
DistanceToStroke2(b, s) == Square(GapTo(b.x0, b.x1, s.x_lo, s.x_hi)) + Square(GapTo(b.y0, b.y1, s.y, s.y))

\* the strip that joins two words of a row, in doubled heights: none when they meet
JoinBand(b, c) ==
    LET top == Max({b.y0, c.y0})
        bottom == Min({b.y1, c.y1})
        mid2 == IF bottom <= top THEN b.y1 + c.y0 ELSE top + bottom
        height == Min({Height(b), Height(c)})
    IN  IF c.x0 <= b.x1
        THEN [x0 |-> b.x1, x1 |-> b.x1, y0 |-> 2 * Min({b.y1, c.y1}), y1 |-> 2 * Min({b.y1, c.y1})]
        ELSE [x0 |-> b.x1, x1 |-> c.x0, y0 |-> mid2 - height, y1 |-> mid2 + height]

\* a row's tint: its boxes from left to right and the strips between them
TintRects(boxes) ==
    LET ordered == SortSeq(boxes, LAMBDA b, c : b.x0 < c.x0)
    IN  [boxes |-> ordered, bands |-> [i \in 1..(Len(ordered) - 1) |-> JoinBand(ordered[i], ordered[i + 1])]]

\* a box kept inside a page of the given size
Clamped(b, width, height) ==
    Box(Max({0, b.x0}), Max({0, b.y0}), Min({width, b.x1}), Min({height, b.y1}))

=============================================================================
