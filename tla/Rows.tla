------------------------------- MODULE Rows ------------------------------
(* The rows a page's words make, and the reviewer's drawn lines as edits of *)
(* them (pipeline/rows/rows.py).  A word is a box with the reading line it  *)
(* was read in (0: none); a stroke is a level line [x_lo, x_hi, y].         *)
EXTENDS Geometry

NoRow == 0

\* the measures of a page: its writing height and what follows from it
WritingHeight(words) ==
    LET heights == SortSeq([i \in DOMAIN words |-> Height(words[i])], <) IN heights[Len(heights) \div 2 + 1]
WithinTouch(d2, unit) == 10000 * d2 <= Square(38 * unit)
WithinSpacing(gap, unit) == -8 * unit <= 5 * gap /\ 5 * gap <= 8 * unit

\* a rule is wide and has no writing directly above it
IsRule(words, i) ==
    LET w == words[i]
        unit == WritingHeight(words)
    IN  /\ Height(w) > 0 /\ IsWide(w)
        /\ ~\E j \in DOMAIN words \ {i} :
            ~IsWide(words[j]) /\ words[j].x1 > w.x0 /\ words[j].x0 < w.x1 /\ WithinSpacing(w.y0 - words[j].y1, unit)

OfLine(words, line) == {i \in DOMAIN words : words[i].line = line}
LinesOf(words) == {words[i].line : i \in DOMAIN words} \ {NoRow}
LineWidth(words, line) == Width(Union({words[i] : i \in OfLine(words, line)}))

Covered(words, s) ==
    {i \in DOMAIN words : ~IsRule(words, i) /\ WithinTouch(DistanceToStroke2(words[i], s), WritingHeight(words))}
Under(words, s) ==
    LET unit == WritingHeight(words) IN
    {i \in DOMAIN words : /\ words[i].line # NoRow
                          /\ 100 * s.x_lo - 38 * unit <= 50 * Centre2X(words[i])
                          /\ 50 * Centre2X(words[i]) <= 100 * s.x_hi + 38 * unit}

\* the reading lines a stroke replaces: it runs across half their width, and covers half their words it reaches
Replaced(words, s) ==
    {line \in LinesOf(words) :
        LET count == Cardinality(Covered(words, s) \cap OfLine(words, line)) IN
        /\ count > 0 /\ 2 * (s.x_hi - s.x_lo) >= LineWidth(words, line)
        /\ 2 * count >= Cardinality(Under(words, s) \cap OfLine(words, line))}

AlongStroke(w, s, unit) ==  \* a word's centre lies within half the writing height of the stroke
    Square(GapTo(2 * s.x_lo, 2 * s.x_hi, Centre2X(w), Centre2X(w))) + Square(Centre2Y(w) - 2 * s.y) <= Square(unit)
ClaimsAlong(words, s, i) ==  \* variant: no row is replaced as a whole
    i \in Covered(words, s) /\ (words[i].line = NoRow \/ AlongStroke(words[i], s, WritingHeight(words)))
Claims(words, s, i) ==
    \/ words[i].line \in Replaced(words, s)
    \/ i \in Covered(words, s) /\ (words[i].line = NoRow \/ AlongStroke(words[i], s, WritingHeight(words)))

Nearest(words, strokes, i, among) ==
    CHOOSE k \in among : \A m \in among :
        LET dk == DistanceToStroke2(words[i], strokes[k])
            dm == DistanceToStroke2(words[i], strokes[m])
        IN  dk < dm \/ (dk = dm /\ k <= m)

\* every word's stroke by the two rules of claiming
FirstOwner(words, strokes) == [i \in DOMAIN words |->
    LET claiming == {k \in DOMAIN strokes : Claims(words, strokes[k], i)} IN
    IF IsRule(words, i) \/ claiming = {} THEN NoRow ELSE Nearest(words, strokes, i, claiming)]

\* word by word in their order, a mark that floats clear of its stroke over a word of the row is unclaimed
IsMark(words, strokes, owner, i) ==
    LET near == {k \in DOMAIN strokes : WithinTouch(DistanceToStroke2(words[i], strokes[k]), WritingHeight(words))} IN
    /\ ~IsRule(words, i) /\ Height(words[i]) <= WritingHeight(words) /\ near # {}
    /\ LET k == Nearest(words, strokes, i, near) IN
        /\ \E j \in DOMAIN words \ {i} :
            owner[j] = k /\ words[j].line = words[i].line /\ OverlapsX(words[i], words[j])
        /\ words[i].y1 <= strokes[k].y \/ words[i].y0 >= strokes[k].y
Discounting(words, strokes) ==
    FoldLeft(LAMBDA claim, i : IF IsMark(words, strokes, claim.owner, i)
                               THEN [owner |-> [claim.owner EXCEPT ![i] = NoRow], marks |-> claim.marks \cup {i}]
                               ELSE claim,
             [owner |-> FirstOwner(words, strokes), marks |-> {}], [i \in DOMAIN words |-> i])

\* a mark joins the row whose writing it lies in for half its height, the first of the deepest
HostRow(words, owner, i) ==
    LET depth(k) == Max({0} \cup {OverlapY(words[i], words[j]) :
                                    j \in {m \in DOMAIN words : owner[m] = k /\ OverlapsX(words[i], words[m])}})
        rows == {owner[j] : j \in DOMAIN words} \ {NoRow}
        deepest == {k \in rows : \A m \in rows : depth(k) >= depth(m)}
        first(k) == Min({j \in DOMAIN words : owner[j] = k})
    IN  IF Height(words[i]) = 0 \/ deepest = {} THEN NoRow
        ELSE LET k == CHOOSE k \in deepest : \A m \in deepest : first(k) <= first(m)
             IN  IF 2 * depth(k) >= Height(words[i]) THEN k ELSE NoRow

\* what lies directly above or below a word, and what is on its level
Gap(w, other) ==
    IF ~OverlapsX(w, other) THEN {}
    ELSE IF other.y1 <= w.y0 THEN {w.y0 - other.y1}
    ELSE IF other.y0 >= w.y1 THEN {other.y0 - w.y1} ELSE {}
Butts(words, i, j) == \E g \in Gap(words[i], words[j]) : 8 * g <= Max({WritingHeight(words), 32})
SameLine(words, i, j) == 2 * Distance(Centre2Y(words[i]), Centre2Y(words[j])) <= WritingHeight(words)

FirstLeast(S, f(_)) == CHOOSE i \in S : \A j \in S : f(i) < f(j) \/ (f(i) = f(j) /\ i <= j)
Apportioned(words, owner, i) ==
    LET butting == {j \in DOMAIN words \ {i} : Butts(words, i, j)}
        level == {j \in DOMAIN words \ {i} : owner[j] # NoRow /\ SameLine(words, i, j)}
    IN  IF butting # {} THEN owner[FirstLeast(butting, LAMBDA j : Min(Gap(words[i], words[j])))]
        ELSE IF level # {} THEN owner[FirstLeast(level, LAMBDA j : Distance(Centre2X(words[i]), Centre2X(words[j])))]
        ELSE NoRow

\* the rows the marks may join are those before the apportioning began
Claimed(words, strokes) ==
    LET start == Discounting(words, strokes)
        Given(owner, i) ==
            IF owner[i] # NoRow THEN owner
            ELSE IF i \in start.marks THEN [owner EXCEPT ![i] = HostRow(words, start.owner, i)]
            ELSE IF words[i].line = NoRow THEN [owner EXCEPT ![i] = Apportioned(words, owner, i)]
            ELSE owner
    IN  [owner |-> FoldLeft(Given, start.owner, [i \in DOMAIN words |-> i]), marks |-> start.marks]

\* the rows: the claimed words by stroke, the others by reading line, topmost first; a row is a set of words
RowsOf(words, strokes) ==
    LET claim == Claimed(words, strokes)
        drawn(k) == {i \in DOMAIN words : claim.owner[i] = k}
        draft(line) == {i \in OfLine(words, line) : claim.owner[i] = NoRow /\ i \notin claim.marks}
    IN  ({drawn(k) : k \in DOMAIN strokes} \cup {draft(line) : line \in LinesOf(words)}) \ {{}}
TopOf(words, row) == Min({Centre2Y(words[i]) : i \in row})
Numbered(words, rows) == SetToSortSeq(rows, LAMBDA a, b : TopOf(words, a) < TopOf(words, b))
BandOf(words, row) == Union({words[i] : i \in row})

\* what the acceptance check reports: a stroke without a word, one that merges reading lines, a row off the page
Violations(words, strokes, width, height) ==
    LET owner == Claimed(words, strokes).owner
        held(k) == {i \in DOMAIN words : owner[i] = k}
    IN  {<<"claims no word", k>> : k \in {k \in DOMAIN strokes : held(k) = {}}}
        \cup {<<"merges lines", k>> : k \in {k \in DOMAIN strokes :
                Cardinality({words[i].line : i \in held(k)} \ {NoRow}) > 1}}
        \cup {<<"leaves the page", row>> : row \in {row \in RowsOf(words, strokes) :
                Clamped(BandOf(words, row), width, height) # BandOf(words, row)}}

-----------------------------------------------------------------------------
\* Every word that is neither a mark nor without a reading line is in a
\* row, and no word is in two.
WordsStay(words, strokes) ==
    LET rows == RowsOf(words, strokes)
        marks == Claimed(words, strokes).marks
    IN  /\ \A a, b \in rows : a # b => a \cap b = {}
        /\ \A i \in DOMAIN words : words[i].line # NoRow /\ i \notin marks => \E row \in rows : i \in row

\* does a stroke run along a reading line: over the whole of it, through every box of it and no other box
RunsAlong(words, s, line) ==
    \A i \in DOMAIN words :
        IF words[i].line = line
        THEN s.x_lo <= words[i].x0 /\ words[i].x1 <= s.x_hi /\ words[i].y0 < s.y /\ s.y < words[i].y1
        ELSE ~WithinTouch(DistanceToStroke2(words[i], s), WritingHeight(words))

\* A stroke drawn along a row, over the whole of it and touching no box of
\* another, leaves the page's rows exactly as they were.
EditNotRebuild(words, strokes) ==
    \A s \in Range(strokes), line \in LinesOf(words) :
        Len(strokes) = 1 /\ RunsAlong(words, s, line) /\ (\A i \in DOMAIN words : ~IsRule(words, i) /\ words[i].line # NoRow)
            => RowsOf(words, strokes) = RowsOf(words, <<>>)

\* A reading line of which no stroke touches a box keeps its row, whatever
\* is drawn elsewhere on the page.
UntouchedRowStays(words, strokes) ==
    \A line \in LinesOf(words) :
        (\A s \in Range(strokes) : Covered(words, s) \cap OfLine(words, line) = {}) => OfLine(words, line) \in RowsOf(words, strokes)

\* A short stroke, less than half as wide as any row, takes no word it does not touch.
ShortStrokeTakesTouched(words, strokes) ==
    \A k \in DOMAIN strokes :
        (\A line \in LinesOf(words) : 2 * (strokes[k].x_hi - strokes[k].x_lo) < LineWidth(words, line)) =>
            \A i \in DOMAIN words :
                FirstOwner(words, strokes)[i] = k => WithinTouch(DistanceToStroke2(words[i], strokes[k]), WritingHeight(words))

\* Drawn lines are an edit of the rows: they lose no word but a mark and double
\* none, a row that is traced alone or not touched stays as it was, and a short
\* line takes what it touches.  A long line may take a whole row of which it
\* touches a word: see NeighbourKeepsItsWords.
DrawnLineEditsItsRow(words, strokes) ==
    /\ WordsStay(words, strokes) /\ EditNotRebuild(words, strokes)
    /\ UntouchedRowStays(words, strokes) /\ ShortStrokeTakesTouched(words, strokes)

RunsAlongWordOf(words, s, line) == \E i \in OfLine(words, line) : AlongStroke(words[i], s, WritingHeight(words))

\* "A stroke that replaces a row never takes another row's words" (rows.py:333): one that
\* runs along words of one row takes, of a row that it runs along no word of, at most what
\* it touches.
NeighbourKeepsItsWords(words, strokes) ==
    \A k \in DOMAIN strokes, i \in DOMAIN words :
        /\ \E line \in LinesOf(words) : RunsAlongWordOf(words, strokes[k], line)
        /\ words[i].line # NoRow /\ ~RunsAlongWordOf(words, strokes[k], words[i].line)
        /\ FirstOwner(words, strokes)[i] = k
        => i \in Covered(words, strokes[k])

=============================================================================
