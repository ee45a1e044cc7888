------------------------------ MODULE Gedcom -----------------------------
(* The family tree as a GEDCOM file (tools/gedcom_document.py, gedcom_date.py, *)
(* gedcom_person.py, gedcom_shapes.py): a file is read into a record set, the  *)
(* confirmed part of a record set is written as a file.  A file is its FAM,     *)
(* INDI and PLAC records (the parser and the line format are the library's);    *)
(* ids are numbers, in the order their text sorts; a date is its parts, from    *)
(* the year down, and a payload states them from the day up.                    *)
EXTENDS Naturals, Sequences, FiniteSets, FiniteSetsExt, SequencesExt, Functions

CONSTANT None   \* a field without a value

-----------------------------------------------------------------------------
\* dates

Date(date, precision, date2) == [date |-> date, precision |-> precision, date2 |-> date2]
Iso(words) == Reverse(words)
QualifierPrecision(mark) ==
    CASE mark \in {"ABT", "EST", "CAL"} -> "approx" [] mark = "BEF" -> "before" [] mark = "AFT" -> "after"
\* a date in words only keeps no date; a qualifier of nothing is read as a date
FromPayload(p) ==
    IF p.words = <<>> /\ p.mark # "()" THEN Date(<<p.mark>>, "exact", None)
    ELSE
    CASE p.mark \in {"ABT", "EST", "CAL", "BEF", "AFT"} -> Date(Iso(p.words), QualifierPrecision(p.mark), None)
      [] p.mark \in {"BET", "FROM"} -> Date(Iso(p.words), "between", Iso(p.to))
      [] p.mark = "INT" -> Date(Iso(p.words), "approx", None)
      [] p.mark = "()" -> Date(<<>>, "approx", None)
      [] p.mark = "" -> Date(Iso(p.words), "exact", None)
MarkOf(precision) ==
    CASE precision = "approx" -> "ABT" [] precision = "before" -> "BEF" [] precision = "after" -> "AFT"
      [] precision = "between" -> "BET" [] OTHER -> ""
Payload(d) ==
    [mark |-> MarkOf(d.precision), words |-> Reverse(d.date),
     to |-> IF d.precision = "between" THEN Reverse(d.date2) ELSE <<>>]
DatePayload(date) == IF date = None THEN None ELSE Payload(date)
FactDate(payload) == IF payload = None THEN None ELSE FromPayload(payload)

-----------------------------------------------------------------------------
\* what leaves the archive

Leaves(status) == status \in {None, "confirmed", "estimated"}
ExportedEdgesOfPeople(shapes, ids) ==  \* variant: an edge leaves with its people, whatever its own status
    {e \in shapes.edges : {e.a, e.b} \subseteq ids}
ExportedEdges(shapes, ids) == {e \in shapes.edges : {e.a, e.b} \subseteq ids /\ Leaves(e.status)}
ExportSet(shapes) ==
    LET people == {p \in shapes.people : Leaves(p.status)} IN
    [people |-> people, edges |-> ExportedEdges(shapes, {p.id : p \in people}),
     places |-> {pl \in shapes.places : pl.status \notin {"pending", "proposed"}}]

\* the evidence of an estimate: what the first review that decided it so recorded
EstimateBasis(decisions, id) ==
    LET guesses == {i \in DOMAIN decisions : /\ decisions[i].person = id /\ decisions[i].decision = "estimated"
                                             /\ decisions[i].basis # None}
    IN  IF guesses = {} THEN None ELSE decisions[Min(guesses)].basis
EstimateNote(decisions, first, second) ==
    IF EstimateBasis(decisions, first) # None THEN EstimateBasis(decisions, first)
    ELSE IF EstimateBasis(decisions, second) # None THEN EstimateBasis(decisions, second) ELSE "not recorded"

-----------------------------------------------------------------------------
\* the families: one for each pair of spouses, one for each other pair with a child of both,
\* one for each parent of children whose parents are not two

PairOf(x, y) == <<Min({x, y}), Max({x, y})>>
Spouses(edges) == {e \in edges : e.kind = "spouse"}
ParentsOf(edges, child) == {e.a : e \in {f \in edges : f.kind = "parent" /\ f.b = child}}
Children(edges) == {e.b : e \in {f \in edges : f.kind = "parent"}}
EstimatedParent(edges, parents, child) ==
    \E e \in edges : e.kind = "parent" /\ e.a \in parents /\ e.b = child /\ e.status = "estimated"

SpousePairs(edges) == {PairOf(e.a, e.b) : e \in Spouses(edges)}
MarriageDate(edges, pair) ==
    LET dated == {e \in Spouses(edges) : PairOf(e.a, e.b) = pair /\ e.date # None}
    IN  IF dated = {} THEN None ELSE (CHOOSE e \in dated : TRUE).date
CoParents(edges) == {PairOf(Min(ps), Max(ps)) : ps \in {qs \in {ParentsOf(edges, c) : c \in Children(edges)} : Cardinality(qs) = 2}}
ChildrenOfASpouse(edges, pair) ==  \* variant: a child is routed by a spouse of its parent
    {c \in Children(edges) : ParentsOf(edges, c) \cap {pair[1], pair[2]} # {}}
ChildrenOf(edges, pair) == {c \in Children(edges) : ParentsOf(edges, c) = {pair[1], pair[2]}}
LoneParents(edges) == {Min(ParentsOf(edges, c)) : c \in {d \in Children(edges) : Cardinality(ParentsOf(edges, d)) # 2}}
ChildrenOfOne(edges, parent) ==
    {c \in Children(edges) : Cardinality(ParentsOf(edges, c)) # 2 /\ Min(ParentsOf(edges, c)) = parent}

\* the evidence of an estimated marriage, or of the estimated parent of the child a family
\* was made for; an estimated child of a married pair brings none
PairNotes(edges, decisions, pair) ==
    IF pair \in SpousePairs(edges)
    THEN {EstimateNote(decisions, e.b, e.a) : e \in {f \in Spouses(edges) : PairOf(f.a, f.b) = pair /\ f.status = "estimated"}}
    ELSE LET child == Min(ChildrenOf(edges, pair)) IN
         IF EstimatedParent(edges, {pair[1], pair[2]}, child) THEN {EstimateNote(decisions, child, pair[1])} ELSE {}
LoneNotes(edges, decisions, parent) ==
    IF \E c \in ChildrenOfOne(edges, parent) : EstimatedParent(edges, {parent}, c)
    THEN {EstimateNote(decisions, Min(ChildrenOfOne(edges, parent)), parent)} ELSE {}
Families(edges, decisions) ==
    {[a |-> pair[1], b |-> pair[2], marriage |-> MarriageDate(edges, pair), children |-> ChildrenOf(edges, pair),
      notes |-> PairNotes(edges, decisions, pair)] : pair \in SpousePairs(edges) \cup CoParents(edges)}
    \cup {[a |-> parent, b |-> None, marriage |-> None, children |-> ChildrenOfOne(edges, parent),
           notes |-> LoneNotes(edges, decisions, parent)] : parent \in LoneParents(edges)}

\* the pronouns say the role, or the place in the pair does
Role(people, id, position) ==
    LET pronouns == (CHOOSE p \in people : p.id = id).pronouns IN
    CASE pronouns = "she" -> "WIFE" [] pronouns = "he" -> "HUSB"
      [] OTHER -> IF position = 0 THEN "HUSB" ELSE "WIFE"
FamRecord(people, fam) ==
    [members |-> <<[role |-> Role(people, fam.a, 0), id |-> fam.a]>>
                 \o (IF fam.b = None THEN <<>> ELSE <<[role |-> Role(people, fam.b, 1), id |-> fam.b]>>),
     children |-> fam.children, marriage |-> DatePayload(fam.marriage), notes |-> fam.notes, pending |-> FALSE]

-----------------------------------------------------------------------------
\* a person's record: dates, residences, the ties outside the family

\* a period of two ends, or the end there is; no residence that is pending leaves
ResidencePayload(entry) ==
    CASE entry.from # <<>> /\ entry.to # <<>> -> [mark |-> "FROM", words |-> entry.from, to |-> entry.to]
      [] entry.from # <<>> /\ entry.to = <<>> -> [mark |-> "FROM only", words |-> entry.from, to |-> <<>>]
      [] entry.from = <<>> /\ entry.to # <<>> -> [mark |-> "TO only", words |-> entry.to, to |-> <<>>]
      [] OTHER -> None
PlaceName(places, place) ==
    LET named == {pl \in places : pl.id = place} IN IF named = {} THEN place ELSE (CHOOSE pl \in named : TRUE).name
ResidenceLines(places, residence) ==
    {[payload |-> ResidencePayload(entry), place |-> PlaceName(places, entry.place), note |-> entry.note] :
        entry \in {r \in residence : r.status \notin {"pending", "proposed"}}}
\* a payload that is no period is both ends, its words and all
Residence(line) ==
    LET words == IF line.payload.mark = "" THEN line.payload.words ELSE <<line.payload.mark>> \o line.payload.words IN
    [from |-> IF line.payload = None THEN <<>> ELSE IF line.payload.mark = "FROM" THEN line.payload.words ELSE words,
     to |-> IF line.payload = None THEN <<>> ELSE IF line.payload.mark = "FROM" THEN line.payload.to ELSE words,
     place |-> line.place, note |-> line.note, status |-> None]

Associations(edges) == {e \in edges : e.kind \notin {"spouse", "parent"}}
RelaLabel(kind) == IF kind = "inlaw" THEN "in-law" ELSE kind
RelaKind(label) == IF label = "in-law" THEN "inlaw" ELSE label

\* the stories that name the person, each text once
StoryNotes(stories, id) == {s.text : s \in {t \in stories : t.status = "catalogued" /\ t.text # "" /\ id \in t.people}}
IndiRecord(export, shapes, stories, decisions, p) ==
    [id |-> p.id, name |-> p.name, birth |-> DatePayload(p.dob),
     residences |-> ResidenceLines(shapes.places, p.residence),
     notes |-> StoryNotes(stories, p.id)
               \cup (IF p.status = "estimated" THEN {IF p.basis # None THEN p.basis ELSE EstimateNote(decisions, p.id, p.id)} ELSE {}),
     associations |-> {[other |-> e.b, label |-> RelaLabel(e.kind)] : e \in {f \in Associations(export.edges) : f.a = p.id}},
     pending |-> FALSE]

ToText(shapes, stories, decisions) ==
    LET export == ExportSet(shapes) IN
    [families |-> {FamRecord(export.people, fam) : fam \in Families(export.edges, decisions)},
     people |-> {IndiRecord(export, shapes, stories, decisions, p) : p \in export.people},
     places |-> {[id |-> pl.id, name |-> pl.name, pending |-> FALSE] : pl \in export.places}]

-----------------------------------------------------------------------------
\* a file, read

Marked(record) == IF record.pending THEN "pending" ELSE None
ParsePerson(record) ==
    [id |-> record.id, name |-> record.name, pronouns |-> None, dob |-> FactDate(record.birth),
     residence |-> {Residence(line) : line \in record.residences}, status |-> Marked(record), basis |-> None]

\* of two members in one role the later counts
Member(record, role) ==
    LET of == {i \in DOMAIN record.members : record.members[i].role = role}
    IN  IF of = {} THEN None ELSE record.members[Max(of)].id
ParseFamily(record) ==
    [a |-> Member(record, "HUSB"), b |-> Member(record, "WIFE"), children |-> record.children,
     marriage |-> FactDate(record.marriage), status |-> Marked(record)]
FamilyEdges(fam) ==
    (IF None \in {fam.a, fam.b} THEN {}
     ELSE {[a |-> fam.a, b |-> fam.b, kind |-> "spouse", date |-> fam.marriage, status |-> fam.status]})
    \cup {[a |-> parent, b |-> child, kind |-> "parent", date |-> None, status |-> fam.status] :
              parent \in {fam.a, fam.b} \ {None}, child \in fam.children}
BuildEdges(text) ==
    UNION {FamilyEdges(ParseFamily(record)) : record \in text.families}
    \cup UNION {{[a |-> record.id, b |-> asso.other, kind |-> RelaKind(asso.label), date |-> None, status |-> None] :
                    asso \in record.associations} : record \in text.people}

\* the places the file lists, and those that stand only where somebody lived
ParsePlaces(text) ==
    LET listed == {[id |-> pl.id, name |-> pl.name, status |-> Marked(pl)] : pl \in text.places}
        lived == UNION {{line.place : line \in record.residences} : record \in text.people} \ {None}
    IN  listed \cup {[id |-> name, name |-> name, status |-> None] : name \in lived \ {pl.name : pl \in listed}}

FromText(text) ==
    LET people == {ParsePerson(record) : record \in text.people}
        ids == {p.id : p \in people}
    IN  [people |-> people, places |-> ParsePlaces(text),
         edges |-> {e \in BuildEdges(text) : {e.a, e.b} \subseteq ids}]

-----------------------------------------------------------------------------
\* What a file can say that survives: a child of one family, no pair with two
\* families, a date that is not in words only, a residence with both of its ends or
\* none, and none in a place that is pending.
Carried(text) ==
    /\ \A child \in UNION {f.children : f \in text.families} :
        Cardinality({f \in text.families : child \in f.children}) = 1
    /\ \A f, g \in text.families : f # g => {m.id : m \in Range(f.members)} # {m.id : m \in Range(g.members)}
    /\ \A record \in text.people : record.birth = None \/ record.birth.mark # "()"
    /\ \A line \in UNION {r.residences : r \in text.people} :
        /\ line.payload = None \/ line.payload.mark \in {"FROM", ""}
        /\ ~\E pl \in text.places : pl.pending /\ pl.name = line.place

\* spouses are the same whichever is named first; a year lived somewhere is a period of that year
Unordered(e) == IF e.kind = "spouse" THEN [e EXCEPT !.a = PairOf(e.a, e.b)[1], !.b = PairOf(e.a, e.b)[2]] ELSE e
Compared(shapes) == [shapes EXCEPT !.edges = {Unordered(e) : e \in @}]

\* Import, export, import: what the second import reads is what the first read
\* without what is pending - the people with their dates and residences, every marriage with
\* its date, every child with all of its parents that are not
\* pending, every other tie and every place; and nothing that is pending leaves.
ConfirmedRoundTrip(text) ==
    LET shapes == FromText(text)
        export == ExportSet(shapes)
    IN  Carried(text) =>
        Compared(FromText(ToText(shapes, {}, <<>>)))
            = Compared([people |-> export.people, edges |-> export.edges, places |-> export.places])

\* Nobody who is only proposed leaves the archive, as a person, a spouse, a child or
\* a tie, and every guess leaves with its evidence - the person's own, or what
\* the review recorded - or with the word that there is none.
GuessesExplained(shapes, stories, decisions) ==
    LET text == ToText(shapes, stories, decisions)
        gone == {p.id : p \in {q \in shapes.people : ~Leaves(q.status)}}
    IN  /\ \A record \in text.people :
            /\ record.id \notin gone /\ \A asso \in record.associations : asso.other \notin gone
            /\ (CHOOSE p \in shapes.people : p.id = record.id).status = "estimated" => record.notes # {}
        /\ \A fam \in text.families :
            /\ ({m.id : m \in Range(fam.members)} \cup fam.children) \cap gone = {}
            /\ (\E e \in Spouses(shapes.edges) :
                    e.status = "estimated" /\ {e.a, e.b} = {m.id : m \in Range(fam.members)}) => fam.notes # {}

=============================================================================
