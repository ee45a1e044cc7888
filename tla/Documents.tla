---------------------------- MODULE Documents -----------------------------
(* How the pages of a pile become documents and what a document names:       *)
(* the kind of each page and how it is read (pipeline/classify.py), the       *)
(* grouping by sheets, paper, page numbers and the model's flags              *)
(* (pipeline/grouping.py, pipeline/boundary.py), the stages a page passes     *)
(* (document/stages.py), and the people a document names                      *)
(* (pipeline/identify.py, pipeline/mention.py).                               *)
EXTENDS Integers, Sequences, FiniteSets, SequencesExt, Functions

CONSTANTS
    KinTerms,   \* names that only say who someone is to the speaker
    Folded,     \* a name in small letters
    Slug,       \* a name as it stands in an id
    MaxPeople,  \* how many people one document may name
    None

-----------------------------------------------------------------------------
\* what a page shows, as the model answers and as classify.json keeps it

ContentKinds == {"photograph", "printed", "handwriting", "postcard_face", "form", "drawing"}
TextKinds == {"printed", "handwriting", "postcard_face", "form"}
Mediums == {"printed", "handwritten"}
MediumShapes == {"postcard_face", "form"}
LegacyKinds == [text |-> "handwriting", photo |-> "photograph"]

\* None where the answer is refused: the pass fails and the page stays unclassified
ClassifyPage(answer) ==
    IF answer.kind \notin ContentKinds \/ answer.confidence \notin 0..100 THEN None
    ELSE IF answer.kind \in MediumShapes /\ answer.medium \notin Mediums \cup {None} THEN None
    ELSE [kind |-> answer.kind, medium |-> IF answer.kind \in MediumShapes THEN answer.medium ELSE None]
CategoryOf(entry) == IF entry.kind \in DOMAIN LegacyKinds THEN LegacyKinds[entry.kind] ELSE entry.kind
ReadRouteByKind(entry) ==  \* variant: by the recorded word, whichever vocabulary it is of
    CASE entry.kind = "printed" -> "direct" [] entry.kind = "form" -> "structured"
      [] entry.kind \in {"postcard_face", "handwriting"} -> "rows" [] OTHER -> "none"
ReadRoute(entry) ==
    LET kind == CategoryOf(entry) IN
    CASE kind = "printed" -> "direct"
      [] kind = "postcard_face" -> IF entry.medium = "printed" THEN "direct" ELSE "rows"
      [] kind = "form" -> "structured"
      [] kind = "handwriting" -> "rows"
      [] OTHER -> "none"

\* only the pages with no entry are asked about, and those a person sends back
RunClassify(existing, answers, reclassify) ==
    LET todo == {page \in DOMAIN answers : page \notin DOMAIN existing \/ page \in reclassify}
        found == [page \in todo |-> ClassifyPage(answers[page])]
    IN  IF \E page \in todo : found[page] = None THEN existing
        ELSE [page \in DOMAIN existing \cup todo |-> IF page \in todo THEN found[page] ELSE existing[page]]

-----------------------------------------------------------------------------
\* The grouping of a pile, a sequence of pages [kind, width, height, number,
\* flag]: number is the page number its text opens with or 0, flag what the
\* model says of it, [starts, ends, greeting, signoff], or None.

Aspect(page) ==  \* the shorter side in hundredths of the longer
    IF page.width < page.height THEN (100 * page.width) \div page.height ELSE (100 * page.height) \div page.width
SamePaper(a, b) ==
    LET pa == Aspect(a) pb == Aspect(b)
        less == IF pa < pb THEN pa ELSE pb
        more == IF pa < pb THEN pb ELSE pa
    IN  100 * (more - less) <= 12 * less
IsLight(kind) == kind \in {"photo", "drawing"}

\* whether a text page goes on with the document of the text page before it
TextPairDecision(prev, page) ==
    /\ SamePaper(prev, page)
    /\ IF page.number # 0 THEN page.number # 1
       ELSE /\ prev.flag = None \/ ~prev.flag.ends
            /\ page.flag = None \/ ~page.flag.starts

OpeningAt(i, flag) ==
    [pages |-> <<i>>, greeting |-> IF flag # None /\ flag.starts THEN flag.greeting ELSE None, signoff |-> None]
Carry(doc, flag) ==
    IF flag = None THEN doc
    ELSE [doc EXCEPT !.greeting = IF @ = None THEN flag.greeting ELSE @,
                     !.signoff = IF flag.ends /\ flag.signoff # None THEN flag.signoff ELSE @]
OnLast(docs, change(_)) == [docs EXCEPT ![Len(docs)] = change(@)]

IsSheetUnclaimed(pile, i, claimed) ==  \* variant: a page may be a side of two sheets
    IsLight(pile[i].kind) # IsLight(pile[i - 1].kind) /\ SamePaper(pile[i - 1], pile[i])
IsSheet(pile, i, claimed) ==
    /\ IsLight(pile[i].kind) # IsLight(pile[i - 1].kind)
    /\ SamePaper(pile[i - 1], pile[i])
    /\ {i - 1, i} \cap claimed = {}

\* the page joins the document before it, the picture side first, or opens one of its own
Placed(pile, i, docs, claimed) ==
    LET page == pile[i] prev == pile[i - 1] IN
    IF IsSheet(pile, i, claimed)
    THEN OnLast(docs, LAMBDA doc : Carry(
             [doc EXCEPT !.pages = IF IsLight(page.kind) THEN <<i>> \o @ ELSE Append(@, i)], page.flag))
    ELSE IF page.kind = "text" /\ prev.kind = "text"
    THEN IF TextPairDecision(prev, page)
         THEN OnLast(docs, LAMBDA doc : Carry([doc EXCEPT !.pages = Append(@, i)], page.flag))
         ELSE Append(docs, Carry(OpeningAt(i, page.flag), page.flag))
    ELSE Append(docs, OpeningAt(i, page.flag))
ScoreBoundaries(pile) ==
    FoldLeft(LAMBDA scored, i :
                 IF i = 1 THEN [docs |-> <<OpeningAt(1, pile[1].flag)>>, claimed |-> {}]
                 ELSE [docs |-> Placed(pile, i, scored.docs, scored.claimed),
                       claimed |-> scored.claimed \cup IF IsSheet(pile, i, scored.claimed) THEN {i - 1, i} ELSE {}],
             [docs |-> <<>>, claimed |-> {}], [i \in DOMAIN pile |-> i]).docs

\* what the pass hands the scorer: the kinds by their categories
WriteBoundaries(pile) == ScoreBoundaries([i \in DOMAIN pile |-> [pile[i] EXCEPT !.kind = CategoryOf([kind |-> @])]])

-----------------------------------------------------------------------------
\* the stages a page passes, and the status that says it has

StageNumber == [classify |-> -1, orient |-> 0, marks |-> 1, words |-> 2, rows |-> 3, rows_adjusted |-> 4,
                transcripts_proposed |-> 5, transcripts_agreed |-> 6, entities_proposed |-> 7, entities_agreed |-> 8]
HumanStages == {"rows_adjusted", "transcripts_agreed", "entities_agreed"}
StageOf == [classified |-> "classify", oriented |-> "orient", marks |-> "marks", words |-> "words",
            rows_draft |-> "rows", rows_adjusted |-> "rows_adjusted", transcripts_proposed |-> "transcripts_proposed"]
StatusOf(stage) == IF stage \in Range(StageOf) THEN CHOOSE s \in DOMAIN StageOf : StageOf[s] = stage ELSE None
Awaits(status) == IF status = "rows_pending" THEN "rows_adjusted" ELSE None
Passed(status) == status \in {"rows_adjusted", "transcripts_proposed"}  \* counts towards a document that can be agreed

-----------------------------------------------------------------------------
\* The people a document names.  An answer's entry is [name, match]; a person is
\* [id, name, status], an id <<slug, n>> with n above 1 for a namesake.

\* entries without a name are left out, and a name's repetition
Mentions(entries) ==
    LET named == SelectSeq(entries, LAMBDA e : e.name # None) IN
    FoldLeft(LAMBDA kept, e : IF \E i \in DOMAIN kept : Folded[kept[i].name] = Folded[e.name] THEN kept ELSE Append(kept, e),
             <<>>, named)

PersonNamed(people, name) == LET at == {i \in DOMAIN people : Folded[people[i].name] = Folded[name]} IN
    IF at = {} THEN None ELSE people[CHOOSE i \in at : \A j \in at : i <= j]
\* by the id the model gives, if there is such a person, or by name; a kinship term is nobody
Matched(people, mention) ==
    LET byId == {i \in DOMAIN people : people[i].id = mention.match} IN
    IF mention.name \in KinTerms THEN None
    ELSE IF byId # {} THEN people[CHOOSE i \in byId : \A j \in byId : i <= j]
    ELSE PersonNamed(people, mention.name)

UniqueIdUnheld(slug, used) == <<slug, 1>>  \* variant: an id is not checked against those in use
UniqueId(slug, used) ==
    IF <<slug, 1>> \notin used THEN <<slug, 1>>
    ELSE <<slug, CHOOSE n \in 2..(Cardinality(used) + 2) :
                     <<slug, n>> \notin used /\ \A m \in 2..(n - 1) : <<slug, m>> \in used>>

\* the standing records matched and the proposals made, each once, up to the limit
Identified(people, entries) ==
    LET Step(state, mention) ==
            LET matched == Matched(people, mention)
                id == UniqueId(Slug[mention.name], state.used)
                person == IF matched # None THEN matched ELSE [id |-> id, name |-> mention.name, status |-> "proposed"]
                met == \E i \in DOMAIN state.found : state.found[i].id = person.id
            IN  [found |-> IF met THEN state.found ELSE Append(state.found, person),
                 used |-> IF matched # None THEN state.used ELSE state.used \cup {id}]
        all == FoldLeft(Step, [found |-> <<>>, used |-> {people[i].id : i \in DOMAIN people}], Mentions(entries)).found
    IN  SubSeq(all, 1, IF Len(all) < MaxPeople THEN Len(all) ELSE MaxPeople)

-----------------------------------------------------------------------------
\* What they must get right.

DocumentOf(docs, i) == CHOOSE d \in DOMAIN docs : i \in Range(docs[d].pages)

\* Every page is in one document, a document is pages scanned in a row, its pictures come first,
\* and no page is a side of two sheets: a page of another kind than both its neighbours is not
\* with them both.
SidesOfASheet(docs, pile) ==
    /\ \A i \in DOMAIN pile : Cardinality({d \in DOMAIN docs : i \in Range(docs[d].pages)}) = 1
    /\ \A d \in DOMAIN docs : LET pages == docs[d].pages IN
        /\ \A i \in Range(pages), j \in Range(pages) : (i..j) \subseteq Range(pages)
        /\ \A k \in DOMAIN pages, l \in DOMAIN pages :
              (IsLight(pile[pages[k]].kind) /\ ~IsLight(pile[pages[l]].kind)) => k < l
    /\ \A i \in 2..(Len(pile) - 1) :
        (IsLight(pile[i].kind) # IsLight(pile[i - 1].kind) /\ IsLight(pile[i].kind) # IsLight(pile[i + 1].kind))
            => ~(DocumentOf(docs, i - 1) = DocumentOf(docs, i) /\ DocumentOf(docs, i) = DocumentOf(docs, i + 1))

\* A page goes to be read exactly when it counts as a text page, whichever vocabulary it was
\* classified in, or a text page nothing reads would wait for ever; and it counts as done
\* exactly when it is at the stage of a person's rows or past it, none that awaits one.
PagesHaveAWay(classified) ==
    /\ \A page \in DOMAIN classified : (ReadRoute(classified[page]) # "none") <=> (CategoryOf(classified[page]) \in TextKinds)
    /\ \A status \in DOMAIN StageOf \cup {"new", "rows_pending"} :
        /\ Passed(status) <=> (status \in DOMAIN StageOf /\ StageNumber[StageOf[status]] >= StageNumber["rows_adjusted"])
        /\ Awaits(status) # None => Awaits(status) \in HumanStages /\ ~Passed(status) /\ Passed(StatusOf(Awaits(status)))

\* TECHSPEC: "a page starting 2 continues its document".
ContinuationJoins(docs, pile) ==
    \A i \in 2..Len(pile) :
        (/\ CategoryOf(pile[i]) \in TextKinds /\ CategoryOf(pile[i - 1]) \in TextKinds
         /\ SamePaper(pile[i - 1], pile[i]) /\ pile[i].number > 1)
            => DocumentOf(docs, i - 1) = DocumentOf(docs, i)

\* Who a document names: every name gets a record, two proposals never share one nor take a
\* standing record's id, and a bare kinship term never becomes a standing person.
NamesToRecords(people, entries) ==
    LET found == Identified(people, entries)
        standing == {people[i].id : i \in DOMAIN people}
        proposed == {i \in DOMAIN found : found[i].status = "proposed" /\ found[i] \notin Range(people)}
        mentions == Mentions(entries)
    IN  /\ \A i \in proposed : found[i].id \notin standing /\ \A j \in DOMAIN found \ {i} : found[j].id # found[i].id
        /\ Len(found) < MaxPeople => \A m \in DOMAIN mentions :
              \E i \in DOMAIN found : found[i] = Matched(people, mentions[m])
                                      \/ (i \in proposed /\ found[i].name = mentions[m].name)
        /\ \A i \in DOMAIN found : \A m \in DOMAIN mentions :
              (mentions[m].name \in KinTerms /\ found[i].name = mentions[m].name /\ found[i].id \in standing)
                  => \E n \in DOMAIN mentions \ {m} : Matched(people, mentions[n]) = found[i]
=============================================================================
