-------------------------- MODULE Algorithms_proofs --------------------------
(***************************************************************************)
(* Proofs about the modules without a state: what the components run       *)
(* checks of them on samples, for every input, where it takes no induction *)
(* over the input.                                                         *)
(***************************************************************************)
EXTENDS Integers, Sequences, FiniteSets, FiniteSetTheorems, SequenceTheorems, WellFoundedInduction, TLAPS

CONSTANTS
    Invalid, None,
    KinTerms, Folded, Slug, MaxPeople,                           \* of Documents
    RecordIds, ViableDates,                                      \* of Records
    MaxBandHeight, StripsMax, PillWidth, PillHeight, PillInset,  \* of Numbering
    ColumnGap, MarginLanes, ChipSizes, ChipGap, EdgePad

Dc == INSTANCE Documents
Tb == INSTANCE Records
Ch == INSTANCE Numbering
Gd == INSTANCE Gedcom

-----------------------------------------------------------------------------
(* Least numbers.                                                          *)

\* The least of a set of numbers, by which a search finds what it finds.
LEMMA SmallestMember ==
  ASSUME NEW S \in SUBSET Nat, S # {}
  PROVE  \E n \in S : \A m \in S : n <= m
<1>1. PICK n \in S : \A m \in Nat : <<m, n>> \in OpToRel(<, Nat) => m \notin S
  BY NatLessThanWellFounded, WFMin
<1>2. \A m \in S : ~(m < n)
  BY <1>1 DEF OpToRel
<1> QED
  BY <1>2

\* So the least is one of them.
LEMMA LeastIsMember ==
  ASSUME NEW S \in SUBSET Nat, S # {}
  PROVE  Ch!Min(S) \in S /\ Gd!Min(S) \in S
<1>1. PICK n \in S : \A m \in S : n <= m
  BY SmallestMember
<1> QED
  BY <1>1 DEF Ch!Min, Gd!Min


-----------------------------------------------------------------------------
(* The pages of a pile and the people of a document. *)

\* A page of text is read whatever its kind is called, in the old entries' words or the new:
\* RunClassify of any answers, over any entries that stand (classify.py, stages.py).
THEOREM TextIsRead ==
  ASSUME NEW Pages, NEW Asked, NEW again,
         NEW existing \in [Pages -> [kind : Dc!ContentKinds \cup {"text", "photo"}, medium : Dc!Mediums \cup {None}]],
         NEW answers \in [Asked -> [kind : STRING, confidence : Int, medium : STRING \cup {None}]]
  PROVE  Dc!PagesHaveAWay(Dc!RunClassify(existing, answers, again))
<1> DEFINE entries == Dc!RunClassify(existing, answers, again)
           Kinds == Dc!ContentKinds \cup {"text", "photo"}
           todo == {page \in DOMAIN answers : page \notin DOMAIN existing \/ page \in again}
           found == [page \in todo |-> Dc!ClassifyPage(answers[page])]
<1>1. ASSUME NEW answer, Dc!ClassifyPage(answer) # None
      PROVE  Dc!ClassifyPage(answer).kind \in Kinds
  <2>1. Dc!ClassifyPage(answer) = [kind |-> answer.kind, medium |-> IF answer.kind \in Dc!MediumShapes THEN answer.medium ELSE None]
        /\ answer.kind \in Dc!ContentKinds
    BY <1>1 DEF Dc!ClassifyPage
  <2> QED
    BY <2>1
<1>2. \A page \in DOMAIN entries : entries[page].kind \in Kinds
  <2>1. CASE \E page \in todo : found[page] = None
    <3>1. entries = existing
      BY <2>1 DEF Dc!RunClassify
    <3> QED
      BY <3>1
  <2>2. CASE ~\E page \in todo : found[page] = None
    <3>1. entries = [page \in DOMAIN existing \cup todo |-> IF page \in todo THEN found[page] ELSE existing[page]]
      BY <2>2 DEF Dc!RunClassify
    <3> HIDE DEF entries
    <3>2. \A page \in todo : found[page].kind \in Kinds
      BY <2>2, <1>1
    <3>3. \A page \in DOMAIN existing : existing[page].kind \in Kinds
      OBVIOUS
    <3> HIDE DEF found, todo, Kinds
    <3> QED
      BY <3>1, <3>2, <3>3
  <2> QED
    BY <2>1, <2>2
<1>3. ASSUME NEW entry, entry.kind \in Kinds
      PROVE  Dc!ReadRoute(entry) # "none" <=> Dc!CategoryOf(entry) \in Dc!TextKinds
  <2>1. DOMAIN Dc!LegacyKinds = {"text", "photo"} /\ Dc!LegacyKinds["text"] = "handwriting" /\ Dc!LegacyKinds["photo"] = "photograph"
    BY DEF Dc!LegacyKinds
  <2>2. Dc!CategoryOf(entry) \in Dc!ContentKinds
    BY <2>1, <1>3 DEF Dc!CategoryOf, Dc!ContentKinds
  <2> QED
    BY <2>2 DEF Dc!ReadRoute, Dc!TextKinds, Dc!ContentKinds
<1>4. /\ DOMAIN Dc!StageOf = {"classified", "oriented", "marks", "words", "rows_draft", "rows_adjusted", "transcripts_proposed"}
      /\ Dc!StageOf["classified"] = "classify" /\ Dc!StageOf["oriented"] = "orient" /\ Dc!StageOf["marks"] = "marks"
      /\ Dc!StageOf["words"] = "words" /\ Dc!StageOf["rows_draft"] = "rows" /\ Dc!StageOf["rows_adjusted"] = "rows_adjusted"
      /\ Dc!StageOf["transcripts_proposed"] = "transcripts_proposed"
  BY DEF Dc!StageOf
<1>5. /\ Dc!StageNumber["classify"] = -1 /\ Dc!StageNumber["orient"] = 0 /\ Dc!StageNumber["marks"] = 1
      /\ Dc!StageNumber["words"] = 2 /\ Dc!StageNumber["rows"] = 3 /\ Dc!StageNumber["rows_adjusted"] = 4
      /\ Dc!StageNumber["transcripts_proposed"] = 5
  BY DEF Dc!StageNumber
<1>6. Dc!StatusOf("rows_adjusted") = "rows_adjusted"
  <2>1. "rows_adjusted" \in Dc!Range(Dc!StageOf)
    BY <1>4 DEF Dc!Range
  <2>2. \A s \in DOMAIN Dc!StageOf : Dc!StageOf[s] = "rows_adjusted" <=> s = "rows_adjusted"
    BY <1>4
  <2> QED
    BY <1>4, <2>1, <2>2 DEF Dc!StatusOf
<1>7. ASSUME NEW status \in DOMAIN Dc!StageOf \cup {"new", "rows_pending"}
      PROVE  /\ Dc!Passed(status) <=> (status \in DOMAIN Dc!StageOf /\ Dc!StageNumber[Dc!StageOf[status]] >= Dc!StageNumber["rows_adjusted"])
             /\ Dc!Awaits(status) # None => Dc!Awaits(status) \in Dc!HumanStages /\ ~Dc!Passed(status) /\ Dc!Passed(Dc!StatusOf(Dc!Awaits(status)))
  BY <1>4, <1>5, <1>6, <1>7 DEF Dc!Passed, Dc!Awaits, Dc!HumanStages
<1> QED
  BY <1>2, <1>3, <1>7 DEF Dc!PagesHaveAWay


\* An id made for a person is nobody's, whoever has ids of the same name (mention.py).
THEOREM NewIdIsFree ==
  ASSUME NEW used, IsFiniteSet(used), NEW slug
  PROVE  Dc!UniqueId(slug, used) \notin used
<1> DEFINE top == Cardinality(used) + 2
           free == {n \in 2..top : <<slug, n>> \notin used}
<1>0. Cardinality(used) \in Nat
  BY FS_CardinalityType
<1>1. free # {}
  <2> SUFFICES ASSUME free = {} PROVE FALSE
    OBVIOUS
  <2> DEFINE number == [n \in 2..top |-> <<slug, n>>]
  <2>1. number \in [2..top -> used]
    OBVIOUS
  <2>2. IsFiniteSet(2..top) /\ Cardinality(2..top) = top - 1
    BY <1>0, FS_Interval
  <2>3. PICK m, n \in 2..top : m # n /\ number[m] = number[n]
    <3> HIDE DEF number
    <3> QED
      BY <1>0, <2>1, <2>2, FS_PigeonHole
  <2> QED
    BY <2>3
<1>2. PICK n \in free : \A m \in free : n <= m
  <2>1. free \in SUBSET Nat
    BY <1>0
  <2> QED
    BY <1>1, <2>1, SmallestMember
<1>3. n \in 2..top /\ <<slug, n>> \notin used /\ \A m \in 2..(n - 1) : <<slug, m>> \in used
  BY <1>2, <1>0
<1>4. (CHOOSE k \in 2..top : <<slug, k>> \notin used /\ \A m \in 2..(k - 1) : <<slug, m>> \in used) = n
  <2>1. ASSUME NEW k \in 2..top, <<slug, k>> \notin used, \A m \in 2..(k - 1) : <<slug, m>> \in used PROVE k = n
    BY <1>0, <1>3, <2>1
  <2> QED
    BY <1>3, <2>1
<1>5. Dc!Cardinality(used) = Cardinality(used)
  BY DEF Dc!Cardinality, Cardinality
<1> QED
  BY <1>3, <1>4, <1>5 DEF Dc!UniqueId

-----------------------------------------------------------------------------
(* Numbers drawn beside words. *)

\* Every place tried for a chip is a box.
LEMMA CandidateType ==
  ASSUME NEW b \in [x0 : Int, y0 : Int, x1 : Int, y1 : Int], NEW s \in Nat, NEW c \in 1..16, ChipGap \in Nat
  PROVE  Ch!Candidates(b, s)[c] \in [x0 : Int, y0 : Int, x1 : Int, y1 : Int]
<1> DEFINE west == b.x0 - ChipGap - s
           east == b.x1 + ChipGap
           north == b.y0 - ChipGap - s
           south == b.y1 + ChipGap
           middle(n) == b.x0 + (n * Ch!Width(b)) \div 6 - s \div 2
           level(n) == b.y0 + (n * Ch!Height(b)) \div 6 - s \div 2
           corners == <<<<west, north>>, <<middle(3), north>>, <<middle(3), south>>, <<west, level(3)>>, <<east, level(3)>>,
                        <<east, north>>, <<west, south>>, <<east, south>>, <<middle(2), north>>, <<middle(4), north>>,
                        <<middle(2), south>>, <<middle(4), south>>, <<west, level(2)>>, <<west, level(4)>>,
                        <<east, level(2)>>, <<east, level(4)>>>>
<1>1. Ch!Candidates(b, s) = [i \in DOMAIN corners |-> Ch!ChipAt(corners[i][1], corners[i][2], s)]
  BY DEF Ch!Candidates
<1>2. west \in Int /\ east \in Int /\ north \in Int /\ south \in Int
  OBVIOUS
<1>3. middle(2) \in Int /\ middle(3) \in Int /\ middle(4) \in Int
  BY DEF Ch!Width
<1>4. level(2) \in Int /\ level(3) \in Int /\ level(4) \in Int
  BY DEF Ch!Height
<1> HIDE DEF west, east, north, south, middle, level
<1>5. DOMAIN corners = 1..16
  OBVIOUS
<1>6. corners[c][1] \in Int /\ corners[c][2] \in Int
  BY <1>2, <1>3, <1>4
<1> HIDE DEF corners
<1> QED
  BY <1>1, <1>5, <1>6 DEF Ch!ChipAt, Ch!Box

\* A chip that intersects no box, as the search has it, has its margin clear of it.
LEMMA MarginClear ==
  ASSUME NEW chip \in [x0 : Int, y0 : Int, x1 : Int, y1 : Int], NEW box \in [x0 : Int, y0 : Int, x1 : Int, y1 : Int],
         EdgePad \in Nat, ~Ch!Intersects(chip, box)
  PROVE  ~Ch!Overlaps(Ch!Box(chip.x0 - EdgePad, chip.y0 - EdgePad, chip.x1 + EdgePad, chip.y1 + EdgePad), box)
BY DEF Ch!Intersects, Ch!Overlaps, Ch!Box

\* The places tried are numbered.
LEMMA LeastPlace ==
  ASSUME NEW S \in SUBSET (1..16), S # {}
  PROVE  Ch!Min(S) \in S
BY LeastIsMember

\* A chip reported as placed stands clear, with the margin asked for, of every other word and
\* of the chips placed before it: PlaceChip over any words and sizes (word_numbering.py).
THEOREM ChipStandsClear ==
  ASSUME ChipSizes \in Seq(Nat), ChipGap \in Nat, EdgePad \in Nat,
         NEW words \in SUBSET Nat,
         NEW boxes \in [words -> [x0 : Int, y0 : Int, x1 : Int, y1 : Int]],
         NEW word \in words, NEW placed,
         \A p \in placed : p.rect \in [x0 : Int, y0 : Int, x1 : Int, y1 : Int],
         Ch!PlaceChip(boxes, word, placed).placed
  PROVE  LET chip == Ch!PlaceChip(boxes, word, placed).rect
             margin == Ch!Box(chip.x0 - EdgePad, chip.y0 - EdgePad, chip.x1 + EdgePad, chip.y1 + EdgePad)
         IN  /\ \A j \in words \ {word} : ~Ch!Overlaps(margin, boxes[j])
             /\ \A p \in placed : ~Ch!Overlaps(margin, p.rect)
<1> DEFINE Boxes == [x0 : Int, y0 : Int, x1 : Int, y1 : Int]
           chipAt(k, c) == Ch!Candidates(boxes[word], ChipSizes[k])[c]
           free(k, c) == ~\E j \in words \ {word} : Ch!Intersects(chipAt(k, c), boxes[j])
           clear(k, c) == free(k, c) /\ ~\E p \in placed : Ch!Intersects(chipAt(k, c), p.rect)
           sizes == {k \in DOMAIN ChipSizes : \E c \in 1..16 : clear(k, c)}
           places(k) == {c \in 1..16 : clear(k, c)}
           size == Ch!Min(sizes)
           place == Ch!Min(places(size))
<1>1. sizes # {} /\ Ch!PlaceChip(boxes, word, placed).rect = chipAt(size, place)
  <2>1. DOMAIN boxes = words
    OBVIOUS
  <2> QED
    BY <2>1, Zenon DEF Ch!PlaceChip
<1>2. size \in sizes
  <2>1. sizes \in SUBSET Nat
    OBVIOUS
  <2> QED
    BY <1>1, <2>1, LeastIsMember
<1>3. place \in places(size)
  <2> HIDE DEF clear, size
  <2>1. \E c \in 1..16 : clear(size, c)
    BY <1>2
  <2>2. places(size) \in SUBSET (1..16) /\ places(size) # {}
    BY <2>1, Zenon
  <2> QED
    BY <2>2, LeastPlace
<1>4. clear(size, place) /\ size \in DOMAIN ChipSizes /\ place \in 1..16
  <2> HIDE DEF clear, size, place
  <2> QED
    BY <1>2, <1>3
<1>5. chipAt(size, place) \in Boxes
  <2> DEFINE k == size
             c == place
  <2>1. boxes[word] \in Boxes /\ ChipSizes[k] \in Nat /\ c \in 1..16
    <3> HIDE DEF size, place, clear
    <3>1. \A i \in DOMAIN ChipSizes : ChipSizes[i] \in Nat
      OBVIOUS
    <3> QED
      BY <1>4, <3>1
  <2> HIDE DEF k, c
  <2> QED
    BY <2>1, CandidateType DEF k, c
<1>6. ASSUME NEW chip \in Boxes, NEW box \in Boxes, ~Ch!Intersects(chip, box)
      PROVE  ~Ch!Overlaps(Ch!Box(chip.x0 - EdgePad, chip.y0 - EdgePad, chip.x1 + EdgePad, chip.y1 + EdgePad), box)
  BY <1>6, MarginClear
<1> HIDE DEF chipAt, size, place
<1>8. \A j \in words \ {word} : ~Ch!Intersects(chipAt(size, place), boxes[j]) /\ boxes[j] \in Boxes
  BY <1>4
<1>9. \A p \in placed : ~Ch!Intersects(chipAt(size, place), p.rect) /\ p.rect \in Boxes
  BY <1>4
<1> QED
  BY <1>1, <1>5, <1>6, <1>8, <1>9

-----------------------------------------------------------------------------
(* Items and tables. *)

\* What is no function, as Invalid, is no record nor a table's rows.
NoRecord(v) == \A r : r = [x \in DOMAIN r |-> r[x]] => r # v


\* No text of an accepted item is lost when it is saved in files, its sidecar and its
\* tombstone are accepted, and the files named are those of its texts: ItemKeepsItsTexts for
\* any item and assets (records.py, archive.py).
THEOREM ItemsKeepTheirTexts ==
  ASSUME NoRecord(Invalid),
         NEW raw, raw = [f \in DOMAIN raw |-> raw[f]], {"id", "type", "status", "date"} \subseteq DOMAIN raw,
         NEW assets, NEW version
  PROVE  Tb!ItemKeepsItsTexts(raw, assets, version)
<1> DEFINE split == Tb!SplitContent(raw)
           fields == CASE raw.type = "story" -> {"story", "transcription"}
                       [] raw.type \in {"letter", "document"} -> {"transcription"}
                       [] OTHER -> {}
           saved == Tb!SavedAssets(assets, split.content, version)
           kept == DOMAIN raw \ (fields \cup {"transcription"})
           texts == {f \in fields \cap DOMAIN raw : raw[f] # ""}
<1> SUFFICES ASSUME Tb!Item(raw) # Invalid, raw.status # "deleted"
             PROVE  /\ Tb!Item(split.sidecar) # Invalid /\ Tb!Item(Tb!Tombstone(raw)) # Invalid
                    /\ raw.type \in {"story", "letter", "document"} =>
                          Tb!Texts(raw, Tb!ContentKinds) = Tb!Texts(Tb!Joined(split.sidecar, split.content), Tb!ContentKinds)
                    /\ {a \in saved : a.kind \in Tb!ContentKinds} = {[kind |-> k, file |-> <<k, version>>] : k \in DOMAIN split.content}
                    /\ {a \in assets : a.kind \notin Tb!ContentKinds} \subseteq saved
  BY DEF Tb!ItemKeepsItsTexts
<1>1. fields \subseteq {"story", "transcription"}
  OBVIOUS
<1>2. /\ split.sidecar = [f \in kept |-> raw[f]]
      /\ split.content = [f \in texts |-> raw[f]]
  BY DEF Tb!SplitContent, Tb!Without, Tb!Texts, Tb!Restrict
<1> HIDE DEF split, fields
<1>3. {"id", "type", "status", "date"} \subseteq kept
  BY <1>1
<1>4. /\ raw.id \in RecordIds /\ raw.type \in Tb!ItemTypes /\ raw.status \in Tb!ItemStatuses
      /\ Tb!Require(raw, "title") /\ Tb!ViableDate(raw.date) /\ Tb!StoryFlags(raw)
  BY DEF Tb!Item
<1>5. Tb!Item(split.sidecar) # Invalid
  <2>1. \A f \in DOMAIN raw \ {"story", "transcription"} : f \in DOMAIN split.sidecar /\ split.sidecar[f] = raw[f]
    BY <1>1, <1>2
  <2>2. DOMAIN split.sidecar \subseteq DOMAIN raw
    BY <1>2
  <2>3. \A f, d : f \notin {"story", "transcription"} => Tb!Get(split.sidecar, f, d) = Tb!Get(raw, f, d)
    BY <2>1, <2>2 DEF Tb!Get
  <2>4. Tb!StoryFlags(split.sidecar)
    <3>1. \A kinds \in {{"people", "items"}, {"people", "places"}, {"people", "places", "items"}} :
             Tb!Names(split.sidecar, kinds) <=> Tb!Names(raw, kinds)
      BY <2>3 DEF Tb!Names
    <3>2. \A flag \in {"clarification", "reflection", "evidence"} : Tb!Said(split.sidecar, flag) <=> Tb!Said(raw, flag)
      BY <2>1, <2>2 DEF Tb!Said
    <3>3. split.sidecar.type = raw.type
      BY <1>2, <1>3
    <3>4. Tb!Get(split.sidecar, "clarification", FALSE) = Tb!Get(raw, "clarification", FALSE)
      BY <2>3
    <3> QED
      BY <1>4, <3>1, <3>2, <3>3, <3>4 DEF Tb!StoryFlags
  <2>5. Tb!Require(split.sidecar, "title")
    BY <1>4, <2>3 DEF Tb!Require
  <2>6. split.sidecar.id = raw.id /\ split.sidecar.type = raw.type /\ split.sidecar.status = raw.status /\ split.sidecar.date = raw.date
    BY <1>2, <1>3
  <2>7. split.sidecar # Invalid
    <3>1. split.sidecar = [f \in DOMAIN split.sidecar |-> split.sidecar[f]]
      BY <1>2
    <3> QED
      BY <3>1 DEF NoRecord
  <2> QED
    BY <1>4, <2>4, <2>5, <2>6, <2>7 DEF Tb!Item
<1>6. Tb!Item(Tb!Tombstone(raw)) # Invalid
  <2>1. Tb!Tombstone(raw) # Invalid
    BY DEF NoRecord, Tb!Tombstone
  <2> QED
    BY <1>4, <2>1 DEF Tb!Item, Tb!Tombstone, Tb!ItemStatuses
<1>7. ASSUME raw.type \in {"story", "letter", "document"}
      PROVE  Tb!Texts(raw, Tb!ContentKinds) = Tb!Texts(Tb!Joined(split.sidecar, split.content), Tb!ContentKinds)
  <2> DEFINE whole == Tb!Joined(split.sidecar, split.content)
  <2>1. "transcription" \in fields
    BY <1>7 DEF fields
  <2>2. whole = [f \in kept \cup texts |-> IF f \in texts THEN raw[f] ELSE raw[f]]
    BY <1>2 DEF Tb!Joined
  <2>4. whole = [f \in kept \cup texts |-> raw[f]]
    BY <1>2, <2>2
  <2>3. {f \in Tb!ContentKinds \cap DOMAIN whole : whole[f] # ""} = {f \in Tb!ContentKinds \cap DOMAIN raw : raw[f] # ""}
    <3>1. \A f \in Tb!ContentKinds : f \in fields \/ f \notin fields \cup {"transcription"}
      BY <2>1 DEF Tb!ContentKinds
    <3> QED
      BY <2>4, <3>1
  <2>5. \A f \in Tb!ContentKinds : f \in DOMAIN whole => whole[f] = raw[f]
    BY <2>4
  <2>6. Tb!Texts(whole, Tb!ContentKinds) = Tb!Texts(raw, Tb!ContentKinds)
    <3> HIDE DEF whole
    <3> QED
      BY <2>3, <2>5 DEF Tb!Texts, Tb!Restrict
  <2> QED
    BY <2>6
<1>8. /\ {a \in saved : a.kind \in Tb!ContentKinds} = {[kind |-> k, file |-> <<k, version>>] : k \in DOMAIN split.content}
      /\ {a \in assets : a.kind \notin Tb!ContentKinds} \subseteq saved
  <2>1. DOMAIN split.content \subseteq Tb!ContentKinds
    BY <1>1, <1>2 DEF Tb!ContentKinds
  <2> QED
    BY <2>1 DEF Tb!SavedAssets
<1> QED
  BY <1>5, <1>6, <1>7, <1>8


\* What the readers of people and of places accept.
ReadDate(dob) == dob # Invalid /\ (dob # None => Tb!DatedFact(dob) = dob)
ReadBasis(basis) == basis # Invalid /\ (basis # None => Tb!Require(basis, "text"))
IsPerson(p) ==
  /\ p = [id |-> p.id, name |-> p.name, status |-> p.status, dob |-> p.dob, basis |-> p.basis]
  /\ p.id \in RecordIds /\ p.name # "" /\ p.status \in Tb!RecordStatuses
  /\ ReadDate(p.dob) /\ ReadBasis(p.basis)

\* A date that was read is read again as it is.
LEMMA DateReadBack ==
  ASSUME NoRecord(Invalid), "" \notin ViableDates, NEW raw, Tb!DatedFact(raw) # Invalid
  PROVE  Tb!DatedFact(Tb!DatedFact(raw)) = Tb!DatedFact(raw)
<1> DEFINE date == Tb!Get(raw, "date", "")
           date2 == Tb!Get(raw, "date2", "")
           precision == Tb!Get(raw, "precision", "exact")
<1> USE DEF Tb!Get, Tb!ViableDate
<1>1. date \in ViableDates /\ precision \in Tb!Precisions /\ date = raw.date
  BY DEF Tb!DatedFact
<1>2. CASE precision # "between"
  <2>1. Tb!DatedFact(raw) = [date |-> raw.date, precision |-> precision]
    BY <1>1, <1>2 DEF Tb!DatedFact
  <2> QED
    BY <1>1, <1>2, <2>1 DEF Tb!DatedFact
<1>3. CASE precision = "between"
  <2>1. date2 \in ViableDates /\ date2 = raw.date2
    BY <1>1, <1>3 DEF Tb!DatedFact
  <2>2. Tb!DatedFact(raw) = [date |-> raw.date, precision |-> precision, date2 |-> raw.date2]
    BY <1>1, <1>3, <2>1 DEF Tb!DatedFact
  <2> QED
    BY <1>1, <1>3, <2>1, <2>2 DEF Tb!DatedFact
<1> QED
  BY <1>2, <1>3

\* What Person reads is such a person.
LEMMA PersonRead ==
  ASSUME NoRecord(Invalid), "" \notin ViableDates, NEW raw, Tb!Person(raw) # Invalid
  PROVE  IsPerson(Tb!Person(raw))
<1> DEFINE person == [id |-> Tb!Get(raw, "id", ""), name |-> Tb!Get(raw, "name", ""), status |-> Tb!Status(raw),
                      dob |-> Tb!Dated(raw, "dob"), basis |-> Tb!Basis(raw)]
<1>1. /\ Tb!Person(raw) = person
      /\ person.id \in RecordIds /\ person.name # "" /\ person.status \in Tb!RecordStatuses
      /\ person.dob # Invalid /\ person.basis # Invalid
  BY DEF Tb!Person
<1>2. ReadDate(person.dob)
  BY <1>1, DateReadBack DEF ReadDate, Tb!Dated
<1>3. ReadBasis(person.basis)
  BY <1>1 DEF ReadBasis, Tb!Basis
<1> QED
  BY <1>1, <1>2, <1>3 DEF IsPerson

\* Written, such a person is read as before.
LEMMA PersonReadBack ==
  ASSUME NoRecord(Invalid), NEW p, IsPerson(p)
  PROVE  Tb!Person(Tb!PersonToDict(p)) = p
<1> DEFINE dict == Tb!PersonToDict(p)
           wanted == [id |-> TRUE, name |-> TRUE, status |-> p.status # "confirmed",
                      dob |-> p.dob # None, basis |-> p.basis # None]
<1>1. /\ DOMAIN p = {"id", "name", "status", "dob", "basis"}
      /\ wanted["id"] /\ wanted["name"] /\ wanted["status"] = (p.status # "confirmed")
      /\ wanted["dob"] = (p.dob # None) /\ wanted["basis"] = (p.basis # None)
  BY DEF IsPerson
<1>2. dict = [f \in {g \in DOMAIN p : wanted[g]} |-> p[f]]
  BY DEF Tb!PersonToDict, Tb!Only, Tb!Restrict
<1> HIDE DEF dict, wanted
<1>3. /\ "id" \in DOMAIN dict /\ "name" \in DOMAIN dict
      /\ "status" \in DOMAIN dict <=> p.status # "confirmed"
      /\ "dob" \in DOMAIN dict <=> p.dob # None
      /\ "basis" \in DOMAIN dict <=> p.basis # None
      /\ \A f \in DOMAIN dict : dict[f] = p[f]
  BY <1>1, <1>2
<1>4. Tb!Get(dict, "id", "") = p.id /\ Tb!Get(dict, "name", "") = p.name
  BY <1>3 DEF Tb!Get
<1>5. Tb!Status(dict) = p.status
  BY <1>3 DEF Tb!Get, Tb!Status
<1>6. Tb!Dated(dict, "dob") = p.dob
  BY <1>3 DEF Tb!Dated, IsPerson, ReadDate
<1>7. Tb!Basis(dict) = p.basis
  BY <1>3 DEF Tb!Basis, Tb!Get, IsPerson, ReadBasis
<1> QED
  BY <1>4, <1>5, <1>6, <1>7 DEF Tb!Person, IsPerson, ReadDate, ReadBasis, dict

\* A table that the reader of people accepts: the ids are different, every end of an edge is somebody.
IsTable(table) ==
  /\ table = [people |-> table.people, relationships |-> table.relationships]
  /\ table.people = [i \in DOMAIN table.people |-> table.people[i]]
  /\ table.relationships = [i \in DOMAIN table.relationships |-> table.relationships[i]]
  /\ \A i \in DOMAIN table.people : IsPerson(table.people[i])
  /\ \A i, j \in DOMAIN table.people : i # j => table.people[i].id # table.people[j].id
  /\ \A i \in DOMAIN table.relationships :
        /\ table.relationships[i] # Invalid /\ Tb!Relationship(table.relationships[i]) = table.relationships[i]
        /\ {table.relationships[i].a, table.relationships[i].b} \subseteq {table.people[j].id : j \in DOMAIN table.people}

\* A table of such people and edges between them
LEMMA TableIs ==
  ASSUME NEW people, NEW edges,
         people = [i \in DOMAIN people |-> people[i]], edges = [i \in DOMAIN edges |-> edges[i]],
         \A i \in DOMAIN people : IsPerson(people[i]),
         \A i, j \in DOMAIN people : i # j => people[i].id # people[j].id,
         \A i \in DOMAIN edges : edges[i] # Invalid /\ Tb!Relationship(edges[i]) = edges[i],
         \A i \in DOMAIN edges : {edges[i].a, edges[i].b} \subseteq {people[j].id : j \in DOMAIN people}
  PROVE  IsTable([people |-> people, relationships |-> edges])
<1> DEFINE table == [people |-> people, relationships |-> edges]
<1>1. table.people = people /\ table.relationships = edges
  OBVIOUS
<1>2. table = [people |-> table.people, relationships |-> table.relationships]
  BY <1>1
<1> HIDE DEF table
<1>3. table.people = [i \in DOMAIN table.people |-> table.people[i]]
  BY <1>1
<1>4. table.relationships = [i \in DOMAIN table.relationships |-> table.relationships[i]]
  BY <1>1
<1>5. \A i \in DOMAIN table.people : IsPerson(table.people[i])
  BY <1>1
<1>6. \A i, j \in DOMAIN table.people : i # j => table.people[i].id # table.people[j].id
  BY <1>1
<1>7. \A i \in DOMAIN table.relationships :
        /\ table.relationships[i] # Invalid /\ Tb!Relationship(table.relationships[i]) = table.relationships[i]
        /\ {table.relationships[i].a, table.relationships[i].b} \subseteq {table.people[j].id : j \in DOMAIN table.people}
  BY <1>1
<1> QED
  BY <1>2, <1>3, <1>4, <1>5, <1>6, <1>7, Zenon DEF IsTable, table

\* What PeopleTable reads is such a table.
LEMMA TableRead ==
  ASSUME NoRecord(Invalid), "" \notin ViableDates, NEW raw, Tb!PeopleTable(raw) # Invalid
  PROVE  IsTable(Tb!PeopleTable(raw))
<1> DEFINE people == [i \in DOMAIN raw.people |-> Tb!Person(raw.people[i])]
           edges == [i \in DOMAIN raw.relationships |-> Tb!Relationship(raw.relationships[i])]
<1>1. Tb!Read(raw.people, Tb!Person) # Invalid
  BY DEF Tb!PeopleTable
<1>2. /\ Tb!Read(raw.people, Tb!Person) = people
      /\ \A i \in DOMAIN people : people[i] # Invalid
      /\ \A i, j \in DOMAIN people : i # j => people[i].id # people[j].id
  BY <1>1 DEF Tb!Read, Tb!UniqueIds
<1>3. /\ Tb!PeopleTable(raw) = [people |-> people, relationships |-> edges]
      /\ \A i \in DOMAIN edges : edges[i] # Invalid
      /\ \A i \in DOMAIN edges : {edges[i].a, edges[i].b} \subseteq {people[j].id : j \in DOMAIN people}
  <2>1. DOMAIN edges = DOMAIN raw.relationships
    OBVIOUS
  <2> DEFINE read == Tb!Read(raw.people, Tb!Person)
  <2>2. Tb!PeopleTable(raw) =
          IF read = Invalid \/ (\E i \in DOMAIN edges : edges[i] = Invalid) THEN Invalid
          ELSE IF \A i \in DOMAIN edges : {edges[i].a, edges[i].b} \subseteq {read[j].id : j \in DOMAIN read}
          THEN [people |-> read, relationships |-> edges] ELSE Invalid
    BY Zenon DEF Tb!PeopleTable
  <2> HIDE DEF people, edges
  <2>3. read = people
    BY <1>2
  <2> HIDE DEF read
  <2> QED
    BY <2>2, <2>3
<1>4. \A i \in DOMAIN people : IsPerson(people[i])
  BY <1>2, PersonRead
<1>5. \A i \in DOMAIN edges : Tb!Relationship(edges[i]) = edges[i]
  BY <1>3 DEF Tb!Relationship
<1> HIDE DEF people, edges
<1>6. people = [i \in DOMAIN people |-> people[i]] /\ edges = [i \in DOMAIN edges |-> edges[i]]
  BY DEF people, edges
<1>7. IsTable([people |-> people, relationships |-> edges])
  <2>1. \A i, j \in DOMAIN people : i # j => people[i].id # people[j].id
    BY <1>2
  <2>2. \A i \in DOMAIN edges : edges[i] # Invalid /\ Tb!Relationship(edges[i]) = edges[i]
    BY <1>3, <1>5
  <2>3. \A i \in DOMAIN edges : {edges[i].a, edges[i].b} \subseteq {people[j].id : j \in DOMAIN people}
    BY <1>3
  <2> QED
    BY <1>4, <1>6, <2>1, <2>2, <2>3, TableIs
<1> QED
  BY <1>3, <1>7

\* Written, it is read as before.
LEMMA TableReadBack ==
  ASSUME NoRecord(Invalid), NEW table, IsTable(table)
  PROVE  Tb!ReadsBack(table)
<1> DEFINE dict == Tb!PeopleToDict(table)
<1>1. dict.people = [i \in DOMAIN table.people |-> Tb!PersonToDict(table.people[i])]
      /\ dict.relationships = table.relationships
  BY DEF Tb!PeopleToDict, IsTable
<1> HIDE DEF dict
<1>2. [i \in DOMAIN dict.people |-> Tb!Person(dict.people[i])] = table.people
  <2>1. \A i \in DOMAIN table.people : Tb!Person(dict.people[i]) = table.people[i]
    BY <1>1, PersonReadBack DEF IsTable
  <2> QED
    BY <1>1, <2>1 DEF IsTable
<1>3. \A i \in DOMAIN table.people : table.people[i] # Invalid
  <2>1. \A i \in DOMAIN table.people : \E p : /\ table.people[i] = p
                                              /\ p = [id |-> p.id, name |-> p.name, status |-> p.status, dob |-> p.dob, basis |-> p.basis]
    BY DEF IsTable, IsPerson
  <2>2. \A a, b, c, d, e : [id |-> a, name |-> b, status |-> c, dob |-> d, basis |-> e] # Invalid
    BY DEF NoRecord
  <2> QED
    BY <2>1, <2>2
<1>4. Tb!Read(dict.people, Tb!Person) = table.people
  BY <1>2, <1>3 DEF Tb!Read, Tb!UniqueIds, IsTable
<1>5. [i \in DOMAIN dict.relationships |-> Tb!Relationship(dict.relationships[i])] = table.relationships
  BY <1>1 DEF IsTable
<1>6. table.people # Invalid
  BY DEF IsTable, NoRecord
<1> QED
  BY <1>4, <1>5, <1>6 DEF Tb!ReadsBack, Tb!PeopleTable, IsTable, dict

\* A decision about a person, and a proposal, leave such a person of the same id.
LEMMA DecidedPerson ==
  ASSUME NoRecord(Invalid), NEW p, IsPerson(p), NEW decision, NEW basis,
         decision = "estimated" => basis # None /\ Tb!Basis([basis |-> basis]) # Invalid
  PROVE  IsPerson(Tb!Decided(p, decision, basis)) /\ Tb!Decided(p, decision, basis).id = p.id
<1>1. CASE decision = "estimated"
  <2>1. Tb!Decided(p, decision, basis) = [id |-> p.id, name |-> p.name, status |-> "estimated", dob |-> p.dob, basis |-> basis]
    BY <1>1 DEF Tb!Decided, IsPerson
  <2>2. ReadBasis(basis)
    BY <1>1 DEF Tb!Basis, Tb!Get, ReadBasis
  <2> DEFINE q == [id |-> p.id, name |-> p.name, status |-> "estimated", dob |-> p.dob, basis |-> basis]
  <2>3. q.id = p.id /\ q.name = p.name /\ q.status = "estimated" /\ q.dob = p.dob /\ q.basis = basis
        /\ q = [id |-> q.id, name |-> q.name, status |-> q.status, dob |-> q.dob, basis |-> q.basis]
    OBVIOUS
  <2> HIDE DEF q
  <2>4. IsPerson(q)
    BY <2>2, <2>3 DEF IsPerson, Tb!RecordStatuses
  <2> QED
    BY <2>1, <2>3, <2>4 DEF q
<1>2. CASE decision # "estimated"
  <2>1. Tb!Decided(p, decision, basis) = [id |-> p.id, name |-> p.name, status |-> "confirmed", dob |-> p.dob, basis |-> p.basis]
    BY <1>2 DEF Tb!Decided, Tb!AsConfirmed, IsPerson
  <2> DEFINE q == [id |-> p.id, name |-> p.name, status |-> "confirmed", dob |-> p.dob, basis |-> p.basis]
  <2>3. q.id = p.id /\ q.name = p.name /\ q.status = "confirmed" /\ q.dob = p.dob /\ q.basis = p.basis
        /\ q = [id |-> q.id, name |-> q.name, status |-> q.status, dob |-> q.dob, basis |-> q.basis]
    OBVIOUS
  <2> HIDE DEF q
  <2>4. IsPerson(q)
    BY <2>3 DEF IsPerson, Tb!RecordStatuses
  <2> QED
    BY <2>1, <2>3, <2>4 DEF q
<1> QED
  BY <1>1, <1>2

LEMMA ProposedPerson ==
  ASSUME NEW p, IsPerson(p)
  PROVE  IsPerson(Tb!AsProposed(p)) /\ Tb!AsProposed(p).id = p.id
<1> DEFINE q == [id |-> p.id, name |-> p.name, status |-> "proposed", dob |-> p.dob, basis |-> p.basis]
<1>1. Tb!AsProposed(p) = q
  <2>1. p = [id |-> p.id, name |-> p.name, status |-> p.status, dob |-> p.dob, basis |-> p.basis]
    BY DEF IsPerson
  <2>2. \A a, b, c, d, e : [[id |-> a, name |-> b, status |-> c, dob |-> d, basis |-> e] EXCEPT !.status = "proposed"]
                            = [id |-> a, name |-> b, status |-> "proposed", dob |-> d, basis |-> e]
    OBVIOUS
  <2>3. [p EXCEPT !.status = "proposed"] = q
    BY <2>1, <2>2
  <2> QED
    BY <2>3 DEF Tb!AsProposed
<1>2. q.id = p.id /\ q.name = p.name /\ q.status = "proposed" /\ q.dob = p.dob /\ q.basis = p.basis
      /\ q = [id |-> q.id, name |-> q.name, status |-> q.status, dob |-> q.dob, basis |-> q.basis]
  OBVIOUS
<1> HIDE DEF q
<1>3. IsPerson(q)
  BY <1>2 DEF IsPerson, Tb!RecordStatuses
<1> QED
  BY <1>1, <1>2, <1>3

\* A table whose records are such people of the same ids is such a table.
LEMMA TableWith ==
  ASSUME NEW table, IsTable(table), NEW people,
         people = [i \in DOMAIN table.people |-> people[i]],
         \A i \in DOMAIN table.people : IsPerson(people[i]) /\ people[i].id = table.people[i].id
  PROVE  IsTable([table EXCEPT !.people = people])
<1> DEFINE edges == table.relationships
<1>1. [table EXCEPT !.people = people] = [people |-> people, relationships |-> edges]
  <2>1. table = [people |-> table.people, relationships |-> edges]
    BY DEF IsTable
  <2>2. \A a, b : [[people |-> a, relationships |-> b] EXCEPT !.people = people] = [people |-> people, relationships |-> b]
    OBVIOUS
  <2> QED
    BY <2>1, <2>2
<1>2. DOMAIN people = DOMAIN table.people
  OBVIOUS
<1>3. {people[j].id : j \in DOMAIN people} = {table.people[j].id : j \in DOMAIN table.people}
  BY <1>2
<1>4. people = [i \in DOMAIN people |-> people[i]] /\ \A i \in DOMAIN people : IsPerson(people[i])
  BY <1>2
<1>5. \A i, j \in DOMAIN people : i # j => people[i].id # people[j].id
  BY <1>2 DEF IsTable
<1>6. edges = [i \in DOMAIN edges |-> edges[i]]
      /\ \A i \in DOMAIN edges : edges[i] # Invalid /\ Tb!Relationship(edges[i]) = edges[i]
  BY DEF IsTable
<1>7. \A i \in DOMAIN edges : {edges[i].a, edges[i].b} \subseteq {people[j].id : j \in DOMAIN people}
  <2>1. \A i \in DOMAIN edges : {edges[i].a, edges[i].b} \subseteq {table.people[j].id : j \in DOMAIN table.people}
    BY Zenon DEF IsTable
  <2> HIDE DEF edges
  <2> QED
    BY <1>3, <2>1
<1> HIDE DEF edges
<1>8. IsTable([people |-> people, relationships |-> edges])
  BY <1>4, <1>5, <1>6, <1>7, TableIs
<1> QED
  BY <1>1, <1>8

\* So is the table with one of its people proposed again
LEMMA ProposedTable ==
  ASSUME NEW table, IsTable(table), NEW i \in DOMAIN table.people
  PROVE  IsTable([table EXCEPT !.people = Tb!WithRecord(@, Tb!AsProposed(table.people[i]))])
<1> DEFINE p == table.people[i]
           proposed == Tb!AsProposed(p)
           all == Tb!WithRecord(table.people, proposed)
<1>1. IsPerson(proposed) /\ proposed.id = p.id
  BY ProposedPerson DEF IsTable
<1>2. all = [j \in DOMAIN table.people |-> IF table.people[j].id = proposed.id THEN proposed ELSE table.people[j]]
  BY <1>1 DEF Tb!WithRecord, Tb!Has
<1> HIDE DEF proposed
<1>3. \A j \in DOMAIN table.people : IsPerson(all[j]) /\ all[j].id = table.people[j].id
  BY <1>1, <1>2 DEF IsTable
<1>4. all = [j \in DOMAIN table.people |-> all[j]]
  BY <1>2
<1> HIDE DEF all
<1>5. IsTable([table EXCEPT !.people = all])
  BY <1>3, <1>4, TableWith
<1> QED
  BY <1>5 DEF all, proposed

\* No decision but to delete makes a people table that is refused or read otherwise.
LEMMA PeopleReadBack ==
  ASSUME NoRecord(Invalid), "" \notin ViableDates,
         NEW raw, Tb!PeopleTable(raw) # Invalid,
         NEW id, NEW decision, decision # "delete", NEW basis
  PROVE  LET table == Tb!PeopleTable(raw)
             resolved == Tb!Resolved(table, id, decision, basis)
         IN  /\ Tb!ReadsBack(table)
             /\ resolved # Invalid => Tb!ReadsBack(resolved)
<1> DEFINE table == Tb!PeopleTable(raw)
           resolved == Tb!Resolved(table, id, decision, basis)
           people == [i \in DOMAIN table.people |-> IF table.people[i].id = id THEN Tb!Decided(table.people[i], decision, basis)
                                                    ELSE table.people[i]]
<1>1. IsTable(table)
  BY TableRead
<1> HIDE DEF table
<1>2. resolved # Invalid => IsTable(resolved)
  <2>1. CASE resolved = table
    BY <1>1, <2>1
  <2>2. CASE resolved # table /\ resolved # Invalid
    <3>1. /\ resolved = [table EXCEPT !.people = people]
          /\ decision = "estimated" => basis # None /\ Tb!Basis([basis |-> basis]) # Invalid
      BY <2>2 DEF Tb!Resolved
    <3>2. \A i \in DOMAIN table.people : IsPerson(people[i]) /\ people[i].id = table.people[i].id
      <4>1. \A i \in DOMAIN table.people : IsPerson(table.people[i])
        BY <1>1 DEF IsTable
      <4>2. \A p : IsPerson(p) => /\ IsPerson(Tb!Decided(p, decision, basis))
                                  /\ Tb!Decided(p, decision, basis).id = p.id
        BY <3>1, DecidedPerson
      <4> QED
        BY <4>1, <4>2
    <3>3. people = [i \in DOMAIN table.people |-> people[i]]
      OBVIOUS
    <3> HIDE DEF people, resolved
    <3> QED
      BY <1>1, <3>1, <3>2, <3>3, TableWith
  <2> QED
    BY <2>1, <2>2
<1> HIDE DEF resolved
<1>3. Tb!ReadsBack(table) /\ (resolved # Invalid => Tb!ReadsBack(resolved))
  BY <1>1, <1>2, TableReadBack
<1> QED
  BY <1>3 DEF table, resolved

\* The same of places.
IsPlace(p) ==
  /\ p = [id |-> p.id, name |-> p.name, status |-> p.status, precision |-> p.precision, basis |-> p.basis]
  /\ p.id \in RecordIds /\ p.name # "" /\ p.status \in Tb!RecordStatuses
  /\ p.precision \in Tb!PlacePrecisions /\ ReadBasis(p.basis)
IsPlaces(table) ==
  /\ table = [places |-> table.places]
  /\ table.places = [i \in DOMAIN table.places |-> table.places[i]]
  /\ \A i \in DOMAIN table.places : IsPlace(table.places[i])
  /\ \A i, j \in DOMAIN table.places : i # j => table.places[i].id # table.places[j].id

\* What Place reads is such a place.
LEMMA PlaceRead ==
  ASSUME NEW raw, Tb!Place(raw) # Invalid
  PROVE  IsPlace(Tb!Place(raw))
<1> DEFINE place == [id |-> Tb!Get(raw, "id", ""), name |-> Tb!Get(raw, "name", ""), status |-> Tb!Status(raw),
                     precision |-> Tb!Get(raw, "precision", ""), basis |-> Tb!Basis(raw)]
<1>1. /\ Tb!Place(raw) = place
      /\ place.id \in RecordIds /\ place.name # "" /\ place.status \in Tb!RecordStatuses
      /\ place.precision \in Tb!PlacePrecisions /\ place.basis # Invalid
  BY DEF Tb!Place
<1>2. ReadBasis(place.basis)
  BY <1>1 DEF ReadBasis, Tb!Basis
<1> QED
  BY <1>1, <1>2 DEF IsPlace

\* Written, it is read as before.
LEMMA PlaceReadBack ==
  ASSUME NEW p, IsPlace(p)
  PROVE  Tb!Place(Tb!PlaceToDict(p)) = p
<1> DEFINE dict == Tb!PlaceToDict(p)
           wanted == [id |-> TRUE, name |-> TRUE, precision |-> TRUE,
                      status |-> p.status # "confirmed", basis |-> p.basis # None]
<1>1. /\ DOMAIN p = {"id", "name", "status", "precision", "basis"}
      /\ wanted["id"] /\ wanted["name"] /\ wanted["precision"] /\ wanted["status"] = (p.status # "confirmed")
      /\ wanted["basis"] = (p.basis # None)
  BY DEF IsPlace
<1>2. dict = [f \in {g \in DOMAIN p : wanted[g]} |-> p[f]]
  BY DEF Tb!PlaceToDict, Tb!Only, Tb!Restrict
<1> HIDE DEF dict, wanted
<1>3. /\ "id" \in DOMAIN dict /\ "name" \in DOMAIN dict /\ "precision" \in DOMAIN dict
      /\ "status" \in DOMAIN dict <=> p.status # "confirmed"
      /\ "basis" \in DOMAIN dict <=> p.basis # None
      /\ \A f \in DOMAIN dict : dict[f] = p[f]
  BY <1>1, <1>2
<1>4. Tb!Get(dict, "id", "") = p.id /\ Tb!Get(dict, "name", "") = p.name /\ Tb!Get(dict, "precision", "") = p.precision
  BY <1>3 DEF Tb!Get
<1>5. Tb!Status(dict) = p.status
  BY <1>3 DEF Tb!Get, Tb!Status
<1>6. Tb!Basis(dict) = p.basis
  BY <1>3 DEF Tb!Basis, Tb!Get, IsPlace, ReadBasis
<1> QED
  BY <1>4, <1>5, <1>6 DEF Tb!Place, IsPlace, ReadBasis, dict

\* What PlacesTable reads is such a table.
LEMMA PlacesRead ==
  ASSUME NEW raw, Tb!PlacesTable(raw) # Invalid
  PROVE  IsPlaces(Tb!PlacesTable(raw))
<1> DEFINE places == [i \in DOMAIN raw.places |-> Tb!Place(raw.places[i])]
<1>1. /\ Tb!Read(raw.places, Tb!Place) # Invalid
      /\ Tb!PlacesTable(raw) = [places |-> Tb!Read(raw.places, Tb!Place)]
  BY DEF Tb!PlacesTable
<1>2. /\ Tb!Read(raw.places, Tb!Place) = places
      /\ \A i \in DOMAIN places : places[i] # Invalid
      /\ \A i, j \in DOMAIN places : i # j => places[i].id # places[j].id
  BY <1>1 DEF Tb!Read, Tb!UniqueIds
<1>3. \A i \in DOMAIN places : IsPlace(places[i])
  BY <1>2, PlaceRead
<1>4. places = [i \in DOMAIN places |-> places[i]]
  OBVIOUS
<1> HIDE DEF places
<1> QED
  BY <1>1, <1>2, <1>3, <1>4 DEF IsPlaces

\* Written, it is read as before.
LEMMA PlacesReadBackAgain ==
  ASSUME NoRecord(Invalid), NEW table, IsPlaces(table)
  PROVE  Tb!PlacesTable(Tb!PlacesToDict(table)) = table
<1> DEFINE dict == Tb!PlacesToDict(table)
<1>1. dict.places = [i \in DOMAIN table.places |-> Tb!PlaceToDict(table.places[i])]
  BY DEF Tb!PlacesToDict
<1> HIDE DEF dict
<1>2. [i \in DOMAIN dict.places |-> Tb!Place(dict.places[i])] = table.places
  <2>1. \A i \in DOMAIN table.places : Tb!Place(dict.places[i]) = table.places[i]
    BY <1>1, PlaceReadBack DEF IsPlaces
  <2> QED
    BY <1>1, <2>1 DEF IsPlaces
<1>3. \A i \in DOMAIN table.places : table.places[i] # Invalid
  <2>1. \A i \in DOMAIN table.places : \E p : /\ table.places[i] = p
                                              /\ p = [id |-> p.id, name |-> p.name, status |-> p.status, precision |-> p.precision, basis |-> p.basis]
    BY DEF IsPlaces, IsPlace
  <2>2. \A a, b, c, d, e : [id |-> a, name |-> b, status |-> c, precision |-> d, basis |-> e] # Invalid
    BY DEF NoRecord
  <2> QED
    BY <2>1, <2>2
<1>4. Tb!Read(dict.places, Tb!Place) = table.places
  BY <1>2, <1>3 DEF Tb!Read, Tb!UniqueIds, IsPlaces
<1>5. table.places # Invalid
  BY DEF IsPlaces, NoRecord
<1> QED
  BY <1>4, <1>5 DEF Tb!PlacesTable, IsPlaces, dict

\* A decision about a place leaves such a place of the same id.
LEMMA DecidedPlace ==
  ASSUME NEW p, IsPlace(p), NEW decision, NEW basis,
         decision = "estimated" => basis # None /\ Tb!Basis([basis |-> basis]) # Invalid
  PROVE  IsPlace(Tb!Decided(p, decision, basis)) /\ Tb!Decided(p, decision, basis).id = p.id
<1> DEFINE q == [id |-> p.id, name |-> p.name, status |-> IF decision = "estimated" THEN "estimated" ELSE "confirmed",
                 precision |-> p.precision, basis |-> IF decision = "estimated" THEN basis ELSE p.basis]
<1>1. Tb!Decided(p, decision, basis) = q
  BY DEF Tb!Decided, Tb!AsConfirmed, IsPlace
<1>2. decision = "estimated" => ReadBasis(basis)
  BY DEF Tb!Basis, Tb!Get, ReadBasis
<1>3. /\ q.id = p.id /\ q.name = p.name /\ q.status \in {"estimated", "confirmed"} /\ q.precision = p.precision
      /\ q.basis = IF decision = "estimated" THEN basis ELSE p.basis
      /\ q = [id |-> q.id, name |-> q.name, status |-> q.status, precision |-> q.precision, basis |-> q.basis]
  OBVIOUS
<1> HIDE DEF q
<1>4. IsPlace(q)
  BY <1>2, <1>3 DEF IsPlace, Tb!RecordStatuses
<1> QED
  BY <1>1, <1>3, <1>4

\* No decision but to delete makes a places table that is read otherwise.
LEMMA PlacesReadBack ==
  ASSUME NoRecord(Invalid),
         NEW raw, Tb!PlacesTable(raw) # Invalid,
         NEW id, NEW decision, decision # "delete", NEW basis,
         Tb!ResolvedPlace(Tb!PlacesTable(raw), id, decision, basis) # Invalid
  PROVE  LET resolved == Tb!ResolvedPlace(Tb!PlacesTable(raw), id, decision, basis)
         IN  Tb!PlacesTable(Tb!PlacesToDict(resolved)) = resolved
<1> DEFINE table == Tb!PlacesTable(raw)
           resolved == Tb!ResolvedPlace(table, id, decision, basis)
           places == [i \in DOMAIN table.places |-> IF table.places[i].id = id THEN Tb!Decided(table.places[i], decision, basis)
                                                    ELSE table.places[i]]
<1>1. IsPlaces(table)
  BY PlacesRead
<1>2. resolved # Invalid
  OBVIOUS
<1> HIDE DEF table
<1>3. CASE resolved = table
  BY <1>1, <1>3, PlacesReadBackAgain DEF table
<1>4. CASE resolved # table
  <2>1. /\ resolved = [places |-> places]
        /\ decision = "estimated" => basis # None /\ Tb!Basis([basis |-> basis]) # Invalid
    BY <1>2, <1>4 DEF Tb!ResolvedPlace
  <2>2. \A i \in DOMAIN table.places : IsPlace(places[i]) /\ places[i].id = table.places[i].id
    BY <1>1, <2>1, DecidedPlace DEF IsPlaces
  <2>3. DOMAIN places = DOMAIN table.places /\ places = [i \in DOMAIN places |-> places[i]]
    OBVIOUS
  <2> HIDE DEF places, resolved
  <2>4. IsPlaces(resolved)
    BY <1>1, <2>1, <2>2, <2>3 DEF IsPlaces
  <2> QED
    BY <2>4, PlacesReadBackAgain DEF resolved, table
<1> QED
  BY <1>3, <1>4

\* What a table's reader accepted it accepts when it is written, and so it does what a proposal
\* or any decision but a deletion makes of it, or the archive could not be read again:
\* TablesReadBack for any tables (records.py, archive.py), the empty date being no date.
THEOREM TablesStayReadable ==
  ASSUME NoRecord(Invalid), "" \notin ViableDates,
         NEW people, NEW places, NEW id, NEW decision, decision # "delete", NEW basis
  PROVE  Tb!TablesReadBack(people, places, id, decision, basis)
<1> DEFINE P == Tb!PeopleTable(people)
           L == Tb!PlacesTable(places)
           R == Tb!Resolved(P, id, decision, basis)
           S == Tb!ResolvedPlace(L, id, decision, basis)
<1>1. P # Invalid => Tb!ReadsBack(P) /\ (R # Invalid => Tb!ReadsBack(R))
  BY PeopleReadBack
<1>2. P # Invalid => \A i \in DOMAIN P.people : Tb!ReadsBack([P EXCEPT !.people = Tb!WithRecord(@, Tb!AsProposed(P.people[i]))])
  <2> SUFFICES ASSUME P # Invalid, NEW i \in DOMAIN P.people
               PROVE  Tb!ReadsBack([P EXCEPT !.people = Tb!WithRecord(@, Tb!AsProposed(P.people[i]))])
    OBVIOUS
  <2>1. IsTable(P)
    BY TableRead
  <2> HIDE DEF P
  <2> QED
    BY <2>1, ProposedTable, TableReadBack
<1>3. L # Invalid /\ S # Invalid => Tb!PlacesTable(Tb!PlacesToDict(S)) = S
  BY PlacesReadBack
<1> QED
  BY <1>1, <1>2, <1>3, Zenon DEF Tb!TablesReadBack

-----------------------------------------------------------------------------
(* The tree as a file. *)

\* A pair is its two numbers in their order.
LEMMA PairIsOrdered ==
  ASSUME NEW x \in Nat, NEW y \in Nat
  PROVE  Gd!PairOf(x, y) = IF x <= y THEN <<x, y>> ELSE <<y, x>>
<1>1. CASE x <= y
  <2>1. \A z \in {x, y} : (\A w \in {x, y} : z <= w) <=> z = x
    BY <1>1
  <2>2. \A z \in {x, y} : (\A w \in {x, y} : z >= w) <=> z = y
    BY <1>1
  <2>3. Gd!Min({x, y}) = x
    BY <2>1 DEF Gd!Min
  <2>4. Gd!Max({x, y}) = y
    BY <2>2 DEF Gd!Max
  <2> QED
    BY <1>1, <2>3, <2>4 DEF Gd!PairOf
<1>2. CASE ~(x <= y)
  <2>1. \A z \in {x, y} : (\A w \in {x, y} : z <= w) <=> z = y
    BY <1>2
  <2>2. \A z \in {x, y} : (\A w \in {x, y} : z >= w) <=> z = x
    BY <1>2
  <2>3. Gd!Min({x, y}) = y
    BY <2>1 DEF Gd!Min
  <2>4. Gd!Max({x, y}) = x
    BY <2>2 DEF Gd!Max
  <2> QED
    BY <1>2, <2>3, <2>4 DEF Gd!PairOf
<1> QED
  BY <1>1, <1>2

\* A set of two numbers is the members of its pair.
LEMMA TwoAreAPair ==
  ASSUME NEW S \in SUBSET Nat, IsFiniteSet(S), Cardinality(S) = 2
  PROVE  LET pair == Gd!PairOf(Gd!Min(S), Gd!Max(S)) IN
         /\ S = {pair[1], pair[2]}
         /\ pair[1] \in Nat /\ pair[2] \in Nat /\ pair[1] < pair[2] /\ pair = <<pair[1], pair[2]>>
<1>1. PICK x \in S : TRUE
  <2>1. S # {}
    BY FS_EmptySet
  <2> QED
    BY <2>1
<1>2. IsFiniteSet(S \ {x}) /\ Cardinality(S \ {x}) = 1
  BY <1>1, FS_RemoveElement
<1>3. PICK y : S \ {x} = {y}
  BY <1>2, FS_Singleton
<1>4. S = {x, y} /\ x # y /\ x \in Nat /\ y \in Nat
  BY <1>1, <1>3
<1>5. ASSUME NEW a \in Nat, NEW b \in Nat, a < b, S = {a, b}
      PROVE  Gd!PairOf(Gd!Min(S), Gd!Max(S)) = <<a, b>>
  <2>1. \A z \in S : (\A w \in S : z <= w) <=> z = a
    BY <1>5
  <2>2. \A z \in S : (\A w \in S : z >= w) <=> z = b
    BY <1>5
  <2>3. Gd!Min(S) = a /\ Gd!Max(S) = b
    BY <1>5, <2>1, <2>2 DEF Gd!Min, Gd!Max
  <2> QED
    BY <1>5, <2>3, PairIsOrdered
<1>6. CASE x < y
  BY <1>4, <1>5, <1>6
<1>7. CASE y < x
  <2>1. S = {y, x}
    BY <1>4
  <2> QED
    BY <1>4, <1>5, <1>7, <2>1
<1> QED
  BY <1>4, <1>6, <1>7

\* Two sequences of one are one of two.
LEMMA TwoInARow == ASSUME NEW a, NEW b PROVE <<a>> \o <<b>> = <<a, b>>
<1>1. <<a>> \in Seq({a, b}) /\ <<b>> \in Seq({a, b}) /\ <<a,b>> \in Seq({a, b})
  OBVIOUS
<1>2. <<a>> \o <<b>> \in Seq({a, b}) /\ Len(<<a>> \o <<b>>) = 2
 BY <1>1, ConcatProperties
<1>3. (<<a>> \o <<b>>)[1] = a /\ (<<a>> \o <<b>>)[2] = b
 BY <1>1, ConcatProperties
<1>4. Len(<<a, b>>) = 2 /\ \A i \in 1..2 : i = 1 \/ i = 2
  OBVIOUS
<1>5. \A i \in 1..2 : (<<a>> \o <<b>>)[i] = <<a, b>>[i]
  BY <1>3, <1>4
<1> DEFINE s == <<a>> \o <<b>>
           t == <<a, b>>
<1>6. s \in Seq({a, b}) /\ t \in Seq({a, b}) /\ Len(s) = 2 /\ Len(t) = 2 /\ \A i \in 1..2 : s[i] = t[i]
  BY <1>1, <1>2, <1>4, <1>5
<1> HIDE DEF s, t
<1>7. s = t
  BY <1>6, SeqEqual
<1> QED
  BY <1>7 DEF s, t


\* Nobody who is only proposed leaves in a file, and every guess that leaves says why or that
\* there is no saying: GuessesExplained for any people and ties (gedcom_document.py), whose
\* ids are numbers, each one person's, nobody being tied to themselves.
THEOREM ProposalsStay ==
  ASSUME None \notin Nat,
         NEW shapes, NEW stories, NEW decisions,
         \A p \in shapes.people : p.id \in Nat,
         \A p, q \in shapes.people : p.id = q.id => p = q,
         \A e \in shapes.edges : e.a # e.b,
         IsFiniteSet({p.id : p \in shapes.people})
  PROVE  Gd!GuessesExplained(shapes, stories, decisions)
<1> DEFINE text == Gd!ToText(shapes, stories, decisions)
           export == Gd!ExportSet(shapes)
           edges == export.edges
           gone == {p.id : p \in {q \in shapes.people : ~Gd!Leaves(q.status)}}
           ids == {p.id : p \in export.people}
<1>1. /\ export.people = {p \in shapes.people : Gd!Leaves(p.status)}
      /\ edges = {e \in shapes.edges : {e.a, e.b} \subseteq ids /\ Gd!Leaves(e.status)}
  BY DEF Gd!ExportSet, Gd!ExportedEdges
<1>2. /\ text.families = {Gd!FamRecord(export.people, fam) : fam \in Gd!Families(edges, decisions)}
      /\ text.people = {Gd!IndiRecord(export, shapes, stories, decisions, p) : p \in export.people}
  BY DEF Gd!ToText
<1> HIDE DEF text, export
<1>3. ids \in SUBSET Nat /\ ids \cap gone = {} /\ IsFiniteSet(ids)
  <2>1. ids \subseteq {p.id : p \in shapes.people}
    BY <1>1
  <2>2. ids \in SUBSET Nat /\ ids \cap gone = {}
    BY <1>1
  <2> QED
    BY <2>1, <2>2, FS_Subset
<1>4. ASSUME NEW record \in text.people
      PROVE  /\ record.id \notin gone /\ \A asso \in record.associations : asso.other \notin gone
             /\ (CHOOSE p \in shapes.people : p.id = record.id).status = "estimated" => record.notes # {}
  <2>1. PICK p \in export.people : record = Gd!IndiRecord(export, shapes, stories, decisions, p)
    BY <1>2
  <2>2. record.id = p.id /\ p.id \in ids
    BY <2>1 DEF Gd!IndiRecord
  <2>3. \A asso \in record.associations : asso.other \in ids
    <3>1. record.associations = {[other |-> e.b, label |-> Gd!RelaLabel(e.kind)] : e \in {f \in Gd!Associations(edges) : f.a = p.id}}
      BY <2>1 DEF Gd!IndiRecord
    <3> QED
      BY <1>1, <3>1 DEF Gd!Associations
  <2>4. (CHOOSE q \in shapes.people : q.id = record.id) = p
    <3>1. \A q \in shapes.people : q.id = record.id <=> q = p
      BY <1>1, <2>2
    <3> QED
      BY <1>1, <3>1
  <2>5. p.status = "estimated" => record.notes # {}
    <3>1. record.notes = Gd!StoryNotes(stories, p.id)
             \cup (IF p.status = "estimated"
                   THEN {IF p.basis # None THEN p.basis ELSE Gd!EstimateNote(decisions, p.id, p.id)} ELSE {})
      BY <2>1 DEF Gd!IndiRecord
    <3> QED
      BY <3>1
  <2> QED
    BY <1>3, <2>2, <2>3, <2>4, <2>5
<1>5. /\ Gd!Children(edges) \subseteq ids
      /\ \A c \in Gd!Children(edges) : Gd!ParentsOf(edges, c) \subseteq ids /\ Gd!ParentsOf(edges, c) # {}
  BY <1>1 DEF Gd!Children, Gd!ParentsOf
<1>6. ASSUME NEW fam \in Gd!Families(edges, decisions)
      PROVE  \/ \E pair \in Gd!SpousePairs(edges) \cup Gd!CoParents(edges) :
                   /\ fam.a = pair[1] /\ fam.b = pair[2] /\ pair[1] \in ids /\ pair[2] \in ids /\ pair[1] < pair[2]
                   /\ pair = <<pair[1], pair[2]>>
                   /\ fam.children \subseteq ids /\ fam.notes = Gd!PairNotes(edges, decisions, pair)
             \/ fam.a \in ids /\ fam.b = None /\ fam.children \subseteq ids
  <2>1. ASSUME NEW pair \in Gd!SpousePairs(edges) \cup Gd!CoParents(edges),
               fam = [a |-> pair[1], b |-> pair[2], marriage |-> Gd!MarriageDate(edges, pair),
                      children |-> Gd!ChildrenOf(edges, pair), notes |-> Gd!PairNotes(edges, decisions, pair)]
        PROVE  /\ fam.a = pair[1] /\ fam.b = pair[2] /\ pair[1] \in ids /\ pair[2] \in ids /\ pair[1] < pair[2]
               /\ pair = <<pair[1], pair[2]>>
               /\ fam.children \subseteq ids /\ fam.notes = Gd!PairNotes(edges, decisions, pair)
    <3>1. CASE pair \in Gd!SpousePairs(edges)
      <4>1. PICK e \in edges : pair = Gd!PairOf(e.a, e.b)
        BY <3>1 DEF Gd!SpousePairs, Gd!Spouses
      <4>2. e.a \in ids /\ e.b \in ids /\ e.a # e.b
        BY <1>1
      <4>3. pair = IF e.a <= e.b THEN <<e.a, e.b>> ELSE <<e.b, e.a>>
        BY <1>3, <4>1, <4>2, PairIsOrdered
      <4>4. pair[1] \in ids /\ pair[2] \in ids /\ pair[1] < pair[2] /\ pair = <<pair[1], pair[2]>>
        BY <1>3, <4>2, <4>3
      <4> QED
        BY <1>5, <2>1, <4>4 DEF Gd!ChildrenOf
    <3>2. CASE pair \in Gd!CoParents(edges)
      <4>1. PICK c \in Gd!Children(edges) :
               /\ Gd!Cardinality(Gd!ParentsOf(edges, c)) = 2
               /\ pair = Gd!PairOf(Gd!Min(Gd!ParentsOf(edges, c)), Gd!Max(Gd!ParentsOf(edges, c)))
        BY <3>2 DEF Gd!CoParents
      <4> DEFINE parents == Gd!ParentsOf(edges, c)
      <4>2. parents \in SUBSET Nat /\ IsFiniteSet(parents) /\ parents \subseteq ids
        BY <1>3, <1>5, FS_Subset
      <4>3. Cardinality(parents) = 2
        BY <4>1 DEF Gd!Cardinality, Cardinality
      <4>4. pair[1] \in ids /\ pair[2] \in ids /\ pair[1] < pair[2] /\ pair = <<pair[1], pair[2]>>
        <5> HIDE DEF parents
        <5>1. pair = Gd!PairOf(Gd!Min(parents), Gd!Max(parents))
          BY <4>1 DEF parents
        <5> QED
          BY <4>2, <4>3, <5>1, TwoAreAPair
      <4> QED
        BY <1>5, <2>1, <4>4 DEF Gd!ChildrenOf
    <3> QED
      BY <3>1, <3>2
  <2>2. ASSUME NEW parent \in Gd!LoneParents(edges),
               fam = [a |-> parent, b |-> None, marriage |-> None, children |-> Gd!ChildrenOfOne(edges, parent),
                      notes |-> Gd!LoneNotes(edges, decisions, parent)]
        PROVE  fam.a \in ids /\ fam.b = None /\ fam.children \subseteq ids
    <3>1. PICK c \in Gd!Children(edges) : parent = Gd!Min(Gd!ParentsOf(edges, c))
      BY DEF Gd!LoneParents
    <3>2. Gd!ParentsOf(edges, c) \subseteq ids /\ Gd!ParentsOf(edges, c) # {}
      BY <1>5
    <3>3. parent \in ids
      BY <1>3, <3>1, <3>2, LeastIsMember
    <3> QED
      BY <1>5, <2>2, <3>3 DEF Gd!ChildrenOfOne
  <2> QED
    BY <2>1, <2>2 DEF Gd!Families
<1>7. ASSUME NEW fam \in Gd!Families(edges, decisions)
      PROVE  LET record == Gd!FamRecord(export.people, fam)
                 members == {m.id : m \in Gd!Range(record.members)}
             IN  /\ (members \cup record.children) \cap gone = {}
                 /\ (\E e \in Gd!Spouses(shapes.edges) : e.status = "estimated" /\ {e.a, e.b} = members) => record.notes # {}
  <2> DEFINE record == Gd!FamRecord(export.people, fam)
             members == {m.id : m \in Gd!Range(record.members)}
  <2>1. record.children = fam.children /\ record.notes = fam.notes
    BY DEF Gd!FamRecord
  <2>2. CASE fam.a \in ids /\ fam.b = None /\ fam.children \subseteq ids
    <3>1. record.members = <<[role |-> Gd!Role(export.people, fam.a, 0), id |-> fam.a]>>
      BY <2>2 DEF Gd!FamRecord
    <3>2. members = {fam.a}
      BY <3>1 DEF Gd!Range
    <3>3. \A e \in Gd!Spouses(shapes.edges) : {e.a, e.b} # members
      BY <3>2 DEF Gd!Spouses
    <3> QED
      BY <1>3, <2>1, <2>2, <3>2, <3>3
  <2>3. ASSUME NEW pair \in Gd!SpousePairs(edges) \cup Gd!CoParents(edges),
               fam.a = pair[1], fam.b = pair[2], pair[1] \in ids, pair[2] \in ids, pair[1] < pair[2],
               pair = <<pair[1], pair[2]>>,
               fam.children \subseteq ids, fam.notes = Gd!PairNotes(edges, decisions, pair)
        PROVE  /\ (members \cup record.children) \cap gone = {}
               /\ (\E e \in Gd!Spouses(shapes.edges) : e.status = "estimated" /\ {e.a, e.b} = members) => record.notes # {}
    <3>1. record.members = <<[role |-> Gd!Role(export.people, fam.a, 0), id |-> fam.a],
                             [role |-> Gd!Role(export.people, fam.b, 1), id |-> fam.b]>>
      <4> DEFINE first == [role |-> Gd!Role(export.people, fam.a, 0), id |-> fam.a]
                 second == [role |-> Gd!Role(export.people, fam.b, 1), id |-> fam.b]
      <4>1. fam.b # None
        BY <1>3, <2>3
      <4>2. record.members = <<first>> \o <<second>>
        BY <4>1 DEF Gd!FamRecord
      <4> HIDE DEF first, second
      <4>3. <<first>> \o <<second>> = <<first, second>>
        BY TwoInARow
      <4> QED
        BY <4>2, <4>3 DEF first, second
    <3>2. members = {pair[1], pair[2]}
      BY <2>3, <3>1 DEF Gd!Range
    <3>3. ASSUME NEW e \in Gd!Spouses(shapes.edges), e.status = "estimated", {e.a, e.b} = members
          PROVE  record.notes # {}
      <4>1. e \in edges /\ e \in Gd!Spouses(edges)
        BY <1>1, <2>3, <3>2, <3>3 DEF Gd!Spouses, Gd!Leaves
      <4>2. Gd!PairOf(e.a, e.b) = pair
        <5>1. e.a \in Nat /\ e.b \in Nat /\ pair[1] \in Nat /\ pair[2] \in Nat
          BY <1>3, <2>3, <3>2, <3>3
        <5>2. (e.a = pair[1] /\ e.b = pair[2]) \/ (e.a = pair[2] /\ e.b = pair[1])
          BY <2>3, <3>2, <3>3
        <5> QED
          BY <2>3, <5>1, <5>2, PairIsOrdered
      <4>3. pair \in Gd!SpousePairs(edges)
        BY <4>1, <4>2 DEF Gd!SpousePairs
      <4>4. Gd!EstimateNote(decisions, e.b, e.a) \in Gd!PairNotes(edges, decisions, pair)
        BY <3>3, <4>1, <4>2, <4>3 DEF Gd!PairNotes
      <4> QED
        BY <2>1, <2>3, <4>4
    <3> QED
      BY <1>3, <2>1, <2>3, <3>2, <3>3
  <2> QED
    BY <1>6, <2>2, <2>3
<1>8. ASSUME NEW fam \in text.families
      PROVE  /\ ({m.id : m \in Gd!Range(fam.members)} \cup fam.children) \cap gone = {}
             /\ (\E e \in Gd!Spouses(shapes.edges) :
                    e.status = "estimated" /\ {e.a, e.b} = {m.id : m \in Gd!Range(fam.members)}) => fam.notes # {}
  BY <1>2, <1>7
<1> QED
  BY <1>4, <1>8 DEF Gd!GuessesExplained, text
==============================================================================
