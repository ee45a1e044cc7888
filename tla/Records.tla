------------------------------ MODULE Records ----------------------------
(* The records of the archive as they are written and read back              *)
(* (tools/records.py, tools/dated_fact.py, tools/ref.py, tools/archive.py).   *)
(* A wire record is a function from the fields that are present; a value      *)
(* that no record may hold is Invalid, and a record one of whose parts is      *)
(* Invalid is refused as a whole.                                             *)
EXTENDS Naturals, Sequences, FiniteSets, FiniteSetsExt, SequencesExt, Functions

CONSTANTS
    RecordIds,    \* the ids that fit the pattern
    ViableDates,  \* the dates that exist, whole or in part
    Invalid,      \* what a refused record reads as
    None          \* a field without a value

Get(raw, field, default) == IF field \in DOMAIN raw THEN raw[field] ELSE default
Require(raw, field) == Get(raw, field, "") # ""
Without(raw, fields) == Restrict(raw, DOMAIN raw \ fields)
Only(raw, wanted) == Restrict(raw, {f \in DOMAIN raw : wanted[f]})

\* a date, its precision and, for a span alone, its end
Precisions == {"exact", "month", "year", "approx", "before", "after", "between"}
ViableDate(date) == date \in ViableDates
DatedFact(raw) ==
    LET precision == Get(raw, "precision", "exact") IN
    IF ~ViableDate(Get(raw, "date", "")) \/ precision \notin Precisions THEN Invalid
    ELSE IF precision # "between" THEN [date |-> raw.date, precision |-> precision]
    ELSE IF ViableDate(Get(raw, "date2", "")) THEN [date |-> raw.date, precision |-> precision, date2 |-> raw.date2]
    ELSE Invalid

RecordStatuses == {"confirmed", "proposed", "estimated"}
Status(raw) == Get(raw, "status", "confirmed")
Basis(raw) == LET basis == Get(raw, "basis", None) IN IF basis # None /\ ~Require(basis, "text") THEN Invalid ELSE basis
Dated(raw, field) == IF field \in DOMAIN raw THEN DatedFact(raw[field]) ELSE None

-----------------------------------------------------------------------------
\* a person, a place, an edge between two people; a table of them

Person(raw) ==
    LET person == [id |-> Get(raw, "id", ""), name |-> Get(raw, "name", ""), status |-> Status(raw),
                   dob |-> Dated(raw, "dob"), basis |-> Basis(raw)] IN
    IF person.id \notin RecordIds \/ person.name = "" \/ person.status \notin RecordStatuses
       \/ Invalid \in {person.dob, person.basis}
    THEN Invalid ELSE person
\* a confirmed record states no status, and a field without a value is left out
PersonToDict(person) ==
    Only(person, [id |-> TRUE, name |-> TRUE, status |-> person.status # "confirmed",
                  dob |-> person.dob # None, basis |-> person.basis # None])
AsProposed(record) == [record EXCEPT !.status = "proposed"]
AsConfirmed(record) == [record EXCEPT !.status = "confirmed"]

PlacePrecisions == {"exact", "town"}
Place(raw) ==
    LET place == [id |-> Get(raw, "id", ""), name |-> Get(raw, "name", ""), status |-> Status(raw),
                  precision |-> Get(raw, "precision", ""), basis |-> Basis(raw)] IN
    IF place.id \notin RecordIds \/ place.name = "" \/ place.status \notin RecordStatuses
       \/ place.precision \notin PlacePrecisions \/ place.basis = Invalid
    THEN Invalid ELSE place
PlaceToDict(place) ==
    Only(place, [id |-> TRUE, name |-> TRUE, precision |-> TRUE,
                 status |-> place.status # "confirmed", basis |-> place.basis # None])

RelationshipKinds == {"spouse", "parent"}
Relationship(raw) ==
    IF raw.kind \notin RelationshipKinds \/ Get(raw, "status", "confirmed") \notin RecordStatuses
    THEN Invalid ELSE raw

UniqueIds(records) == \A i, j \in DOMAIN records : i # j => records[i].id # records[j].id
Read(raws, Type(_)) ==
    LET records == [i \in DOMAIN raws |-> Type(raws[i])] IN
    IF (\E i \in DOMAIN records : records[i] = Invalid) \/ ~UniqueIds(records) THEN Invalid ELSE records

\* every end of an edge is a person of the table
PeopleTable(raw) ==
    LET people == Read(raw.people, Person)
        edges == [i \in DOMAIN raw.relationships |-> Relationship(raw.relationships[i])]
    IN  IF people = Invalid \/ (\E i \in DOMAIN edges : edges[i] = Invalid) THEN Invalid
        ELSE IF \A i \in DOMAIN edges : {edges[i].a, edges[i].b} \subseteq {people[j].id : j \in DOMAIN people}
        THEN [people |-> people, relationships |-> edges] ELSE Invalid
PeopleToDict(table) == [table EXCEPT !.people = [i \in DOMAIN table.people |-> PersonToDict(table.people[i])]]
PlacesTable(raw) == LET places == Read(raw.places, Place) IN IF places = Invalid THEN Invalid ELSE [places |-> places]
PlacesToDict(table) == [places |-> [i \in DOMAIN table.places |-> PlaceToDict(table.places[i])]]

Has(records, id) == \E i \in DOMAIN records : records[i].id = id
WithRecord(records, record) ==
    IF Has(records, record.id) THEN [i \in DOMAIN records |-> IF records[i].id = record.id THEN record ELSE records[i]]
    ELSE Append(records, record)
DismissedRecordOnly(table, id) ==  \* variant: the person's edges stay
    [table EXCEPT !.people = SelectSeq(@, LAMBDA p : p.id # id)]
Dismissed(table, id) ==
    [people |-> SelectSeq(table.people, LAMBDA p : p.id # id),
     relationships |-> SelectSeq(table.relationships, LAMBDA r : id \notin {r.a, r.b})]
DismissedPlace(table, id) == [places |-> SelectSeq(table.places, LAMBDA p : p.id # id)]

\* a guess needs a basis; an unknown id changes nothing
Decided(record, decision, basis) ==
    IF decision = "estimated" THEN [record EXCEPT !.status = "estimated", !.basis = basis] ELSE AsConfirmed(record)
Resolved(table, id, decision, basis) ==
    IF ~Has(table.people, id) \/ decision = "pending" THEN table
    ELSE IF decision = "delete" THEN Dismissed(table, id)
    ELSE IF decision = "estimated" /\ (basis = None \/ Basis([basis |-> basis]) = Invalid) THEN Invalid
    ELSE [table EXCEPT !.people = [i \in DOMAIN @ |-> IF @[i].id = id THEN Decided(@[i], decision, basis) ELSE @[i]]]
ResolvedPlace(table, id, decision, basis) ==
    IF ~Has(table.places, id) \/ decision = "pending" THEN table
    ELSE IF decision = "delete" THEN DismissedPlace(table, id)
    ELSE IF decision = "estimated" /\ (basis = None \/ Basis([basis |-> basis]) = Invalid) THEN Invalid
    ELSE [places |-> [i \in DOMAIN table.places |->
             IF table.places[i].id = id THEN Decided(table.places[i], decision, basis) ELSE table.places[i]]]

-----------------------------------------------------------------------------
\* the versions of a table or an item: the latest of an unbroken run from 1

Contiguous(present) ==
    IF present = {} THEN 0
    ELSE IF present = 1..Max(present) THEN Max(present) ELSE Invalid

\* an item, its texts taken out of it, and the files its next version names
ItemTypes == {"story", "letter", "document", "photo", "object", "event"}
ItemStatuses == {"draft", "catalogued", "deleted"}
Said(raw, flag) == flag \in DOMAIN raw
Names(raw, kinds) == \E k \in kinds : Get(raw, k, <<>>) # <<>>
StoryFlags(raw) ==
    /\ Said(raw, "clarification") => raw.type = "story" /\ Names(raw, {"people", "items"})
    /\ Said(raw, "reflection") => /\ raw.type = "story" /\ ~Get(raw, "clarification", FALSE)
                                  /\ Names(raw, {"people", "places"})
    /\ Said(raw, "evidence") => raw.type # "story" /\ Names(raw, {"people", "places", "items"})
Item(raw) ==
    IF raw.id \notin RecordIds \/ raw.type \notin ItemTypes \/ raw.status \notin ItemStatuses THEN Invalid
    ELSE IF raw.status = "deleted" THEN raw
    ELSE IF Require(raw, "title") /\ ViableDate(raw.date) /\ StoryFlags(raw) THEN raw ELSE Invalid
Tombstone(item) == [id |-> item.id, type |-> item.type, title |-> item.title, status |-> "deleted"]

\* a story's words and what was read of a page go to files; a picture keeps its description
Texts(item, fields) == Restrict(item, {f \in fields \cap DOMAIN item : item[f] # ""})
SplitContent(item) ==
    LET fields == CASE item.type = "story" -> {"story", "transcription"}
                    [] item.type \in {"letter", "document"} -> {"transcription"}
                    [] OTHER -> {}
    IN  [sidecar |-> Without(item, fields \cup {"transcription"}), content |-> Texts(item, fields)]

ContentKinds == {"story", "transcription"}
\* a text that is there again takes the place of its old file, one that is gone loses it
SavedAssetsKept(assets, content, version) ==  \* variant: the file of a text that is gone is still named
    LET new == {[kind |-> k, file |-> <<k, version>>] : k \in DOMAIN content}
    IN  {a \in assets : a.kind \notin DOMAIN content} \cup new
SavedAssets(assets, content, version) ==
    LET new == {[kind |-> k, file |-> <<k, version>>] : k \in DOMAIN content}
    IN  {a \in assets : a.kind \notin ContentKinds} \cup new

-----------------------------------------------------------------------------
\* What a table's reader accepted it writes as it was, and so does what any
\* decision about any person or place makes of it: no decision leaves a table that the
\* next reader refuses, an edge to someone who is gone among them.
ReadsBack(table) == PeopleTable(PeopleToDict(table)) = table
TablesReadBack(people, places, id, decision, basis) ==
    LET P == PeopleTable(people) L == PlacesTable(places) IN
    /\ P # Invalid =>
        /\ ReadsBack(P)
        /\ LET R == Resolved(P, id, decision, basis) IN R # Invalid => ReadsBack(R)
        /\ \A i \in DOMAIN P.people :
            ReadsBack([P EXCEPT !.people = WithRecord(@, AsProposed(P.people[i]))])
    /\ L # Invalid =>
        LET R == ResolvedPlace(L, id, decision, basis) IN
        R # Invalid => PlacesTable(PlacesToDict(R)) = R

\* an item put together of its sidecar and the texts in its files
Joined(sidecar, content) ==
    [f \in DOMAIN sidecar \cup DOMAIN content |-> IF f \in DOMAIN content THEN content[f] ELSE sidecar[f]]

\* The sidecar of an item that was accepted is accepted, and so is its tombstone;
\* every text a story or a paper has is in a file; and the files
\* the new version names are those of its own texts, one for each.
ItemKeepsItsTexts(raw, assets, version) ==
    LET split == SplitContent(raw)
        saved == SavedAssets(assets, split.content, version)
    IN  Item(raw) # Invalid /\ raw.status # "deleted" =>
        /\ Item(split.sidecar) # Invalid /\ Item(Tombstone(raw)) # Invalid
        /\ raw.type \in {"story", "letter", "document"} =>
             Texts(raw, ContentKinds) = Texts(Joined(split.sidecar, split.content), ContentKinds)
        /\ {a \in saved : a.kind \in ContentKinds} = {[kind |-> k, file |-> <<k, version>>] : k \in DOMAIN split.content}
        /\ {a \in assets : a.kind \notin ContentKinds} \subseteq saved

=============================================================================
