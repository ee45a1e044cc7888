----------------------------- MODULE Evidence ----------------------------
(* What the model of an import review is given of the archive, and what the  *)
(* family is told (pipeline/api/server.py review_text, tools/review.py).     *)
(* A text is a sequence of sentences, a sentence the set of names and        *)
(* phrases it mentions, in the one case the code compares them in; a person  *)
(* has a full and a first name, and a sentence with the one has the other.   *)
EXTENDS Naturals, Sequences, FiniteSets, SequencesExt

CONSTANTS
    PrefixSentences, \* how much of a transcription is read before an item is set aside
    MaxQuotes,       \* the sentences quoted of one item
    MaxHits          \* the items a search returns

Upto(n, seq) == SubSeq(seq, 1, IF n < Len(seq) THEN n ELSE Len(seq))
Needles(person) == {person.name, person.first}
HasAny(sentence, needles) == sentence \cap needles # {}
Mentions(text, needles) == \E i \in DOMAIN text : HasAny(text[i], needles)

\* an item that lists the person or whose summary names them comes with its whole
\* transcription, or else its summary; any other with the first chunk of its transcription,
\* if that names them
ReviewTextNoChunk(item, person) ==  \* variant: an item its metadata do not tie to the person is set aside
    IF person.id \in item.people \/ Mentions(item.story, Needles(person))
    THEN IF item.transcription # <<>> THEN item.transcription ELSE item.story
    ELSE <<>>
ReviewText(item, person) ==
    LET chunk == Upto(PrefixSentences, item.transcription) IN
    IF person.id \in item.people \/ Mentions(item.story, Needles(person))
    THEN IF item.transcription # <<>> THEN item.transcription ELSE item.story
    ELSE IF Mentions(chunk, Needles(person)) THEN chunk ELSE <<>>
Shortlist(items, person) ==
    LET given == SelectSeq(items, LAMBDA it : it.status = "catalogued" /\ ReviewText(it, person) # <<>>)
    IN  [i \in DOMAIN given |-> [id |-> given[i].id, text |-> ReviewText(given[i], person),
                                 draft |-> given[i].draft, people |-> given[i].people]]

-----------------------------------------------------------------------------
\* the read-only tools

\* the first few sentences that mention it, or the text's first few where none does
RelevantSentences(text, needles) ==
    Upto(MaxQuotes, IF Mentions(text, needles) THEN SelectSeq(text, LAMBDA s : HasAny(s, needles)) ELSE text)
ItemHit(item, needles) == [id |-> item.id, draft |-> item.draft, quotes |-> RelevantSentences(item.text, needles)]
Hits(items, needles) == [i \in DOMAIN items |-> ItemHit(items[i], needles)]
Attested(items, person) ==
    Hits(SelectSeq(items, LAMBDA it : person.id \in it.people \/ Mentions(it.text, Needles(person))), Needles(person))
SearchItems(items, query) ==
    Upto(MaxHits, Hits(SelectSeq(items, LAMBDA it : Mentions(it.text, {query})), {query}))

\* the ledger of the calls made: each call where it was first made, with its last result
FactsLedger(trace) ==
    LET Firsts == {i \in DOMAIN trace : trace[i].tool # "" /\ \A j \in 1..(i - 1) : trace[j].tool # trace[i].tool}
        LastOf(i) == CHOOSE j \in DOMAIN trace : /\ trace[j].tool = trace[i].tool
                                                 /\ \A k \in (j + 1)..Len(trace) : trace[k].tool # trace[i].tool
        order == SetToSortSeq(Firsts, LAMBDA i, j : i < j)
    IN  [n \in DOMAIN order |-> trace[LastOf(order[n])]]

-----------------------------------------------------------------------------
\* The line the family reads: what conflicts, before the steer back to the
\* claim, before what the documents show and the next question.
AnswerLine(verdict) ==
    IF verdict.contradiction THEN <<"which is right">>
    ELSE IF ~verdict.relevant THEN <<"back to the claim">>
    ELSE IF verdict.findings = <<>> /\ verdict.question = "" THEN <<"noted">>
    ELSE verdict.findings \o (IF verdict.question = "" THEN <<>> ELSE <<verdict.question>>)

-----------------------------------------------------------------------------
\* A catalogued item that attests the person - it lists them, or its verbatim
\* text names them within the chunk that is read - is found by the model's tools
\* in what it was given, marked as a draft exactly when its reading is
\* one, and a sentence that does not name the person is quoted only where
\* none does.  No item that is not catalogued is found.
EvidenceFound(items, person) ==
    LET hits == Attested(Shortlist(items, person), person)
        Listed(it) == person.id \in it.people /\ it.transcription \o it.story # <<>>
    IN  /\ \A i \in DOMAIN items :
            LET it == items[i] IN
            it.status = "catalogued" /\ (Listed(it) \/ Mentions(Upto(PrefixSentences, it.transcription), Needles(person)))
                => \E h \in DOMAIN hits : hits[h].id = it.id /\ hits[h].draft = it.draft
        /\ \A h \in DOMAIN hits : \E i \in DOMAIN items :
            /\ items[i].id = hits[h].id /\ items[i].status = "catalogued"
            /\ Mentions(hits[h].quotes, Needles(person)) =>
                 \A q \in DOMAIN hits[h].quotes : HasAny(hits[h].quotes[q], Needles(person))
        /\ \A h \in DOMAIN hits : hits[h] \in Range(SearchItems(Shortlist(items, person), person.first))
                                  \/ ~Mentions(hits[h].quotes, {person.first})

=============================================================================
