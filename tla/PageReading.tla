--------------------------- MODULE PageReading ---------------------------
(* A page of handwriting read by the vision model                          *)
(* (pipeline/transcribe/transcripts.py, document/transcript.py): one call   *)
(* for each band of numbered rows, one more for each row the bands left     *)
(* blank or read twice, the page's answer judged by the contract of         *)
(* Transcript.from_answer, and the model asked for its own doubts            *)
(* (pipeline/model/vlm.py, selfreport_words).  A text is "" or one line of  *)
(* writing; texts that differ in case and spacing only are one text.        *)
EXTENDS Integers, Sequences, FiniteSets, FiniteSetsExt, Functions

CONSTANTS
    Bands,      \* the rows of each band, a sequence of sets
    Answers,    \* what the model may answer for a band or a row: NotJson, or a sequence of segments
    NotJson,
    Strings,    \* what the model may write
    LongLines   \* the texts of four words and more

Kinds == {"body", "injection", "marginalia"}
Rows == UNION Range(Bands)
Within(n, top) == n \in 1..top

\* a run of rows as the model answers it; after is the row an injection belongs to, 0 for none
Segment == [rows : Seq(Int), kind : Strings, text : Strings, after : Int]

\* what the constants are (assumed where the module is instantiated)
BandsAssumption ==
    /\ Bands \in Seq(SUBSET Rows) /\ {} \notin Range(Bands)
    /\ IsFiniteSet(Rows) /\ Rows = 1..Cardinality(Rows) /\ Rows # {}
    /\ Kinds \cup LongLines \cup {""} \subseteq Strings
    /\ Answers \ {NotJson} \subseteq Seq(Segment) /\ NotJson \notin Seq(Segment)
    /\ \A i, j \in DOMAIN Bands : i # j => Bands[i] \cap Bands[j] = {}

VARIABLES
    phase,   \* "bands", "alone", "doubts", "doubts again", "done" or "failed"
    left,    \* the bands, or the rows to show alone, not yet asked about
    got,     \* the transcripts of the bands that kept the contract
    alone,   \* the rows shown alone, and what they read
    refused, \* did the page's answer break the contract
    doubts   \* the lines the model doubts

vars == <<phase, left, got, alone, refused, doubts>>

-----------------------------------------------------------------------------
\* the contract

\* a segment names rows of the page, each once, and points at a row exactly when it is an injection
ValidSegment(s, top) ==
    /\ s.rows # <<>> /\ s.kind \in Kinds
    /\ \A i \in DOMAIN s.rows : Within(s.rows[i], top)
    /\ IsInjective(s.rows)
    /\ IF s.kind = "injection" THEN Within(s.after, top) ELSE s.after = 0

Covers(s, row) == row \in Range(s.rows)
Repeats(segments) ==
    \E i, j \in DOMAIN segments : i # j /\ segments[i].text = segments[j].text /\ segments[i].text \in LongLines

\* any row up to the highest may be named: a band's answer may claim a row of a band above it
FromAnswer(answer, wanted) ==
    /\ answer # NotJson
    /\ \A i \in DOMAIN answer : ValidSegment(answer[i], Max(wanted))
    /\ \A i, j \in DOMAIN answer : i # j => Range(answer[i].rows) \cap Range(answer[j].rows) = {}
    /\ \A row \in wanted : \E i \in DOMAIN answer : Covers(answer[i], row)
    /\ ~Repeats(answer)

\* the first transcript that covers a row
Unread == [rows |-> <<>>, kind |-> "body", text |-> "", after |-> 0]
OfRow(transcripts, row) ==
    LET covering == {i \in DOMAIN transcripts : Covers(transcripts[i], row)}
    IN  IF covering = {} THEN Unread ELSE transcripts[Min(covering)]
TextOf(transcripts, row) == OfRow(transcripts, row).text

\* the rows to show alone: blank, or the same long line as a row before
Blank(transcripts) == {row \in Rows : TextOf(transcripts, row) = ""}
Doubled(transcripts) ==
    {row \in Rows : /\ TextOf(transcripts, row) \in LongLines
                    /\ \E above \in Rows : above < row /\ TextOf(transcripts, above) = TextOf(transcripts, row)}
SecondLookAtBlank(transcripts) == Blank(transcripts)  \* variant: the doubled lines are believed
SecondLook(transcripts) == Blank(transcripts) \cup Doubled(transcripts)

\* the page's answer: a row that was shown alone is body text with what it read there
PageAnswer ==
    [row \in Rows |->
        IF row \in DOMAIN alone THEN [Unread EXCEPT !.rows = <<row>>, !.text = alone[row]]
        ELSE [OfRow(got, row) EXCEPT !.rows = <<row>>]]

-----------------------------------------------------------------------------
Init ==
    /\ phase = "bands"
    /\ left = DOMAIN Bands
    /\ got = <<>>
    /\ alone = [row \in {} |-> ""]
    /\ refused = FALSE
    /\ doubts = {}

\* from top to bottom; a band whose answer is refused adds nothing
ReadBand(answer) ==
    LET band == Min(left)
        read == IF FromAnswer(answer, Bands[band]) THEN got \o answer ELSE got
    IN  /\ phase = "bands"
        /\ got' = read
        /\ IF left = {band}
           THEN phase' = "alone" /\ left' = SecondLook(read)
           ELSE phase' = "bands" /\ left' = left \ {band}
        /\ UNCHANGED <<alone, refused, doubts>>

\* what counts is the text of the answer's first segment; an answer out of contract ends the pass
ReadAlone(answer) ==
    LET row == Min(left) IN
    /\ phase = "alone" /\ left # {}
    /\ IF FromAnswer(answer, {row})
       THEN /\ alone' = [r \in DOMAIN alone \cup {row} |-> IF r = row THEN answer[1].text ELSE alone[r]]
            /\ phase' = "alone" /\ left' = left \ {row}
       ELSE phase' = "failed" /\ UNCHANGED <<alone, left>>
    /\ UNCHANGED <<got, refused, doubts>>

\* the call about a band or a row raises, which ends the pass with all that was read
CallFails ==
    /\ phase \in {"bands", "alone"} /\ left # {}
    /\ phase' = "failed"
    /\ UNCHANGED <<left, got, alone, refused, doubts>>

Judge ==
    /\ phase = "alone" /\ left = {}
    /\ refused' = ~FromAnswer(PageAnswer, Rows)
    /\ phase' = "doubts"
    /\ UNCHANGED <<left, got, alone, doubts>>

\* the model is asked for its doubts twice at most, and only what names a line of the page is kept
Doubt(named) ==
    /\ phase \in {"doubts", "doubts again"}
    /\ doubts' = named /\ phase' = "done"
    /\ UNCHANGED <<left, got, alone, refused>>

NoDoubts ==
    /\ phase \in {"doubts", "doubts again"}
    /\ phase' = IF phase = "doubts" THEN "doubts again" ELSE "done"
    /\ UNCHANGED <<left, got, alone, refused, doubts>>

Next ==
    \/ \E answer \in Answers : ReadBand(answer) \/ ReadAlone(answer)
    \/ CallFails \/ Judge \/ NoDoubts
    \/ \E named \in {{}, {Min(Rows)}} : Doubt(named)

Spec == Init /\ [][Next]_vars /\ WF_vars(Next)

-----------------------------------------------------------------------------
TypeOK ==
    /\ phase \in {"bands", "alone", "doubts", "doubts again", "done", "failed"}
    /\ left \subseteq (Rows \cup DOMAIN Bands) /\ DOMAIN alone \subseteq Rows
    /\ refused \in BOOLEAN /\ doubts \subseteq Rows

\* No doubtful row of a page that was read is believed on the bands' word (transcripts.py, "exactly
\* the rows to show alone"): a blank row was shown alone, a page is refused only when a
\* line comes back twice although one of its two rows was shown alone, and else no long line
\* stands in two rows.
DoubtShownAlone ==
    phase \in {"doubts", "doubts again", "done"} =>
        /\ \A row \in Rows : PageAnswer[row].text = "" => row \in DOMAIN alone
        /\ refused <=> \E a, b \in Rows : /\ a # b /\ a \in DOMAIN alone
                                          /\ PageAnswer[a].text = PageAnswer[b].text
                                          /\ PageAnswer[a].text \in LongLines
=============================================================================
