----------------------------- MODULE Telling -----------------------------
(* From an account to a dated story (tools/memory.py): the model assesses  *)
(* the account, rules review the assessment and send it back at most twice, *)
(* the narrator answers or skips the questions, the answers are resolved    *)
(* into dates, and the story is dated or refused.                           *)
EXTENDS Integers, Sequences, FiniteSets, FiniteSetsExt, Functions

CONSTANTS
    Contents,    \* what the first pass may answer: [extractions, facts]
    Asks,        \* what the second pass may answer: sequences of questions
    NamesSpoken, \* the names the account speaks
    Kin,         \* the bare kinship terms
    Wordings,    \* what the narrator may answer to a date question: text |-> the phrase in it
    Narrators,   \* who may tell: known to the standing knowledge or not, the year of birth known there or None
    Words,       \* what may be written: a name, a fact's text, a kind
    Today,       \* the year of the telling
    None

MaxAttempts == 3
MaxQuestions == 5
MaxSuggestions == 3
MaxAge == 110

\* what a model or a person writes: a phrase, with no year when no date is in it, and
\* extractions, facts and questions, of which a fact states an age or a phrase, or a date
\* once it is read
Phrase == [form : {"day", "month", "year", "words"}, year : Int \cup {None}]
Extraction == [kind : Words, name : Words, match : BOOLEAN]
Told(kinds, values) == [kind : kinds, whose : {"narrator", "other", "nobody"}, text : Words, value : values,
                        claimed : Words \cup {None}, saysToday : BOOLEAN]
StatedFact(f) == IF f.kind = "age" THEN f \in Told({"age"}, Int)
                                   ELSE f \in Told({"dob", "event_date"}, Phrase \cup {None})
Date == [year : Int, precision : {"exact", "month", "year", "approx"}]
AQuestion(suggestions) == [type : {"date", "people", None}, dateKind : Words \cup {None}, dateWords : BOOLEAN,
                           suggestions : suggestions, about : Words]

\* what the constants are (assumed where the module is instantiated)
TellingAssumption ==
    /\ \A n \in Narrators : n.birth \in Int \cup {None} /\ (~n.known => n.birth = None)
    /\ None \notin Date
    /\ \A c \in Contents : /\ c.extractions \in Seq(Extraction) /\ c.facts \in Seq(Range(c.facts))
                          /\ \A f \in Range(c.facts) : StatedFact(f)
    /\ Asks \subseteq Seq(AQuestion(Seq(Int \cup {None})))
    /\ \A text \in DOMAIN Wordings : text \in Words /\ Wordings[text] \in Phrase

VARIABLES
    narrator, \* who tells
    pc,       \* where the telling is
    attempt,  \* the attempts at an assessment before this one
    draft,    \* the assessment
    clean,    \* did the review pass it
    next,     \* the question the narrator is at
    facts,    \* the facts the story will be saved with
    date      \* the date the story was saved with

vars == <<narrator, pc, attempt, draft, clean, next, facts, date>>

-----------------------------------------------------------------------------
\* reading what a model or a person wrote

Demoted(phrase, claimed) ==
    LET stated == IF phrase.form \in {"day", "month"} THEN "month" ELSE "year" IN
    CASE claimed = "exact" /\ phrase.form = "day" -> "exact"
      [] claimed \in {"exact", "month"} /\ ~(claimed = "exact" /\ phrase.form = "day") -> stated
      [] claimed \notin {"exact", "month"} -> IF claimed = "approx" THEN "approx" ELSE "year"

Parsed(phrase) == phrase # None /\ phrase.year # None
AssertedDate(phrase, claimed) ==
    IF ~Parsed(phrase) THEN None ELSE [year |-> phrase.year, precision |-> Demoted(phrase, claimed)]

PlausibleAge(age) == 0 < age /\ age < MaxAge

\* a fact as the model states it, with its value validated; an age beyond belief is dropped, which
\* here leaves a fact of no kind in its place
Fact(raw) == IF raw.kind # "age" THEN [raw EXCEPT !.value = AssertedDate(raw.value, raw.claimed)]
             ELSE IF PlausibleAge(raw.value) THEN raw ELSE [raw EXCEPT !.kind = "dropped", !.value = None]
FactsFrom(raws) == [i \in DOMAIN raws |-> Fact(raws[i])]

AtMost(seq, n) == SubSeq(seq, 1, Min({n, Len(seq)}))

\* only a date question has a date kind; three suggestions at most, whose order does not matter here
Question(raw) == [raw EXCEPT !.dateKind = IF raw.type = "date" THEN @ ELSE None,
                             !.suggestions = Range(AtMost(@, MaxSuggestions))]
QuestionsFrom(raws) == LET few == AtMost(raws, MaxQuestions) IN [i \in DOMAIN few |-> Question(few[i])]

Assembled(content, asks) ==
    [extractions |-> content.extractions, facts |-> FactsFrom(content.facts), questions |-> QuestionsFrom(asks)]

-----------------------------------------------------------------------------
\* the facts of an assessment

Of(fs, kind) == {fs[i] : i \in {j \in DOMAIN fs : fs[j].kind = kind}}
Dated(fs, kind) == {f \in Of(fs, kind) : f.value # None}
Ages(fs) == {f.value : f \in Of(fs, "age")}
Pending(fact) == fact.kind \in {"dob", "event_date"} /\ fact.value = None

Asked(a) == Range(a.questions)
AsksForADate(q) == q.type = "date" \/ q.dateWords
AsksForBirth(q) == q.type = "date" /\ q.dateKind = "dob"
AsksForTheEvent(q) == q.type = "date" /\ q.dateKind = "event"
DateAsked(a) == \E q \in Asked(a) : AsksForADate(q)
BirthKnown(a) == narrator.birth # None \/ Dated(a.facts, "dob") # {}

IsKinship(ex) == ex.kind = "person" /\ ex.name \in Kin
Ungrounded(ex) == ex.match /\ ex.kind # "theme" /\ ex.name \notin NamesSpoken
NewItem(ex) == ex.kind = "item" /\ ~ex.match

\* the rules a review checks
NarratorUnasked(a) == ~narrator.known /\ ~\E q \in Asked(a) : q.about = "connection"
AgeUnpaired(a) == Ages(a.facts) # {} /\ (BirthKnown(a) <=> DateAsked(a))
MissingEventDate(a) == ~\E q \in Asked(a) : AsksForTheEvent(q)
FabricatedToday(f) == f.value.year = Today /\ ~f.saysToday
EventDateWithAge(a) ==  \* variant: an age is enough to drop the date question
    LET events == Dated(a.facts, "event_date") IN
    IF events # {} THEN \E f \in events : FabricatedToday(f)
    ELSE Ages(a.facts) = {} /\ MissingEventDate(a)
EventDateRules(a) ==
    LET events == Dated(a.facts, "event_date") IN
    IF events # {} THEN \E f \in events : FabricatedToday(f)
    ELSE ~(Ages(a.facts) # {} /\ BirthKnown(a)) /\ MissingEventDate(a)
NewItemUnasked(a) ==
    LET new == {ex \in Range(a.extractions) : NewItem(ex)} IN
    new # {} /\ ~\E ex \in new, q \in Asked(a) : q.about = ex.name
UngroundedLink(a) == \E ex \in Range(a.extractions) : Ungrounded(ex)

Violated(a) ==
    NarratorUnasked(a) \/ AgeUnpaired(a) \/ EventDateRules(a) \/ NewItemUnasked(a) \/ UngroundedLink(a)

-----------------------------------------------------------------------------
\* the guards an accepted assessment passes through, reviewed or not

\* the first dated birth fact of nobody or of the narrator, else the standing knowledge's
Own(fs) == {i \in DOMAIN fs : fs[i].kind = "dob" /\ fs[i].value # None /\ fs[i].whose # "other"}
NarratorBirth(a) == IF Own(a.facts) = {} THEN narrator.birth ELSE a.facts[Min(Own(a.facts))].value.year

Plausible(q, birth) ==
    IF q.type # "date" \/ AsksForBirth(q) THEN q
    ELSE [q EXCEPT !.suggestions = {s \in @ : s = None \/ s >= birth}]
FilterSuggestions(a) ==
    LET birth == NarratorBirth(a) IN
    IF birth = None THEN a ELSE [a EXCEPT !.questions = [i \in DOMAIN @ |-> Plausible(@[i], birth)]]

Unmatched(ex) == [ex EXCEPT !.match = FALSE]
StripMatches(a) ==
    [a EXCEPT !.extractions = [i \in DOMAIN @ |-> IF IsKinship(@[i]) \/ Ungrounded(@[i]) THEN Unmatched(@[i]) ELSE @[i]]]
Unguarded(a) == FilterSuggestions(a)  \* variant: the matches are left to the review
Guarded(a) == StripMatches(FilterSuggestions(a))

-----------------------------------------------------------------------------
\* resolving the narrator's answers, and dating the story

\* the model's answers, text |-> the phrase it makes of it
AnswerFor(answers, text) == IF text \in DOMAIN answers THEN AssertedDate(answers[text], "exact") ELSE None
MergeAll(fs, answers) ==  \* variant: an answer replaces what the account states in the same words
    [i \in DOMAIN fs |-> IF fs[i].kind # "age" /\ AnswerFor(answers, fs[i].text) # None
                         THEN [fs[i] EXCEPT !.value = AnswerFor(answers, fs[i].text)] ELSE fs[i]]
Merge(fs, answers) ==
    [i \in DOMAIN fs |-> IF Pending(fs[i]) /\ AnswerFor(answers, fs[i].text) # None
                         THEN [fs[i] EXCEPT !.value = AnswerFor(answers, fs[i].text)] ELSE fs[i]]

DatedAt(fs, kind) == {i \in DOMAIN fs : fs[i].kind = kind /\ fs[i].value # None}
Derivable(fs) == Dated(fs, "event_date") # {} \/ (Dated(fs, "dob") # {} /\ Ages(fs) # {})
DeriveEventYear(fs) ==
    IF DatedAt(fs, "event_date") # {} THEN fs[Max(DatedAt(fs, "event_date"))].value
    ELSE [year |-> fs[Max(DatedAt(fs, "dob"))].value.year + Max(Ages(fs)), precision |-> "approx"]

-----------------------------------------------------------------------------
Nothing == [extractions |-> <<>>, facts |-> <<>>, questions |-> <<>>]

Init ==
    /\ narrator \in Narrators
    /\ pc = "assess" /\ attempt = 0 /\ draft = Nothing /\ clean = FALSE
    /\ next = 1 /\ facts = <<>> /\ date = None

\* one attempt: both passes answer; the last attempt is accepted as it is
Assess ==
    /\ pc = "assess"
    /\ \E content \in Contents, asks \in Asks :
        LET a == Assembled(content, asks) IN
        IF attempt = MaxAttempts - 1
        THEN /\ draft' = Guarded(a) /\ facts' = draft'.facts /\ pc' = "narrator"
        ELSE /\ draft' = a /\ facts' = facts /\ pc' = "review"
    /\ UNCHANGED <<narrator, attempt, clean, next, date>>

\* a client error, or an answer of the wrong shape, fails the request; so does a
\* network error of the reviewer, which is no client error
AssessFails == pc \in {"assess", "review"} /\ pc' = "failed" /\ UNCHANGED <<narrator, attempt, draft, clean, next, facts, date>>

\* the rules first, then the model reviewer, whose own failure counts as no violation
Review ==
    /\ pc = "review"
    /\ \E reviewerObjects \in BOOLEAN :
        IF Violated(draft) \/ reviewerObjects
        THEN /\ pc' = "assess" /\ attempt' = attempt + 1
             /\ UNCHANGED <<narrator, draft, clean, facts>>
        ELSE /\ draft' = Guarded(draft) /\ facts' = draft'.facts /\ clean' = TRUE
             /\ pc' = "narrator" /\ UNCHANGED attempt
    /\ UNCHANGED <<narrator, next, date>>

\* the narrator answers a question; the answer to a date question becomes a pending fact
AnswerQuestion ==
    /\ pc = "narrator" /\ next <= Len(draft.questions)
    /\ LET q == draft.questions[next] IN
        \E text \in DOMAIN Wordings :
        facts' = IF q.type # "date" THEN facts
                 ELSE Append(facts, [kind |-> IF q.dateKind = "dob" THEN "dob" ELSE "event_date",
                                     whose |-> "nobody", text |-> text, value |-> None, claimed |-> None,
                                     saysToday |-> FALSE])
    /\ next' = next + 1 /\ UNCHANGED <<narrator, pc, attempt, draft, clean, date>>
SkipQuestion ==
    /\ pc = "narrator" /\ next <= Len(draft.questions)
    /\ next' = next + 1 /\ UNCHANGED <<narrator, pc, attempt, draft, clean, facts, date>>

\* POST save: the model dates the pending answers, or none of them (no client, an error, no list)
Resolve ==
    /\ pc = "narrator" /\ next > Len(draft.questions)
    /\ \E answers \in {<<>>, Wordings} :
        facts' = IF \E i \in DOMAIN facts : Pending(facts[i]) THEN Merge(facts, answers) ELSE facts
    /\ pc' = "save" /\ UNCHANGED <<narrator, attempt, draft, clean, next, date>>

\* a story without an events date is refused
Save ==
    /\ pc = "save"
    /\ IF Derivable(facts) THEN /\ date' = DeriveEventYear(facts) /\ pc' = "saved"
                           ELSE /\ date' = date /\ pc' = "refused"
    /\ UNCHANGED <<narrator, attempt, draft, clean, next, facts>>

Next == Assess \/ AssessFails \/ Review \/ AnswerQuestion \/ SkipQuestion \/ Resolve \/ Save

Spec == Init /\ [][Next]_vars

-----------------------------------------------------------------------------
Places == {"assess", "review", "narrator", "save", "saved", "refused", "failed"}
\* The telling is at a known place, an accepted assessment has at most the
\* questions and suggestions a narrator is asked, and a date is a dated fact.
TypeOK ==
    /\ narrator \in Narrators /\ pc \in Places /\ attempt \in 0..(MaxAttempts - 1) /\ clean \in BOOLEAN
    /\ next \in 1..(MaxQuestions + 1)
    /\ Len(draft.questions) <= MaxQuestions
    /\ \A q \in Asked(draft) : Cardinality(q.suggestions) <= MaxSuggestions
    /\ \A f \in Range(facts) : f.kind # "age" => f.value = None \/ f.value \in Date
    /\ date = None \/ date \in Date
    /\ (date # None <=> pc = "saved")

Accepted == pc \in {"narrator", "save", "saved", "refused"}

\* What the narrator is shown never links a kinship term, nor a record the
\* account does not name, nor offers a year before the narrator's birth,
\* even when the last attempt was accepted without a review.
OnlyGroundedIsOffered ==
    Accepted =>
        /\ \A ex \in Range(draft.extractions) : ex.match => ~IsKinship(ex) /\ (ex.kind = "theme" \/ ex.name \in NamesSpoken)
        /\ NarratorBirth(draft) # None =>
            \A q \in Asked(draft) : AsksForTheEvent(q) =>
                \A s \in q.suggestions : s # None => s >= NarratorBirth(draft)

\* An assessment the review passed either dates the story by what the
\* account states or still asks when it happened.  The exception is the
\* code's: with the birth known only from the standing knowledge the review
\* counts the year as computable, and the save does not compute it.
DatedOrAsked ==
    Accepted /\ clean =>
        \/ Derivable(draft.facts)
        \/ \E q \in Asked(draft) : AsksForTheEvent(q)
        \/ narrator.birth # None /\ Ages(draft.facts) # {}

\* Resolving the narrator's answers never changes a date the account states,
\* although answers are matched to facts by their words alone.
StatedDatesKept ==
    [][\A i \in DOMAIN facts : pc = "narrator" /\ pc' = "save" /\ facts[i].value # None => facts'[i] = facts[i]]_vars

=============================================================================
