--------------------------- MODULE MCComponents ---------------------------
(* The components that share no state with each other: which of them a       *)
(* behaviour is about is chosen at the start, among Scenes, and the others   *)
(* stay as they begin.  Steps of components that share nothing commute, so   *)
(* their product would only repeat what each does alone.  A component that   *)
(* has proofs is instantiated with them, for MCComponents_proofs to cite.    *)
EXTENDS MCAlgorithms

CONSTANTS
    Scenes,          \* the components that a run is about
    p1, p2,          \* pages
    c1, c2, c3,      \* contents of page images
    b1, box, job,    \* a batch id, and the folders of a pile and of a scanner's job
    t1, t2,          \* threads of the server
    s1, s2,          \* state tokens
    r1, r2           \* people an import proposes

VARIABLE scene
VARIABLES page, jobs, work, up, cut, crashes, asks
VARIABLES folders, registry, copies, read, scanner, agent, edits, deaths, torn, standing
VARIABLES items, table, proposals, index, cast, teller, patched, failed, asked
VARIABLES narrator, pc, attempt, draft, clean, next, facts, date
VARIABLES now, oauth_states, device_grants, recent_sessions, google, caller, used, exchanged, failures
VARIABLES client, thinking, budget, retry, burned, calls, outcome
VARIABLES phase, left, got, alone, refused, doubts
VARIABLES people, session, reviewer, requests, answered
VARIABLES base, copy, writer, raced, numbered, racer

pages == <<page, jobs, work, up, cut, crashes, asks>>
intake == <<folders, registry, copies, read, scanner, agent, edits, deaths, torn, standing>>
story == <<items, table, proposals, index, cast, teller, patched, failed, asked>>
telling == <<narrator, pc, attempt, draft, clean, next, facts, date>>
signIn == <<now, oauth_states, device_grants, recent_sessions, google, caller, used, exchanged, failures>>
call == <<client, thinking, budget, retry, burned, calls, outcome>>
reading == <<phase, left, got, alone, refused, doubts>>
review == <<people, session, reviewer, requests, answered>>
store == <<base, copy, writer>>
race == <<raced, numbered, racer>>
vars == <<scene, pages, intake, story, telling, signIn, call, reading, review, store, race, sample>>

-----------------------------------------------------------------------------
\* two pages, one of them perhaps read long ago: it alone is turned on its left side, read again
\* and its rows drawn, or turned between two sides; or both pages are read again; the server dies
\* once; and of intake, a pile of two pages, of which the second is scanned again under its name,
\* or none, and one job of the scanner with the pages of the first scan
Pw == INSTANCE Pages_proofs WITH
    Pages <- {p1, p2}, OldReading <- {p1}, MaxDeaths <- 1, deaths <- crashes,
    Sessions <- {p1 :> {3, 4, 5} @@ p2 :> {}, p1 :> {1, 3} @@ p2 :> {}, p1 :> {4} @@ p2 :> {4}},
    Names <- {1, 2}, Contents <- {c1, c2, c3},
    Piles <- {<<"no page", "no page">>, <<c1, c2>>, <<c1, c3>>},
    Folders <- {box, job}, Agents <- {"worker", "cli"}, Home <- box, JobFolder <- job, JobPages <- <<c1, c2>>,
    Adopted <- {b1}, MaxEdits <- 1, MaxAgentDeaths <- 1, MaxCopies <- 0, agentDeaths <- deaths

\* accounts with an age, a birth, a date of each precision or none, and links of each kind
Link(kind, name, match) == [kind |-> kind, name |-> name, match |-> match]
Stated(kind, whose, text, value, claimed) ==
    [kind |-> kind, whose |-> whose, text |-> text, value |-> value, claimed |-> claimed, saysToday |-> FALSE]
Year(y) == [form |-> "year", year |-> y]
Born == [form |-> "day", year |-> 40]
Accounts == [
    extractions : {<<>>, <<Link("person", "dad", TRUE)>>, <<Link("person", "ann", TRUE)>>,
                   <<Link("item", "boat", FALSE), Link("person", "bo", TRUE)>>},
    facts : {<<>>, <<Stated("age", "narrator", "seven", 7, None)>>,
             <<Stated("age", "narrator", "zero", 0, None), Stated("event_date", "nobody", "today", Year(99), "exact")>>,
             <<Stated("dob", "narrator", "born 40", Born, "exact"), Stated("age", "narrator", "seven", 7, None)>>,
             <<Stated("dob", "other", "in 54", Born, "month")>>,
             <<Stated("event_date", "nobody", "in 54", Year(50), "month"), Stated("event_date", "nobody", "once", None, None)>>}]
Question(type, dateKind, dateWords, suggestions, about) ==
    [type |-> type, dateKind |-> dateKind, dateWords |-> dateWords, suggestions |-> suggestions, about |-> about]
Questions == {<<>>, <<Question("date", "event", TRUE, <<30, None, 50, 60>>, "other")>>,
              <<Question("date", "dob", TRUE, <<>>, "other"), Question("people", "dob", FALSE, <<None>>, "connection")>>,
              <<Question("date", "event", TRUE, <<30>>, "boat"), Question(None, None, FALSE, <<>>, "connection")>>}
Replies == "in 54" :> Year(54) @@ "who knows" :> [form |-> "words", year |-> None]
Tellers == {[known |-> FALSE, birth |-> None], [known |-> TRUE, birth |-> None], [known |-> TRUE, birth |-> 45]}

\* two threads of the server, for two logins or grants, which age in a step of the clock, and for
\* a story at most, told of somebody named or of "dad", whom the table may hold
Mentioned(name) == [name |-> name, match |-> None]
Sv == INSTANCE Server_proofs WITH
    Threads <- {t1, t2}, States <- {s1, s2}, MaxEntries <- 1, LoginAge <- 1, GrantAge <- 1, Grace <- 1, MaxClock <- 2,
    thread <- caller,
    Names <- {"ann", "dad"}, Kin <- {"dad"}, Table <- {[name |-> "dad", n |-> 1]},
    Tales <- {<<Mentioned("dad")>>, <<Mentioned("ann")>>}, Authors <- {"ann"}, MaxStories <- 1, MaxNamesakes <- 2,
    MaxStoryRequests <- 3

\* a page of three rows in two bands, and what a band may be answered with
Segment(rows, text) == [rows |-> rows, kind |-> "body", text |-> text, after |-> 0]
Injection(row, after) == [rows |-> <<row>>, kind |-> "injection", text |-> "my dear", after |-> after]
Segments == {Segment(<<1>>, "a line of it"), Segment(<<2>>, "a line of it"), Segment(<<2>>, ""), Segment(<<1, 2>>, "and so it ran"),
             Segment(<<3>>, "a line of it"), Segment(<<3>>, "and so it ran"), Segment(<<2>>, "my dear"),
             Segment(<<1, 3>>, "my dear"), Injection(3, 2), Injection(1, 0)}
BandAnswers == {None} \cup UNION {[1..n -> Segments] : n \in 1..2}

\* all that is asked of models: a review of two reviewers and two people to decide about, with a
\* model that digs once; the reading of the page; the telling; a call with two retries, and more
\* requests than it may send
Ask == INSTANCE Asking_proofs WITH
    Threads <- {t1, t2}, People <- {r1, r2}, MaxTurns <- 2, MaxToolCalls <- 1, MaxRequests <- 2, thread <- reviewer,
    Bands <- <<{1, 2}, {3}>>, Answers <- BandAnswers, NotJson <- None, Strings <- STRING,
    LongLines <- {"a line of it", "and so it ran"},
    Contents <- Accounts, Asks <- Questions, NamesSpoken <- {"dad", "ann", "boat"}, Kin <- {"dad"},
    Wordings <- Replies, Narrators <- Tellers, Words <- STRING, Today <- 99,
    MaxRetries <- 2, MaxCalls <- 8

\* a path of the store with one writer, and one with two that race
Vs == INSTANCE VersionedStore_proofs WITH Writers <- {t1}, Contents <- {c1, c2, c3}, MaxVersion <- 4
Vr == INSTANCE VersionedStore_proofs WITH Writers <- {t1, t2}, Contents <- {c1, c2}, MaxVersion <- 4,
                                          base <- raced, copy <- numbered, writer <- racer

-----------------------------------------------------------------------------
ASSUME ComponentsAssumption ==
    /\ Pw!PagesAssumption /\ Pw!In!IntakeAssumption /\ Sv!St!StoryAssumption /\ Ask!Tl!TellingAssumption
    /\ Sv!SignInAssumption /\ Ask!Mc!ModelCallAssumption /\ Ask!Pr!BandsAssumption /\ Ask!ReviewsAssumption
    /\ Vs!StoreAssumption /\ Vr!StoreAssumption /\ Nb!NumberingAssumption

-----------------------------------------------------------------------------
Is(name) == scene = name
Stay(others) == UNCHANGED <<scene, others>>

Init ==
    /\ scene \in Scenes
    /\ Pw!Init /\ (page[p1] # Pw!ReadPage(FALSE) => Is("pages") /\ asks[p2] = {})
                /\ (5 \notin asks[p1] => Is("pages"))
    /\ Pw!In!Init /\ folders[box] \in {Pw!In!Empty, <<c1, c2>>} /\ (Is("intake") \/ folders[box] = Pw!In!Empty)
    /\ Sv!St!Init
    /\ Ask!Tl!Init /\ (Is("telling") \/ ~narrator.known)
    /\ Sv!Init
    /\ Ask!Mc!Init /\ (Is("call") \/ (client = "vision"))
    /\ Ask!Pr!Init
    /\ Ask!Init
    /\ Vs!Init /\ Vr!Init
    /\ sample = [of |-> None, data |-> None]

PagesNext == Is("pages") /\ Pw!Next /\ Stay(<<intake, story, telling, signIn, call, reading, review, store, race, sample>>)
IntakeNext == Is("intake") /\ Pw!In!Next /\ Stay(<<pages, story, telling, signIn, call, reading, review, store, race, sample>>)
StoryNext == Is("story") /\ Sv!St!Next /\ Stay(<<pages, intake, telling, signIn, call, reading, review, store, race, sample>>)
TellingNext == Is("telling") /\ Ask!Tl!Next /\ Stay(<<pages, intake, story, signIn, call, reading, review, store, race, sample>>)
SignInNext == Is("sign-in") /\ Sv!Next /\ Stay(<<pages, intake, story, telling, call, reading, review, store, race, sample>>)
CallNext == Is("call") /\ Ask!Mc!Next /\ Stay(<<pages, intake, story, telling, signIn, reading, review, store, race, sample>>)
ReadingNext == Is("reading") /\ Ask!Pr!Next /\ Stay(<<pages, intake, story, telling, signIn, call, review, store, race, sample>>)
ReviewNext == Is("review") /\ Ask!Next /\ Stay(<<pages, intake, story, telling, signIn, call, reading, store, race, sample>>)
StoreNext == Is("store") /\ Vs!Next /\ Stay(<<pages, intake, story, telling, signIn, call, reading, review, race, sample>>)
RaceNext == Is("race") /\ Vr!Next /\ Stay(<<pages, intake, story, telling, signIn, call, reading, review, store, sample>>)
SampleNext == Is("samples") /\ TakeSample /\ Stay(<<pages, intake, story, telling, signIn, call, reading, review, store, race>>)
Next ==
    \/ PagesNext \/ IntakeNext \/ StoryNext \/ TellingNext \/ SignInNext \/ CallNext \/ ReadingNext \/ ReviewNext
    \/ StoreNext \/ RaceNext \/ SampleNext

\* the fairness of PageWork and Intake, while the run is about them
Fairness ==
    /\ WF_pages(Is("pages") /\ Pw!Restart) /\ \A p \in {p1, p2} : WF_pages(Is("pages") /\ Pw!Thread(p))
    /\ WF_intake(Is("intake") /\ Pw!In!Step) /\ \A f \in {box, job} : SF_intake(Is("intake") /\ Pw!In!Hash(f))

Spec == Init /\ [][Next]_vars /\ Fairness

-----------------------------------------------------------------------------
\* The state of every component stays in its types.
TypeOK ==
    /\ Is("pages") => Pw!TypeOK
    /\ Is("intake") => Pw!In!TypeOK
    /\ Is("story") => Sv!St!TypeOK
    /\ Is("telling") => Ask!Tl!TypeOK
    /\ Is("sign-in") => Sv!TypeOK
    /\ Is("call") => Ask!Mc!TypeOK
    /\ Is("reading") => Ask!Pr!TypeOK
    /\ Is("review") => Ask!TypeOK
    /\ Is("store") => Vs!TypeOK
    /\ Is("race") => Vr!TypeOK

\* What is shown of a page worked on alone describes its image as it is turned: see PageWork.
NothingStaleSilently == Is("pages") => Pw!NothingStaleSilently
\* A rotation that died is completed before the next computes its turn: see PageWork.
RecoveredBoxesFit == Is("pages") => Pw!RecoveredBoxesFit
\* A re-read comes to an end: see PageWork.
TranscribingEnds == Is("pages") => Pw!TranscribingEnds
\* A job's entry is lost only to an older copy of the jobs file: see PageWork.
JobLostOnlyToStaleCopy == Pw!JobLostOnlyToStaleCopy

\* Work whose images changed under it is flagged, whatever process died: see Intake.
StaleWorkFlagged == Is("intake") => Pw!In!StaleWorkFlagged
\* Adoption keeps the work of an agreed pile: see Intake.
ConfirmedWorkKept == Pw!In!ConfirmedWorkKept
\* Every pile is on record at its place again and again: see Intake.
PileRegistered == Is("intake") => Pw!In!PileRegistered

\* The patched index is the rebuilt one, unless requests overlapped or were cut short: see Story.
PatchedAsRebuilt == Is("story") => Sv!St!PatchedAsRebuilt
\* No served link dangles, and in the archive one does only for a reason: see Story.
LinksResolve == Is("story") => Sv!St!ServedLinksResolve /\ Sv!St!DanglingLinkExplained

\* The narrator is shown only what the account carries, and asked when it says no date: see Telling.
AssessmentGrounded == Is("telling") => Ask!Tl!OnlyGroundedIsOffered /\ Ask!Tl!DatedOrAsked
\* No answer changes a date the account states: see Telling.
StatedDatesKept == Ask!Tl!StatedDatesKept

\* A login's code is exchanged at most once: see SignIn.
CodeExchangedOnce == Is("sign-in") => Sv!CodeExchangedOnce
\* A poll whose session can be reissued does not fail: see SignIn.
LostAnswerIsReissued == Is("sign-in") => Sv!LostAnswerIsReissued

\* No doubtful row is believed on the bands' word: see PageReading.
DoubtShownAlone == Is("reading") => Ask!Pr!DoubtShownAlone

\* A reviewer's line is recorded once, before the model is asked: see Reviews.
WordsKept == Is("review") => Ask!WordsKept
\* A review with nobody left to decide is closed: see Reviews.
ReviewCloses == Is("review") => Ask!ReviewCloses

\* One writer's write() implements the version log, wherever it dies: see VersionedStore.
ImplementsLog == Vs!ImplementsLog
\* One writer's numbered copies never change: see VersionedStore.
CopiesNeverChange == Vs!CopiesNeverChange
\* Writers that race leave some version of a path that was written: see VersionedStore.
SomeVersionStays == Vr!SomeVersionStays
=============================================================================
