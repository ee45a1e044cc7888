---------------------------- MODULE PageWork ----------------------------
(* A page's image and the readings made from it, while a reviewer turns   *)
(* the page, draws its rows and has it read again (pipeline/api/sync.py,  *)
(* the page routes of pipeline/api/server.py).  A file is modelled by its *)
(* frame: the orientation, in quarter turns, of the image it describes.   *)
(* The server's threads run one file operation at a time and all die with *)
(* the process; a page has one thread at a time (the surface greys a page *)
(* that is being read), the pages share one jobs file.                    *)
EXTENDS Integers, Sequences

CONSTANTS
    Pages,      \* the pages of the batch
    Sessions,   \* what reviewers may ask for: each page's rotations, Again and Drawing
    OldReading, \* the pages whose reading may be a strip-era layout file
    MaxDeaths   \* bound on the server's deaths

\* what the constants are (assumed where the module is instantiated)
PagesAssumption ==
    /\ Sessions \subseteq [Pages -> SUBSET (0..5)]
    /\ OldReading \subseteq Pages
    /\ MaxDeaths \in Nat

VARIABLES page, jobs, work, up, cut, deaths, asks

vars == <<page, jobs, work, up, cut, deaths, asks>>

Again == 4                  \* the page read again
Drawing == 5                \* its rows drawn
Quarter == 0..3
Skewed == 4                 \* boxes that no turn of the image explains
Absent == 5                 \* no such file
Frame == Quarter \cup {Skewed, Absent}

\* rot: the rotation the reading records; at: the frame of its boxes;
\* tall: the frame whose width and height it records (only the parity counts)
Reading == [rot: Quarter, at: Frame, tall: {0, 1}]
NoReading == [rot |-> 0, at |-> Absent, tall |-> 0]
FreshReading(f) == [rot |-> 0, at |-> f, tall |-> f % 2]
Journal == [from: Quarter, to: Quarter, swapped: BOOLEAN]
NoJournal == [from |-> 0, to |-> 0, swapped |-> FALSE]

\* pipeline/artefacts.py: the files of one page
Files == [image: Quarter, rows: Reading, layout: Reading, words: Frame, text: Frame,
          drawn: Frame, adjusted: Frame, journal: Journal]

\* a thread at one page: its reading and words in memory, its copy of the jobs file
JobState == {"none", "transcribing", "failed"}
NoCopy == [p \in Pages |-> "unread"]
Idle == [pc |-> "idle", want |-> 0, held |-> NoReading, words |-> Absent, strip |-> FALSE, left |-> 0,
         copy |-> NoCopy]
Cuts == {"no", "once", "lost"}   \* history: see CutBy
Steps == {"idle", "load", "unlink", "turn", "image", "flag", "reading", "words", "end", "mark", "drop", "read",
          "fresh words", "fresh text", "restore", "sidecars", "clear", "fail", "adjust"}
Work == [pc: Steps, want: Quarter, held: Reading, words: Frame, strip: BOOLEAN, left: 0..5,
         copy: {NoCopy} \cup [Pages -> JobState]]

TypeOK ==
    /\ page \in [Pages -> Files]
    /\ jobs \in [Pages -> JobState]
    /\ work \in [Pages -> Work]
    /\ up \in BOOLEAN /\ deaths \in 0..MaxDeaths
    /\ cut \in [Pages -> Cuts]
    /\ asks \in Sessions

ReadPage(old) ==
    [image |-> 0, text |-> 0, drawn |-> Absent, adjusted |-> Absent, journal |-> NoJournal,
     rows |-> IF old THEN NoReading ELSE FreshReading(0),
     words |-> IF old THEN Absent ELSE 0,
     layout |-> IF old THEN FreshReading(0) ELSE NoReading]

Init ==
    /\ \E old \in SUBSET OldReading : page = [p \in Pages |-> ReadPage(p \in old)]
    /\ asks \in Sessions
    /\ jobs = [p \in Pages |-> "none"]
    /\ work = [p \in Pages |-> Idle]
    /\ up = TRUE
    /\ cut = [p \in Pages |-> "no"]
    /\ deaths = 0

-----------------------------------------------------------------------------
\* where a page has got to, read from its files

Checked(f) == f.drawn # Absent /\ f.adjusted # Absent

PageStatus(f) ==
    IF Checked(f) THEN "rows_adjusted"
    ELSE IF f.rows # NoReading THEN "rows_pending"
    ELSE IF f.words # Absent THEN "words" ELSE "oriented"

PagesPending(ps) == {p \in ps : PageStatus(page[p]) = "rows_pending"}

\* the pages of a document that have text and are past the row check
PagesReady(ps) == {p \in ps : page[p].text # Absent /\ PageStatus(page[p]) = "rows_adjusted"}
DocumentReadiness(ps) ==
    LET past == {p \in ps : PageStatus(page[p]) = "rows_adjusted"}
    IN  IF past = {} THEN "before" ELSE IF past = ps THEN "ready" ELSE "partial"

\* the boxes the review draws over the page: the rows, else the layout
Shown(f) == IF f.rows # NoReading THEN f.rows ELSE f.layout

-----------------------------------------------------------------------------
At(p, pc) == up /\ work[p].pc = pc
Goto(p, pc) == work' = [work EXCEPT ![p].pc = pc]
Put(p, file, value) == page' = [page EXCEPT ![p][file] = value]

Turn(at, k) == (at + k) % 4
Advance(at, tall, k) ==     \* boxes turned k quarters within the recorded width and height
    IF at = Skewed \/ (k # 0 /\ tall # at % 2) THEN Skewed ELSE Turn(at, k)

\* POST rotate: refused without a reading, else any crashed rotation is completed first
Request(p, q) ==
    /\ At(p, "idle") /\ jobs[p] # "transcribing" /\ Shown(page[p]) # NoReading
    /\ work' = [work EXCEPT ![p] = [Idle EXCEPT !.pc = "load", !.want = q,
                                                !.strip = page[p].rows = NoReading]]
    /\ UNCHANGED <<page, jobs, up, cut, deaths, asks>>

\* the journal's recorded intent against the reading's recorded rotation
Stale(p) == page[p].journal # NoJournal /\ Shown(page[p]).rot = page[p].journal.from

KeepReading(p) ==
    /\ At(p, "load") /\ ~Stale(p)
    /\ work' = [work EXCEPT ![p].pc = "turn", ![p].held = Shown(page[p])]
    /\ UNCHANGED <<page, jobs, up, cut, deaths, asks>>

DropJournal(p) ==
    /\ At(p, "load") /\ Stale(p) /\ ~page[p].journal.swapped
    /\ Put(p, "journal", NoJournal)
    /\ work' = [work EXCEPT ![p].pc = "turn", ![p].held = Shown(page[p])]
    /\ UNCHANGED <<jobs, up, cut, deaths, asks>>

RecoveredBy(p, k) ==
    LET f == page[p]
        r == [f.rows EXCEPT !.rot = f.journal.to, !.at = Advance(f.rows.at, f.rows.tall, k)]
    IN  /\ At(p, "load") /\ Stale(p) /\ f.journal.swapped /\ ~work[p].strip
        /\ Put(p, "rows", r)
        /\ work' = [work EXCEPT ![p].pc = "unlink", ![p].held = r]
        /\ UNCHANGED <<jobs, up, cut, deaths, asks>>

\* the rows' boxes are advanced in place; their width and height are not
RecoverRowsUnturned(p) == RecoveredBy(p, 0)  \* variant: the rotation is recorded, the boxes stay
RecoverRows(p) == RecoveredBy(p, (page[p].journal.to - page[p].journal.from) % 4)

RecoverUnlink(p) ==
    /\ At(p, "unlink")
    /\ Put(p, "journal", NoJournal)
    /\ Goto(p, "turn")
    /\ UNCHANGED <<jobs, up, cut, deaths, asks>>

\* the layout is rebuilt at the image's size; its journal stays
RecoverLayout(p) ==
    LET f == page[p]
        k == (f.journal.to - f.journal.from) % 4
        r == [rot |-> f.journal.to, at |-> Advance(f.layout.at, f.layout.tall, k), tall |-> f.image % 2]
    IN  /\ At(p, "load") /\ Stale(p) /\ f.journal.swapped /\ work[p].strip
        /\ Put(p, "layout", r)
        /\ work' = [work EXCEPT ![p].pc = "turn", ![p].held = r]
        /\ UNCHANGED <<jobs, up, cut, deaths, asks>>

Delta(p) == (work[p].want - work[p].held.rot) % 4

NoTurn(p) ==
    /\ At(p, "turn") /\ Delta(p) = 0
    /\ Put(p, "journal", NoJournal)
    /\ work' = [work EXCEPT ![p] = Idle]
    /\ UNCHANGED <<jobs, up, cut, deaths, asks>>

\* the turned reading and words are made in memory; the journal lands before the image
WriteJournal(p) ==
    LET f == page[p]
        h == work[p].held
        k == Delta(p)
    IN  /\ At(p, "turn") /\ k # 0
        /\ Put(p, "journal", [from |-> h.rot, to |-> work[p].want, swapped |-> FALSE])
        /\ work' = [work EXCEPT ![p].pc = "image", ![p].left = k,
                      ![p].held = [rot |-> work[p].want, tall |-> Turn(f.image, k) % 2,
                                   at |-> Advance(h.at, IF work[p].strip THEN f.image % 2 ELSE h.tall, k)],
                      ![p].words = IF work[p].strip \/ f.words = Absent THEN Absent
                                   ELSE Advance(f.words, h.tall, k)]
        /\ cut' = [cut EXCEPT ![p] = IF @ = "once" THEN "lost" ELSE @]
        /\ UNCHANGED <<jobs, up, deaths, asks>>

ReplaceImage(p) ==
    /\ At(p, "image")
    /\ Put(p, "image", Turn(page[p].image, work[p].left))
    /\ Goto(p, "flag")
    /\ UNCHANGED <<jobs, up, cut, deaths, asks>>

FlagJournal(p) ==
    /\ At(p, "flag")
    /\ page' = [page EXCEPT ![p].journal.swapped = TRUE]
    /\ Goto(p, "reading")
    /\ UNCHANGED <<jobs, up, cut, deaths, asks>>

WriteReading(p) ==
    /\ At(p, "reading")
    /\ Put(p, IF work[p].strip THEN "layout" ELSE "rows", work[p].held)
    /\ Goto(p, IF work[p].words # Absent THEN "words" ELSE "end")
    /\ UNCHANGED <<jobs, up, cut, deaths, asks>>

WriteWords(p) ==
    /\ At(p, "words")
    /\ Put(p, "words", work[p].words)
    /\ Goto(p, "end")
    /\ UNCHANGED <<jobs, up, cut, deaths, asks>>

EndUnmarked(p) ==  \* variant: the page is not marked for the re-read it needs
    /\ At(p, "end")
    /\ Put(p, "journal", NoJournal)
    /\ work' = [work EXCEPT ![p] = Idle]
    /\ UNCHANGED <<jobs, up, cut, deaths, asks>>

EndRotation(p) ==
    /\ At(p, "end")
    /\ Put(p, "journal", NoJournal)
    /\ Goto(p, "mark")
    /\ UNCHANGED <<jobs, up, cut, deaths, asks>>

\* server.py: both routes mark the page, then start the re-read as a thread of its own
Reread(p) ==
    /\ Again \in asks[p] /\ At(p, "idle") /\ jobs[p] # "transcribing"
    /\ work' = [work EXCEPT ![p] = [Idle EXCEPT !.pc = "mark"]]
    /\ UNCHANGED <<page, jobs, up, cut, deaths, asks>>

\* set_page_job reads the jobs of all pages, then writes them all
JobAfter == [mark |-> "transcribing", clear |-> "none", fail |-> "failed"]
ReadJobs(p) ==
    /\ \E pc \in DOMAIN JobAfter : At(p, pc) /\ work[p].copy = NoCopy
    /\ work' = [work EXCEPT ![p].copy = jobs]
    /\ UNCHANGED <<page, jobs, up, cut, deaths, asks>>

StoreJobs(p, copy) ==
    LET pc == work[p].pc IN
    /\ up /\ pc \in DOMAIN JobAfter /\ work[p].copy # NoCopy
    /\ jobs' = [copy EXCEPT ![p] = JobAfter[pc]]
    /\ work' = [work EXCEPT ![p] =
                  IF pc = "mark" THEN [Idle EXCEPT !.pc = "drop", !.held = page[p].rows, !.left = 5]
                  ELSE Idle]
    /\ cut' = [cut EXCEPT ![p] = IF @ # "no" /\ page[p].journal # NoJournal THEN "lost"
                                  ELSE IF pc = "clear" THEN "no" ELSE @]
    /\ UNCHANGED <<page, up, deaths, asks>>

WriteJobsAlone(p) == StoreJobs(p, [o \in Pages |-> "none"])  \* variant: only its own entry
WriteJobs(p) == StoreJobs(p, work[p].copy)

\* the read's receipts go first, then the drawn lines and the rows they made
DropOrder == <<"adjusted", "drawn", "words", "rows", "text">>
DropNext(p) ==
    LET file == DropOrder[work[p].left] IN
    /\ At(p, "drop")
    /\ Put(p, file, IF file = "rows" THEN NoReading ELSE Absent)
    /\ work' = [work EXCEPT ![p].left = @ - 1, ![p].pc = IF work[p].left = 1 THEN "read" ELSE @]
    /\ UNCHANGED <<jobs, up, cut, deaths, asks>>

\* the model reads the image as it is now; rows, words and text are written in this order
ReadRows(p) ==
    /\ At(p, "read")
    /\ Put(p, "rows", FreshReading(page[p].image))
    /\ work' = [work EXCEPT ![p].pc = "fresh words", ![p].want = page[p].image]
    /\ UNCHANGED <<jobs, up, cut, deaths, asks>>

\* the reading came back with nothing: nothing is written, and the text is then missing
ReadNothing(p) ==
    /\ At(p, "read")
    /\ Goto(p, "fail")
    /\ UNCHANGED <<page, jobs, up, cut, deaths, asks>>

FreshWords(p) ==
    /\ At(p, "fresh words")
    /\ Put(p, "words", work[p].want)
    /\ Goto(p, "fresh text")
    /\ UNCHANGED <<jobs, up, cut, deaths, asks>>

FreshText(p) ==
    /\ At(p, "fresh text")
    /\ Put(p, "text", work[p].want)
    /\ Goto(p, "restore")
    /\ UNCHANGED <<jobs, up, cut, deaths, asks>>

\* the rotation the old rows recorded is carried onto the fresh ones
RestoreRotation(p) ==
    /\ At(p, "restore")
    /\ page' = IF work[p].held.rot = 0 THEN page ELSE [page EXCEPT ![p].rows.rot = work[p].held.rot]
    /\ Goto(p, "sidecars")
    /\ UNCHANGED <<jobs, up, cut, deaths, asks>>

\* self-report and orientation report are asked of the model, which may raise
Sidecars(p) ==
    /\ At(p, "sidecars")
    /\ \E pc \in {"clear", "fail"} : Goto(p, pc)
    /\ UNCHANGED <<page, jobs, up, cut, deaths, asks>>

\* POST row-adjustments: the drawn lines, then the rows made of the words
Draw(p) ==
    /\ Drawing \in asks[p] /\ At(p, "idle") /\ jobs[p] # "transcribing"
    /\ page[p].rows # NoReading /\ page[p].words # Absent
    /\ Put(p, "drawn", page[p].image)
    /\ Goto(p, "adjust")
    /\ UNCHANGED <<jobs, up, cut, deaths, asks>>

Adjust(p) ==
    /\ At(p, "adjust")
    /\ Put(p, "adjusted", page[p].words)
    /\ work' = [work EXCEPT ![p] = Idle]
    /\ UNCHANGED <<jobs, up, cut, deaths, asks>>

-----------------------------------------------------------------------------
\* history: a rotation whose image had been replaced was cut by the server's death: once, with
\* its journal flagged, or in a way that cannot be repaired (unflagged, or turned again since)
CutBy(p) ==
    IF work[p].pc \notin {"flag", "reading", "words", "end", "mark"} THEN cut[p]
    ELSE IF work[p].pc # "flag" /\ cut[p] = "no" THEN "once" ELSE "lost"

Die ==
    /\ up /\ deaths < MaxDeaths
    /\ deaths' = deaths + 1
    /\ up' = FALSE
    /\ cut' = [p \in Pages |-> CutBy(p)]
    /\ work' = [p \in Pages |-> Idle]
    /\ UNCHANGED <<page, jobs, asks>>

ComeUp(found) ==
    /\ ~up
    /\ up' = TRUE
    /\ jobs' = [p \in Pages |-> IF jobs[p] = "transcribing" THEN found ELSE jobs[p]]
    /\ UNCHANGED <<page, work, cut, deaths, asks>>

\* demote_stale_jobs, before the server takes a request
RestartAsFound == ComeUp("transcribing")  \* variant: nothing is demoted
Restart == ComeUp("failed")

Rotation(p) ==
    \/ KeepReading(p) \/ DropJournal(p) \/ RecoverRows(p) \/ RecoverUnlink(p) \/ RecoverLayout(p)
    \/ NoTurn(p) \/ WriteJournal(p) \/ ReplaceImage(p) \/ FlagJournal(p)
    \/ WriteReading(p) \/ WriteWords(p) \/ EndRotation(p)

Job(p) ==
    \/ ReadJobs(p) \/ WriteJobs(p) \/ DropNext(p) \/ ReadRows(p) \/ ReadNothing(p)
    \/ FreshWords(p) \/ FreshText(p) \/ RestoreRotation(p) \/ Sidecars(p)

Thread(p) == Rotation(p) \/ Job(p) \/ Adjust(p)

Next ==
    \/ \E p \in Pages : \E q \in asks[p] \cap Quarter : Request(p, q)
    \/ \E p \in Pages : Reread(p) \/ Draw(p) \/ Thread(p)
    \/ Die
    \/ Restart

\* the operating system runs the threads and the service manager restarts the server
Fairness == WF_vars(Restart) /\ \A p \in Pages : WF_vars(Thread(p))

Spec == Init /\ [][Next]_vars /\ Fairness

-----------------------------------------------------------------------------
Resting(p) == work[p].pc = "idle"
Alone(p) == \A o \in Pages \ {p} : asks[o] = {}
Matches(f) ==
    /\ Shown(f) # NoReading /\ Shown(f).at = f.image
    /\ f.text = f.image
    /\ f.words \in {Absent, f.image}
    /\ f.adjusted # Absent => f.drawn = f.image /\ f.adjusted = f.image

\* While one page is worked on: whatever is shown of it at rest with no job on record
\* describes the image as it is turned now, boxes, words, text and checked rows (sync.py:
\* "never a silent wrong answer"); only a rotation that a death cut short is excepted.
NothingStaleSilently ==
    \A p \in Pages : Alone(p) /\ Resting(p) /\ jobs[p] = "none" /\ cut[p] = "no" => Matches(page[p])

\* A rotation of a page's rows that died after its journal was flagged is completed before the
\* next one computes its turn: the boxes it starts from fit the image.
RecoveredBoxesFit ==
    \A p \in Pages :
        At(p, "turn") /\ cut[p] = "once" /\ ~work[p].strip => work[p].held.at = page[p].image

\* While one page is worked on, its re-read comes to an end: cleared, failed, or demoted
\* at a restart.  (With two, a job's write of the jobs file may undo the other's.)
TranscribingEnds ==
    \A p \in Pages :
        jobs[p] = "transcribing" /\ Alone(p) ~> jobs[p] # "transcribing"

\* The jobs file loses or changes what it says of a page only when that page's own
\* job writes it, the server restarts, or another job writes back an older copy.
JobLostOnlyToStaleCopy ==
    [][\A p \in Pages : jobs'[p] # jobs[p] =>
          \/ work[p].copy # NoCopy /\ work'[p].copy = NoCopy
          \/ ~up
          \/ \E o \in Pages : work[o].copy # NoCopy /\ work[o].copy[p] # jobs[p]]_vars
=============================================================================
