---------------------------- MODULE Pages_proofs ----------------------------
(***************************************************************************)
(* Proofs about the pages of a batch, for any values of the constants: the *)
(* work on a page while it is turned, drawn and read again, and the intake *)
(* of piles by adoption and the scanner.                                   *)
(***************************************************************************)
EXTENDS PageWork, TLAPS

\* of Intake
CONSTANTS Names, Contents, Piles, Folders, Agents, Home, JobFolder, JobPages, Adopted, MaxEdits, MaxAgentDeaths, MaxCopies

VARIABLES folders, registry, copies, read, scanner, agent, edits, agentDeaths, torn, standing

In == INSTANCE Intake WITH deaths <- agentDeaths, MaxDeaths <- MaxAgentDeaths

-----------------------------------------------------------------------------
(* The inductive invariant.  What is known of a page depends on where its  *)
(* thread is and on whether a rotation of it was cut short.                *)

Turning   == {"load", "unlink", "turn", "image", "flag", "reading"}
Fresh     == {"fresh words", "fresh text", "restore", "sidecars", "clear"}
Rereading == {"drop", "read", "fail"} \cup Fresh
Waiting   == {"idle", "load", "turn", "image", "adjust"}

\* the rows' boxes, and the width and height they are recorded in, are the image's
Fits(f) == f.rows = NoReading \/ (f.rows.at = f.image /\ f.rows.tall = f.image % 2)

\* a rotation of the rows is to be completed, and what completing it makes of their boxes
Cut(f) == f.journal.swapped /\ f.rows.rot = f.journal.from
Completed(f) == Advance(f.rows.at, f.rows.tall, (f.journal.to - f.journal.from) % 4)

\* what the thread has in hand is the page's rows, turned as the journal says
InHand(f, w) ==
    /\ w.held.rot = f.journal.to /\ f.rows.rot = f.journal.from /\ f.journal.to # f.journal.from
    /\ w.left = (f.journal.to - f.journal.from) % 4

Steady(f, w) ==
    /\ w.pc # "unlink"
    /\ f.journal.swapped => w.pc \in {"reading", "words", "end"}
    /\ w.pc \notin {"flag", "reading"} => Fits(f)
    /\ w.pc = "turn" /\ ~w.strip => w.held = f.rows
    /\ w.pc \in {"image", "flag", "reading"} /\ ~w.strip => InHand(f, w)
    /\ w.pc = "image" /\ ~w.strip => w.held.at = Turn(f.image, w.left) /\ w.held.tall = Turn(f.image, w.left) % 2
    /\ w.pc \in {"flag", "reading"} /\ ~w.strip =>
        Completed(f) = f.image /\ w.held.at = f.image /\ w.held.tall = f.image % 2
    /\ w.pc = "reading" => f.journal.swapped
    /\ w.pc \in {"words", "end"} => f.rows = NoReading \/ f.rows.rot # f.journal.from

CutOnce(f, w) ==
    /\ w.pc \notin {"image", "flag", "reading", "words", "end"}
    /\ w.pc \in {"idle", "load", "mark", "adjust"} =>
        \/ f.rows = NoReading
        \/ f.rows.at = f.image /\ ~Cut(f)
        \/ Cut(f) /\ f.journal.to # f.journal.from /\ Completed(f) = f.image
    /\ w.pc \in {"unlink", "turn"} /\ ~w.strip => w.held.at = f.image /\ f.rows.at = f.image /\ ~Cut(f)
    /\ w.pc \in Rereading => f.journal = NoJournal /\ (f.rows = NoReading \/ f.rows.at = f.image)

\* whatever died
Always(f, w) ==
    /\ w.pc \in Turning => (w.strip <=> f.rows = NoReading)
    /\ w.pc = "adjust" => f.drawn = f.image
    /\ w.pc = "drop" => w.left > 0
    /\ w.pc \in {"read"} \cup Fresh => f.adjusted = Absent
    /\ w.pc \in Fresh => f.rows.at = f.image /\ f.rows.tall = f.image % 2
    /\ w.pc \in {"fresh words", "fresh text"} => w.want = f.image
    /\ w.pc \in Fresh \ {"fresh words"} => f.words = f.image
    /\ w.pc \in {"restore", "sidecars", "clear"} => f.text = f.image

Holds(f, w, c) ==
    /\ Always(f, w)
    /\ c = "no" => Steady(f, w)
    /\ c = "once" => CutOnce(f, w)

\* while the page is worked on alone: a re-read is on record, and what waits is not stale
Promised(f, w, c, job) ==
    /\ w.pc \in Rereading => job = "transcribing"
    /\ job = "none" /\ c = "no" /\ w.pc \in Waiting => Matches(f)

PageInv(p) == Holds(page[p], work[p], cut[p])
AloneInv(p) ==
    Alone(p) => /\ \A o \in Pages \ {p} : work[o] = Idle
                /\ Promised(page[p], work[p], cut[p], jobs[p])

Threadless == ~up => \A p \in Pages : work[p] = Idle

IInv == TypeOK /\ Threadless /\ \A p \in Pages : PageInv(p) /\ AloneInv(p)

-----------------------------------------------------------------------------
(* Turns.                                                                  *)

LEMMA TurnType ==
  ASSUME NEW a \in Int, NEW k \in Int
  PROVE  Turn(a, k) \in Quarter
BY DEF Turn, Quarter

LEMMA DeltaType ==
  ASSUME NEW a \in Quarter, NEW b \in Quarter
  PROVE  (a - b) % 4 \in Quarter /\ ((a - b) % 4 = 0 <=> a = b)
BY DEF Quarter

\* boxes are never turned into a missing file
LEMMA AdvanceType ==
  ASSUME NEW at \in Frame, NEW tall \in {0, 1}, NEW k \in Quarter
  PROVE  Advance(at, tall, k) \in Frame \ {Absent}
BY DEF Advance, Turn, Frame, Quarter, Skewed, Absent

\* boxes that fit are turned with the image
LEMMA AdvanceFits ==
  ASSUME NEW image \in Quarter, NEW k \in Quarter
  PROVE  Advance(image, image % 2, k) = Turn(image, k)
BY DEF Advance, Turn, Quarter, Skewed

-----------------------------------------------------------------------------
(* Types.                                                                  *)

LEMMA RecordTypes ==
  /\ NoJournal \in Journal /\ NoReading \in Reading /\ Absent \in Frame
  /\ Quarter \subseteq Frame /\ ~NoJournal.swapped
BY DEF NoJournal, Journal, NoReading, Reading, Absent, Frame, Quarter, Skewed

LEMMA FileTypes ==
  ASSUME NEW f \in Files
  PROVE  /\ f.image \in Quarter /\ f.journal \in Journal
         /\ f.rows \in Reading /\ f.layout \in Reading /\ Shown(f) \in Reading
         /\ f.words \in Frame
BY DEF Files, Shown

LEMMA FreshType ==
  ASSUME NEW image \in Quarter
  PROVE  /\ FreshReading(image) \in Reading
         /\ FreshReading(image).at = image /\ FreshReading(image).tall = image % 2
BY DEF FreshReading, Reading, Frame, Quarter

LEMMA WorkTypes ==
  Idle \in Work
BY RecordTypes DEF Work, Idle, Steps, Quarter

-----------------------------------------------------------------------------
(* A step of one page's thread.                                            *)

LEMMA ThreadStep ==
  ASSUME IInv, NEW p \in Pages, NEW f \in Files, NEW w \in Work, NEW c \in Cuts,
         page' = [page EXCEPT ![p] = f], work' = [work EXCEPT ![p] = w],
         cut' = [cut EXCEPT ![p] = c], jobs' \in [Pages -> JobState],
         up, UNCHANGED <<up, deaths, asks>>,
         work[p] # Idle \/ asks[p] # {},
         Holds(f, w, c), Alone(p) => Promised(f, w, c, jobs'[p])
  PROVE  IInv'
<1>1. TypeOK'
  BY DEF IInv, TypeOK
<1>2. ASSUME NEW o \in Pages
      PROVE  PageInv(o)'
  <2>1. CASE o = p
    BY <2>1 DEF IInv, TypeOK, PageInv
  <2>2. CASE o # p
    BY <2>2 DEF IInv, TypeOK, PageInv
  <2> QED
    BY <2>1, <2>2
<1>3. ASSUME NEW o \in Pages
      PROVE  AloneInv(o)'
  <2>1. CASE o = p
    BY <2>1 DEF IInv, TypeOK, AloneInv, Alone
  <2>2. CASE o # p
    BY <2>2 DEF IInv, TypeOK, AloneInv, Alone
  <2> QED
    BY <2>1, <2>2
<1>4. Threadless'
  BY DEF Threadless
<1> QED
  BY <1>1, <1>2, <1>3, <1>4 DEF IInv

\* what is known of a page before its thread's step
LEMMA Before ==
  ASSUME IInv, NEW p \in Pages
  PROVE  /\ page[p] \in Files /\ work[p] \in Work /\ cut[p] \in Cuts /\ jobs[p] \in JobState
         /\ Holds(page[p], work[p], cut[p])
         /\ Alone(p) => Promised(page[p], work[p], cut[p], jobs[p])
         /\ page = [page EXCEPT ![p] = page[p]] /\ cut = [cut EXCEPT ![p] = cut[p]]
         /\ page \in [Pages -> Files] /\ work \in [Pages -> Work] /\ jobs \in [Pages -> JobState]
BY DEF IInv, TypeOK, PageInv, AloneInv

LEMMA PutStep ==
  ASSUME IInv, NEW p \in Pages, NEW f \in Files, NEW w \in Work,
         page' = [page EXCEPT ![p] = f], work' = [work EXCEPT ![p] = w],
         up, UNCHANGED <<jobs, up, cut, deaths, asks>>,
         work[p].pc # "idle" \/ asks[p] # {},
         Holds(f, w, cut[p]), Alone(p) => Promised(f, w, cut[p], jobs[p])
  PROVE  IInv'
<1>1. work[p] # Idle \/ asks[p] # {}
  BY DEF Idle
<1> QED
  BY <1>1, Before, ThreadStep

-----------------------------------------------------------------------------
(* The steps of a rotation.                                                *)


LEMMA RequestHolds ==
  ASSUME IInv, NEW p \in Pages, NEW q \in asks[p] \cap Quarter, Request(p, q)
  PROVE  IInv'
<1> DEFINE w == [Idle EXCEPT !.pc = "load", !.want = q, !.strip = page[p].rows = NoReading]
<1>1. page[p] \in Files /\ work[p] \in Work
  BY Before
<1>2. Holds(page[p], work[p], cut[p]) /\ (Alone(p) => Promised(page[p], work[p], cut[p], jobs[p]))
  BY Before
<1>3. up /\ work[p].pc = "idle" /\ q \in asks[p] /\ q \in Quarter
  BY DEF Request, At
<1>4. w \in Work
  BY <1>1, <1>3, RecordTypes, FileTypes, WorkTypes DEF Work, Steps
<1>5. /\ w.pc = "load" /\ (w.strip <=> page[p].rows = NoReading)
  BY <1>1 DEF Work, Idle
<1>6. page' = [page EXCEPT ![p] = page[p]] /\ work' = [work EXCEPT ![p] = w]
  BY <1>3, Before DEF Request
<1> HIDE DEF w
<1>7. Always(page[p], w)
  BY <1>2, <1>3, <1>5 DEF Holds, Always, Turning, Fresh
<1>8. cut[p] = "no" => Steady(page[p], w)
  BY <1>2, <1>3, <1>5 DEF Holds, Always, Steady, Turning, Fresh, Fits
<1>9. cut[p] = "once" => CutOnce(page[p], w)
  BY <1>2, <1>3, <1>5 DEF Holds, Always, CutOnce, Turning, Rereading, Fresh
<1>10. Alone(p) => Promised(page[p], w, cut[p], jobs[p])
  BY <1>2, <1>3, <1>5 DEF Holds, Steady, Promised, Rereading, Fresh, Waiting
<1> QED
  BY <1>1, <1>3, <1>4, <1>6, <1>7, <1>8, <1>9, <1>10, PutStep DEF Request, Holds

LEMMA KeepReadingHolds ==
  ASSUME IInv, NEW p \in Pages, KeepReading(p)
  PROVE  IInv'
<1> DEFINE w == [work[p] EXCEPT !.pc = "turn", !.held = Shown(page[p])]
<1>1. page[p] \in Files /\ work[p] \in Work
  BY Before
<1>2. Holds(page[p], work[p], cut[p]) /\ (Alone(p) => Promised(page[p], work[p], cut[p], jobs[p]))
  BY Before
<1>3. up /\ work[p].pc = "load" /\ ~Stale(p)
  BY DEF KeepReading, At
<1>4. w \in Work
  BY <1>1, <1>3, RecordTypes, FileTypes DEF Work, Steps
<1>5. /\ w.pc = "turn" /\ w.held = Shown(page[p]) /\ w.strip = work[p].strip
  BY <1>1 DEF Work
<1>6. page' = [page EXCEPT ![p] = page[p]] /\ work' = [work EXCEPT ![p] = w]
  BY <1>3, Before DEF KeepReading
<1> HIDE DEF w
<1>7. Always(page[p], w)
  BY <1>2, <1>3, <1>5 DEF Holds, Always, Turning, Fresh
<1>8. cut[p] = "no" => Steady(page[p], w)
  BY <1>2, <1>3, <1>5 DEF Holds, Always, Steady, Turning, Fresh, Fits, Shown
<1>9. cut[p] = "once" => CutOnce(page[p], w)
  BY <1>2, <1>3, <1>5 DEF Holds, Always, CutOnce, Turning, Rereading, Fresh, Shown, Stale, Cut, NoJournal
<1>10. Alone(p) => Promised(page[p], w, cut[p], jobs[p])
  BY <1>2, <1>3, <1>5 DEF Holds, Steady, Promised, Rereading, Fresh, Waiting
<1> QED
  BY <1>1, <1>3, <1>4, <1>6, <1>7, <1>8, <1>9, <1>10, PutStep DEF KeepReading, Holds

LEMMA DropJournalHolds ==
  ASSUME IInv, NEW p \in Pages, DropJournal(p)
  PROVE  IInv'
<1> DEFINE w == [work[p] EXCEPT !.pc = "turn", !.held = Shown(page[p])]
           f == [page[p] EXCEPT !.journal = NoJournal]
<1>1. page[p] \in Files /\ work[p] \in Work
  BY Before
<1>2. Holds(page[p], work[p], cut[p]) /\ (Alone(p) => Promised(page[p], work[p], cut[p], jobs[p]))
  BY Before
<1>3. up /\ work[p].pc = "load" /\ Stale(p) /\ ~page[p].journal.swapped
  BY DEF DropJournal, At
<1>4. w \in Work /\ f \in Files
  BY <1>1, <1>3, RecordTypes, FileTypes DEF Work, Steps, Files
<1>5. /\ w.pc = "turn" /\ w.held = Shown(page[p]) /\ w.strip = work[p].strip
      /\ f.journal = NoJournal
      /\ f.image = page[p].image /\ f.rows = page[p].rows /\ f.layout = page[p].layout /\ f.words = page[p].words
      /\ f.text = page[p].text /\ f.drawn = page[p].drawn /\ f.adjusted = page[p].adjusted
  BY <1>1 DEF Work, Files
<1>6. page' = [page EXCEPT ![p] = f] /\ work' = [work EXCEPT ![p] = w]
  BY <1>3, Before DEF DropJournal, Put
<1> HIDE DEF w, f
<1>7. Always(f, w)
  BY <1>2, <1>3, <1>5 DEF Holds, Always, Turning, Fresh
<1>8. cut[p] = "no" => Steady(f, w)
  BY <1>2, <1>3, <1>5 DEF Holds, Always, Steady, Turning, Fresh, Fits, Shown, NoJournal
<1>9. cut[p] = "once" => CutOnce(f, w)
  BY <1>2, <1>3, <1>5 DEF Holds, Always, CutOnce, Turning, Rereading, Fresh, Shown, Stale, Cut, NoJournal
<1>10. Alone(p) => Promised(f, w, cut[p], jobs[p])
  BY <1>2, <1>3, <1>5 DEF Holds, Steady, Promised, Rereading, Fresh, Waiting, Matches, Shown
<1> QED
  BY <1>1, <1>3, <1>4, <1>6, <1>7, <1>8, <1>9, <1>10, PutStep DEF DropJournal, Holds

LEMMA RecoverUnlinkHolds ==
  ASSUME IInv, NEW p \in Pages, RecoverUnlink(p)
  PROVE  IInv'
<1> DEFINE w == [work[p] EXCEPT !.pc = "turn"]
           f == [page[p] EXCEPT !.journal = NoJournal]
<1>1. page[p] \in Files /\ work[p] \in Work
  BY Before
<1>2. Holds(page[p], work[p], cut[p]) /\ (Alone(p) => Promised(page[p], work[p], cut[p], jobs[p]))
  BY Before
<1>3. up /\ work[p].pc = "unlink"
  BY DEF RecoverUnlink, At
<1>4. w \in Work /\ f \in Files
  BY <1>1, <1>3, RecordTypes, FileTypes DEF Work, Steps, Files
<1>5. /\ w.pc = "turn" /\ w.held = work[p].held /\ w.strip = work[p].strip
      /\ f.journal = NoJournal
      /\ f.image = page[p].image /\ f.rows = page[p].rows /\ f.layout = page[p].layout /\ f.words = page[p].words
      /\ f.text = page[p].text /\ f.drawn = page[p].drawn /\ f.adjusted = page[p].adjusted
  BY <1>1 DEF Work, Files
<1>6. page' = [page EXCEPT ![p] = f] /\ work' = [work EXCEPT ![p] = w]
  BY <1>3, Before DEF RecoverUnlink, Put, Goto
<1> HIDE DEF w, f
<1>7. Always(f, w)
  BY <1>2, <1>3, <1>5 DEF Holds, Always, Turning, Fresh
<1>8. cut[p] = "no" => Steady(f, w)
  BY <1>2, <1>3, <1>5 DEF Holds, Always, Steady, Turning, Fresh, Fits
<1>9. cut[p] = "once" => CutOnce(f, w)
  BY <1>2, <1>3, <1>5 DEF Holds, Always, CutOnce, Turning, Rereading, Fresh, Cut, NoJournal
<1>10. Alone(p) => Promised(f, w, cut[p], jobs[p])
  BY <1>2, <1>3, <1>5 DEF Holds, Steady, Promised, Rereading, Fresh, Waiting
<1> QED
  BY <1>1, <1>3, <1>4, <1>6, <1>7, <1>8, <1>9, <1>10, PutStep DEF RecoverUnlink, Holds

LEMMA NoTurnHolds ==
  ASSUME IInv, NEW p \in Pages, NoTurn(p)
  PROVE  IInv'
<1> DEFINE w == Idle
           f == [page[p] EXCEPT !.journal = NoJournal]
<1>1. page[p] \in Files /\ work[p] \in Work
  BY Before
<1>2. Holds(page[p], work[p], cut[p]) /\ (Alone(p) => Promised(page[p], work[p], cut[p], jobs[p]))
  BY Before
<1>3. up /\ work[p].pc = "turn"
  BY DEF NoTurn, At
<1>4. w \in Work /\ f \in Files
  BY <1>1, <1>3, RecordTypes, FileTypes, WorkTypes DEF Work, Steps, Files
<1>5. /\ w.pc = "idle"
      /\ f.journal = NoJournal
      /\ f.image = page[p].image /\ f.rows = page[p].rows /\ f.layout = page[p].layout /\ f.words = page[p].words
      /\ f.text = page[p].text /\ f.drawn = page[p].drawn /\ f.adjusted = page[p].adjusted
  BY <1>1 DEF Work, Files, Idle
<1>6. page' = [page EXCEPT ![p] = f] /\ work' = [work EXCEPT ![p] = w]
  BY <1>3, Before DEF NoTurn, Put
<1> HIDE DEF w, f
<1>7. Always(f, w)
  BY <1>2, <1>3, <1>5 DEF Holds, Always, Turning, Fresh
<1>8. cut[p] = "no" => Steady(f, w)
  BY <1>2, <1>3, <1>5 DEF Holds, Always, Steady, Turning, Fresh, Fits, NoJournal
<1>9. cut[p] = "once" => CutOnce(f, w)
  BY <1>2, <1>3, <1>5 DEF Holds, Always, CutOnce, Turning, Rereading, Fresh, Cut, NoJournal
<1>10. Alone(p) => Promised(f, w, cut[p], jobs[p])
  BY <1>2, <1>3, <1>5 DEF Holds, Steady, Promised, Rereading, Fresh, Waiting, Matches, Shown
<1> QED
  BY <1>1, <1>3, <1>4, <1>6, <1>7, <1>8, <1>9, <1>10, PutStep DEF NoTurn, Holds

LEMMA FlagJournalHolds ==
  ASSUME IInv, NEW p \in Pages, FlagJournal(p)
  PROVE  IInv'
<1> DEFINE w == [work[p] EXCEPT !.pc = "reading"]
           f == [page[p] EXCEPT !.journal.swapped = TRUE]
<1>1. page[p] \in Files /\ work[p] \in Work
  BY Before
<1>2. Holds(page[p], work[p], cut[p]) /\ (Alone(p) => Promised(page[p], work[p], cut[p], jobs[p]))
  BY Before
<1>3. up /\ work[p].pc = "flag"
  BY DEF FlagJournal, At
<1>4. w \in Work /\ f \in Files
  BY <1>1, <1>3, RecordTypes, FileTypes DEF Work, Steps, Files, Journal
<1>5. /\ w.pc = "reading" /\ w.held = work[p].held /\ w.strip = work[p].strip /\ w.left = work[p].left
      /\ f.journal = [page[p].journal EXCEPT !.swapped = TRUE]
      /\ f.image = page[p].image /\ f.rows = page[p].rows /\ f.layout = page[p].layout /\ f.words = page[p].words
      /\ f.text = page[p].text /\ f.drawn = page[p].drawn /\ f.adjusted = page[p].adjusted
  BY <1>1 DEF Work, Files
<1>6. page' = [page EXCEPT ![p] = f] /\ work' = [work EXCEPT ![p] = w]
  BY <1>3, Before DEF FlagJournal, Put, Goto
<1> HIDE DEF w, f
<1>7. Always(f, w)
  BY <1>2, <1>3, <1>5, <1>1, FileTypes DEF Holds, Always, Turning, Fresh
<1>8. cut[p] = "no" => Steady(f, w)
  BY <1>2, <1>3, <1>5, <1>1, FileTypes DEF Holds, Always, Steady, Turning, Fresh, Fits, InHand, Completed, Journal
<1>9. cut[p] = "once" => CutOnce(f, w)
  BY <1>2, <1>3, <1>5, <1>1, FileTypes DEF Holds, Always, CutOnce, Turning, Rereading, Fresh
<1>10. Alone(p) => Promised(f, w, cut[p], jobs[p])
  BY <1>2, <1>3, <1>5, <1>1, FileTypes DEF Holds, Steady, Promised, Rereading, Fresh, Waiting
<1> QED
  BY <1>1, <1>3, <1>4, <1>6, <1>7, <1>8, <1>9, <1>10, PutStep DEF FlagJournal, Holds

LEMMA WriteWordsHolds ==
  ASSUME IInv, NEW p \in Pages, WriteWords(p)
  PROVE  IInv'
<1> DEFINE w == [work[p] EXCEPT !.pc = "end"]
           f == [page[p] EXCEPT !.words = work[p].words]
<1>1. page[p] \in Files /\ work[p] \in Work
  BY Before
<1>2. Holds(page[p], work[p], cut[p]) /\ (Alone(p) => Promised(page[p], work[p], cut[p], jobs[p]))
  BY Before
<1>3. up /\ work[p].pc = "words"
  BY DEF WriteWords, At
<1>4. w \in Work /\ f \in Files
  BY <1>1, <1>3, RecordTypes, FileTypes DEF Work, Steps, Files
<1>5. /\ w.pc = "end"
      /\ f.words = work[p].words
      /\ f.image = page[p].image /\ f.rows = page[p].rows /\ f.layout = page[p].layout /\ f.text = page[p].text
      /\ f.drawn = page[p].drawn /\ f.adjusted = page[p].adjusted /\ f.journal = page[p].journal
  BY <1>1 DEF Work, Files
<1>6. page' = [page EXCEPT ![p] = f] /\ work' = [work EXCEPT ![p] = w]
  BY <1>3, Before DEF WriteWords, Put, Goto
<1> HIDE DEF w, f
<1>7. Always(f, w)
  BY <1>2, <1>3, <1>5 DEF Holds, Always, Turning, Fresh
<1>8. cut[p] = "no" => Steady(f, w)
  BY <1>2, <1>3, <1>5 DEF Holds, Always, Steady, Turning, Fresh, Fits
<1>9. cut[p] = "once" => CutOnce(f, w)
  BY <1>2, <1>3, <1>5 DEF Holds, Always, CutOnce, Turning, Rereading, Fresh
<1>10. Alone(p) => Promised(f, w, cut[p], jobs[p])
  BY <1>2, <1>3, <1>5 DEF Holds, Steady, Promised, Rereading, Fresh, Waiting
<1> QED
  BY <1>1, <1>3, <1>4, <1>6, <1>7, <1>8, <1>9, <1>10, PutStep DEF WriteWords, Holds

LEMMA EndRotationHolds ==
  ASSUME IInv, NEW p \in Pages, EndRotation(p)
  PROVE  IInv'
<1> DEFINE w == [work[p] EXCEPT !.pc = "mark"]
           f == [page[p] EXCEPT !.journal = NoJournal]
<1>1. page[p] \in Files /\ work[p] \in Work
  BY Before
<1>2. Holds(page[p], work[p], cut[p]) /\ (Alone(p) => Promised(page[p], work[p], cut[p], jobs[p]))
  BY Before
<1>3. up /\ work[p].pc = "end"
  BY DEF EndRotation, At
<1>4. w \in Work /\ f \in Files
  BY <1>1, <1>3, RecordTypes, FileTypes DEF Work, Steps, Files
<1>5. /\ w.pc = "mark"
      /\ f.journal = NoJournal
      /\ f.image = page[p].image /\ f.rows = page[p].rows /\ f.layout = page[p].layout /\ f.words = page[p].words
      /\ f.text = page[p].text /\ f.drawn = page[p].drawn /\ f.adjusted = page[p].adjusted
  BY <1>1 DEF Work, Files
<1>6. page' = [page EXCEPT ![p] = f] /\ work' = [work EXCEPT ![p] = w]
  BY <1>3, Before DEF EndRotation, Put, Goto
<1> HIDE DEF w, f
<1>7. Always(f, w)
  BY <1>2, <1>3, <1>5 DEF Holds, Always, Turning, Fresh
<1>8. cut[p] = "no" => Steady(f, w)
  BY <1>2, <1>3, <1>5 DEF Holds, Always, Steady, Turning, Fresh, Fits, NoJournal
<1>9. cut[p] = "once" => CutOnce(f, w)
  BY <1>2, <1>3, <1>5 DEF Holds, Always, CutOnce, Turning, Rereading, Fresh
<1>10. Alone(p) => Promised(f, w, cut[p], jobs[p])
  BY <1>2, <1>3, <1>5 DEF Holds, Steady, Promised, Rereading, Fresh, Waiting
<1> QED
  BY <1>1, <1>3, <1>4, <1>6, <1>7, <1>8, <1>9, <1>10, PutStep DEF EndRotation, Holds

LEMMA RereadHolds ==
  ASSUME IInv, NEW p \in Pages, Reread(p)
  PROVE  IInv'
<1> DEFINE w == [Idle EXCEPT !.pc = "mark"]
<1>1. page[p] \in Files /\ work[p] \in Work
  BY Before
<1>2. Holds(page[p], work[p], cut[p]) /\ (Alone(p) => Promised(page[p], work[p], cut[p], jobs[p]))
  BY Before
<1>3. up /\ work[p].pc = "idle" /\ Again \in asks[p]
  BY DEF Reread, At
<1>4. w \in Work
  BY <1>1, <1>3, RecordTypes, FileTypes, WorkTypes DEF Work, Steps
<1>5. /\ w.pc = "mark"
  BY <1>1 DEF Work, Idle
<1>6. page' = [page EXCEPT ![p] = page[p]] /\ work' = [work EXCEPT ![p] = w]
  BY <1>3, Before DEF Reread
<1> HIDE DEF w
<1>7. Always(page[p], w)
  BY <1>2, <1>3, <1>5 DEF Holds, Always, Turning, Fresh
<1>8. cut[p] = "no" => Steady(page[p], w)
  BY <1>2, <1>3, <1>5 DEF Holds, Always, Steady, Turning, Fresh, Fits
<1>9. cut[p] = "once" => CutOnce(page[p], w)
  BY <1>2, <1>3, <1>5 DEF Holds, Always, CutOnce, Turning, Rereading, Fresh
<1>10. Alone(p) => Promised(page[p], w, cut[p], jobs[p])
  BY <1>2, <1>3, <1>5 DEF Holds, Steady, Promised, Rereading, Fresh, Waiting
<1> QED
  BY <1>1, <1>3, <1>4, <1>6, <1>7, <1>8, <1>9, <1>10, PutStep DEF Reread, Holds

LEMMA ReadJobsHolds ==
  ASSUME IInv, NEW p \in Pages, ReadJobs(p)
  PROVE  IInv'
<1> DEFINE w == [work[p] EXCEPT !.copy = jobs]
<1>1. page[p] \in Files /\ work[p] \in Work
  BY Before
<1>2. Holds(page[p], work[p], cut[p]) /\ (Alone(p) => Promised(page[p], work[p], cut[p], jobs[p]))
  BY Before
<1>3. up /\ work[p].pc \in {"mark", "clear", "fail"}
  BY DEF ReadJobs, At, JobAfter
<1>4. w \in Work
  BY <1>1, <1>3, RecordTypes, FileTypes, Before DEF Work, Steps
<1>5. /\ w.pc = work[p].pc /\ w.left = work[p].left /\ w.want = work[p].want
  BY <1>1 DEF Work
<1>6. page' = [page EXCEPT ![p] = page[p]] /\ work' = [work EXCEPT ![p] = w]
  BY <1>3, Before DEF ReadJobs
<1> HIDE DEF w
<1>7. Always(page[p], w)
  BY <1>2, <1>3, <1>5 DEF Holds, Always, Turning, Fresh
<1>8. cut[p] = "no" => Steady(page[p], w)
  BY <1>2, <1>3, <1>5 DEF Holds, Always, Steady, Turning, Fresh, Fits
<1>9. cut[p] = "once" => CutOnce(page[p], w)
  BY <1>2, <1>3, <1>5 DEF Holds, Always, CutOnce, Turning, Rereading, Fresh
<1>10. Alone(p) => Promised(page[p], w, cut[p], jobs[p])
  BY <1>2, <1>3, <1>5 DEF Holds, Steady, Promised, Rereading, Fresh, Waiting
<1> QED
  BY <1>1, <1>3, <1>4, <1>6, <1>7, <1>8, <1>9, <1>10, PutStep DEF ReadJobs, Holds

LEMMA ReadRowsHolds ==
  ASSUME IInv, NEW p \in Pages, ReadRows(p)
  PROVE  IInv'
<1> DEFINE w == [work[p] EXCEPT !.pc = "fresh words", !.want = page[p].image]
           f == [page[p] EXCEPT !.rows = FreshReading(page[p].image)]
<1>1. page[p] \in Files /\ work[p] \in Work
  BY Before
<1>2. Holds(page[p], work[p], cut[p]) /\ (Alone(p) => Promised(page[p], work[p], cut[p], jobs[p]))
  BY Before
<1>3. up /\ work[p].pc = "read"
  BY DEF ReadRows, At
<1>4. w \in Work /\ f \in Files
  BY <1>1, <1>3, RecordTypes, FileTypes, FreshType DEF Work, Steps, Files
<1>5. /\ w.pc = "fresh words" /\ w.want = page[p].image
      /\ f.rows = FreshReading(page[p].image)
      /\ f.image = page[p].image /\ f.layout = page[p].layout /\ f.words = page[p].words /\ f.text = page[p].text
      /\ f.drawn = page[p].drawn /\ f.adjusted = page[p].adjusted /\ f.journal = page[p].journal
  BY <1>1 DEF Work, Files
<1>6. page' = [page EXCEPT ![p] = f] /\ work' = [work EXCEPT ![p] = w]
  BY <1>3, Before DEF ReadRows, Put
<1> HIDE DEF w, f
<1>7. Always(f, w)
  BY <1>2, <1>3, <1>5, <1>1, FileTypes, FreshType DEF Holds, Always, Turning, Fresh
<1>8. cut[p] = "no" => Steady(f, w)
  BY <1>2, <1>3, <1>5, <1>1, FileTypes, FreshType DEF Holds, Always, Steady, Turning, Fresh, Fits
<1>9. cut[p] = "once" => CutOnce(f, w)
  BY <1>2, <1>3, <1>5, <1>1, FileTypes, FreshType DEF Holds, Always, CutOnce, Turning, Rereading, Fresh
<1>10. Alone(p) => Promised(f, w, cut[p], jobs[p])
  BY <1>2, <1>3, <1>5, <1>1, FileTypes, FreshType DEF Holds, Steady, Promised, Rereading, Fresh, Waiting
<1> QED
  BY <1>1, <1>3, <1>4, <1>6, <1>7, <1>8, <1>9, <1>10, PutStep DEF ReadRows, Holds

LEMMA ReadNothingHolds ==
  ASSUME IInv, NEW p \in Pages, ReadNothing(p)
  PROVE  IInv'
<1> DEFINE w == [work[p] EXCEPT !.pc = "fail"]
<1>1. page[p] \in Files /\ work[p] \in Work
  BY Before
<1>2. Holds(page[p], work[p], cut[p]) /\ (Alone(p) => Promised(page[p], work[p], cut[p], jobs[p]))
  BY Before
<1>3. up /\ work[p].pc = "read"
  BY DEF ReadNothing, At
<1>4. w \in Work
  BY <1>1, <1>3, RecordTypes, FileTypes DEF Work, Steps
<1>5. /\ w.pc = "fail"
  BY <1>1 DEF Work
<1>6. page' = [page EXCEPT ![p] = page[p]] /\ work' = [work EXCEPT ![p] = w]
  BY <1>3, Before DEF ReadNothing, Goto
<1> HIDE DEF w
<1>7. Always(page[p], w)
  BY <1>2, <1>3, <1>5 DEF Holds, Always, Turning, Fresh
<1>8. cut[p] = "no" => Steady(page[p], w)
  BY <1>2, <1>3, <1>5 DEF Holds, Always, Steady, Turning, Fresh, Fits
<1>9. cut[p] = "once" => CutOnce(page[p], w)
  BY <1>2, <1>3, <1>5 DEF Holds, Always, CutOnce, Turning, Rereading, Fresh
<1>10. Alone(p) => Promised(page[p], w, cut[p], jobs[p])
  BY <1>2, <1>3, <1>5 DEF Holds, Steady, Promised, Rereading, Fresh, Waiting
<1> QED
  BY <1>1, <1>3, <1>4, <1>6, <1>7, <1>8, <1>9, <1>10, PutStep DEF ReadNothing, Holds

LEMMA FreshWordsHolds ==
  ASSUME IInv, NEW p \in Pages, FreshWords(p)
  PROVE  IInv'
<1> DEFINE w == [work[p] EXCEPT !.pc = "fresh text"]
           f == [page[p] EXCEPT !.words = work[p].want]
<1>1. page[p] \in Files /\ work[p] \in Work
  BY Before
<1>2. Holds(page[p], work[p], cut[p]) /\ (Alone(p) => Promised(page[p], work[p], cut[p], jobs[p]))
  BY Before
<1>3. up /\ work[p].pc = "fresh words"
  BY DEF FreshWords, At
<1>4. w \in Work /\ f \in Files
  BY <1>1, <1>3, RecordTypes, FileTypes DEF Work, Steps, Files
<1>5. /\ w.pc = "fresh text" /\ w.want = work[p].want
      /\ f.words = work[p].want
      /\ f.image = page[p].image /\ f.rows = page[p].rows /\ f.layout = page[p].layout /\ f.text = page[p].text
      /\ f.drawn = page[p].drawn /\ f.adjusted = page[p].adjusted /\ f.journal = page[p].journal
  BY <1>1 DEF Work, Files
<1>6. page' = [page EXCEPT ![p] = f] /\ work' = [work EXCEPT ![p] = w]
  BY <1>3, Before DEF FreshWords, Put, Goto
<1> HIDE DEF w, f
<1>7. Always(f, w)
  BY <1>2, <1>3, <1>5 DEF Holds, Always, Turning, Fresh
<1>8. cut[p] = "no" => Steady(f, w)
  BY <1>2, <1>3, <1>5 DEF Holds, Always, Steady, Turning, Fresh, Fits
<1>9. cut[p] = "once" => CutOnce(f, w)
  BY <1>2, <1>3, <1>5 DEF Holds, Always, CutOnce, Turning, Rereading, Fresh
<1>10. Alone(p) => Promised(f, w, cut[p], jobs[p])
  BY <1>2, <1>3, <1>5 DEF Holds, Steady, Promised, Rereading, Fresh, Waiting
<1> QED
  BY <1>1, <1>3, <1>4, <1>6, <1>7, <1>8, <1>9, <1>10, PutStep DEF FreshWords, Holds

LEMMA FreshTextHolds ==
  ASSUME IInv, NEW p \in Pages, FreshText(p)
  PROVE  IInv'
<1> DEFINE w == [work[p] EXCEPT !.pc = "restore"]
           f == [page[p] EXCEPT !.text = work[p].want]
<1>1. page[p] \in Files /\ work[p] \in Work
  BY Before
<1>2. Holds(page[p], work[p], cut[p]) /\ (Alone(p) => Promised(page[p], work[p], cut[p], jobs[p]))
  BY Before
<1>3. up /\ work[p].pc = "fresh text"
  BY DEF FreshText, At
<1>4. w \in Work /\ f \in Files
  BY <1>1, <1>3, RecordTypes, FileTypes DEF Work, Steps, Files
<1>5. /\ w.pc = "restore"
      /\ f.text = work[p].want
      /\ f.image = page[p].image /\ f.rows = page[p].rows /\ f.layout = page[p].layout /\ f.words = page[p].words
      /\ f.drawn = page[p].drawn /\ f.adjusted = page[p].adjusted /\ f.journal = page[p].journal
  BY <1>1 DEF Work, Files
<1>6. page' = [page EXCEPT ![p] = f] /\ work' = [work EXCEPT ![p] = w]
  BY <1>3, Before DEF FreshText, Put, Goto
<1> HIDE DEF w, f
<1>7. Always(f, w)
  BY <1>2, <1>3, <1>5 DEF Holds, Always, Turning, Fresh
<1>8. cut[p] = "no" => Steady(f, w)
  BY <1>2, <1>3, <1>5 DEF Holds, Always, Steady, Turning, Fresh, Fits
<1>9. cut[p] = "once" => CutOnce(f, w)
  BY <1>2, <1>3, <1>5 DEF Holds, Always, CutOnce, Turning, Rereading, Fresh
<1>10. Alone(p) => Promised(f, w, cut[p], jobs[p])
  BY <1>2, <1>3, <1>5 DEF Holds, Steady, Promised, Rereading, Fresh, Waiting
<1> QED
  BY <1>1, <1>3, <1>4, <1>6, <1>7, <1>8, <1>9, <1>10, PutStep DEF FreshText, Holds

LEMMA DrawHolds ==
  ASSUME IInv, NEW p \in Pages, Draw(p)
  PROVE  IInv'
<1> DEFINE w == [work[p] EXCEPT !.pc = "adjust"]
           f == [page[p] EXCEPT !.drawn = page[p].image]
<1>1. page[p] \in Files /\ work[p] \in Work
  BY Before
<1>2. Holds(page[p], work[p], cut[p]) /\ (Alone(p) => Promised(page[p], work[p], cut[p], jobs[p]))
  BY Before
<1>3. up /\ work[p].pc = "idle" /\ Drawing \in asks[p]
  BY DEF Draw, At
<1>4. w \in Work /\ f \in Files
  BY <1>1, <1>3, RecordTypes, FileTypes DEF Work, Steps, Files
<1>5. /\ w.pc = "adjust"
      /\ f.drawn = page[p].image
      /\ f.image = page[p].image /\ f.rows = page[p].rows /\ f.layout = page[p].layout /\ f.words = page[p].words
      /\ f.text = page[p].text /\ f.adjusted = page[p].adjusted /\ f.journal = page[p].journal
  BY <1>1 DEF Work, Files
<1>6. page' = [page EXCEPT ![p] = f] /\ work' = [work EXCEPT ![p] = w]
  BY <1>3, Before DEF Draw, Put, Goto
<1> HIDE DEF w, f
<1>7. Always(f, w)
  BY <1>2, <1>3, <1>5 DEF Holds, Always, Turning, Fresh
<1>8. cut[p] = "no" => Steady(f, w)
  BY <1>2, <1>3, <1>5 DEF Holds, Always, Steady, Turning, Fresh, Fits
<1>9. cut[p] = "once" => CutOnce(f, w)
  BY <1>2, <1>3, <1>5 DEF Holds, Always, CutOnce, Turning, Rereading, Fresh, Cut, Completed
<1>10. Alone(p) => Promised(f, w, cut[p], jobs[p])
  BY <1>2, <1>3, <1>5 DEF Holds, Steady, Promised, Rereading, Fresh, Waiting, Matches, Shown
<1> QED
  BY <1>1, <1>3, <1>4, <1>6, <1>7, <1>8, <1>9, <1>10, PutStep DEF Draw, Holds

LEMMA AdjustHolds ==
  ASSUME IInv, NEW p \in Pages, Adjust(p)
  PROVE  IInv'
<1> DEFINE w == Idle
           f == [page[p] EXCEPT !.adjusted = page[p].words]
<1>1. page[p] \in Files /\ work[p] \in Work
  BY Before
<1>2. Holds(page[p], work[p], cut[p]) /\ (Alone(p) => Promised(page[p], work[p], cut[p], jobs[p]))
  BY Before
<1>3. up /\ work[p].pc = "adjust"
  BY DEF Adjust, At
<1>4. w \in Work /\ f \in Files
  BY <1>1, <1>3, RecordTypes, FileTypes, WorkTypes DEF Work, Steps, Files
<1>5. /\ w.pc = "idle"
      /\ f.adjusted = page[p].words
      /\ f.image = page[p].image /\ f.rows = page[p].rows /\ f.layout = page[p].layout /\ f.words = page[p].words
      /\ f.text = page[p].text /\ f.drawn = page[p].drawn /\ f.journal = page[p].journal
  BY <1>1 DEF Work, Files, Idle
<1>6. page' = [page EXCEPT ![p] = f] /\ work' = [work EXCEPT ![p] = w]
  BY <1>3, Before DEF Adjust, Put
<1> HIDE DEF w, f
<1>7. Always(f, w)
  BY <1>2, <1>3, <1>5 DEF Holds, Always, Turning, Fresh
<1>8. cut[p] = "no" => Steady(f, w)
  BY <1>2, <1>3, <1>5 DEF Holds, Always, Steady, Turning, Fresh, Fits
<1>9. cut[p] = "once" => CutOnce(f, w)
  BY <1>2, <1>3, <1>5 DEF Holds, Always, CutOnce, Turning, Rereading, Fresh, Cut, Completed
<1>10. Alone(p) => Promised(f, w, cut[p], jobs[p])
  BY <1>2, <1>3, <1>5 DEF Holds, Steady, Promised, Rereading, Fresh, Waiting, Matches, Shown, Always
<1> QED
  BY <1>1, <1>3, <1>4, <1>6, <1>7, <1>8, <1>9, <1>10, PutStep DEF Adjust, Holds

LEMMA RecoverRowsHolds ==
  ASSUME IInv, NEW p \in Pages, RecoverRows(p)
  PROVE  IInv'
<1> DEFINE k == (page[p].journal.to - page[p].journal.from) % 4
           r == [page[p].rows EXCEPT !.rot = page[p].journal.to,
                                     !.at = Advance(page[p].rows.at, page[p].rows.tall, k)]
           w == [work[p] EXCEPT !.pc = "unlink", !.held = r]
           f == [page[p] EXCEPT !.rows = r]
<1>1. page[p] \in Files /\ work[p] \in Work
  BY Before
<1>2. Holds(page[p], work[p], cut[p]) /\ (Alone(p) => Promised(page[p], work[p], cut[p], jobs[p]))
  BY Before
<1>3. up /\ work[p].pc = "load" /\ ~work[p].strip /\ Shown(page[p]).rot = page[p].journal.from
      /\ page[p].journal.swapped
  BY DEF RecoverRows, RecoveredBy, At, Stale
<1>4. page[p].rows # NoReading /\ Shown(page[p]) = page[p].rows
  BY <1>2, <1>3 DEF Holds, Always, Turning, Shown
<1>5. Completed(page[p]) \in Frame \ {Absent} /\ page[p].journal.to \in Quarter
  <2>1. k \in Quarter /\ page[p].journal.to \in Quarter
    BY <1>1, FileTypes, DeltaType DEF Journal
  <2>2. page[p].rows.at \in Frame /\ page[p].rows.tall \in {0, 1}
    BY <1>1, FileTypes DEF Reading
  <2> QED
    BY <2>1, <2>2, AdvanceType DEF Completed
<1>6. r \in Reading /\ r.at = Completed(page[p]) /\ r.rot = page[p].journal.to /\ r # NoReading
  BY <1>1, <1>5, FileTypes DEF Reading, Completed, NoReading
<1> HIDE DEF r
<1>7. w \in Work /\ f \in Files
  BY <1>1, <1>6 DEF Work, Steps, Files
<1>8. /\ w.pc = "unlink" /\ w.held = r /\ w.strip = work[p].strip /\ f.rows = r
      /\ f.image = page[p].image /\ f.journal = page[p].journal
  BY <1>1 DEF Work, Files
<1>9. page' = [page EXCEPT ![p] = f] /\ work' = [work EXCEPT ![p] = w]
  BY <1>3, Before DEF RecoverRows, RecoveredBy, Put, r
<1> HIDE DEF w, f
<1>10. Always(f, w)
  BY <1>3, <1>6, <1>8 DEF Always, Turning, Fresh
<1>11. cut[p] # "no"
  BY <1>2, <1>3 DEF Holds, Steady
<1>12. cut[p] = "once" => CutOnce(f, w)
  BY <1>2, <1>3, <1>4, <1>6, <1>8 DEF Holds, CutOnce, Rereading, Fresh, Cut
<1>13. Alone(p) => Promised(f, w, cut[p], jobs[p])
  BY <1>8 DEF Promised, Rereading, Fresh, Waiting
<1> QED
  BY <1>3, <1>7, <1>9, <1>10, <1>11, <1>12, <1>13, PutStep DEF RecoverRows, RecoveredBy, Holds

LEMMA RecoverLayoutHolds ==
  ASSUME IInv, NEW p \in Pages, RecoverLayout(p)
  PROVE  IInv'
<1> DEFINE k == (page[p].journal.to - page[p].journal.from) % 4
           r == [rot |-> page[p].journal.to, at |-> Advance(page[p].layout.at, page[p].layout.tall, k),
                 tall |-> page[p].image % 2]
           w == [work[p] EXCEPT !.pc = "turn", !.held = r]
           f == [page[p] EXCEPT !.layout = r]
<1>1. page[p] \in Files /\ work[p] \in Work
  BY Before
<1>2. Holds(page[p], work[p], cut[p]) /\ (Alone(p) => Promised(page[p], work[p], cut[p], jobs[p]))
  BY Before
<1>3. up /\ work[p].pc = "load" /\ work[p].strip /\ page[p].journal.swapped
  BY DEF RecoverLayout, At
<1>4. r \in Reading
  <2>1. page[p].journal.to \in Quarter /\ k \in Quarter /\ page[p].image % 2 \in {0, 1}
    BY <1>1, FileTypes, DeltaType DEF Journal, Quarter
  <2>2. page[p].layout.at \in Frame /\ page[p].layout.tall \in {0, 1}
    BY <1>1, FileTypes DEF Reading
  <2> QED
    BY <2>1, <2>2, AdvanceType DEF Reading
<1> HIDE DEF r
<1>5. w \in Work /\ f \in Files
  BY <1>1, <1>4 DEF Work, Steps, Files
<1>6. /\ w.pc = "turn" /\ w.strip = work[p].strip /\ f.rows = page[p].rows
      /\ f.image = page[p].image /\ f.journal = page[p].journal
  BY <1>1 DEF Work, Files
<1>7. page' = [page EXCEPT ![p] = f] /\ work' = [work EXCEPT ![p] = w]
  BY <1>3, Before DEF RecoverLayout, Put, r
<1> HIDE DEF w, f
<1>8. Always(f, w)
  BY <1>2, <1>3, <1>6 DEF Holds, Always, Turning, Fresh
<1>9. cut[p] # "no"
  BY <1>2, <1>3 DEF Holds, Steady
<1>10. CutOnce(f, w)
  BY <1>3, <1>6 DEF CutOnce, Rereading, Fresh
<1>11. Alone(p) => Promised(f, w, cut[p], jobs[p])
  BY <1>6, <1>9 DEF Promised, Rereading, Fresh
<1> QED
  BY <1>3, <1>5, <1>7, <1>8, <1>9, <1>10, <1>11, PutStep DEF RecoverLayout, Holds

LEMMA WriteJournalHolds ==
  ASSUME IInv, NEW p \in Pages, WriteJournal(p)
  PROVE  IInv'
<1> DEFINE h == work[p].held
           k == Delta(p)
           j == [from |-> h.rot, to |-> work[p].want, swapped |-> FALSE]
           r == [rot |-> work[p].want, tall |-> Turn(page[p].image, k) % 2,
                 at |-> Advance(h.at, IF work[p].strip THEN page[p].image % 2 ELSE h.tall, k)]
           t == IF work[p].strip \/ page[p].words = Absent THEN Absent ELSE Advance(page[p].words, h.tall, k)
           w == [work[p] EXCEPT !.pc = "image", !.left = k, !.held = r, !.words = t]
           f == [page[p] EXCEPT !.journal = j]
           c == IF cut[p] = "once" THEN "lost" ELSE cut[p]
<1>1. page[p] \in Files /\ work[p] \in Work /\ cut[p] \in Cuts
  BY Before
<1>2. Holds(page[p], work[p], cut[p]) /\ (Alone(p) => Promised(page[p], work[p], cut[p], jobs[p]))
  BY Before
<1>3. up /\ work[p].pc = "turn" /\ k # 0
  BY DEF WriteJournal, At
<1>4. h \in Reading /\ work[p].want \in Quarter /\ page[p].image \in Quarter /\ page[p].words \in Frame
  BY <1>1, FileTypes DEF Work
<1>5. h.rot \in Quarter /\ h.at \in Frame /\ h.tall \in {0, 1}
  BY <1>4 DEF Reading
<1>6. k \in Quarter /\ k = (work[p].want - h.rot) % 4 /\ work[p].want # h.rot
  BY <1>3, <1>4, <1>5, DeltaType DEF Delta
<1>7. j \in Journal /\ j.from = h.rot /\ j.to = work[p].want /\ ~j.swapped
  BY <1>4, <1>5 DEF Journal
<1>8. r \in Reading /\ t \in Frame
  <2>1. Turn(page[p].image, k) % 2 \in {0, 1} /\ page[p].image % 2 \in {0, 1}
    BY <1>4, <1>6 DEF Turn, Quarter
  <2> QED
    BY <1>4, <1>5, <1>6, <2>1, AdvanceType, RecordTypes DEF Reading
<1>9. r.rot = work[p].want /\ r.tall = Turn(page[p].image, k) % 2
      /\ (~work[p].strip /\ h.at = page[p].image /\ h.tall = page[p].image % 2 => r.at = Turn(page[p].image, k))
  BY <1>4, <1>6, AdvanceFits
<1> HIDE DEF h, k, j, r, t
<1>10. w \in Work /\ f \in Files /\ c \in Cuts
  <2>1. k \in 0..5
    BY <1>6 DEF Quarter
  <2> QED
    BY <1>1, <1>7, <1>8, <2>1 DEF Work, Steps, Files, Cuts
<1>11. /\ w.pc = "image" /\ w.held = r /\ w.strip = work[p].strip /\ w.left = k
       /\ f.journal = j /\ f.image = page[p].image /\ f.rows = page[p].rows /\ f.layout = page[p].layout
       /\ f.words = page[p].words /\ f.text = page[p].text
       /\ f.drawn = page[p].drawn /\ f.adjusted = page[p].adjusted
  BY <1>1 DEF Work, Files
<1>12. page' = [page EXCEPT ![p] = f] /\ work' = [work EXCEPT ![p] = w] /\ cut' = [cut EXCEPT ![p] = c]
  BY Before DEF WriteJournal, Put, h, k, j, r, t
<1> HIDE DEF w, f
<1>13. Always(f, w)
  BY <1>2, <1>3, <1>11 DEF Holds, Always, Turning, Fresh
<1>14. c = "no" => Steady(f, w)
  <2>1. cut[p] = "no" => Steady(page[p], work[p])
    BY <1>2 DEF Holds
  <2>2. cut[p] = "no" /\ ~work[p].strip => h = page[p].rows /\ h.at = page[p].image /\ h.tall = page[p].image % 2
    BY <1>2, <1>3, <2>1 DEF Holds, Always, Steady, Turning, Fits, h
  <2> QED
    BY <1>3, <1>6, <1>7, <1>9, <1>11, <2>1, <2>2 DEF Steady, Fits, InHand
<1>15. c = "once" => CutOnce(f, w)
  OBVIOUS
<1>16. Alone(p) => Promised(f, w, c, jobs[p])
  BY <1>2, <1>3, <1>11 DEF Promised, Rereading, Fresh, Waiting, Matches, Shown
<1>17. jobs' \in [Pages -> JobState] /\ jobs'[p] = jobs[p] /\ UNCHANGED <<up, deaths, asks>> /\ work[p] # Idle
  BY <1>3, Before DEF WriteJournal, Idle
<1> HIDE DEF c
<1> QED
  BY <1>3, <1>10, <1>12, <1>13, <1>14, <1>15, <1>16, <1>17, ThreadStep DEF Holds

LEMMA ReplaceImageHolds ==
  ASSUME IInv, NEW p \in Pages, ReplaceImage(p)
  PROVE  IInv'
<1> DEFINE w == [work[p] EXCEPT !.pc = "flag"]
           f == [page[p] EXCEPT !.image = Turn(page[p].image, work[p].left)]
<1>1. page[p] \in Files /\ work[p] \in Work
  BY Before
<1>2. Holds(page[p], work[p], cut[p]) /\ (Alone(p) => Promised(page[p], work[p], cut[p], jobs[p]))
  BY Before
<1>3. up /\ work[p].pc = "image"
  BY DEF ReplaceImage, At
<1>4. Turn(page[p].image, work[p].left) \in Quarter
  BY <1>1, FileTypes, TurnType DEF Work, Quarter
<1>5. w \in Work /\ f \in Files
  BY <1>1, <1>4 DEF Work, Steps, Files
<1>6. /\ w.pc = "flag" /\ w.held = work[p].held /\ w.strip = work[p].strip /\ w.left = work[p].left
      /\ f.image = Turn(page[p].image, work[p].left) /\ f.rows = page[p].rows /\ f.journal = page[p].journal
  BY <1>1 DEF Work, Files
<1>7. page' = [page EXCEPT ![p] = f] /\ work' = [work EXCEPT ![p] = w]
  BY <1>3, Before DEF ReplaceImage, Put, Goto
<1> HIDE DEF w, f
<1>8. Always(f, w)
  BY <1>2, <1>3, <1>6 DEF Holds, Always, Turning, Fresh
<1>9. cut[p] = "no" => Steady(f, w)
  <2> SUFFICES ASSUME cut[p] = "no" PROVE Steady(f, w)
    OBVIOUS
  <2>1. Steady(page[p], work[p])
    BY <1>2 DEF Holds
  <2>2. CASE work[p].strip
    BY <1>3, <1>6, <2>1, <2>2 DEF Steady
  <2>3. CASE ~work[p].strip
    <3>1. page[p].rows.at = page[p].image /\ page[p].rows.tall = page[p].image % 2 /\ InHand(page[p], work[p])
      BY <1>2, <1>3, <2>1, <2>3 DEF Holds, Always, Turning, Steady, Fits
    <3>2. work[p].left \in Quarter /\ page[p].image \in Quarter
      BY <1>1, <3>1, FileTypes, DeltaType DEF InHand, Journal
    <3>3. Completed(f) = f.image
      BY <1>6, <3>1, <3>2, AdvanceFits DEF Completed, InHand
    <3> QED
      BY <1>3, <1>6, <2>1, <2>3, <3>3 DEF Steady, InHand
  <2> QED
    BY <2>2, <2>3
<1>10. cut[p] = "once" => CutOnce(f, w)
  BY <1>2, <1>3 DEF Holds, CutOnce
<1>11. Alone(p) => Promised(f, w, cut[p], jobs[p])
  BY <1>6 DEF Promised, Rereading, Fresh, Waiting
<1> QED
  BY <1>3, <1>5, <1>7, <1>8, <1>9, <1>10, <1>11, PutStep DEF ReplaceImage, Holds

LEMMA WriteReadingHolds ==
  ASSUME IInv, NEW p \in Pages, WriteReading(p)
  PROVE  IInv'
<1> DEFINE w == [work[p] EXCEPT !.pc = IF work[p].words # Absent THEN "words" ELSE "end"]
           f == [page[p] EXCEPT ![IF work[p].strip THEN "layout" ELSE "rows"] = work[p].held]
<1>1. page[p] \in Files /\ work[p] \in Work
  BY Before
<1>2. Holds(page[p], work[p], cut[p]) /\ (Alone(p) => Promised(page[p], work[p], cut[p], jobs[p]))
  BY Before
<1>3. up /\ work[p].pc = "reading"
  BY DEF WriteReading, At
<1>4. w \in Work /\ f \in Files
  BY <1>1 DEF Work, Steps, Files
<1>5. /\ w.pc \in {"words", "end"}
      /\ f.rows = IF work[p].strip THEN page[p].rows ELSE work[p].held
      /\ f.image = page[p].image /\ f.journal = page[p].journal
  BY <1>1 DEF Work, Files
<1>6. page' = [page EXCEPT ![p] = f] /\ work' = [work EXCEPT ![p] = w]
  BY <1>3, Before DEF WriteReading, Put, Goto
<1> HIDE DEF w, f
<1>7. Always(f, w)
  BY <1>5 DEF Always, Turning, Fresh
<1>8. cut[p] = "no" => Steady(f, w)
  BY <1>2, <1>3, <1>5 DEF Holds, Always, Turning, Steady, Fits, InHand
<1>9. cut[p] = "once" => CutOnce(f, w)
  BY <1>2, <1>3 DEF Holds, CutOnce
<1>10. Alone(p) => Promised(f, w, cut[p], jobs[p])
  BY <1>5 DEF Promised, Rereading, Fresh, Waiting
<1> QED
  BY <1>3, <1>4, <1>6, <1>7, <1>8, <1>9, <1>10, PutStep DEF WriteReading, Holds

LEMMA DropNextHolds ==
  ASSUME IInv, NEW p \in Pages, DropNext(p)
  PROVE  IInv'
<1> DEFINE file == DropOrder[work[p].left]
           w == [work[p] EXCEPT !.left = @ - 1, !.pc = IF work[p].left = 1 THEN "read" ELSE @]
           f == [page[p] EXCEPT ![file] = IF file = "rows" THEN NoReading ELSE Absent]
<1>1. page[p] \in Files /\ work[p] \in Work
  BY Before
<1>2. Holds(page[p], work[p], cut[p]) /\ (Alone(p) => Promised(page[p], work[p], cut[p], jobs[p]))
  BY Before
<1>3. up /\ work[p].pc = "drop"
  BY DEF DropNext, At
<1>4. work[p].left \in 1..5
  BY <1>1, <1>2, <1>3 DEF Holds, Always, Work
<1>5. file \in {"adjusted", "drawn", "words", "rows", "text"} /\ (work[p].left = 1 => file = "adjusted")
  BY <1>4 DEF DropOrder
<1>6. w \in Work
  <2>1. work[p].left - 1 \in 0..5
    BY <1>4
  <2> QED
    BY <1>1, <2>1 DEF Work, Steps
<1>7. w.left = work[p].left - 1 /\ w.pc = (IF work[p].left = 1 THEN "read" ELSE "drop")
  BY <1>1, <1>3 DEF Work
<1>8. page' = [page EXCEPT ![p] = f] /\ work' = [work EXCEPT ![p] = w]
  BY <1>3, Before DEF DropNext, Put
<1> HIDE DEF w, file
<1>9. f \in Files
  BY <1>1, <1>5, RecordTypes DEF Files
<1>10. /\ f.rows \in {NoReading, page[p].rows} /\ f.image = page[p].image /\ f.journal = page[p].journal
       /\ file = "adjusted" => f.adjusted = Absent
  BY <1>1, <1>5 DEF Files
<1> HIDE DEF f
<1>11. Always(f, w)
  BY <1>4, <1>5, <1>7, <1>10 DEF Always, Turning, Fresh
<1>12. cut[p] = "no" => Steady(f, w)
  BY <1>2, <1>3, <1>7, <1>10 DEF Holds, Steady, Fits
<1>13. cut[p] = "once" => CutOnce(f, w)
  BY <1>2, <1>3, <1>7, <1>10 DEF Holds, CutOnce, Rereading
<1>14. Alone(p) => Promised(f, w, cut[p], jobs[p])
  BY <1>2, <1>3, <1>7 DEF Promised, Rereading, Waiting
<1> QED
  BY <1>3, <1>6, <1>8, <1>9, <1>11, <1>12, <1>13, <1>14, PutStep DEF DropNext, Holds

LEMMA RestoreRotationHolds ==
  ASSUME IInv, NEW p \in Pages, RestoreRotation(p)
  PROVE  IInv'
<1> DEFINE w == [work[p] EXCEPT !.pc = "sidecars"]
           r == IF work[p].held.rot = 0 THEN page[p].rows ELSE [page[p].rows EXCEPT !.rot = work[p].held.rot]
           f == [page[p] EXCEPT !.rows = r]
<1>1. page[p] \in Files /\ work[p] \in Work
  BY Before
<1>2. Holds(page[p], work[p], cut[p]) /\ (Alone(p) => Promised(page[p], work[p], cut[p], jobs[p]))
  BY Before
<1>3. up /\ work[p].pc = "restore"
  BY DEF RestoreRotation, At
<1>4. r \in Reading /\ r.at = page[p].rows.at /\ r.tall = page[p].rows.tall
  BY <1>1, FileTypes DEF Work, Reading
<1>5. w.pc = "sidecars" /\ w \in Work
  BY <1>1 DEF Work, Steps
<1>6. page' = [page EXCEPT ![p] = f] /\ work' = [work EXCEPT ![p] = w]
  <2>1. work' = [work EXCEPT ![p] = w]
    BY <1>3, Before DEF RestoreRotation, Goto
  <2>2. CASE work[p].held.rot = 0
    <3>1. f = page[p]
      BY <1>1, <2>2 DEF Files
    <3> QED
      BY <2>1, <2>2, <3>1, Before DEF RestoreRotation
  <2>3. CASE work[p].held.rot # 0
    BY <2>1, <2>3, Before DEF RestoreRotation
  <2> QED
    BY <2>2, <2>3
<1> HIDE DEF w, r
<1>7. f \in Files
  BY <1>1, <1>4 DEF Files
<1>8. /\ f.rows = r /\ f.image = page[p].image /\ f.journal = page[p].journal
      /\ f.words = page[p].words /\ f.text = page[p].text /\ f.adjusted = page[p].adjusted
  BY <1>1 DEF Files
<1> HIDE DEF f
<1>9. Always(f, w)
  BY <1>2, <1>3, <1>4, <1>5, <1>8 DEF Holds, Always, Turning, Fresh
<1>10. cut[p] = "no" => Steady(f, w)
  BY <1>2, <1>3, <1>4, <1>5, <1>8, <1>9 DEF Holds, Always, Steady, Fits, Fresh
<1>11. cut[p] = "once" => CutOnce(f, w)
  BY <1>2, <1>3, <1>4, <1>5, <1>8, <1>9 DEF Holds, Always, CutOnce, Rereading, Fresh
<1>12. Alone(p) => Promised(f, w, cut[p], jobs[p])
  BY <1>2, <1>3, <1>5 DEF Promised, Rereading, Fresh, Waiting
<1> QED
  BY <1>3, <1>5, <1>6, <1>7, <1>9, <1>10, <1>11, <1>12, PutStep DEF RestoreRotation, Holds

LEMMA SidecarsHolds ==
  ASSUME IInv, NEW p \in Pages, Sidecars(p)
  PROVE  IInv'
<1>1. PICK pc \in {"clear", "fail"} : Goto(p, pc)
  BY DEF Sidecars
<1> DEFINE w == [work[p] EXCEPT !.pc = pc]
<1>2. page[p] \in Files /\ work[p] \in Work
  BY Before
<1>3. Holds(page[p], work[p], cut[p]) /\ (Alone(p) => Promised(page[p], work[p], cut[p], jobs[p]))
  BY Before
<1>4. up /\ work[p].pc = "sidecars"
  BY DEF Sidecars, At
<1>5. w \in Work /\ w.pc = pc
  BY <1>2 DEF Work, Steps
<1>6. page' = [page EXCEPT ![p] = page[p]] /\ work' = [work EXCEPT ![p] = w]
  BY <1>1, <1>4, Before DEF Sidecars, Goto
<1> HIDE DEF w
<1>7. Always(page[p], w)
  BY <1>3, <1>4, <1>5 DEF Holds, Always, Turning, Fresh
<1>8. cut[p] = "no" => Steady(page[p], w)
  BY <1>3, <1>4, <1>5 DEF Holds, Steady, Fits
<1>9. cut[p] = "once" => CutOnce(page[p], w)
  BY <1>3, <1>4, <1>5 DEF Holds, CutOnce, Rereading, Fresh
<1>10. Alone(p) => Promised(page[p], w, cut[p], jobs[p])
  BY <1>3, <1>4, <1>5 DEF Promised, Rereading, Fresh, Waiting
<1> QED
  BY <1>2, <1>4, <1>5, <1>6, <1>7, <1>8, <1>9, <1>10, PutStep DEF Sidecars, Holds

LEMMA WriteJobsHolds ==
  ASSUME IInv, NEW p \in Pages, WriteJobs(p)
  PROVE  IInv'
<1> DEFINE pc == work[p].pc
           w == IF pc = "mark" THEN [Idle EXCEPT !.pc = "drop", !.held = page[p].rows, !.left = 5] ELSE Idle
           c == IF cut[p] # "no" /\ page[p].journal # NoJournal THEN "lost"
                ELSE IF pc = "clear" THEN "no" ELSE cut[p]
           entry == JobAfter[pc]
<1>1. page[p] \in Files /\ work[p] \in Work /\ cut[p] \in Cuts
  BY Before
<1>2. Holds(page[p], work[p], cut[p]) /\ (Alone(p) => Promised(page[p], work[p], cut[p], jobs[p]))
  BY Before
<1>3. up /\ pc \in {"mark", "clear", "fail"} /\ work[p].copy # NoCopy
  BY DEF WriteJobs, StoreJobs, JobAfter
<1>4. /\ entry \in JobState /\ entry = (CASE pc = "mark" -> "transcribing" [] pc = "clear" -> "none" [] OTHER -> "failed")
  BY <1>3 DEF JobAfter, JobState
<1>5. jobs' \in [Pages -> JobState] /\ jobs'[p] = entry
  BY <1>1, <1>3, <1>4 DEF WriteJobs, StoreJobs, Work
<1>6. w \in Work /\ w.pc = (IF pc = "mark" THEN "drop" ELSE "idle") /\ (pc = "mark" => w.left = 5)
  <2>1. page[p].rows \in Reading /\ 5 \in 0..5 /\ "drop" \in Steps
    BY <1>1, FileTypes DEF Steps
  <2>2. CASE pc = "mark"
    BY <2>1, <2>2, WorkTypes DEF Work
  <2>3. CASE pc # "mark"
    BY <2>3, WorkTypes DEF Idle
  <2> QED
    BY <2>2, <2>3
<1>7. c \in Cuts /\ (c = "once" => cut[p] = "once" /\ pc # "clear" /\ page[p].journal = NoJournal)
      /\ (c = "no" => cut[p] = "no" \/ (pc = "clear" /\ page[p].journal = NoJournal))
  BY <1>1 DEF Cuts
<1>8. page' = [page EXCEPT ![p] = page[p]] /\ work' = [work EXCEPT ![p] = w] /\ cut' = [cut EXCEPT ![p] = c]
      /\ UNCHANGED <<up, deaths, asks>> /\ work[p] # Idle
  BY <1>3, Before DEF WriteJobs, StoreJobs, Idle
<1>9. page[p].image \in Quarter /\ Absent \notin Quarter
  BY <1>1, FileTypes DEF Quarter, Absent
<1> HIDE DEF pc, w, c, entry
<1>10. pc = work[p].pc
  BY DEF pc
<1>11. Always(page[p], w)
  BY <1>6 DEF Always, Turning, Fresh
<1>12. c = "no" => Steady(page[p], w)
  <2>1. CASE cut[p] = "no"
    BY <1>2, <1>3, <1>6, <1>10, <2>1 DEF Holds, Steady, Fits
  <2>2. CASE pc = "clear" /\ page[p].journal = NoJournal
    BY <1>2, <1>6, <1>10, <2>2, RecordTypes DEF Holds, Always, Steady, Fits, Fresh
  <2> QED
    BY <1>7, <2>1, <2>2
<1>13. c = "once" => CutOnce(page[p], w)
  <2>1. page[p].journal = NoJournal => ~Cut(page[p])
    BY RecordTypes DEF Cut
  <2> QED
    BY <1>2, <1>3, <1>6, <1>7, <1>10, <2>1 DEF Holds, CutOnce, Rereading, Fresh
<1>14. Promised(page[p], w, c, jobs'[p])
  <2>1. CASE pc = "clear"
    <3>1. /\ page[p].rows.at = page[p].image /\ page[p].words = page[p].image
          /\ page[p].text = page[p].image /\ page[p].adjusted = Absent
      BY <1>2, <1>10, <2>1 DEF Holds, Always, Fresh
    <3> QED
      BY <1>6, <1>9, <2>1, <3>1 DEF Promised, Matches, Shown, NoReading, Rereading, Fresh
  <2>2. CASE pc # "clear"
    BY <1>3, <1>4, <1>5, <1>6, <2>2 DEF Promised, Rereading, Fresh
  <2> QED
    BY <2>1, <2>2
<1> QED
  BY <1>1, <1>3, <1>5, <1>6, <1>7, <1>8, <1>11, <1>12, <1>13, <1>14, ThreadStep DEF Holds

-----------------------------------------------------------------------------
(* The server's death and restart.                                         *)

\* what is left of a page when its thread dies
LEMMA CutShort ==
  ASSUME NEW p \in Pages, page[p] \in Files, work[p] \in Work, cut[p] \in Cuts,
         Holds(page[p], work[p], cut[p])
  PROVE  /\ CutBy(p) \in Cuts /\ Holds(page[p], Idle, CutBy(p))
         /\ CutBy(p) = "no" => /\ cut[p] = "no"
                               /\ work[p].pc \in Waiting \cup Rereading
<1>1. CutBy(p) \in Cuts
  BY DEF CutBy, Cuts
<1>2. /\ CutBy(p) = "no" => cut[p] = "no" /\ work[p].pc \notin {"flag", "reading", "words", "end", "mark"}
      /\ CutBy(p) = "once" =>
           \/ cut[p] = "no" /\ work[p].pc \in {"reading", "words", "end", "mark"}
           \/ cut[p] = "once" /\ work[p].pc \notin {"flag", "reading", "words", "end", "mark"}
  BY DEF CutBy
<1>3. Idle.pc = "idle"
  BY DEF Idle
<1>4. work[p].pc \in Steps
  BY DEF Work
<1>5. Always(page[p], Idle)
  BY <1>3 DEF Always, Turning, Fresh
<1>6. ASSUME CutBy(p) = "no"
      PROVE  Steady(page[p], Idle) /\ cut[p] = "no" /\ work[p].pc \in Waiting \cup Rereading
  BY <1>2, <1>3, <1>4, <1>6 DEF Holds, Steady, Fits, Steps, Waiting, Rereading, Fresh
<1>7. ASSUME CutBy(p) = "once"
      PROVE  CutOnce(page[p], Idle)
  <2>1. CASE cut[p] = "no"
    <3>1. page[p].image \in Quarter
      BY FileTypes
    <3>2. page[p].journal.to \in Quarter /\ page[p].journal.from \in Quarter
      BY FileTypes DEF Journal
    <3>3. Steady(page[p], work[p]) /\ Always(page[p], work[p])
      BY <2>1 DEF Holds
    <3>4. CASE work[p].pc = "reading"
      BY <1>3, <3>3, <3>4 DEF Steady, Always, Turning, CutOnce, InHand, Cut, Rereading, Fresh
    <3>5. CASE work[p].pc \in {"words", "end", "mark"}
      BY <1>3, <3>3, <3>5 DEF Steady, Fits, CutOnce, Cut, Rereading, Fresh
    <3> QED
      BY <1>2, <1>7, <2>1, <3>4, <3>5
  <2>2. CASE cut[p] = "once"
    <3>1. CutOnce(page[p], work[p]) /\ Always(page[p], work[p])
      BY <2>2 DEF Holds
    <3>2. work[p].pc \in {"idle", "load", "adjust", "unlink", "turn"} \cup Rereading
      BY <1>2, <1>4, <1>7, <2>2, <3>1 DEF CutOnce, Steps, Rereading, Fresh
    <3>3. page[p].journal = NoJournal => ~Cut(page[p])
      BY RecordTypes DEF Cut
    <3>4. \/ page[p].rows = NoReading
          \/ page[p].rows.at = page[p].image /\ ~Cut(page[p])
          \/ Cut(page[p]) /\ page[p].journal.to # page[p].journal.from /\ Completed(page[p]) = page[p].image
      BY <3>1, <3>2, <3>3 DEF CutOnce, Always, Turning
    <3> QED
      BY <1>3, <3>4 DEF CutOnce, Rereading, Fresh
  <2> QED
    BY <1>2, <1>7, <2>1, <2>2
<1> QED
  BY <1>1, <1>5, <1>6, <1>7 DEF Holds

LEMMA DieHolds ==
  ASSUME PagesAssumption, IInv, Die
  PROVE  IInv'
<1>1. TypeOK'
  <2>1. deaths' \in 0..MaxDeaths
    <3>1. deaths \in 0..MaxDeaths /\ MaxDeaths \in Nat
      BY DEF PagesAssumption, IInv, TypeOK
    <3>2. deaths' = deaths + 1 /\ deaths < MaxDeaths
      BY DEF Die
    <3> QED
      BY <3>1, <3>2
  <2>2. work' \in [Pages -> Work] /\ cut' \in [Pages -> Cuts]
    BY Before, CutShort, WorkTypes DEF Die
  <2> QED
    BY <2>1, <2>2 DEF IInv, TypeOK, Die
<1>2. Threadless'
  BY DEF Threadless, Die
<1>3. ASSUME NEW p \in Pages PROVE PageInv(p)' /\ AloneInv(p)'
  <2>1. page'[p] = page[p] /\ work'[p] = Idle /\ cut'[p] = CutBy(p) /\ jobs'[p] = jobs[p] /\ asks' = asks
    BY DEF Die
  <2>2. \A o \in Pages : work'[o] = Idle
    BY DEF Die
  <2>3. PageInv(p)'
    BY <2>1, Before, CutShort DEF PageInv
  <2>4. Alone(p) => Promised(page[p], Idle, CutBy(p), jobs[p])
    <3>1. Idle.pc = "idle"
      BY DEF Idle
    <3> QED
      BY <3>1, Before, CutShort DEF Promised, Rereading, Fresh
  <2> QED
    BY <2>1, <2>2, <2>3, <2>4 DEF AloneInv, Alone
<1> QED
  BY <1>1, <1>2, <1>3 DEF IInv

LEMMA RestartHolds ==
  ASSUME IInv, Restart
  PROVE  IInv'
<1>1. jobs' \in [Pages -> JobState] /\ up'
  BY Before DEF Restart, ComeUp, IInv, TypeOK, JobState
<1>2. TypeOK' /\ Threadless'
  BY <1>1 DEF IInv, TypeOK, Threadless, Restart, ComeUp
<1>3. ASSUME NEW p \in Pages PROVE PageInv(p)' /\ AloneInv(p)'
  <2>1. work[p] = Idle /\ Idle.pc = "idle" /\ (jobs'[p] = "none" => jobs[p] = "none")
    BY DEF IInv, Threadless, Restart, ComeUp, Idle
  <2>2. Alone(p) => Promised(page[p], Idle, cut[p], jobs'[p])
    BY <2>1, Before DEF Promised, Rereading, Fresh
  <2> QED
    BY <2>1, <2>2 DEF IInv, PageInv, AloneInv, Alone, Restart, ComeUp
<1> QED
  BY <1>2, <1>3 DEF IInv

-----------------------------------------------------------------------------
(* The invariant is inductive.                                             *)

LEMMA InitHolds ==
  ASSUME PagesAssumption, Init
  PROVE  IInv
<1>1. PICK old \in SUBSET OldReading : page = [p \in Pages |-> ReadPage(p \in old)]
  BY DEF Init
<1>2. ASSUME NEW p \in Pages
      PROVE  page[p] \in Files /\ page[p] = ReadPage(p \in old)
  <2>1. FreshReading(0) \in Reading
    BY FreshType DEF Quarter
  <2> QED
    BY <1>1, <2>1, RecordTypes DEF ReadPage, Files, Quarter
<1>3. TypeOK /\ Threadless
  BY <1>1, <1>2, WorkTypes DEF Init, TypeOK, PagesAssumption, JobState, Cuts, Threadless
<1>4. ASSUME NEW p \in Pages
      PROVE  PageInv(p) /\ AloneInv(p)
  <2>1. /\ page[p].image = 0 /\ page[p].text = 0 /\ page[p].adjusted = Absent /\ page[p].journal = NoJournal
        /\ page[p].rows \in {NoReading, FreshReading(0)}
        /\ page[p].rows = NoReading => page[p].layout = FreshReading(0)
        /\ page[p].words \in {Absent, 0}
    <3>1. CASE p \in old
      <4>1. page[p] = [image |-> 0, text |-> 0, drawn |-> Absent, adjusted |-> Absent, journal |-> NoJournal,
                       rows |-> NoReading, words |-> Absent, layout |-> FreshReading(0)]
        BY <1>2, <3>1 DEF ReadPage
      <4> QED
        BY <4>1
    <3>2. CASE p \notin old
      <4>1. page[p] = [image |-> 0, text |-> 0, drawn |-> Absent, adjusted |-> Absent, journal |-> NoJournal,
                       rows |-> FreshReading(0), words |-> 0, layout |-> NoReading]
        BY <1>2, <3>2 DEF ReadPage
      <4>2. FreshReading(0) # NoReading
        BY DEF FreshReading, NoReading, Absent
      <4> QED
        BY <4>1, <4>2
    <3> QED
      BY <3>1, <3>2
  <2>2. work[p] = Idle /\ Idle.pc = "idle" /\ cut[p] = "no" /\ jobs[p] = "none"
    BY DEF Init, Idle
  <2>3. FreshReading(0).at = 0 /\ FreshReading(0).tall = 0 % 2 /\ FreshReading(0) # NoReading
    BY DEF FreshReading, NoReading, Absent
  <2>4. PageInv(p)
    BY <2>1, <2>2, <2>3 DEF PageInv, Holds, Always, Steady, Fits, Turning, Fresh, NoJournal
  <2>5. Promised(page[p], work[p], cut[p], jobs[p])
    BY <2>1, <2>2, <2>3 DEF Promised, Matches, Shown, Rereading, Fresh
  <2> QED
    BY <2>4, <2>5 DEF AloneInv, Init
<1> QED
  BY <1>3, <1>4 DEF IInv

LEMMA NextHolds ==
  ASSUME PagesAssumption, IInv, [Next]_vars
  PROVE  IInv'
<1>1. ASSUME NEW p \in Pages, NEW q \in asks[p] \cap Quarter, Request(p, q)
      PROVE  IInv'
  BY <1>1, RequestHolds
<1>2. ASSUME NEW p \in Pages, Reread(p) \/ Draw(p) \/ Adjust(p)
      PROVE  IInv'
  BY <1>2, RereadHolds, DrawHolds, AdjustHolds
<1>3. ASSUME NEW p \in Pages, Rotation(p)
      PROVE  IInv'
  BY <1>3, KeepReadingHolds, DropJournalHolds, RecoverRowsHolds, RecoverUnlinkHolds, RecoverLayoutHolds, NoTurnHolds,
     WriteJournalHolds, ReplaceImageHolds, FlagJournalHolds, WriteReadingHolds, WriteWordsHolds, EndRotationHolds
     DEF Rotation
<1>4. ASSUME NEW p \in Pages, Job(p)
      PROVE  IInv'
  BY <1>4, ReadJobsHolds, WriteJobsHolds, DropNextHolds, ReadRowsHolds, ReadNothingHolds, FreshWordsHolds,
     FreshTextHolds, RestoreRotationHolds, SidecarsHolds DEF Job
<1>5. CASE Die \/ Restart
  BY <1>5, DieHolds, RestartHolds
<1>6. CASE UNCHANGED vars
  BY <1>6 DEF vars, IInv, TypeOK, Threadless, PageInv, AloneInv, Alone
<1> QED
  BY <1>1, <1>2, <1>3, <1>4, <1>5, <1>6 DEF Next, Thread

LEMMA Inductive ==
  ASSUME PagesAssumption
  PROVE  Init /\ [][Next]_vars => []IInv
<1>1. Init => IInv
  BY InitHolds
<1>2. IInv /\ [Next]_vars => IInv'
  BY NextHolds
<1> QED
  BY <1>1, <1>2, PTL

\* Every file frame, thread and entry keeps its type.
THEOREM TypeCorrect ==
  ASSUME PagesAssumption
  PROVE  Init /\ [][Next]_vars => []TypeOK
<1>1. IInv => TypeOK
  BY DEF IInv
<1> QED
  BY <1>1, Inductive, PTL

\* While one page is worked on, what is shown of it at rest with no job on record describes
\* the image as it is turned now, unless a rotation of it was cut short (sync.py, worker
\* threads and re-read), for any pages, requests and number of deaths.
THEOREM NothingStale ==
  ASSUME PagesAssumption
  PROVE  Init /\ [][Next]_vars => []NothingStaleSilently
<1>1. IInv => NothingStaleSilently
  BY DEF IInv, AloneInv, Promised, Waiting, NothingStaleSilently, Resting
<1> QED
  BY <1>1, Inductive, PTL

\* A rotation of a page's rows that died with its journal flagged is completed before the
\* next one computes its turn, whatever other pages' threads and deaths come between.
THEOREM BoxesFit ==
  ASSUME PagesAssumption
  PROVE  Init /\ [][Next]_vars => []RecoveredBoxesFit
<1>1. IInv => RecoveredBoxesFit
  BY DEF IInv, PageInv, Holds, CutOnce, RecoveredBoxesFit, At
<1> QED
  BY <1>1, Inductive, PTL

\* The jobs file loses what it says of a page only to that page's own job, to a restart, or
\* to a job that writes back an older copy.
THEOREM JobLost ==
  ASSUME PagesAssumption
  PROVE  Init /\ [][Next]_vars => JobLostOnlyToStaleCopy
<1> DEFINE Lost(p) == \/ work[p].copy # NoCopy /\ work'[p].copy = NoCopy
                      \/ ~up
                      \/ \E o \in Pages : work[o].copy # NoCopy /\ work[o].copy[p] # jobs[p]
<1>1. ASSUME IInv, Next, NEW p \in Pages, jobs'[p] # jobs[p]
      PROVE  Lost(p)
  <2>1. CASE Restart
    BY <2>1 DEF Restart, ComeUp
  <2>2. ASSUME NEW o \in Pages, WriteJobs(o)
        PROVE  Lost(p)
    <3>1. work[o].copy # NoCopy /\ work[o].copy \in [Pages -> JobState]
      <4>1. work[o].copy \in {NoCopy} \cup [Pages -> JobState]
        BY <1>1, Before DEF Work
      <4> QED
        BY <2>2, <4>1 DEF WriteJobs, StoreJobs
    <3>2. CASE o = p
      <4>1. work'[p] \in {Idle, [Idle EXCEPT !.pc = "drop", !.held = page[p].rows, !.left = 5]}
        BY <1>1, <2>2, <3>2, Before DEF WriteJobs, StoreJobs
      <4>2. work'[p].copy = NoCopy
        <5>1. Idle.copy = NoCopy /\ [Idle EXCEPT !.pc = "drop", !.held = page[p].rows, !.left = 5].copy = NoCopy
          BY DEF Idle
        <5> QED
          BY <4>1, <5>1
      <4> QED
        BY <3>1, <3>2, <4>2
    <3>3. CASE o # p
      <4>1. jobs'[p] = work[o].copy[p]
        BY <2>2, <3>1, <3>3 DEF WriteJobs, StoreJobs
      <4> QED
        BY <1>1, <3>1, <4>1
    <3> QED
      BY <3>2, <3>3
  <2>3. jobs' # jobs
    BY <1>1
  <2>4. Restart \/ \E o \in Pages : WriteJobs(o)
    BY <1>1, <2>3 DEF Next, Request, Reread, Draw, Thread, Adjust, Die, Rotation, Job, KeepReading, DropJournal,
       RecoverRows, RecoveredBy, RecoverUnlink, RecoverLayout, NoTurn, WriteJournal, ReplaceImage, FlagJournal,
       WriteReading, WriteWords, EndRotation, ReadJobs, DropNext, ReadRows, ReadNothing, FreshWords, FreshText,
       RestoreRotation, Sidecars
  <2> QED
    BY <2>1, <2>2, <2>4
<1>2. IInv /\ [Next]_vars => [\A p \in Pages : jobs'[p] # jobs[p] => Lost(p)]_vars
  BY <1>1 DEF vars
<1> QED
  BY <1>2, Inductive, PTL DEF JobLostOnlyToStaleCopy

-----------------------------------------------------------------------------
(* Intake: the inductive invariant.                                        *)

\* a text is of the page that the record lists, but one read from a replaced image, or flagged
Backed(texts, record) ==
    \/ record.changed
    \/ \A n \in Names : texts[n] # In!NoText /\ texts[n].image = texts[n].listed => record.pages[n] = texts[n].listed

WorkBacked == \A b \in In!Ids \ torn : Backed(read[b], registry[b])

\* nothing of the job is found before the scanner has registered it
JobUnknown == scanner # "done" => registry[JobFolder] = In!NoRecord /\ copies[JobFolder] = {}

AgreementsStand == \A b \in standing : registry[b].agreed

\* the batch in hand is adopted or the job's registered one, and its record as the agent
\* is about to write it
BatchInHand ==
    LET b == agent.batch IN
    /\ agent.pc \notin {"idle", "match"} /\ b = JobFolder => scanner = "done"
    /\ b \in standing /\ In!HoldsOlder(b) => agent.copy.agreed /\ agent.pc \notin {"save and clear", "clear"}
    /\ b \notin torn =>
        /\ agent.pc \in {"save", "begin"} => Backed(read[b], agent.copy)
        /\ agent.pc = "save and clear" => agent.copy.changed
        /\ agent.pc = "consume" => read[b] = In!Unread
        /\ agent.pc \in {"stale", "consume", "read"} => agent.copy.pages = registry[b].pages
        /\ agent.pc = "read" => agent.copy.changed = registry[b].changed

IntakeInv == In!TypeOK /\ WorkBacked /\ JobUnknown /\ AgreementsStand /\ BatchInHand

-----------------------------------------------------------------------------
(* Records.                                                                *)

LEMMA FreshRecordType ==
  ASSUME NEW f \in Folders, NEW pages \in Piles
  PROVE  /\ In!Fresh(f, pages) \in In!Records
         /\ In!Fresh(f, pages).pages = pages /\ ~In!Fresh(f, pages).agreed
BY DEF In!Fresh, In!Records

LEMMA IdleType ==
  ASSUME In!IntakeAssumption
  PROVE  /\ In!NoRecord \in In!Records /\ In!Idle \in In!AgentStates
         /\ In!NoRecord.pages = In!Empty /\ ~In!NoRecord.changed /\ ~In!NoRecord.agreed
         /\ In!Idle.pc = "idle" /\ In!Idle.batch = JobFolder
<1>1. /\ In!Fresh(JobFolder, In!Empty) \in In!Records
      /\ In!Fresh(JobFolder, In!Empty).pages = In!Empty
      /\ ~In!Fresh(JobFolder, In!Empty).changed /\ ~In!Fresh(JobFolder, In!Empty).agreed
  BY FreshRecordType DEF In!IntakeAssumption, In!Fresh
<1>2. In!NoRecord \in In!Records /\ In!NoRecord.pages = In!Empty /\ ~In!NoRecord.changed /\ ~In!NoRecord.agreed
  BY <1>1 DEF In!NoRecord
<1> QED
  BY <1>2 DEF In!Idle, In!AgentStates, In!Steps, In!Ids, In!IntakeAssumption

LEMMA UnreadType ==
  /\ In!NoText \in In!Texts /\ In!Unread \in [Names -> In!Texts]
  /\ \A record : Backed(In!Unread, record)
<1>1. In!NoText \in In!Texts
  BY DEF In!NoText, In!Texts, In!Images
<1> QED
  BY <1>1 DEF In!Unread, Backed

\* what is known before a step
LEMMA BeforeStep ==
  ASSUME IntakeInv
  PROVE  /\ agent \in In!AgentStates /\ agent.batch \in In!Ids /\ agent.copy \in In!Records
         /\ agent.folder \in Folders /\ agent.seen \in Piles /\ agent.who \in Agents
         /\ folders \in [Folders -> Piles] /\ registry \in [In!Ids -> In!Records]
         /\ copies \in [In!Ids -> SUBSET In!Records]
         /\ read \in [In!Ids -> [Names -> In!Texts]]
BY DEF IntakeInv, In!TypeOK, In!AgentStates

\* with no record there is no text of an image that a record listed
LEMMA NothingRead ==
  ASSUME In!IntakeAssumption, NEW texts \in [Names -> In!Texts], Backed(texts, In!NoRecord), NEW r \in In!Records
  PROVE  Backed(texts, r)
<1>1. SUFFICES ASSUME NEW n \in Names, texts[n] # In!NoText, texts[n].image = texts[n].listed
               PROVE  FALSE
  BY DEF Backed
<1>2. In!NoRecord.pages[n] = In!NoPage /\ ~In!NoRecord.changed
  BY IdleType DEF In!Empty
<1>3. texts[n].listed = In!NoPage
  BY <1>1, <1>2 DEF Backed
<1>4. texts[n] = [image |-> texts[n].image, listed |-> texts[n].listed]
  BY DEF In!Texts
<1> QED
  BY <1>1, <1>3, <1>4 DEF In!NoText

\* what is known of a record that is found
LEMMA FoundEntry ==
  ASSUME In!IntakeAssumption, IntakeInv, NEW e \in In!Entries
  PROVE  /\ e.batch \in In!Ids /\ e.record \in In!Records
         /\ e.batch = JobFolder => scanner = "done"
         /\ e.batch \in standing => e.record.agreed
         /\ e.batch \notin torn => Backed(read[e.batch], e.record)
<1>1. PICK b \in In!Ids : \E r \in In!Found(b) : e = [batch |-> b, record |-> r]
  BY DEF In!Entries
<1>2. e.batch = b /\ e.record \in In!Found(b)
  BY <1>1
<1>3. e.record \in In!Records
  BY <1>2, BeforeStep DEF In!Found
<1>4. CASE registry[b] # In!NoRecord
  BY <1>2, <1>3, <1>4 DEF In!Found, IntakeInv, JobUnknown, AgreementsStand, WorkBacked
<1>5. CASE registry[b] = In!NoRecord
  <2>1. b \notin standing
    BY <1>5, IdleType DEF IntakeInv, AgreementsStand
  <2>2. b = JobFolder => scanner = "done"
    BY <1>2, <1>5 DEF In!Found, IntakeInv, JobUnknown
  <2>3. b \notin torn => Backed(read[b], e.record)
    BY <1>3, <1>5, BeforeStep, NothingRead DEF IntakeInv, WorkBacked
  <2> QED
    BY <1>2, <1>3, <2>1, <2>2, <2>3
<1> QED
  BY <1>4, <1>5

-----------------------------------------------------------------------------
(* What a step may do to the registry, and to the work.                    *)

\* the agent alone moves: nothing but what it has in hand can be disturbed
LEMMA ThinkStep ==
  ASSUME IntakeInv, NEW a \in In!AgentStates, In!Think(a), BatchInHand'
  PROVE  IntakeInv'
BY DEF In!Think, In!Become, In!Disk, IntakeInv, In!TypeOK, WorkBacked, JobUnknown, AgreementsStand

\* ... and is idle, or matches a folder, after it
LEMMA EmptyHanded ==
  ASSUME agent'.pc \in {"idle", "match"}
  PROVE  BatchInHand'
BY DEF BatchInHand, In!HoldsOlder

LEMMA KeptType ==
  ASSUME IntakeInv, NEW b \in In!Ids
  PROVE  In!Kept(b) \in SUBSET In!Records
BY BeforeStep DEF In!Kept

\* a record is written that vouches for the work, and for the agreement
LEMMA WriteStep ==
  ASSUME IntakeInv, NEW b \in In!Ids, NEW r \in In!Records, In!Write(b, r), UNCHANGED read, In!Stay,
         b = JobFolder => scanner = "done", b \notin torn => Backed(read[b], r), b \in standing => r.agreed,
         agent' \in In!AgentStates, BatchInHand'
  PROVE  IntakeInv'
<1>1. In!TypeOK'
  BY KeptType DEF In!Write, In!Stay, IntakeInv, In!TypeOK
<1>2. WorkBacked'
  BY BeforeStep DEF In!Write, IntakeInv, WorkBacked
<1>3. JobUnknown'
  BY BeforeStep DEF In!Write, In!Stay, IntakeInv, JobUnknown
<1>4. AgreementsStand'
  BY BeforeStep DEF In!Write, IntakeInv, AgreementsStand, In!TypeOK
<1> QED
  BY <1>1, <1>2, <1>3, <1>4 DEF IntakeInv

\* a copy is written, of a batch that has been registered
LEMMA WriteCopyStep ==
  ASSUME IntakeInv, NEW b \in In!Ids, NEW old, NEW r \in In!Records, In!WriteCopy(b, old, r), UNCHANGED read, In!Stay,
         b = JobFolder => scanner = "done", agent' \in In!AgentStates, BatchInHand'
  PROVE  IntakeInv'
<1>1. PICK kept \in {copies[b], copies[b] \ {old}} : copies' = [copies EXCEPT ![b] = kept \cup {r}]
  BY DEF In!WriteCopy
<1>2. kept \cup {r} \in SUBSET In!Records
  BY BeforeStep
<1>3. In!TypeOK'
  BY <1>1, <1>2 DEF In!WriteCopy, In!Stay, IntakeInv, In!TypeOK
<1>4. JobUnknown'
  BY <1>1, BeforeStep DEF In!WriteCopy, In!Stay, IntakeInv, JobUnknown
<1>5. WorkBacked' /\ AgreementsStand'
  BY DEF In!WriteCopy, IntakeInv, WorkBacked, AgreementsStand
<1> QED
  BY <1>3, <1>4, <1>5 DEF IntakeInv

\* a death takes a record away, and nothing is asked of that batch from then on
LEMMA TakenAwayStep ==
  ASSUME In!IntakeAssumption, IntakeInv, NEW b \in In!Ids, In!TakenAway(b), UNCHANGED <<read, folders, scanner, edits>>,
         agent' \in In!AgentStates, BatchInHand'
  PROVE  IntakeInv'
<1>1. registry[b] # In!NoRecord /\ agentDeaths' \in 0..MaxAgentDeaths
  BY DEF In!TakenAway, IntakeInv, In!TypeOK, In!IntakeAssumption
<1>2. In!TypeOK'
  BY <1>1, BeforeStep, IdleType DEF In!TakenAway, IntakeInv, In!TypeOK
<1>3. WorkBacked'
  BY BeforeStep DEF In!TakenAway, IntakeInv, WorkBacked
<1>4. JobUnknown'
  BY <1>1, BeforeStep DEF In!TakenAway, IntakeInv, JobUnknown
<1>5. AgreementsStand'
  BY BeforeStep DEF In!TakenAway, IntakeInv, AgreementsStand, In!TypeOK
<1> QED
  BY <1>2, <1>3, <1>4, <1>5 DEF IntakeInv

\* a work directory is emptied
LEMMA EmptyStep ==
  ASSUME IntakeInv, read' = [read EXCEPT ![agent.batch] = In!Unread],
         UNCHANGED <<registry, copies, torn, standing>>, In!Stay, agent' \in In!AgentStates, BatchInHand'
  PROVE  IntakeInv'
<1>1. In!TypeOK' /\ JobUnknown' /\ AgreementsStand'
  BY BeforeStep, UnreadType DEF In!Stay, IntakeInv, In!TypeOK, JobUnknown, AgreementsStand
<1>2. WorkBacked'
  BY BeforeStep, UnreadType DEF IntakeInv, WorkBacked
<1> QED
  BY <1>1, <1>2 DEF IntakeInv

-----------------------------------------------------------------------------
(* The user, the scanner and the reviewer.                                 *)

LEMMA UserHolds ==
  ASSUME In!IntakeAssumption, IntakeInv, UNCHANGED <<In!Disk, scanner, agent, agentDeaths>>,
         edits < MaxEdits, edits' = edits + 1, folders' \in [Folders -> Piles]
  PROVE  IntakeInv'
<1>1. edits' \in 0..MaxEdits
  BY DEF IntakeInv, In!TypeOK, In!IntakeAssumption
<1> QED
  BY <1>1 DEF In!Disk, IntakeInv, In!TypeOK, WorkBacked, JobUnknown, AgreementsStand, BatchInHand, In!HoldsOlder

LEMMA EditHolds ==
  ASSUME In!IntakeAssumption, IntakeInv, NEW f \in Folders, NEW pages \in Piles, In!Edit(f, pages)
  PROVE  IntakeInv'
BY UserHolds, BeforeStep DEF In!Edit

LEMMA MoveHolds ==
  ASSUME In!IntakeAssumption, IntakeInv, NEW f \in Folders, NEW g \in Folders, In!Move(f, g)
  PROVE  IntakeInv'
<1>1. folders' \in [Folders -> Piles]
  BY BeforeStep DEF In!Move, In!IntakeAssumption
<1> QED
  BY <1>1, UserHolds DEF In!Move

LEMMA PublishHolds ==
  ASSUME In!IntakeAssumption, IntakeInv, In!Publish
  PROVE  IntakeInv'
<1>1. folders' \in [Folders -> Piles] /\ scanner # "done" /\ scanner' = "published"
  BY BeforeStep DEF In!Publish, In!IntakeAssumption
<1> QED
  BY <1>1 DEF In!Publish, In!Disk, IntakeInv, In!TypeOK, WorkBacked, JobUnknown, AgreementsStand, BatchInHand, In!HoldsOlder

LEMMA RegisterHolds ==
  ASSUME In!IntakeAssumption, IntakeInv, In!Register
  PROVE  IntakeInv'
<1> DEFINE r == In!Fresh(JobFolder, folders[JobFolder])
<1>1. r \in In!Records
  BY BeforeStep, FreshRecordType DEF In!IntakeAssumption
<1>2. registry[JobFolder] = In!NoRecord /\ scanner # "done" /\ scanner' = "done" /\ JobFolder \in In!Ids
  BY DEF In!Register, IntakeInv, JobUnknown, In!Ids
<1>3. /\ registry' = [registry EXCEPT ![JobFolder] = r]
      /\ UNCHANGED <<folders, copies, read, agent, edits, agentDeaths, torn, standing>>
  BY DEF In!Register
<1> HIDE DEF r
<1>4. JobFolder \notin standing
  BY <1>2, IdleType DEF IntakeInv, AgreementsStand
<1>5. JobFolder \notin torn => Backed(read[JobFolder], r)
  BY <1>1, <1>2, BeforeStep, NothingRead DEF IntakeInv, WorkBacked
<1>6. In!TypeOK' /\ JobUnknown'
  BY <1>1, <1>2, <1>3 DEF IntakeInv, In!TypeOK, JobUnknown
<1>7. WorkBacked' /\ AgreementsStand'
  BY <1>2, <1>3, <1>4, <1>5, BeforeStep DEF IntakeInv, WorkBacked, AgreementsStand, In!TypeOK
<1>8. BatchInHand'
  <2>1. agent.pc \in {"idle", "match"} \/ agent.batch # JobFolder
    BY <1>2 DEF IntakeInv, BatchInHand
  <2>2. agent.batch # JobFolder => registry'[agent.batch] = registry[agent.batch]
    BY <1>3, BeforeStep
  <2> QED
    BY <1>2, <1>3, <2>1, <2>2 DEF IntakeInv, BatchInHand, In!HoldsOlder
<1> QED
  BY <1>6, <1>7, <1>8 DEF IntakeInv

LEMMA ScannerDiesHolds ==
  ASSUME In!IntakeAssumption, IntakeInv, In!ScannerDies
  PROVE  IntakeInv'
<1>1. agentDeaths' \in 0..MaxAgentDeaths
  BY DEF In!ScannerDies, IntakeInv, In!TypeOK, In!IntakeAssumption
<1> QED
  BY <1>1 DEF In!ScannerDies, In!Disk, IntakeInv, In!TypeOK, WorkBacked, JobUnknown, AgreementsStand, BatchInHand, In!HoldsOlder

LEMMA AgreeHolds ==
  ASSUME In!IntakeAssumption, IntakeInv, NEW b \in In!Ids, In!Agree(b)
  PROVE  IntakeInv'
<1> DEFINE r == [registry[b] EXCEPT !.agreed = TRUE]
<1>1. r \in In!Records /\ r.pages = registry[b].pages /\ r.changed = registry[b].changed /\ r.agreed
  BY BeforeStep DEF In!Records
<1>2. /\ registry' = [registry EXCEPT ![b] = r] /\ registry[b] # In!NoRecord
      /\ copies' \in {copies, [copies EXCEPT ![b] = In!Kept(b)]}
      /\ standing' = IF In!HoldsOlder(b) THEN standing ELSE standing \cup {b}
      /\ UNCHANGED <<folders, read, scanner, agent, edits, agentDeaths, torn>>
  BY BeforeStep DEF In!Agree, In!Stay
<1>3. b = JobFolder => scanner = "done"
  BY <1>2 DEF IntakeInv, JobUnknown
<1> HIDE DEF r
<1>4. In!TypeOK'
  BY <1>1, <1>2, KeptType DEF IntakeInv, In!TypeOK
<1>5. JobUnknown'
  <2>1. CASE b = JobFolder
    BY <1>2, <1>3, <2>1 DEF JobUnknown
  <2>2. CASE b # JobFolder
    <3>1. JobFolder \in In!Ids
      BY DEF In!Ids
    <3>2. registry'[JobFolder] = registry[JobFolder]
      BY <1>2, <2>2, <3>1, BeforeStep
    <3>3. copies'[JobFolder] = copies[JobFolder]
      BY <1>2, <2>2, <3>1, BeforeStep
    <3> QED
      BY <1>2, <3>2, <3>3 DEF IntakeInv, JobUnknown
  <2> QED
    BY <2>1, <2>2
<1>6. WorkBacked'
  BY <1>1, <1>2, BeforeStep DEF IntakeInv, WorkBacked, Backed
<1>7. AgreementsStand'
  BY <1>1, <1>2, BeforeStep DEF IntakeInv, AgreementsStand, In!TypeOK
<1>8. BatchInHand'
  <2>1. /\ registry'[agent.batch].pages = registry[agent.batch].pages
        /\ registry'[agent.batch].changed = registry[agent.batch].changed
    BY <1>1, <1>2, BeforeStep
  <2>2. agent.batch \in standing' /\ In!HoldsOlder(agent.batch) => agent.batch \in standing
    BY <1>2
  <2> QED
    BY <1>2, <2>1, <2>2 DEF IntakeInv, BatchInHand, In!HoldsOlder
<1> QED
  BY <1>4, <1>5, <1>6, <1>7, <1>8 DEF IntakeInv

LEMMA ServerDiesHolds ==
  ASSUME In!IntakeAssumption, IntakeInv, NEW b \in In!Ids, In!ServerDies(b)
  PROVE  IntakeInv'
<1>1. /\ In!TakenAway(b) /\ UNCHANGED <<read, agent, folders, scanner, edits>>
      /\ torn' = torn \cup {b} /\ standing' = standing \ {b} /\ registry' = [registry EXCEPT ![b] = In!NoRecord]
  BY DEF In!ServerDies, In!TakenAway
<1>2. BatchInHand'
  <2>1. agent.batch # b => registry'[agent.batch] = registry[agent.batch]
    BY <1>1, BeforeStep
  <2> QED
    BY <1>1, <2>1 DEF IntakeInv, BatchInHand, In!HoldsOlder
<1> QED
  BY <1>1, <1>2, BeforeStep, TakenAwayStep

-----------------------------------------------------------------------------
(* Adoption.                                                               *)

LEMMA HashHolds ==
  ASSUME In!IntakeAssumption, IntakeInv, NEW f \in Folders, In!Hash(f)
  PROVE  IntakeInv'
<1> DEFINE a == [In!Idle EXCEPT !.pc = "match", !.folder = f, !.seen = folders[f]]
<1>1. a \in In!AgentStates /\ a.pc = "match"
  BY BeforeStep, IdleType DEF In!AgentStates, In!Steps
<1>2. In!Think(a)
  BY DEF In!Hash
<1> HIDE DEF a
<1>3. BatchInHand'
  BY <1>1, <1>2, EmptyHanded DEF In!Think, In!Become
<1> QED
  BY <1>1, <1>2, <1>3, ThinkStep

LEMMA AlreadyRegisteredHolds ==
  ASSUME In!IntakeAssumption, IntakeInv, In!AlreadyRegistered
  PROVE  IntakeInv'
<1>1. In!Think(In!Idle)
  BY DEF In!AlreadyRegistered
<1>2. BatchInHand'
  BY <1>1, IdleType, EmptyHanded DEF In!Think, In!Become
<1> QED
  BY <1>1, <1>2, IdleType, ThinkStep

LEMMA WriteBackHolds ==
  ASSUME In!IntakeAssumption, IntakeInv, NEW e \in In!Entries, NEW r \in In!Records,
         NEW next \in {"save", "save and clear"}, In!WriteBack(next, e, r),
         next = "save" /\ e.batch \notin torn => Backed(read[e.batch], r),
         next = "save and clear" => r.changed /\ ~e.record.agreed,
         r.agreed = e.record.agreed
  PROVE  IntakeInv'
<1> DEFINE found == IF registry[e.batch] = In!NoRecord THEN e.record ELSE In!NoRecord
           a == [agent EXCEPT !.pc = next, !.batch = e.batch, !.copy = r, !.foundIn = found]
<1>1. found \in In!Records
  BY FoundEntry, IdleType
<1>2. In!Think(a)
  BY DEF In!WriteBack
<1> HIDE DEF found
<1>3. a \in In!AgentStates /\ a.pc = next /\ a.batch = e.batch /\ a.copy = r
  BY <1>1, BeforeStep, FoundEntry DEF In!AgentStates, In!Steps
<1> HIDE DEF a
<1>4. agent' = a /\ UNCHANGED <<registry, copies, read, torn, standing, scanner>>
  BY <1>2 DEF In!Think, In!Become, In!Disk
<1>5. BatchInHand'
  BY <1>3, <1>4, FoundEntry DEF BatchInHand
<1> QED
  BY <1>2, <1>3, <1>5, ThinkStep

LEMMA ReHomeHolds ==
  ASSUME In!IntakeAssumption, IntakeInv, NEW e \in In!Entries, In!ReHome(e)
  PROVE  IntakeInv'
<1> DEFINE r == [e.record EXCEPT !.path = agent.folder]
<1>1. /\ r \in In!Records /\ r.pages = e.record.pages /\ r.changed = e.record.changed
      /\ r.agreed = e.record.agreed
  BY BeforeStep, FoundEntry DEF In!Records
<1>2. In!WriteBack("save", e, r)
  BY DEF In!ReHome
<1>3. e.batch \notin torn => Backed(read[e.batch], r)
  BY <1>1, FoundEntry DEF Backed
<1> HIDE DEF r
<1> QED
  BY <1>1, <1>2, <1>3, WriteBackHolds

LEMMA ContentChangedHolds ==
  ASSUME In!IntakeAssumption, IntakeInv, NEW e \in In!Entries, In!ContentChanged(e)
  PROVE  IntakeInv'
<1> DEFINE r == [e.record EXCEPT !.path = agent.folder, !.pages = agent.seen, !.changed = TRUE]
           next == IF In!Confirmed(e) THEN "save" ELSE "save and clear"
<1>1. r \in In!Records /\ r.changed /\ r.agreed = e.record.agreed
  BY BeforeStep, FoundEntry DEF In!Records
<1>2. In!WriteBack(next, e, r) /\ next \in {"save", "save and clear"}
  BY DEF In!ContentChanged, In!Requeue
<1>3. next = "save and clear" => ~e.record.agreed
  BY DEF In!Confirmed
<1>4. Backed(read[e.batch], r)
  BY <1>1 DEF Backed
<1> HIDE DEF r, next
<1> QED
  BY <1>1, <1>2, <1>3, <1>4, WriteBackHolds

LEMMA RegisterNewHolds ==
  ASSUME In!IntakeAssumption, IntakeInv, In!RegisterNew
  PROVE  IntakeInv'
<1> DEFINE b == CHOOSE x \in In!Unminted : TRUE
           r == In!Fresh(agent.folder, agent.seen)
           a == [agent EXCEPT !.pc = "save", !.batch = b, !.copy = r]
<1>1. b \in Adopted /\ In!Found(b) = {}
  BY DEF In!RegisterNew, In!Unminted
<1>2. In!Think(a)
  BY DEF In!RegisterNew
<1> HIDE DEF b
<1>3. b \in In!Ids /\ b # JobFolder /\ registry[b] = In!NoRecord
  BY <1>1 DEF In!Ids, In!IntakeAssumption, In!Found
<1>4. r \in In!Records
  BY BeforeStep, FreshRecordType
<1>5. b \notin torn => Backed(read[b], r)
  BY <1>3, <1>4, BeforeStep, NothingRead DEF IntakeInv, WorkBacked
<1>6. b \notin standing
  BY <1>3, IdleType DEF IntakeInv, AgreementsStand
<1> HIDE DEF r
<1>7. a \in In!AgentStates /\ a.pc = "save" /\ a.batch = b /\ a.copy = r
  BY <1>3, <1>4, BeforeStep DEF In!AgentStates, In!Steps
<1> HIDE DEF a
<1>8. agent' = a /\ UNCHANGED <<registry, copies, read, torn, standing, scanner>>
  BY <1>2 DEF In!Think, In!Become, In!Disk
<1>9. BatchInHand'
  BY <1>3, <1>5, <1>6, <1>7, <1>8 DEF BatchInHand
<1> QED
  BY <1>2, <1>7, <1>9, ThinkStep

LEMMA SaveHolds ==
  ASSUME In!IntakeAssumption, IntakeInv, In!Save
  PROVE  IntakeInv'
<1> DEFINE b == agent.batch
           a == IF agent.pc = "save" THEN In!Idle ELSE [agent EXCEPT !.pc = "clear"]
<1>1. agent' = a /\ UNCHANGED read /\ In!Stay /\ UNCHANGED <<torn, standing>>
  BY DEF In!Save, In!Become, In!Write, In!WriteCopy
<1>2. a \in In!AgentStates /\ a.pc \in {"idle", "clear"} /\ (a.pc = "clear" => a.batch = b /\ agent.pc = "save and clear")
  BY BeforeStep, IdleType DEF In!AgentStates, In!Steps, In!Save
<1> HIDE DEF a
<1>3. /\ b = JobFolder => scanner = "done"
      /\ b \notin torn => Backed(read[b], agent.copy)
      /\ b \in standing => agent.copy.agreed /\ agent.pc # "save and clear"
  BY DEF In!Save, IntakeInv, BatchInHand, Backed, In!HoldsOlder
<1>4. BatchInHand'
  BY <1>1, <1>2, <1>3 DEF In!Stay, BatchInHand, In!HoldsOlder
<1>5. CASE In!Write(b, agent.copy)
  BY <1>1, <1>2, <1>3, <1>4, <1>5, BeforeStep, WriteStep
<1>6. CASE In!WriteCopy(b, agent.foundIn, agent.copy)
  BY <1>1, <1>2, <1>3, <1>4, <1>6, BeforeStep, WriteCopyStep
<1> QED
  BY <1>5, <1>6 DEF In!Save

LEMMA ClearWorkHolds ==
  ASSUME In!IntakeAssumption, IntakeInv, In!ClearWork
  PROVE  IntakeInv'
<1>1. agent' = In!Idle /\ In!Idle \in In!AgentStates /\ BatchInHand'
  BY IdleType, EmptyHanded DEF In!ClearWork, In!Become
<1> QED
  BY <1>1, EmptyStep DEF In!ClearWork

-----------------------------------------------------------------------------
(* A pass.                                                                 *)

LEMMA TakeHolds ==
  ASSUME In!IntakeAssumption, IntakeInv, NEW w \in Agents, NEW e \in In!Entries, In!Take(w, e)
  PROVE  IntakeInv'
<1> DEFINE a == [In!Idle EXCEPT !.who = w, !.pc = "begin", !.batch = e.batch, !.copy = e.record]
<1>1. In!Think(a)
  BY DEF In!Take
<1>2. a \in In!AgentStates /\ a.pc = "begin" /\ a.batch = e.batch /\ a.copy = e.record
  BY FoundEntry, IdleType DEF In!AgentStates, In!Steps
<1> HIDE DEF a
<1>3. agent' = a /\ UNCHANGED <<registry, copies, read, torn, standing, scanner>>
  BY <1>1 DEF In!Think, In!Become, In!Disk
<1>4. BatchInHand'
  BY <1>2, <1>3, FoundEntry DEF BatchInHand
<1> QED
  BY <1>1, <1>2, <1>4, ThinkStep

LEMMA BeginPassHolds ==
  ASSUME In!IntakeAssumption, IntakeInv, In!BeginPass
  PROVE  IntakeInv'
<1> DEFINE b == agent.batch
           a == [agent EXCEPT !.pc = IF agent.who = "cli" /\ agent.copy.changed THEN "stale" ELSE "read"]
<1>1. agent.pc = "begin" /\ agent' = a /\ In!Write(b, agent.copy) /\ UNCHANGED read /\ In!Stay
  BY DEF In!BeginPass, In!Become
<1>2. a \in In!AgentStates /\ a.pc \in {"stale", "read"} /\ a.batch = b /\ a.copy = agent.copy
  BY BeforeStep DEF In!AgentStates, In!Steps
<1> HIDE DEF a
<1>3. /\ b = JobFolder => scanner = "done"
      /\ b \notin torn => Backed(read[b], agent.copy)
      /\ b \in standing => agent.copy.agreed
  BY <1>1 DEF IntakeInv, BatchInHand, In!HoldsOlder
<1>4. registry'[b] = agent.copy /\ UNCHANGED <<torn, standing, scanner>>
  BY <1>1, BeforeStep DEF In!Write, In!Stay
<1>5. BatchInHand'
  BY <1>1, <1>2, <1>3, <1>4 DEF BatchInHand
<1> QED
  BY <1>1, <1>2, <1>3, <1>5, BeforeStep, WriteStep

LEMMA ClearStaleStagesHolds ==
  ASSUME IntakeInv, In!ClearStaleStages
  PROVE  IntakeInv'
<1> DEFINE a == [agent EXCEPT !.pc = "consume", !.copy.changed = FALSE]
<1>1. /\ a \in In!AgentStates /\ a.pc = "consume" /\ a.batch = agent.batch
      /\ a.copy.pages = agent.copy.pages /\ a.copy.agreed = agent.copy.agreed
  BY BeforeStep DEF In!AgentStates, In!Steps, In!Records
<1>2. /\ agent.pc = "stale" /\ agent' = a /\ read'[agent.batch] = In!Unread
      /\ UNCHANGED <<registry, torn, standing, scanner>>
  BY BeforeStep DEF In!ClearStaleStages, In!Become, In!Stay
<1> HIDE DEF a
<1>3. BatchInHand'
  BY <1>1, <1>2 DEF IntakeInv, BatchInHand, In!HoldsOlder
<1> QED
  BY <1>1, <1>2, <1>3, EmptyStep DEF In!ClearStaleStages

LEMMA ConsumeFlagHolds ==
  ASSUME IntakeInv, In!ConsumeFlag
  PROVE  IntakeInv'
<1> DEFINE b == agent.batch
           a == [agent EXCEPT !.pc = "read"]
<1>1. agent.pc = "consume" /\ agent' = a /\ In!Write(b, agent.copy) /\ UNCHANGED read /\ In!Stay
  BY DEF In!ConsumeFlag, In!Become
<1>2. a \in In!AgentStates /\ a.pc = "read" /\ a.batch = b /\ a.copy = agent.copy
  BY BeforeStep DEF In!AgentStates, In!Steps
<1> HIDE DEF a
<1>3. /\ b = JobFolder => scanner = "done"
      /\ b \notin torn => Backed(read[b], agent.copy)
      /\ b \in standing => agent.copy.agreed
  BY <1>1, UnreadType DEF IntakeInv, BatchInHand, In!HoldsOlder
<1>4. registry'[b] = agent.copy /\ UNCHANGED <<torn, standing, scanner>>
  BY <1>1, BeforeStep DEF In!Write, In!Stay
<1>5. BatchInHand'
  BY <1>1, <1>2, <1>3, <1>4 DEF BatchInHand
<1> QED
  BY <1>1, <1>2, <1>3, <1>5, BeforeStep, WriteStep

LEMMA ReadPageHolds ==
  ASSUME In!IntakeAssumption, IntakeInv, NEW n \in Names, In!ReadPage(n)
  PROVE  IntakeInv'
<1> DEFINE b == agent.batch
           text == [image |-> In!Image(n), listed |-> agent.copy.pages[n]]
<1>1. agent.pc = "read" /\ read' = [read EXCEPT ![b][n] = text]
      /\ UNCHANGED <<registry, copies, torn, standing, agent>> /\ In!Stay
  BY DEF In!ReadPage
<1>2. text \in In!Texts
  <2>1. agent.copy.path \in Folders /\ agent.copy.pages \in [Names -> In!Images]
    BY BeforeStep DEF In!Records, In!IntakeAssumption
  <2>2. folders[agent.copy.path] \in [Names -> In!Images]
    BY <2>1, BeforeStep DEF In!IntakeAssumption
  <2> QED
    BY <2>1, <2>2 DEF In!Texts, In!Image
<1>3. text.listed = agent.copy.pages[n]
  OBVIOUS
<1> HIDE DEF text
<1>4. read' = [read EXCEPT ![b] = [read[b] EXCEPT ![n] = text]]
  BY <1>1
<1>5. In!TypeOK' /\ JobUnknown' /\ AgreementsStand'
  BY <1>1, <1>2, <1>4, BeforeStep DEF In!Stay, IntakeInv, In!TypeOK, JobUnknown, AgreementsStand
<1>6. b \notin torn => Backed(read'[b], registry[b])
  <2>1. \A m \in Names : read'[b][m] = IF m = n THEN text ELSE read[b][m]
    BY <1>4, BeforeStep
  <2> QED
    BY <1>1, <1>3, <2>1, BeforeStep DEF IntakeInv, WorkBacked, BatchInHand, Backed
<1>7. WorkBacked'
  BY <1>1, <1>4, <1>6, BeforeStep DEF IntakeInv, WorkBacked
<1>8. BatchInHand'
  BY <1>1 DEF In!Stay, IntakeInv, BatchInHand, In!HoldsOlder
<1> QED
  BY <1>5, <1>7, <1>8 DEF IntakeInv

\* a pass ends with its record as it was, or with one that vouches for the work
LEMMA EndPassHolds ==
  ASSUME In!IntakeAssumption, IntakeInv, NEW r \in In!Records, agent' = In!Idle, UNCHANGED read, In!Stay,
         UNCHANGED <<registry, copies, torn, standing>> \/ In!Write(agent.batch, r),
         agent.batch = JobFolder => scanner = "done",
         agent.batch \notin torn => Backed(read[agent.batch], r), agent.batch \in standing => r.agreed
  PROVE  IntakeInv'
<1>1. agent' \in In!AgentStates /\ BatchInHand'
  BY IdleType, EmptyHanded
<1>2. CASE UNCHANGED <<registry, copies, torn, standing>>
  <2>1. In!Think(In!Idle)
    BY <1>2 DEF In!Think, In!Become, In!Disk, In!Stay
  <2> QED
    BY <1>1, <2>1, IdleType, ThinkStep
<1>3. CASE In!Write(agent.batch, r)
  BY <1>1, <1>3, BeforeStep, WriteStep
<1> QED
  BY <1>2, <1>3

LEMMA FinishPassHolds ==
  ASSUME In!IntakeAssumption, IntakeInv, In!FinishPass
  PROVE  IntakeInv'
<1>1. registry[agent.batch] \in In!Records /\ (agent.batch = JobFolder => scanner = "done")
  BY BeforeStep DEF In!FinishPass, IntakeInv, BatchInHand
<1>2. /\ agent.batch \notin torn => Backed(read[agent.batch], registry[agent.batch])
      /\ agent.batch \in standing => registry[agent.batch].agreed
  BY BeforeStep DEF IntakeInv, WorkBacked, AgreementsStand
<1> QED
  BY <1>1, <1>2, EndPassHolds DEF In!FinishPass, In!Become

LEMMA FailPassHolds ==
  ASSUME In!IntakeAssumption, IntakeInv, In!FailPass
  PROVE  IntakeInv'
<1>1. agent.batch = JobFolder => scanner = "done"
  BY DEF In!FailPass, IntakeInv, BatchInHand
<1>2. agent.batch \notin torn => Backed(read[agent.batch], agent.copy)
  BY BeforeStep DEF In!FailPass, IntakeInv, WorkBacked, BatchInHand, Backed
<1>3. CASE agent.who = "worker"
  <2>1. UNCHANGED <<registry, copies, torn, standing>> /\ UNCHANGED read /\ In!Stay /\ agent' = In!Idle
    BY <1>3 DEF In!FailPass, In!Become
  <2>2. /\ agent.batch \notin torn => Backed(read[agent.batch], registry[agent.batch])
        /\ agent.batch \in standing => registry[agent.batch].agreed
    BY BeforeStep DEF IntakeInv, WorkBacked, AgreementsStand
  <2> QED
    BY <1>1, <2>1, <2>2, BeforeStep, EndPassHolds
<1>4. CASE agent.who = "cli"
  <2>1. agent.batch \in standing => agent.copy.agreed
    BY <1>4 DEF In!FailPass, IntakeInv, BatchInHand, In!HoldsOlder
  <2> QED
    BY <1>1, <1>2, <1>4, <2>1, BeforeStep, EndPassHolds DEF In!FailPass, In!Become
<1> QED
  BY <1>3, <1>4 DEF In!FailPass

LEMMA AgentDiesHolds ==
  ASSUME In!IntakeAssumption, IntakeInv, In!AgentDies
  PROVE  IntakeInv'
<1>1. agent' = In!Idle /\ In!Idle \in In!AgentStates /\ BatchInHand' /\ UNCHANGED <<read, folders, scanner, edits>>
  BY IdleType, EmptyHanded DEF In!AgentDies, In!Become
<1>2. CASE In!TakenAway(agent.batch)
  BY <1>1, <1>2, BeforeStep, TakenAwayStep
<1>3. CASE agentDeaths < MaxAgentDeaths /\ agentDeaths' = agentDeaths + 1 /\ UNCHANGED <<registry, copies, torn, standing>>
  <2>1. agentDeaths' \in 0..MaxAgentDeaths
    BY <1>3 DEF IntakeInv, In!TypeOK, In!IntakeAssumption
  <2> QED
    BY <1>1, <1>3, <2>1 DEF IntakeInv, In!TypeOK, WorkBacked, JobUnknown, AgreementsStand
<1> QED
  BY <1>2, <1>3 DEF In!AgentDies

-----------------------------------------------------------------------------
(* The invariant is inductive.                                             *)

LEMMA IntakeInitHolds ==
  ASSUME In!IntakeAssumption, In!Init
  PROVE  IntakeInv
<1>1. In!TypeOK
  <2>1. folders \in [Folders -> Piles]
    BY DEF In!Init, In!IntakeAssumption
  <2> QED
    BY <2>1, IdleType, UnreadType DEF In!Init, In!TypeOK, In!IntakeAssumption
<1>2. WorkBacked /\ JobUnknown /\ AgreementsStand
  BY UnreadType DEF In!Init, WorkBacked, JobUnknown, AgreementsStand, In!Ids
<1>3. BatchInHand
  BY IdleType DEF In!Init, BatchInHand, In!HoldsOlder
<1> QED
  BY <1>1, <1>2, <1>3 DEF IntakeInv

LEMMA IntakeNextHolds ==
  ASSUME In!IntakeAssumption, IntakeInv, [In!Next]_In!vars
  PROVE  IntakeInv'
<1>1. CASE In!Step
  BY <1>1, AlreadyRegisteredHolds, RegisterNewHolds, SaveHolds, ClearWorkHolds, ReHomeHolds, ContentChangedHolds,
     BeginPassHolds, ClearStaleStagesHolds, ConsumeFlagHolds, ReadPageHolds, FinishPassHolds
  DEF In!Step, In!Adopting, In!Passing
<1>2. CASE UNCHANGED In!vars
  BY <1>2 DEF In!vars, IntakeInv, In!TypeOK, WorkBacked, JobUnknown, AgreementsStand, BatchInHand, In!HoldsOlder
<1> QED
  BY <1>1, <1>2, EditHolds, MoveHolds, PublishHolds, RegisterHolds, ScannerDiesHolds, HashHolds, TakeHolds,
     AgreeHolds, ServerDiesHolds, FailPassHolds, AgentDiesHolds DEF In!Next

LEMMA IntakeInductive ==
  ASSUME In!IntakeAssumption
  PROVE  In!Init /\ [][In!Next]_In!vars => []IntakeInv
<1>1. In!Init => IntakeInv
  BY IntakeInitHolds
<1>2. IntakeInv /\ [In!Next]_In!vars => IntakeInv'
  BY IntakeNextHolds
<1> QED
  BY <1>1, <1>2, PTL

\* Folders, records, copies, work directories and the agent keep their types.
THEOREM IntakeTypeCorrect ==
  ASSUME In!IntakeAssumption
  PROVE  In!Init /\ [][In!Next]_In!vars => []In!TypeOK
<1>1. IntakeInv => In!TypeOK
  BY DEF IntakeInv
<1> QED
  BY <1>1, IntakeInductive, PTL

\* Text read from an image as the record listed it is kept, when the record comes to list
\* another, only under the flag that asks for a review (adopt.py, apply_content_changed),
\* whatever died between two writes, for every batch whose record no death took away.
THEOREM WorkFlagged ==
  ASSUME In!IntakeAssumption
  PROVE  In!Init /\ [][In!Next]_In!vars => []In!StaleWorkFlagged
<1>1. IntakeInv => In!StaleWorkFlagged
  BY DEF IntakeInv, WorkBacked, Backed, In!StaleWorkFlagged
<1> QED
  BY <1>1, IntakeInductive, PTL

\* Once a document of a batch is agreed, no adoption, pass or death of one takes that back or
\* erases the work, but the clearing that the command line does for a flag, unless a process
\* held the record as it was before or a death took the record away (adopt.py, confirmed).
THEOREM AgreedWorkKept ==
  ASSUME In!IntakeAssumption
  PROVE  In!Init /\ [][In!Next]_In!vars => In!ConfirmedWorkKept
<1> DEFINE TextsKept(b) == agent.pc = "stale" \/ \A n \in Names : read[b][n] # In!NoText => read'[b][n] # In!NoText
<1>1. ASSUME IntakeInv, In!Next, NEW b \in In!Ids, b \in standing
      PROVE  TextsKept(b)
  <2>1. CASE In!ClearWork
    <3>1. b # agent.batch
      BY <1>1, <2>1 DEF In!ClearWork, IntakeInv, BatchInHand, In!HoldsOlder
    <3>2. read'[b] = read[b]
      BY <1>1, <2>1, <3>1, BeforeStep DEF In!ClearWork
    <3> QED
      BY <3>2
  <2>2. CASE In!ClearStaleStages
    BY <2>2 DEF In!ClearStaleStages
  <2>3. CASE \E n \in Names : In!ReadPage(n)
    <3>1. PICK n \in Names : In!ReadPage(n)
      BY <2>3
    <3>2. In!Image(n) # In!NoPage /\ \E text : text.image = In!Image(n) /\ read' = [read EXCEPT ![agent.batch][n] = text]
      BY <3>1 DEF In!ReadPage, In!Waiting
    <3>3. PICK text : text.image # In!NoPage /\ read' = [read EXCEPT ![agent.batch][n] = text]
      BY <3>2
    <3>4. text # In!NoText
      BY <3>3 DEF In!NoText
    <3> QED
      BY <1>1, <3>3, <3>4, BeforeStep
  <2>4. CASE UNCHANGED read
    BY <2>4
  <2> QED
    BY <1>1, <2>1, <2>2, <2>3, <2>4 DEF In!Next, In!Step, In!Adopting, In!Passing, In!Edit, In!Move, In!Publish, In!Register,
       In!ScannerDies, In!Hash, In!Take, In!Agree, In!ServerDies, In!Disk, In!Think, In!BeginPass, In!AgentDies, In!FailPass,
       In!AlreadyRegistered, In!RegisterNew, In!Save, In!ReHome, In!ContentChanged, In!Requeue, In!WriteBack, In!ConsumeFlag, In!FinishPass
<1>2. IntakeInv /\ [In!Next]_In!vars => 
        [\A b \in standing \cap standing' :
            /\ registry'[b].agreed
            /\ agent.pc = "stale" \/ \A n \in Names : read[b][n] # In!NoText => read'[b][n] # In!NoText]_In!vars
  <2>1. SUFFICES ASSUME IntakeInv, In!Next, NEW b \in standing \cap standing'
                 PROVE  registry'[b].agreed /\ TextsKept(b)
    BY DEF In!vars
  <2>2. IntakeInv'
    BY <2>1, IntakeNextHolds
  <2>3. registry'[b].agreed
    BY <2>1, <2>2 DEF IntakeInv, AgreementsStand
  <2>4. b \in In!Ids /\ b \in standing
    BY <2>1 DEF IntakeInv, In!TypeOK
  <2>5. TextsKept(b)
    BY <1>1, <2>1, <2>4
  <2> QED
    BY <2>3, <2>5
<1> QED
  BY <1>2, IntakeInductive, PTL DEF In!ConfirmedWorkKept
=============================================================================
