------------------------- MODULE MCComponents_proofs -------------------------
(***************************************************************************)
(* The theorems of the components, which hold for every value of their     *)
(* constants, brought to the properties that the runs of MCComponents      *)
(* check: a behaviour of a run is one of each component, whose steps it    *)
(* takes or stutters through.                                              *)
(***************************************************************************)
EXTENDS MCComponents, TLAPS

-----------------------------------------------------------------------------
(* What the run does to a component.                                       *)

LEMMA PagesRun == Init => Pw!Init /\ Pw!PagesAssumption
BY ComponentsAssumption DEF Init

LEMMA PagesStep == [Next]_vars => [Pw!Next]_Pw!vars
BY DEF Next, PagesNext, IntakeNext, StoryNext, TellingNext, SignInNext, CallNext, ReadingNext, ReviewNext,
       StoreNext, RaceNext, SampleNext, Stay, vars, pages, Pw!vars

LEMMA IntakeRun == Init => Pw!In!Init /\ Pw!In!IntakeAssumption
BY ComponentsAssumption DEF Init

LEMMA IntakeStep == [Next]_vars => [Pw!In!Next]_Pw!In!vars
BY DEF Next, PagesNext, IntakeNext, StoryNext, TellingNext, SignInNext, CallNext, ReadingNext, ReviewNext,
       StoreNext, RaceNext, SampleNext, Stay, vars, intake, Pw!In!vars

LEMMA SignInRun == Init => Sv!Init /\ Sv!SignInAssumption
BY ComponentsAssumption DEF Init

LEMMA SignInStep == [Next]_vars => [Sv!Next]_Sv!vars
BY DEF Next, PagesNext, IntakeNext, StoryNext, TellingNext, SignInNext, CallNext, ReadingNext, ReviewNext,
       StoreNext, RaceNext, SampleNext, Stay, vars, signIn, Sv!vars

LEMMA ReviewRun == Init => Ask!Init /\ Ask!ReviewsAssumption
BY ComponentsAssumption DEF Init

LEMMA ReviewStep == [Next]_vars => [Ask!Next]_Ask!vars
BY DEF Next, PagesNext, IntakeNext, StoryNext, TellingNext, SignInNext, CallNext, ReadingNext, ReviewNext,
       StoreNext, RaceNext, SampleNext, Stay, vars, review, Ask!vars

LEMMA ReadingRun == Init => Ask!Pr!Init /\ Ask!Pr!BandsAssumption
BY ComponentsAssumption DEF Init

LEMMA ReadingStep == [Next]_vars => [Ask!Pr!Next]_Ask!Pr!vars
BY DEF Next, PagesNext, IntakeNext, StoryNext, TellingNext, SignInNext, CallNext, ReadingNext, ReviewNext,
       StoreNext, RaceNext, SampleNext, Stay, vars, reading, Ask!Pr!vars

LEMMA TellingRun == Init => Ask!Tl!Init /\ Ask!Tl!TellingAssumption
BY ComponentsAssumption DEF Init

LEMMA TellingStep == [Next]_vars => [Ask!Tl!Next]_Ask!Tl!vars
BY DEF Next, PagesNext, IntakeNext, StoryNext, TellingNext, SignInNext, CallNext, ReadingNext, ReviewNext,
       StoreNext, RaceNext, SampleNext, Stay, vars, telling, Ask!Tl!vars

LEMMA CallRun == Init => Ask!Mc!Init /\ Ask!Mc!ModelCallAssumption
BY ComponentsAssumption DEF Init

LEMMA CallStep == [Next]_vars => [Ask!Mc!Next]_Ask!Mc!vars
BY DEF Next, PagesNext, IntakeNext, StoryNext, TellingNext, SignInNext, CallNext, ReadingNext, ReviewNext,
       StoreNext, RaceNext, SampleNext, Stay, vars, call, Ask!Mc!vars

LEMMA StoryRun == Init => Sv!St!Init /\ Sv!St!StoryAssumption
BY ComponentsAssumption DEF Init

LEMMA StoryStep == [Next]_vars => [Sv!St!Next]_Sv!St!vars
BY DEF Next, PagesNext, IntakeNext, StoryNext, TellingNext, SignInNext, CallNext, ReadingNext, ReviewNext,
       StoreNext, RaceNext, SampleNext, Stay, vars, story, Sv!St!vars

LEMMA StoreRun == Init => Vs!Init /\ Vs!StoreAssumption
BY ComponentsAssumption DEF Init

LEMMA StoreStep == [Next]_vars => [Vs!Next]_Vs!vars
BY DEF Next, PagesNext, IntakeNext, StoryNext, TellingNext, SignInNext, CallNext, ReadingNext, ReviewNext,
       StoreNext, RaceNext, SampleNext, Stay, vars, store, Vs!vars

LEMMA RaceRun == Init => Vr!Init /\ Vr!StoreAssumption
BY ComponentsAssumption DEF Init

LEMMA RaceStep == [Next]_vars => [Vr!Next]_Vr!vars
BY DEF Next, PagesNext, IntakeNext, StoryNext, TellingNext, SignInNext, CallNext, ReadingNext, ReviewNext,
       StoreNext, RaceNext, SampleNext, Stay, vars, race, Vr!vars

-----------------------------------------------------------------------------
(* Types.                                                                  *)

\* The state of every component stays in its types: see the theorems of that name of their
\* modules; for a call it is the number of its requests that is bounded (CallsAreFew).
THEOREM TypesStay == Spec => []TypeOK
<1>1. Pw!Init /\ [][Pw!Next]_Pw!vars => []Pw!TypeOK
  BY Pw!TypeCorrect, ComponentsAssumption
<1>2. Pw!In!Init /\ [][Pw!In!Next]_Pw!In!vars => []Pw!In!TypeOK
  BY Pw!IntakeTypeCorrect, ComponentsAssumption
<1>3. Sv!St!Init /\ [][Sv!St!Next]_Sv!St!vars => []Sv!St!TypeOK
  BY Sv!StoryTypeCorrect, ComponentsAssumption
<1>4. Ask!Tl!Init /\ [][Ask!Tl!Next]_Ask!Tl!vars => []Ask!Tl!TypeOK
  BY Ask!TellingTypeCorrect, ComponentsAssumption
<1>5. Sv!Init /\ [][Sv!Next]_Sv!vars => []Sv!TypeOK
  BY Sv!TypeCorrect, ComponentsAssumption
<1>6. Ask!Mc!Init /\ [][Ask!Mc!Next]_Ask!Mc!vars => []Ask!Mc!TypeOK
  BY Ask!CallsAreFew, ComponentsAssumption
<1>7. Ask!Pr!Init /\ [][Ask!Pr!Next]_Ask!Pr!vars => []Ask!Pr!TypeOK
  BY Ask!ReadingTypeCorrect, ComponentsAssumption
<1>8. Ask!Init /\ [][Ask!Next]_Ask!vars => []Ask!TypeOK
  BY Ask!TypeCorrect, ComponentsAssumption
<1>9. Vs!Init /\ [][Vs!Next]_Vs!vars => []Vs!TypeOK
  BY Vs!TypeCorrect DEF Vs!Spec
<1>10. Vr!Init /\ [][Vr!Next]_Vr!vars => []Vr!TypeOK
  BY Vr!TypeCorrect DEF Vr!Spec
<1>11. Pw!TypeOK /\ Pw!In!TypeOK /\ Sv!St!TypeOK /\ Ask!Tl!TypeOK /\ Sv!TypeOK
       /\ Ask!Mc!TypeOK /\ Ask!Pr!TypeOK /\ Ask!TypeOK /\ Vs!TypeOK /\ Vr!TypeOK => TypeOK
  BY DEF TypeOK
<1> QED
  BY <1>1, <1>2, <1>3, <1>4, <1>5, <1>6, <1>7, <1>8, <1>9, <1>10, <1>11,
     PagesRun, PagesStep, IntakeRun, IntakeStep, StoryRun, StoryStep, TellingRun, TellingStep,
     SignInRun, SignInStep, CallRun, CallStep, ReadingRun, ReadingStep, ReviewRun, ReviewStep,
     StoreRun, StoreStep, RaceRun, RaceStep, PTL DEF Spec

-----------------------------------------------------------------------------
(* Pages and page jobs.                                                    *)

\* What is shown of a page worked on alone describes its image as it is turned (chain.py,
\* page_jobs.py): see NothingStale of Pages_proofs.
THEOREM NothingStaleShown == Spec => []NothingStaleSilently
<1>1. Pw!Init /\ [][Pw!Next]_Pw!vars => []Pw!NothingStaleSilently
  BY Pw!NothingStale, ComponentsAssumption
<1>2. Pw!NothingStaleSilently => NothingStaleSilently
  BY DEF NothingStaleSilently
<1> QED
  BY <1>1, <1>2, PagesRun, PagesStep, PTL DEF Spec

\* A rotation that died is completed before the next computes its turn: see BoxesFit of
\* Pages_proofs.
THEOREM RecoveredBoxesHold == Spec => []RecoveredBoxesFit
<1>1. Pw!Init /\ [][Pw!Next]_Pw!vars => []Pw!RecoveredBoxesFit
  BY Pw!BoxesFit, ComponentsAssumption
<1>2. Pw!RecoveredBoxesFit => RecoveredBoxesFit
  BY DEF RecoveredBoxesFit
<1> QED
  BY <1>1, <1>2, PagesRun, PagesStep, PTL DEF Spec

\* A job's entry is lost only to an older copy of the jobs file: see JobLost of Pages_proofs.
THEOREM JobLostToStaleCopy == Spec => JobLostOnlyToStaleCopy
<1>1. Pw!Init /\ [][Pw!Next]_Pw!vars => Pw!JobLostOnlyToStaleCopy
  BY Pw!JobLost, ComponentsAssumption
<1> QED
  BY <1>1, PagesRun, PagesStep, PTL DEF Spec, JobLostOnlyToStaleCopy

-----------------------------------------------------------------------------
(* Adoption and scan intake.                                               *)

\* Work whose images changed under it is flagged, whatever process died (adopt.py): see
\* WorkFlagged of Pages_proofs.
THEOREM StaleWorkIsFlagged == Spec => []StaleWorkFlagged
<1>1. Pw!In!Init /\ [][Pw!In!Next]_Pw!In!vars => []Pw!In!StaleWorkFlagged
  BY Pw!WorkFlagged, ComponentsAssumption
<1>2. Pw!In!StaleWorkFlagged => StaleWorkFlagged
  BY DEF StaleWorkFlagged
<1> QED
  BY <1>1, <1>2, IntakeRun, IntakeStep, PTL DEF Spec

\* Adoption keeps the work of an agreed pile (adopt.py): see AgreedWorkKept of Pages_proofs.
THEOREM ConfirmedWorkStays == Spec => ConfirmedWorkKept
<1>1. Pw!In!Init /\ [][Pw!In!Next]_Pw!In!vars => Pw!In!ConfirmedWorkKept
  BY Pw!AgreedWorkKept, ComponentsAssumption
<1> QED
  BY <1>1, IntakeRun, IntakeStep, PTL DEF Spec, ConfirmedWorkKept

-----------------------------------------------------------------------------
(* A path of the store.                                                    *)

\* One writer's file operations implement the version log, wherever it dies (store.py): see
\* OneWriterImplementsLog of VersionedStore_proofs.
THEOREM LogIsImplemented == Spec => ImplementsLog
<1>1. Vs!Init /\ [][Vs!Next]_Vs!vars => Vs!ImplementsLog
  BY Vs!OneWriterImplementsLog, ComponentsAssumption DEF Vs!OneWriter, Vs!Spec
<1> QED
  BY <1>1, StoreRun, StoreStep, PTL DEF Spec, ImplementsLog

\* One writer's numbered copies never change (store.py): see OneWriterKeepsCopies of
\* VersionedStore_proofs.
THEOREM CopiesStay == Spec => CopiesNeverChange
<1>1. Vs!Init /\ [][Vs!Next]_Vs!vars => Vs!CopiesNeverChange
  BY Vs!OneWriterKeepsCopies, ComponentsAssumption DEF Vs!OneWriter, Vs!Spec
<1> QED
  BY <1>1, StoreRun, StoreStep, PTL DEF Spec, CopiesNeverChange

\* Writers that race leave some version of a path that was written (store.py): see
\* SomethingStays of VersionedStore_proofs.
THEOREM VersionStays == Spec => SomeVersionStays
<1>1. Vr!Init /\ [][Vr!Next]_Vr!vars => Vr!SomeVersionStays
  BY Vr!SomethingStays, ComponentsAssumption DEF Vr!Spec
<1> QED
  BY <1>1, RaceRun, RaceStep, PTL DEF Spec, SomeVersionStays

-----------------------------------------------------------------------------
(* Signing in.                                                             *)

\* A login's code is exchanged at most once (auth.py): see ExchangedOnce of Server_proofs.
THEOREM CodeOnce == Spec => []CodeExchangedOnce
<1>1. Sv!Init /\ [][Sv!Next]_Sv!vars => []Sv!CodeExchangedOnce
  BY Sv!ExchangedOnce, ComponentsAssumption
<1>2. Sv!CodeExchangedOnce => CodeExchangedOnce
  BY DEF CodeExchangedOnce
<1> QED
  BY <1>1, <1>2, SignInRun, SignInStep, PTL DEF Spec

\* A poll whose session can be reissued does not fail (auth.py): see LostAnswerReissued of
\* Server_proofs.
THEOREM AnswerReissued == Spec => []LostAnswerIsReissued
<1>1. Sv!Init /\ [][Sv!Next]_Sv!vars => []Sv!LostAnswerIsReissued
  BY Sv!LostAnswerReissued, ComponentsAssumption
<1>2. Sv!LostAnswerIsReissued => LostAnswerIsReissued
  BY DEF LostAnswerIsReissued
<1> QED
  BY <1>1, <1>2, SignInRun, SignInStep, PTL DEF Spec

-----------------------------------------------------------------------------
(* The review of an import.                                                *)

\* A reviewer's line is recorded once, before the model is asked (review.py, server.py): see
\* LinesKept of Asking_proofs.
THEOREM WordsStay == Spec => []WordsKept
<1>1. Ask!Init /\ [][Ask!Next]_Ask!vars => []Ask!WordsKept
  BY Ask!LinesKept, ComponentsAssumption
<1>2. Ask!WordsKept => WordsKept
  BY DEF WordsKept
<1> QED
  BY <1>1, <1>2, ReviewRun, ReviewStep, PTL DEF Spec

\* A review with nobody left to decide is closed (server.py): see ReviewIsClosed of
\* Asking_proofs.
THEOREM ReviewEnds == Spec => []ReviewCloses
<1>1. Ask!Init /\ [][Ask!Next]_Ask!vars => []Ask!ReviewCloses
  BY Ask!ReviewIsClosed, ComponentsAssumption
<1>2. Ask!ReviewCloses => ReviewCloses
  BY DEF ReviewCloses
<1> QED
  BY <1>1, <1>2, ReviewRun, ReviewStep, PTL DEF Spec

-----------------------------------------------------------------------------
(* The reading of a page, and the telling of a story.                      *)

\* No doubtful row of a page that was read is believed on the bands' word (transcripts.py): see
\* DoubtIsShown of Asking_proofs.
THEOREM DoubtStaysShown == Spec => []DoubtShownAlone
<1>1. Ask!Pr!Init /\ [][Ask!Pr!Next]_Ask!Pr!vars => []Ask!Pr!DoubtShownAlone
  BY Ask!DoubtIsShown, ComponentsAssumption
<1>2. Ask!Pr!DoubtShownAlone => DoubtShownAlone
  BY DEF DoubtShownAlone
<1> QED
  BY <1>1, <1>2, ReadingRun, ReadingStep, PTL DEF Spec

\* The narrator is shown only what the account carries, and asked when it says no date
\* (memory.py): see OfferedIsGrounded of Asking_proofs.
THEOREM AssessmentIsGrounded == Spec => []AssessmentGrounded
<1>1. Ask!Tl!Init /\ [][Ask!Tl!Next]_Ask!Tl!vars => [](Ask!Tl!OnlyGroundedIsOffered /\ Ask!Tl!DatedOrAsked)
  BY Ask!OfferedIsGrounded, ComponentsAssumption
<1>2. Ask!Tl!OnlyGroundedIsOffered /\ Ask!Tl!DatedOrAsked => AssessmentGrounded
  BY DEF AssessmentGrounded
<1> QED
  BY <1>1, <1>2, TellingRun, TellingStep, PTL DEF Spec

\* No answer changes a date the account states (memory.py): see StatedDatesStay of Asking_proofs.
THEOREM StatedDatesHold == Spec => StatedDatesKept
<1>1. Ask!Tl!Init /\ [][Ask!Tl!Next]_Ask!Tl!vars => Ask!Tl!StatedDatesKept
  BY Ask!StatedDatesStay, ComponentsAssumption
<1> QED
  BY <1>1, TellingRun, TellingStep, PTL DEF Spec, StatedDatesKept

-----------------------------------------------------------------------------
(* The saving and publishing of a story.                                   *)

\* The patched index is the rebuilt one, unless requests overlapped or were cut short
\* (server.py, projection.py): see PatchedIsRebuilt of Server_proofs.
THEOREM PatchedLikeRebuilt == Spec => []PatchedAsRebuilt
<1>1. Sv!St!Init /\ [][Sv!St!Next]_Sv!St!vars => []Sv!St!PatchedAsRebuilt
  BY Sv!PatchedIsRebuilt, ComponentsAssumption
<1>2. Sv!St!PatchedAsRebuilt => PatchedAsRebuilt
  BY DEF PatchedAsRebuilt
<1> QED
  BY <1>1, <1>2, StoryRun, StoryStep, PTL DEF Spec

\* No served link dangles, and in the archive one does only for a reason (projection.py): see
\* LinksHold of Server_proofs.
THEOREM LinksAreResolved == Spec => []LinksResolve
<1>1. Sv!St!Init /\ [][Sv!St!Next]_Sv!St!vars => [](Sv!St!ServedLinksResolve /\ Sv!St!DanglingLinkExplained)
  BY Sv!LinksHold, ComponentsAssumption
<1>2. Sv!St!ServedLinksResolve /\ Sv!St!DanglingLinkExplained => LinksResolve
  BY DEF LinksResolve
<1> QED
  BY <1>1, <1>2, StoryRun, StoryStep, PTL DEF Spec
=============================================================================
