------------------------ MODULE VersionedStore_proofs ------------------------
(***************************************************************************)
(* Proofs about VersionedStore: the type invariant for any writers, and    *)
(* that they leave some version; and, for a path with one writer that may  *)
(* die anywhere, that write() loses no version, changes no copy, and       *)
(* implements VersionLog.                                                  *)
(***************************************************************************)
EXTENDS VersionedStore, TLAPS

\* One process at a time writes the path.
OneWriter == \A v, w \in Writers : v = w

-----------------------------------------------------------------------------

\* The state stays within its declared types for any number of writers,
\* whichever of them are refused or die: write()'s variables are files'
\* contents and version numbers throughout.
THEOREM TypeCorrect == Spec => []TypeOK
<1>1. Init => TypeOK
  BY DEF Init, TypeOK, File, Writer, Place, Idle
<1>2. TypeOK /\ [Next]_vars => TypeOK'
  <2> SUFFICES ASSUME TypeOK, [Next]_vars PROVE TypeOK'
    OBVIOUS
  <2> USE DEF TypeOK, File, Place
  <2>1. CASE UNCHANGED vars
    BY <2>1 DEF vars
  <2>2. ASSUME NEW w \in Writers, Step(w) PROVE TypeOK'
    <3>1. ASSUME NEW content \in Contents, Begin(w, content) PROVE TypeOK'
      <4> DEFINE next == IF base = None THEN "base_check" ELSE "read"
      <4>1. [writer[w] EXCEPT !.at = next, !.content = content] \in Writer
        BY DEF Writer
      <4>2. writer' = [writer EXCEPT ![w] = [writer[w] EXCEPT !.at = next, !.content = content]]
        BY <3>1 DEF Begin
      <4> QED
        BY <3>1, <4>1, <4>2 DEF Begin
    <3>2. CASE ReadOld(w)
      <4>1. [writer[w] EXCEPT !.at = "pick", !.old = base] \in Writer
        BY DEF Writer
      <4>2. writer' = [writer EXCEPT ![w] = [writer[w] EXCEPT !.at = "pick", !.old = base]]
        BY <3>2 DEF ReadOld
      <4> QED
        BY <3>2, <4>1, <4>2 DEF ReadOld
    <3>3. CASE Pick(w)
      <4>1. PICK v \in Versions :
              writer' = [writer EXCEPT ![w] = [@ EXCEPT !.at = "copy_check", !.version = v]]
        BY <3>3 DEF Pick
      <4>2. [writer[w] EXCEPT !.at = "copy_check", !.version = v] \in Writer
        BY DEF Writer
      <4> QED
        BY <3>3, <4>1, <4>2 DEF Pick
    <3>4. CASE CopyCheck(w)
      BY <3>4 DEF CopyCheck, Go, Writer
    <3>5. CASE CopyPut(w)
      BY <3>5 DEF CopyPut, Go, Writer
    <3>6. CASE Delete(w)
      BY <3>6 DEF Delete, Go, Writer
    <3>7. CASE BaseCheck(w)
      BY <3>7 DEF BaseCheck, Go, Writer
    <3>8. CASE BasePut(w)
      BY <3>8 DEF BasePut, Idle, Writer
    <3>9. CASE Refused(w)
      BY <3>9 DEF Refused, Idle, Writer
    <3>10. CASE Crash(w)
      BY <3>10 DEF Crash, Idle, Writer
    <3> QED
      BY <2>2, <3>1, <3>2, <3>3, <3>4, <3>5, <3>6, <3>7, <3>8, <3>9, <3>10 DEF Step
  <2> QED
    BY <2>1, <2>2 DEF Next
<1> QED
  BY <1>1, <1>2, PTL DEF Spec

-----------------------------------------------------------------------------
(* What a single writer knows at each operation of write().                *)

\* The numbers in use have no gap below them.
NoGap == \A u, v \in Versions : u < v /\ copy[v] # None => copy[u] # None

\* Up to the copy the base is what was read; then the copy holds it too, at
\* the highest number; then the base is away.
WriterKnows(w) ==
  /\ ~At(w, "idle") => writer[w].content \in Contents
  /\ At(w, "read") => base # None
  /\ At(w, "pick") \/ At(w, "copy_check") \/ At(w, "copy_put")
       => base # None /\ writer[w].old = base
  /\ At(w, "copy_check") \/ At(w, "copy_put")
       => /\ writer[w].version \in Versions
          /\ copy[writer[w].version] = None
          /\ \A u \in Versions : u < writer[w].version => copy[u] # None
  /\ At(w, "delete")
       => /\ base # None
          /\ writer[w].version \in Versions
          /\ copy[writer[w].version] = base
          /\ \A u \in Versions : u > writer[w].version => copy[u] = None
  /\ At(w, "base_check") \/ At(w, "base_put") => base = None

IInv == TypeOK /\ NoGap /\ \A w \in Writers : WriterKnows(w)

\* What each operation of a single writer leaves true of it.
LEMMA StepKeepsIInv ==
  ASSUME StoreAssumption, OneWriter, IInv, NEW w \in Writers, Step(w), TypeOK'
  PROVE  IInv'
<1> SUFFICES NoGap' /\ WriterKnows(w)'
  BY DEF IInv, OneWriter
<1> WriterKnows(w) /\ NoGap /\ TypeOK
  BY DEF IInv
<1> USE DEF StoreAssumption, TypeOK, File, Writer, Place, WriterKnows, At
<1>1. ASSUME NEW content \in Contents, Begin(w, content)
      PROVE NoGap' /\ WriterKnows(w)'
  BY <1>1 DEF Begin, NoGap
<1>2. CASE ReadOld(w)
  BY <1>2 DEF ReadOld, NoGap
<1>3. CASE Pick(w)
  BY <1>3 DEF Pick, NoGap
<1>4. CASE CopyCheck(w)
  BY <1>4 DEF CopyCheck, Go, NoGap
<1>5. CASE CopyPut(w)
  <2>1. NoGap'
    BY <1>5 DEF CopyPut, Go, NoGap
  <2>2. WriterKnows(w)'
    BY <1>5 DEF CopyPut, Go, NoGap, Versions
  <2> QED
    BY <2>1, <2>2
<1>6. CASE Delete(w)
  BY <1>6 DEF Delete, Go, NoGap
<1>7. CASE BaseCheck(w)
  BY <1>7 DEF BaseCheck, Go, NoGap
<1>8. CASE BasePut(w)
  BY <1>8 DEF BasePut, Idle, NoGap
<1>9. CASE Refused(w)
  BY <1>9 DEF Refused, Idle, NoGap
<1>10. CASE Crash(w)
  BY <1>10 DEF Crash, Idle, NoGap
<1> QED
  BY <1>1, <1>2, <1>3, <1>4, <1>5, <1>6, <1>7, <1>8, <1>9, <1>10 DEF Step

\* The invariant of a path with one writer.
LEMMA Inductive == ASSUME StoreAssumption, OneWriter PROVE Spec => []IInv
<1>1. Init => IInv
  BY DEF Init, IInv, TypeOK, File, Writer, Place, Idle, NoGap, WriterKnows, At
<1>2. IInv /\ TypeOK' /\ [Next]_vars => IInv'
  <2>1. IInv /\ UNCHANGED vars => IInv'
    BY DEF IInv, TypeOK, NoGap, WriterKnows, At, vars
  <2> QED
    BY <2>1, StepKeepsIInv DEF Next
<1> QED
  BY <1>1, <1>2, TypeCorrect, PTL DEF Spec

-----------------------------------------------------------------------------
(* The step that matters to a reader of the path.                          *)

\* Every operation of a single writer adds one version, takes away the base
\* of one that is kept, or leaves what can be read as it was.
LEMMA StepMaps ==
  ASSUME StoreAssumption, OneWriter, IInv, NEW w \in Writers, Step(w)
  PROVE  Log!Next \/ (Kept' = Kept /\ Latest' = Latest)
<1> WriterKnows(w) /\ TypeOK
  BY DEF IInv
<1> USE DEF StoreAssumption, TypeOK, File, WriterKnows, At
<1>1. CASE UNCHANGED <<base, copy>>
  BY <1>1 DEF Kept, Latest, Copies
<1>2. CASE CopyPut(w)
  <2>1. /\ base' = base /\ base # None
        /\ copy' = [copy EXCEPT ![writer[w].version] = base]
        /\ writer[w].version \in Versions /\ copy[writer[w].version] = None
    BY <1>2 DEF CopyPut
  <2>2. Kept' = Kept
    BY <2>1 DEF Kept, Copies
  <2>3. Latest' = Latest
    BY <2>1 DEF Latest
  <2> QED
    BY <2>2, <2>3
<1>3. CASE Delete(w)
  <2>1. /\ base' = None /\ base # None /\ copy' = copy
        /\ writer[w].version \in Copies /\ copy[writer[w].version] = base
    BY <1>3 DEF Delete, Copies
  <2>2. Kept' = Kept /\ Latest \in Kept /\ Latest' = None
    BY <2>1 DEF Kept, Copies, Latest
  <2> QED
    BY <2>2 DEF Log!Next, Log!Withdraw
<1>4. CASE BasePut(w)
  <2>1. /\ base = None /\ copy' = copy
        /\ base' = writer[w].content /\ writer[w].content \in Contents
    BY <1>4 DEF BasePut
  <2>2. Kept' = Kept \cup {writer[w].content}
    BY <2>1 DEF Kept, Copies
  <2>3. Latest' = writer[w].content
    BY <2>1 DEF Latest
  <2> QED
    BY <2>1, <2>2, <2>3 DEF Log!Next, Log!Write
<1> QED
  BY <1>1, <1>2, <1>3, <1>4
  DEF Step, Begin, ReadOld, Pick, CopyCheck, BaseCheck, Refused, Crash

\* The file operations of write() implement the version log: with one writer
\* that may die between any two of them, each version is added in one step,
\* no version is ever lost, and read_latest returns the last one added or
\* raises - once a base is deleted, until a write is completed.
THEOREM OneWriterImplementsLog == ASSUME StoreAssumption, OneWriter PROVE Spec => ImplementsLog
<1>1. Init => Log!Init
  BY DEF Init, Log!Init, Kept, Latest, Copies
<1>2. IInv /\ [Next]_vars => [Log!Next]_<<Kept, Latest>>
  <2>1. UNCHANGED vars => UNCHANGED <<Kept, Latest>>
    BY DEF vars, Kept, Latest, Copies
  <2> QED
    BY <2>1, StepMaps DEF Next
<1> QED
  BY <1>1, <1>2, Inductive, PTL DEF Spec, ImplementsLog, Log!Spec

\* "The old version is preserved": with one writer, no version that is on
\* disk ever leaves it.
THEOREM OneWriterPreservesVersions ==
  ASSUME StoreAssumption, OneWriter PROVE Spec => VersionsPreserved
<1>1. IInv /\ [Next]_vars => [Kept \subseteq Kept']_vars
  <2>1. Log!Next => Kept \subseteq Kept'
    BY DEF Log!Next, Log!Write, Log!Withdraw
  <2> QED
    BY <2>1, StepMaps DEF Next
<1> QED
  BY <1>1, Inductive, PTL DEF Spec, VersionsPreserved

\* "a re-run never overwrites existing data": with one writer, a numbered copy
\* never changes, for the writer finds its number free and nobody takes it.
THEOREM OneWriterKeepsCopies ==
  ASSUME StoreAssumption, OneWriter PROVE Spec => CopiesNeverChange
<1>1. IInv /\ [Next]_vars => [\A v \in Copies : copy'[v] = copy[v]]_vars
  <2>1. ASSUME IInv, NEW w \in Writers, Step(w), NEW v \in Copies
        PROVE  copy'[v] = copy[v]
    <3>1. CASE CopyPut(w)
      <4>1. copy[writer[w].version] = None /\ copy[v] # None
        BY <2>1, <3>1 DEF IInv, WriterKnows, CopyPut, At, Copies
      <4> QED
        BY <2>1, <3>1, <4>1 DEF CopyPut, IInv, TypeOK, Copies
    <3>2. CASE copy' = copy
      BY <3>2
    <3> QED
      BY <2>1, <3>1, <3>2
      DEF Step, Begin, ReadOld, Pick, CopyCheck, Delete, BaseCheck, BasePut, Refused, Crash
  <2> QED
    BY <2>1 DEF Next
<1> QED
  BY <1>1, Inductive, PTL DEF Spec, CopiesNeverChange

-----------------------------------------------------------------------------
(* Any number of writers that race.                                        *)

\* A writer past its reading has an old content to keep, and one that is to
\* take the base away has kept one, its own or, put over it, another's.
RacerKnows(w) ==
  /\ ~At(w, "idle") => writer[w].content \in Contents
  /\ At(w, "pick") \/ At(w, "copy_check") \/ At(w, "copy_put") => writer[w].old # None
  /\ At(w, "copy_check") \/ At(w, "copy_put") => writer[w].version \in Versions
  /\ At(w, "delete") => Copies # {}

RaceInv == TypeOK /\ \A w \in Writers : RacerKnows(w)

\* A copy may be replaced in a race, but a number once taken stays taken.
LEMMA CopiesRemain ==
  ASSUME RaceInv, NEW w \in Writers, Step(w)
  PROVE  Copies \subseteq Copies'
<1>1. CASE CopyPut(w)
  <2>1. writer[w].old # None
    BY <1>1 DEF RaceInv, RacerKnows, CopyPut
  <2> QED
    BY <1>1, <2>1 DEF CopyPut, Copies, RaceInv, TypeOK
<1>2. CASE copy' = copy
  BY <1>2 DEF Copies
<1> QED
  BY <1>1, <1>2
  DEF Step, Begin, ReadOld, Pick, CopyCheck, Delete, BaseCheck, BasePut, Refused, Crash

\* What each operation of one of many writers leaves true of it.
LEMMA StepKeepsItsOwn ==
  ASSUME StoreAssumption, RaceInv, NEW w \in Writers, Step(w)
  PROVE  RacerKnows(w)'
<1> RacerKnows(w) /\ TypeOK
  BY DEF RaceInv
<1>0. Copies \subseteq Copies'
  BY CopiesRemain
<1> USE DEF StoreAssumption, TypeOK, File, Writer, Place, RacerKnows, At
<1>1. ASSUME NEW content \in Contents, Begin(w, content) PROVE RacerKnows(w)'
  BY <1>1 DEF Begin
<1>2. CASE ReadOld(w)
  BY <1>2 DEF ReadOld
<1>3. CASE Pick(w)
  BY <1>3 DEF Pick
<1>4. CASE CopyCheck(w)
  BY <1>4 DEF CopyCheck, Go
<1>5. CASE CopyPut(w)
  <2>1. writer[w].version \in Copies'
    BY <1>5 DEF CopyPut, Copies
  <2> QED
    BY <1>5, <2>1 DEF CopyPut, Go
<1>6. CASE Delete(w)
  BY <1>6 DEF Delete, Go
<1>7. CASE BaseCheck(w)
  BY <1>7 DEF BaseCheck, Go
<1>8. CASE BasePut(w) \/ Refused(w) \/ Crash(w)
  BY <1>8 DEF BasePut, Refused, Crash, Idle
<1> QED
  BY <1>1, <1>2, <1>3, <1>4, <1>5, <1>6, <1>7, <1>8 DEF Step

\* The invariant of a path with any writers.
LEMMA RaceInductive == ASSUME StoreAssumption PROVE Spec => []RaceInv
<1>1. Init => RaceInv
  BY DEF Init, RaceInv, TypeOK, File, Writer, Place, Idle, RacerKnows, At
<1>2. RaceInv /\ TypeOK' /\ [Next]_vars => RaceInv'
  <2>1. ASSUME RaceInv, TypeOK', NEW w \in Writers, Step(w)
        PROVE  RaceInv'
    <3>1. ASSUME NEW u \in Writers, u # w PROVE RacerKnows(u)'
      <4>1. writer'[u] = writer[u]
        BY <2>1, <3>1 DEF RaceInv, TypeOK, Step, Begin, ReadOld, Pick, CopyCheck, CopyPut, Delete,
                          BaseCheck, BasePut, Refused, Crash, Go
      <4>2. RacerKnows(u) /\ Copies \subseteq Copies'
        BY <2>1, CopiesRemain DEF RaceInv
      <4> QED
        BY <4>1, <4>2 DEF RacerKnows, At
    <3>2. RacerKnows(w)'
      BY <2>1, StepKeepsItsOwn
    <3> QED
      BY <2>1, <3>1, <3>2 DEF RaceInv
  <2>2. RaceInv /\ UNCHANGED vars => RaceInv'
    BY DEF RaceInv, TypeOK, RacerKnows, At, Copies, vars
  <2> QED
    BY <2>1, <2>2 DEF Next
<1> QED
  BY <1>1, <1>2, TypeCorrect, PTL DEF Spec

\* However many writers race on a path and wherever they die, some version of
\* it stays: PipelineStore.write takes the base away only when a copy stands,
\* and no write removes a copy.
THEOREM SomethingStays == ASSUME StoreAssumption PROVE Spec => SomeVersionStays
<1>1. RaceInv /\ [Next]_vars => [Kept # {} => Kept' # {}]_vars
  <2>1. ASSUME RaceInv, NEW w \in Writers, Step(w), Kept # {} PROVE Kept' # {}
    <3>1. Copies \subseteq Copies'
      BY <2>1, CopiesRemain
    <3>2. CASE Copies # {}
      BY <3>1, <3>2 DEF Kept
    <3>3. CASE Copies = {}
      <4>1. base # None
        BY <2>1, <3>3 DEF Kept
      <4>2. ~Delete(w)
        BY <2>1, <3>3 DEF Delete, RaceInv, RacerKnows
      <4>3. base' = base \/ BasePut(w)
        BY <2>1, <4>2 DEF Step, Begin, ReadOld, Pick, CopyCheck, CopyPut, BaseCheck, Refused, Crash
      <4>4. base' # None
        BY <2>1, <4>1, <4>3 DEF StoreAssumption, BasePut, RaceInv, RacerKnows, At
      <4> QED
        BY <4>4 DEF Kept
    <3> QED
      BY <3>2, <3>3
  <2> QED
    BY <2>1 DEF Next
<1> QED
  BY <1>1, RaceInductive, PTL DEF Spec, SomeVersionStays
=============================================================================
