--------------------------- MODULE Archive_proofs ---------------------------
(***************************************************************************)
(* Proofs about Archive, for any documents, pages, people and number of    *)
(* requests at a time: the type invariant, that a transcription never      *)
(* stands without its sidecar, and that the items the registry names have  *)
(* a transcription.  And for one request at a time: what is catalogued is  *)
(* whole, and what a save makes of an item's links.                        *)
(***************************************************************************)
EXTENDS Archive, TLAPS

-----------------------------------------------------------------------------
(* The inductive invariant: what a thread knows at the place it is at, and *)
(* what the archive holds of it.                                           *)

Saving   == {"number", "check", "put", "text_check", "text_put"}
Numbered == Saving \ {"number"}
Agreeing == {"approve", "confirm"}
Loaded   == Agreeing \cup {"reject"}
Deciding == {"record", "settle", "dismiss"}

Knows(s) ==
  /\ s.at = "mark" => s.page \in Pages
  /\ s.at \in {"mark", "look", "gather", "item"} => s.task \in Agreeing
  /\ s.at = "register" => s.task \in Loaded
  /\ s.task \in Loaded => s.doc \in Docs /\ s.record \in Record
  /\ s.at = "item" \/ (s.at \in Saving /\ s.task \in Agreeing) => s.text \in Text
  /\ s.at \in {"text_check", "text_put"} => s.text \in Text
  /\ s.at \in Saving \cup {"model", "people", "record"} => s.item \in Ids
  /\ s.at \in Saving \cup {"people", "record"} => s.next \in Draft
  /\ s.at \in Numbered => s.next.version \in Versions
  /\ s.at \in {"model", "people"} => s.task = "identify"
  /\ s.at \in Deciding => s.task = "decide"
  /\ s.task = "decide" => s.person \in People /\ s.decision \in Decision

HasSomeText(i) == \E v \in Versions : HasText(i, v)
RecordBacked(record) ==
  \A d \in Docs : record[d].item # None => HasSomeText(record[d].item)

Backed(s) ==
  /\ s.at \in {"text_check", "text_put"} => HasSidecar(s.item, s.next.version)
  /\ s.at = "register" /\ s.task # "reject" => s.item \in Ids /\ HasSomeText(s.item)
  /\ s.task \in Loaded => RecordBacked(s.record)

IInv ==
  /\ TypeOK
  /\ ContentFollowsSidecar
  /\ RecordBacked(registry)
  /\ \A t \in Threads : Knows(thread[t]) /\ Backed(thread[t])

-----------------------------------------------------------------------------
(* Files are only added, and what a thread has found stays there.          *)

Grows ==
  /\ \A i \in Ids : Length(i) <= Length(i)'
  /\ \A i \in Ids, v \in Versions : HasText(i, v) => HasText(i, v)'

LEMMA LengthType ==
  ASSUME TypeOK, NEW i \in Ids
  PROVE  Length(i) \in Nat
<1>1. sidecar[i] \in Sidecar \cup {None}
  BY DEF TypeOK
<1>2. CASE sidecar[i] = None
  BY <1>2 DEF Length
<1>3. CASE sidecar[i] # None
  BY <1>1, <1>3, BoundAssumption DEF Length, Sidecar, Versions
<1> QED
  BY <1>2, <1>3

\* A version that is there is there among more versions.
LEMMA HasSidecarStays ==
  ASSUME TypeOK, TypeOK', NEW i \in Ids, NEW v, HasSidecar(i, v), Length(i) <= Length(i)'
  PROVE  HasSidecar(i, v)'
<1>1. Length(i) \in Nat
  BY LengthType
<1>2. Length(i)' \in Nat
  <2>1. sidecar'[i] \in Sidecar \cup {None}
    BY DEF TypeOK
  <2>2. CASE sidecar'[i] = None
    BY <2>2 DEF Length
  <2>3. CASE sidecar'[i] # None
    BY <2>1, <2>3, BoundAssumption DEF Length, Sidecar, Versions
  <2> QED
    BY <2>2, <2>3
<1> QED
  BY <1>1, <1>2 DEF HasSidecar

LEMMA RecordStaysBacked ==
  ASSUME Grows, NEW record \in Record, RecordBacked(record)
  PROVE  RecordBacked(record)'
<1>1. \A i \in Ids : HasSomeText(i) => HasSomeText(i)'
  BY DEF Grows, HasSomeText
<1>2. \A d \in Docs : record[d].item \in Ids \cup {None}
  BY DEF Record, Boundary
<1> QED
  BY <1>1, <1>2 DEF RecordBacked

LEMMA StaysBacked ==
  ASSUME TypeOK, TypeOK', Grows, NEW s \in Thread, Knows(s), Backed(s)
  PROVE  Backed(s)'
<1>1. ASSUME s.at \in {"text_check", "text_put"}
      PROVE  HasSidecar(s.item, s.next.version)'
  BY <1>1, HasSidecarStays DEF Knows, Backed, Saving, Grows
<1>2. ASSUME s.at = "register", s.task # "reject"
      PROVE  s.item \in Ids /\ HasSomeText(s.item)'
  <2>1. s.item \in Ids /\ HasSomeText(s.item)
    BY <1>2 DEF Backed
  <2> QED
    BY <2>1 DEF Grows, HasSomeText
<1>3. ASSUME s.task \in Loaded
      PROVE  RecordBacked(s.record)'
  BY <1>3, RecordStaysBacked DEF Knows, Backed
<1> QED
  BY <1>1, <1>2, <1>3 DEF Backed

-----------------------------------------------------------------------------
(* A step that leaves the archive and the registry alone needs only what    *)
(* its thread comes to know.                                                *)

LEMMA QuietStep ==
  ASSUME IInv, NEW t \in Threads, NEW s \in Thread, Become(t, s), Knows(s), Backed(s),
         UNCHANGED <<registry, archive>>,
         agreed' \in SUBSET Pages, people' \in [People -> Standing]
  PROVE  IInv'
<1>1. TypeOK'
  BY DEF IInv, TypeOK, Become, archive
<1>2. ContentFollowsSidecar'
  BY DEF IInv, ContentFollowsSidecar, HasText, HasSidecar, Length, archive
<1>3. \A i : HasSomeText(i)' <=> HasSomeText(i)
  BY DEF HasSomeText, HasText, archive
<1>4. \A record : RecordBacked(record) => RecordBacked(record)'
  BY <1>3 DEF RecordBacked
<1>5. RecordBacked(registry)'
  BY <1>3 DEF IInv, RecordBacked
<1>6. ASSUME NEW u \in Threads
      PROVE  (Knows(thread[u]) /\ Backed(thread[u]))'
  <2>1. thread'[u] = IF u = t THEN s ELSE thread[u]
    BY DEF IInv, TypeOK, Become
  <2>2. thread[u] \in Thread /\ Knows(thread[u]) /\ Backed(thread[u])
    BY DEF IInv, TypeOK
  <2>3. thread'[u] \in Thread /\ Knows(thread'[u]) /\ Backed(thread'[u])
    BY <2>1, <2>2
  <2>4. Knows(thread[u])'
    BY <2>3 DEF Knows
  <2>5. Backed(thread[u])'
    BY <1>3, <1>4, <2>3 DEF Backed, HasSidecar, Length, archive
  <2> QED
    BY <2>4, <2>5
<1> QED
  BY <1>1, <1>2, <1>5, <1>6 DEF IInv

LEMMA RestingIsFine == Resting \in Thread /\ Knows(Resting) /\ Backed(Resting)
<1>1. NoLinks \in [People -> Standing]
  BY DEF NoLinks, Standing
<1>2. Resting \in Thread
  BY <1>1 DEF Resting, Thread, Place
<1>3. Resting.at = "idle" /\ Resting.task \notin Task
  BY NoneAssumption DEF Resting
<1> QED
  BY <1>2, <1>3 DEF Knows, Backed, Saving, Numbered, Agreeing, Loaded, Deciding, Task

LEMMA InitHolds == Init => IInv
<1> SUFFICES ASSUME Init PROVE IInv
  OBVIOUS
<1>1. TypeOK
  <2>1. registry \in Record
    BY DEF Init, Record, Boundary
  <2>2. people \in [People -> Standing]
    BY DEF Init, NoLinks, Standing
  <2>3. thread \in [Threads -> Thread]
    BY RestingIsFine DEF Init
  <2> QED
    BY <2>1, <2>2, <2>3 DEF Init, TypeOK
<1>2. ContentFollowsSidecar
  BY DEF Init, ContentFollowsSidecar, HasText
<1>3. RecordBacked(registry)
  BY DEF Init, RecordBacked
<1> QED
  BY <1>1, <1>2, <1>3, RestingIsFine DEF Init, IInv

LEMMA FinishHolds ==
  ASSUME IInv, NEW t \in Threads, Finish(t), UNCHANGED <<registry, archive>>,
         agreed' \in SUBSET Pages, people' \in [People -> Standing]
  PROVE  IInv'
BY RestingIsFine, QuietStep DEF Finish

-----------------------------------------------------------------------------
(* The steps that write the archive or the registry.                        *)

\* Files are only added, by one thread: the others keep what they have found.
LEMMA WriteStep ==
  ASSUME IInv, NEW t \in Threads, NEW s \in Thread, Become(t, s), Knows(s), Backed(s)',
         TypeOK', Grows, ContentFollowsSidecar', UNCHANGED registry
  PROVE  IInv'
<1>1. RecordBacked(registry)'
  <2>1. registry \in Record /\ RecordBacked(registry)
    BY DEF IInv, TypeOK
  <2> QED
    BY <2>1, RecordStaysBacked DEF RecordBacked
<1>2. ASSUME NEW u \in Threads
      PROVE  (Knows(thread[u]) /\ Backed(thread[u]))'
  <2>1. thread'[u] = IF u = t THEN s ELSE thread[u]
    BY DEF IInv, TypeOK, Become
  <2>2. thread[u] \in Thread /\ Knows(thread[u]) /\ Backed(thread[u])
    BY DEF IInv, TypeOK
  <2>3. Knows(thread[u])'
    BY <2>1, <2>2 DEF Knows
  <2>4. PICK r \in Thread : r = thread'[u] /\ Backed(r)'
    <3>1. CASE u = t
      BY <2>1, <3>1
    <3>2. CASE u # t
      BY <2>1, <2>2, <3>2, StaysBacked DEF IInv
    <3> QED
      BY <3>1, <3>2
  <2>5. Backed(thread[u])'
    BY <2>4 DEF Backed
  <2> QED
    BY <2>3, <2>5
<1> QED
  BY <1>1, <1>2 DEF IInv

LEMMA SavedIsFine ==
  ASSUME IInv, NEW t \in Threads, At(t, "put") \/ At(t, "text_put")
  PROVE  Saved(t) \in Thread /\ Knows(Saved(t))
<1>1. thread[t] \in Thread /\ Knows(thread[t])
  BY DEF IInv, TypeOK
<1>2. CASE thread[t].task \in Agreeing
  <2>1. Saved(t) = [thread[t] EXCEPT !.at = "register"]
    BY <1>2 DEF Saved, Agreeing
  <2> QED
    BY <1>1, <1>2, <2>1 DEF Knows, Thread, Place, Saving, Numbered, Loaded, Agreeing, Deciding
<1>3. CASE thread[t].task = "decide"
  <2>1. Saved(t) = [thread[t] EXCEPT !.at = "settle"]
    BY <1>3 DEF Saved, Do
  <2> QED
    BY <1>1, <1>3, <2>1 DEF Knows, Thread, Place, Saving, Numbered, Loaded, Agreeing, Deciding
<1>4. CASE thread[t].task \notin Agreeing \cup {"decide"}
  <2>1. Saved(t) = Resting
    BY <1>4 DEF Saved, Do, Agreeing
  <2> QED
    BY <2>1, RestingIsFine
<1> QED
  BY <1>2, <1>3, <1>4

LEMMA RegisterHolds ==
  ASSUME IInv, NEW t \in Threads, Register(t)
  PROVE  IInv'
<1> DEFINE s == thread[t]
<1>1. s \in Thread /\ Knows(s) /\ Backed(s) /\ s.at = "register"
  BY DEF IInv, TypeOK, Register, At
<1>2. s.doc \in Docs /\ s.record \in Record /\ RecordBacked(s.record)
  BY <1>1 DEF Knows, Backed
<1> DEFINE b == s.record[s.doc]
           c == IF s.task = "reject" THEN [b EXCEPT !.status = "rejected"]
                ELSE [item |-> s.item, status |-> IF s.whole THEN "confirmed" ELSE b.status]
<1>3. b \in Boundary /\ (b.item # None => HasSomeText(b.item))
  BY <1>2 DEF Record, RecordBacked
<1>4. c \in Boundary /\ (c.item # None => HasSomeText(c.item))
  <2>1. CASE s.task = "reject"
    BY <1>3, <2>1 DEF Boundary
  <2>2. CASE s.task # "reject"
    BY <1>1, <1>3, <2>2 DEF Boundary, Backed, Thread
  <2> QED
    BY <2>1, <2>2
<1>5. registry' = [s.record EXCEPT ![s.doc] = c]
  BY DEF Register, Do
<1> HIDE DEF s, b, c
<1>6. registry' \in Record
  BY <1>2, <1>4, <1>5 DEF Record
<1>7. RecordBacked(registry)'
  <2>1. ASSUME NEW d \in Docs, registry'[d].item # None
        PROVE  HasSomeText(registry'[d].item)
    BY <1>2, <1>4, <1>5, <2>1 DEF Record, RecordBacked
  <2>2. content' = content
    BY DEF Register, archive
  <2> QED
    BY <2>1, <2>2 DEF RecordBacked, HasSomeText, HasText
<1>8. TypeOK'
  BY <1>6, RestingIsFine DEF IInv, TypeOK, Register, Finish, Become, archive
<1>9. ContentFollowsSidecar'
  BY DEF IInv, ContentFollowsSidecar, HasText, HasSidecar, Length, Register, archive
<1>10. ASSUME NEW u \in Threads
       PROVE  (Knows(thread[u]) /\ Backed(thread[u]))'
  <2>1. thread'[u] \in Thread /\ Knows(thread'[u]) /\ Backed(thread'[u])
    BY RestingIsFine DEF IInv, TypeOK, Register, Finish, Become
  <2>2. Knows(thread[u])'
    BY <2>1 DEF Knows
  <2>3. UNCHANGED <<sidecar, content>>
    BY DEF Register, archive
  <2>4. Backed(thread[u])'
    BY <2>1, <2>3 DEF Backed, HasSidecar, Length, HasSomeText, HasText, RecordBacked
  <2> QED
    BY <2>2, <2>4
<1> QED
  BY <1>7, <1>8, <1>9, <1>10 DEF IInv

\* The item's last version afterwards is the saved one or a later one.
LEMMA PutGrows ==
  ASSUME IInv, NEW t \in Threads, Put(t), NEW s \in Thread, s = thread[t]
  PROVE  /\ sidecar' \in [Ids -> Sidecar \cup {None}]
         /\ \A i \in Ids : Length(i) <= Length(i)'
         /\ HasSidecar(s.item, s.next.version)'
<1>1. s.item \in Ids /\ s.next \in Draft /\ s.next.version \in Versions
  BY DEF IInv, Put, At, Knows, Saving, Numbered
<1>2. s.next \in Sidecar /\ s.next # None
  <2>1. s.next \in Sidecar
    BY <1>1 DEF Draft, Sidecar
  <2> QED
    BY <2>1, NoneAssumption
<1>3. sidecar \in [Ids -> Sidecar \cup {None}] /\ sidecar' = PutSidecar(t)
  BY DEF IInv, TypeOK, Put
<1>4. \A i \in Ids : Length(i) \in Nat
  BY LengthType DEF IInv
<1>5. s.next.version \in Nat /\ s.next.version >= 1
  BY <1>1, BoundAssumption DEF Versions
<1>6. CASE s.next.version < Length(s.item)
  <2>1. sidecar' = sidecar
    BY <1>3, <1>6 DEF PutSidecar
  <2>2. \A i : Length(i)' = Length(i)
    BY <2>1 DEF Length
  <2> QED
    BY <1>1, <1>3, <1>4, <1>5, <1>6, <2>1, <2>2 DEF HasSidecar
<1>7. CASE ~(s.next.version < Length(s.item))
  <2>1. sidecar' = [sidecar EXCEPT ![s.item] = s.next]
    BY <1>3, <1>7 DEF PutSidecar
  <2>2. sidecar' \in [Ids -> Sidecar \cup {None}]
    BY <1>1, <1>2, <1>3, <2>1
  <2>3. \A i \in Ids : i # s.item => Length(i)' = Length(i)
    BY <1>3, <2>1 DEF Length
  <2>4. Length(s.item)' = s.next.version
    BY <1>1, <1>2, <1>3, <2>1 DEF Length
  <2>5. \A i \in Ids : Length(i) <= Length(i)'
    BY <1>1, <1>4, <1>5, <1>7, <2>3, <2>4
  <2>6. HasSidecar(s.item, s.next.version)'
    BY <1>5, <2>4 DEF HasSidecar
  <2> QED
    BY <2>2, <2>5, <2>6
<1> QED
  BY <1>6, <1>7

LEMMA PutHolds ==
  ASSUME IInv, NEW t \in Threads, Put(t)
  PROVE  IInv'
<1>1. PICK s \in Thread : s = thread[t] /\ Knows(s) /\ Backed(s) /\ s.at = "put"
  BY DEF IInv, TypeOK, Put, At
<1>2. PICK r : r = IF s.text = None THEN Saved(t) ELSE [s EXCEPT !.at = "text_check"]
  OBVIOUS
<1>3. r \in Thread /\ Knows(r)
  <2>1. CASE s.text = None
    BY <1>1, <1>2, <2>1, SavedIsFine DEF At
  <2>2. CASE s.text # None
    <3>1. s.text \in Text
      BY <2>2 DEF Thread
    <3> QED
      BY <1>1, <1>2, <2>2, <3>1 DEF Knows, Thread, Place, Saving, Numbered, Deciding
  <2> QED
    BY <2>1, <2>2
<1>4. Become(t, r) /\ UNCHANGED <<agreed, registry, content, people>>
  BY <1>1, <1>2 DEF Put
<1>5. /\ sidecar' \in [Ids -> Sidecar \cup {None}]
      /\ \A i \in Ids : Length(i) <= Length(i)'
      /\ HasSidecar(s.item, s.next.version)'
  BY <1>1, PutGrows
<1>6. TypeOK'
  BY <1>3, <1>4, <1>5 DEF IInv, TypeOK, Become
<1>7. Grows
  BY <1>4, <1>5 DEF Grows, HasText
<1>8. ContentFollowsSidecar'
  <2>1. ASSUME NEW i \in Ids, NEW v \in Versions, HasText(i, v)
        PROVE  HasSidecar(i, v)'
    BY <1>5, <1>6, <2>1, HasSidecarStays DEF IInv, ContentFollowsSidecar
  <2> QED
    BY <1>4, <2>1 DEF ContentFollowsSidecar, HasText
<1>9. Backed(r)'
  <2>1. CASE s.text = None
    <3>1. r = Resting \/ (r.task = "decide" /\ r.at = "settle")
      <4>1. s.task \notin Agreeing
        BY <1>1, <2>1, NoneAssumption DEF Knows, Saving
      <4> QED
        BY <1>1, <1>2, <2>1, <4>1 DEF Saved, Do, Agreeing, Thread
    <3>2. r.task \notin Loaded /\ r.at \notin {"register", "text_check", "text_put"}
      BY <3>1, NoneAssumption DEF Resting, Loaded, Agreeing, Task
    <3> QED
      BY <3>2 DEF Backed
  <2>2. CASE s.text # None
    <3>1. r.at = "text_check" /\ r.item = s.item /\ r.next = s.next
          /\ r.record = s.record /\ r.task = s.task
      BY <1>2, <2>2 DEF Thread
    <3>2. s.task \in Loaded => RecordBacked(s.record)'
      BY <1>1, <1>7, RecordStaysBacked DEF Knows, Backed
    <3> QED
      BY <1>5, <3>1, <3>2 DEF Backed
  <2> QED
    BY <2>1, <2>2
<1> QED
  BY <1>3, <1>4, <1>6, <1>7, <1>8, <1>9, WriteStep

LEMMA TextPutHolds ==
  ASSUME IInv, NEW t \in Threads, TextPut(t)
  PROVE  IInv'
<1>1. PICK s \in Thread : s = thread[t] /\ Knows(s) /\ Backed(s) /\ s.at = "text_put"
  BY DEF IInv, TypeOK, TextPut, At
<1>2. s.item \in Ids /\ s.next.version \in Versions /\ s.text \in Text
      /\ HasSidecar(s.item, s.next.version)
  BY <1>1 DEF Knows, Backed, Saving, Numbered
<1>3. PICK r : r = Saved(t) /\ r \in Thread /\ Knows(r)
  BY SavedIsFine DEF TextPut
<1>4. /\ Become(t, r) /\ UNCHANGED <<agreed, registry, sidecar, people>>
      /\ content' = [content EXCEPT ![s.item][s.next.version] = s.text]
  BY <1>1, <1>3 DEF TextPut
<1>5. content \in [Ids -> [Versions -> Text \cup {None}]]
  BY DEF IInv, TypeOK
<1>6. content' \in [Ids -> [Versions -> Text \cup {None}]]
  BY <1>2, <1>4, <1>5
<1>7. HasText(s.item, s.next.version)'
  <2>1. content'[s.item][s.next.version] = s.text
    BY <1>2, <1>4, <1>5
  <2> QED
    BY <1>2, <2>1, NoneAssumption DEF HasText
<1>8. \A i \in Ids, v \in Versions :
        i # s.item \/ v # s.next.version => content'[i][v] = content[i][v]
  BY <1>2, <1>4, <1>5
<1>9. TypeOK'
  BY <1>3, <1>4, <1>6 DEF IInv, TypeOK, Become
<1>10. Grows
  <2>1. \A i \in Ids : Length(i)' = Length(i)
    BY <1>4 DEF Length
  <2>2. \A i \in Ids : Length(i) <= Length(i)'
    BY <2>1, LengthType DEF IInv
  <2>3. \A i \in Ids, v \in Versions : HasText(i, v) => HasText(i, v)'
    BY <1>7, <1>8 DEF HasText
  <2> QED
    BY <2>2, <2>3 DEF Grows
<1>11. ContentFollowsSidecar'
  <2>1. \A i, v : HasSidecar(i, v)' = HasSidecar(i, v)
    BY <1>4 DEF HasSidecar, Length
  <2> QED
    BY <1>2, <1>8, <2>1 DEF IInv, ContentFollowsSidecar, HasText
<1>12. Backed(r)'
  <2>1. HasSomeText(s.item)'
    BY <1>2, <1>7 DEF HasSomeText
  <2>2. s.task \in Loaded => RecordBacked(s.record)'
    BY <1>1, <1>10, RecordStaysBacked DEF Knows, Backed
  <2>3. CASE s.task \in Agreeing
    <3>1. r.at = "register" /\ r.item = s.item /\ r.record = s.record /\ r.task = s.task
      BY <1>1, <1>3, <2>3 DEF Saved, Agreeing, Thread
    <3> QED
      BY <1>2, <2>1, <2>2, <3>1 DEF Backed
  <2>4. CASE s.task \notin Agreeing
    <3>1. r = Resting \/ (r.task = "decide" /\ r.at = "settle")
      BY <1>1, <1>3, <2>4 DEF Saved, Do, Agreeing, Thread
    <3>2. r.task \notin Loaded /\ r.at \notin {"register", "text_check", "text_put"}
      BY <3>1, NoneAssumption DEF Resting, Loaded, Agreeing, Task
    <3> QED
      BY <3>2 DEF Backed
  <2> QED
    BY <2>3, <2>4
<1> QED
  BY <1>3, <1>4, <1>9, <1>10, <1>11, <1>12, WriteStep

-----------------------------------------------------------------------------
(* The steps that leave the archive and the registry alone.                 *)

\* The thread's next state, for a thread that moves to a place where it holds
\* nothing of the archive.
LEMMA Onward ==
  ASSUME NEW s, s.at \notin {"text_check", "text_put", "register"},
         s.task \notin Loaded \/ RecordBacked(s.record)
  PROVE  Backed(s)
BY DEF Backed

LEMMA RequestHolds ==
  ASSUME IInv, NEW t \in Threads, Request(t)
  PROVE  IInv'
<1> USE DEF Start
<1>1. /\ registry \in Record /\ RecordBacked(registry)
      /\ agreed \in SUBSET Pages /\ people \in [People -> Standing]
      /\ sidecar \in [Ids -> Sidecar \cup {None}]
      /\ NoLinks \in [People -> Standing]
  BY DEF IInv, TypeOK, NoLinks, Standing
<1>2. CASE \E p \in Pages : Approve(t, p)
  <2>1. PICK p \in Pages : Approve(t, p)
    BY <1>2
  <2>2. PICK s : s = [Resting EXCEPT !.task = "approve", !.at = "mark", !.page = p,
                                     !.doc = DocOf[p], !.record = registry]
    OBVIOUS
  <2>3. s \in Thread /\ Knows(s)
    BY <1>1, <2>2, DocOfAssumption
       DEF Resting, Knows, Thread, Place, Task, Agreeing, Loaded, Saving, Numbered, Deciding
  <2>4. Backed(s)
    BY <1>1, <2>2, Onward
       DEF Resting, Thread, Place, Task, Agreeing, Loaded, Saving, Numbered, Deciding
  <2> QED
    BY <1>1, <2>1, <2>2, <2>3, <2>4, QuietStep DEF Approve
<1>3. CASE \E d \in Docs : Confirm(t, d)
  <2>1. PICK d \in Docs : Confirm(t, d)
    BY <1>3
  <2>2. PICK s : s = [Resting EXCEPT !.task = "confirm", !.at = "item", !.doc = d,
                        !.record = registry, !.whole = TRUE, !.text = PagesOf(d)]
    OBVIOUS
  <2>3. s \in Thread /\ Knows(s)
    BY <1>1, <2>2
       DEF Resting, Knows, Text, PagesOf, Thread, Place, Task, Agreeing, Loaded, Saving, Numbered, Deciding
  <2>4. Backed(s)
    BY <1>1, <2>2, Onward
       DEF Resting, Thread, Place, Task, Agreeing, Loaded, Saving, Numbered, Deciding
  <2> QED
    BY <1>1, <2>1, <2>2, <2>3, <2>4, QuietStep DEF Confirm
<1>4. CASE \E d \in Docs : Reject(t, d)
  <2>1. PICK d \in Docs : Reject(t, d)
    BY <1>4
  <2>2. PICK s : s = [Resting EXCEPT !.task = "reject", !.at = "register", !.doc = d,
                                     !.record = registry]
    OBVIOUS
  <2>3. s \in Thread /\ Knows(s)
    BY <1>1, <2>2
       DEF Resting, Knows, Thread, Place, Task, Agreeing, Loaded, Saving, Numbered, Deciding
  <2>4. Backed(s)
    BY <1>1, <2>2
       DEF Resting, Backed, Thread, Place, Task, Agreeing, Loaded, Saving, Numbered, Deciding
  <2> QED
    BY <1>1, <2>1, <2>2, <2>3, <2>4, QuietStep DEF Reject
<1>5. CASE \E i \in Ids : Identify(t, i)
  <2>1. PICK i \in Ids : Identify(t, i)
    BY <1>5
  <2>2. PICK s : s = [Resting EXCEPT !.task = "identify", !.at = "model", !.item = i,
                                     !.named = people]
    OBVIOUS
  <2>3. s \in Thread /\ Knows(s)
    BY <1>1, <2>2
       DEF Resting, Knows, Thread, Place, Task, Agreeing, Loaded, Saving, Numbered, Deciding
  <2>4. Backed(s)
    BY <2>2, Onward
       DEF Resting, Thread, Place, Task, Agreeing, Loaded, Saving, Numbered, Deciding
  <2> QED
    BY <1>1, <2>1, <2>2, <2>3, <2>4, QuietStep DEF Identify
<1>6. CASE \E i \in Ids : Delete(t, i)
  <2>1. PICK i \in Ids : Delete(t, i)
    BY <1>6
  <2>2. PICK s : s = [Resting EXCEPT !.task = "delete", !.at = "number", !.item = i,
                                     !.next = Tombstone]
    OBVIOUS
  <2>3. Tombstone \in Draft
    BY <1>1 DEF Tombstone, Draft
  <2>4. s \in Thread /\ Knows(s)
    BY <1>1, <2>2, <2>3
       DEF Resting, Knows, Thread, Place, Task, Agreeing, Loaded, Saving, Numbered, Deciding
  <2>5. Backed(s)
    BY <2>2, Onward
       DEF Resting, Thread, Place, Task, Agreeing, Loaded, Saving, Numbered, Deciding
  <2> QED
    BY <1>1, <2>1, <2>2, <2>4, <2>5, QuietStep DEF Delete
<1>7. CASE \E i \in Ids, q \in People, decision \in Decision : Decide(t, i, q, decision)
  <2>1. PICK i \in Ids, q \in People, decision \in Decision : Decide(t, i, q, decision)
    BY <1>7
  <2>2. PICK s : s = [Resting EXCEPT !.task = "decide", !.at = "record", !.item = i,
                        !.next = sidecar[i], !.person = q, !.decision = decision]
    OBVIOUS
  <2>3. sidecar[i] \in Draft
    BY <1>1, <2>1 DEF Decide, Links, Live, Sidecar, Draft
  <2>4. s \in Thread /\ Knows(s)
    BY <1>1, <2>2, <2>3
       DEF Resting, Knows, Thread, Place, Task, Agreeing, Loaded, Saving, Numbered, Deciding
  <2>5. Backed(s)
    BY <2>2, Onward
       DEF Resting, Thread, Place, Task, Agreeing, Loaded, Saving, Numbered, Deciding
  <2> QED
    BY <1>1, <2>1, <2>2, <2>4, <2>5, QuietStep DEF Decide
<1>8. CASE \E q \in People, decision \in Decision : Review(t, q, decision)
  <2>1. PICK q \in People, decision \in Decision : Review(t, q, decision)
    BY <1>8
  <2>2. people' \in [People -> Standing]
    BY <1>1, <2>1 DEF Review, Resolved, Decision, Standing
  <2>3. Become(t, thread[t])
    BY <2>1 DEF Review, Become, IInv, TypeOK
  <2>4. thread[t] \in Thread /\ Knows(thread[t]) /\ Backed(thread[t])
    BY DEF IInv, TypeOK
  <2> QED
    BY <1>1, <2>1, <2>2, <2>3, <2>4, QuietStep DEF Review
<1> QED
  BY <1>2, <1>3, <1>4, <1>5, <1>6, <1>7, <1>8 DEF Request

LEMMA SaveHolds ==
  ASSUME IInv, NEW t \in Threads, Save(t)
  PROVE  IInv'
<1> USE DEF At
<1>1. /\ thread[t] \in Thread /\ Knows(thread[t]) /\ Backed(thread[t])
      /\ agreed \in SUBSET Pages /\ people \in [People -> Standing]
      /\ sidecar \in [Ids -> Sidecar \cup {None}]
  BY DEF IInv, TypeOK
<1>2. CASE Number(t)
  <2>1. PICK v \in Versions :
          /\ At(t, "number")
          /\ Become(t, [thread[t] EXCEPT !.at = "check", !.next.version = v,
                          !.next.text = IF thread[t].text = None THEN @ ELSE v])
          /\ UNCHANGED <<agreed, registry, archive, people>>
    BY <1>2 DEF Number
  <2>2. PICK s : s = [thread[t] EXCEPT !.at = "check", !.next.version = v,
                        !.next.text = IF thread[t].text = None THEN @ ELSE v]
    OBVIOUS
  <2>3. thread[t].next \in Draft
    BY <1>1, <2>1
       DEF Knows, Thread, Place, Task, Agreeing, Loaded, Saving, Numbered, Deciding
  <2>4. PICK next \in Draft : next.version = v /\ s = [thread[t] EXCEPT !.at = "check", !.next = next]
    <3> DEFINE next == [thread[t].next EXCEPT !.version = v,
                          !.text = IF thread[t].text = None THEN @ ELSE v]
    <3>1. next \in Draft /\ next.version = v
      BY <2>3 DEF Draft
    <3>2. s = [thread[t] EXCEPT !.at = "check", !.next = next]
      BY <2>2, <2>3, <1>1 DEF Draft
    <3> QED
      BY <3>1, <3>2
  <2>5. s \in Thread /\ Knows(s)
    BY <1>1, <2>1, <2>4
       DEF Knows, Thread, Place, Task, Agreeing, Loaded, Saving, Numbered, Deciding
  <2>6. Backed(s)
    BY <1>1, <2>2, Onward
       DEF Backed, Thread, Place, Task, Agreeing, Loaded, Saving, Numbered, Deciding
  <2> QED
    BY <1>1, <2>1, <2>2, <2>5, <2>6, QuietStep
<1>3. CASE Check(t)
  <2>1. PICK s : s = [thread[t] EXCEPT !.at = "put"]
    OBVIOUS
  <2>2. s \in Thread /\ Knows(s)
    BY <1>1, <1>3, <2>1
       DEF Check, Knows, Thread, Place, Task, Agreeing, Loaded, Saving, Numbered, Deciding
  <2>3. Backed(s)
    BY <1>1, <2>1, Onward
       DEF Backed, Thread, Place, Task, Agreeing, Loaded, Saving, Numbered, Deciding
  <2> QED
    BY <1>1, <1>3, <2>1, <2>2, <2>3, QuietStep DEF Check
<1>4. CASE Put(t)
  BY <1>4, PutHolds
<1>5. CASE TextCheck(t)
  <2>1. PICK s : s = [thread[t] EXCEPT !.at = "text_put"]
    OBVIOUS
  <2>2. s \in Thread /\ Knows(s)
    BY <1>1, <1>5, <2>1
       DEF TextCheck, Knows, Thread, Place, Task, Agreeing, Loaded, Saving, Numbered, Deciding
  <2>3. Backed(s)
    BY <1>1, <1>5, <2>1
       DEF TextCheck, Backed, Thread, Place, Task, Agreeing, Loaded, Saving, Numbered, Deciding
  <2> QED
    BY <1>1, <1>5, <2>1, <2>2, <2>3, QuietStep DEF TextCheck
<1>6. CASE TextPut(t)
  BY <1>6, TextPutHolds
<1>7. CASE Refused(t)
  BY <1>1, <1>7, FinishHolds DEF Refused
<1> QED
  BY <1>2, <1>3, <1>4, <1>5, <1>6, <1>7 DEF Save

LEMMA AgreeingHolds ==
  ASSUME IInv, NEW t \in Threads,
         Mark(t) \/ Look(t) \/ Gather(t) \/ Untitled(t) \/ Mint(t) \/ Reopen(t)
  PROVE  IInv'
<1> USE DEF At
<1>1. /\ thread[t] \in Thread /\ Knows(thread[t]) /\ Backed(thread[t])
      /\ agreed \in SUBSET Pages /\ people \in [People -> Standing]
      /\ sidecar \in [Ids -> Sidecar \cup {None}]
  BY DEF IInv, TypeOK
<1>2. CASE Mark(t)
  <2>1. PICK s : s = [thread[t] EXCEPT !.at = "look"]
    OBVIOUS
  <2>2. s \in Thread /\ Knows(s)
    BY <1>1, <1>2, <2>1
       DEF Mark, Knows, Thread, Place, Task, Agreeing, Loaded, Saving, Numbered, Deciding
  <2>3. Backed(s)
    BY <1>1, <2>1, Onward
       DEF Backed, Thread, Place, Task, Agreeing, Loaded, Saving, Numbered, Deciding
  <2>4. agreed' \in SUBSET Pages
    BY <1>1, <1>2
       DEF Mark, Knows, Thread, Place, Task, Agreeing, Loaded, Saving, Numbered, Deciding
  <2> QED
    BY <1>1, <1>2, <2>1, <2>2, <2>3, <2>4, QuietStep DEF Mark
<1>3. CASE Look(t)
  <2> DEFINE whole == PagesOf(thread[t].doc) \subseteq agreed
  <2>1. PICK s : s = [thread[t] EXCEPT !.at = "gather", !.whole = whole]
    OBVIOUS
  <2>2. s \in Thread /\ Knows(s)
    <3>1. whole \in BOOLEAN
      OBVIOUS
    <3> HIDE DEF whole
    <3> QED
      BY <1>1, <1>3, <2>1, <3>1
         DEF Look, Knows, Thread, Place, Task, Agreeing, Loaded, Saving, Numbered, Deciding
  <2>3. Backed(s)
    BY <1>1, <2>1, Onward
       DEF Backed, Thread, Place, Task, Agreeing, Loaded, Saving, Numbered, Deciding
  <2> QED
    BY <1>1, <1>3, <2>1, <2>2, <2>3, QuietStep DEF Look
<1>4. CASE Gather(t)
  <2>1. PICK s : s = [thread[t] EXCEPT !.at = "item",
                                       !.text = PagesOf(thread[t].doc) \cap agreed]
    OBVIOUS
  <2>2. PagesOf(thread[t].doc) \cap agreed \in Text
    BY DEF PagesOf, Text
  <2>3. s \in Thread /\ Knows(s)
    BY <1>1, <1>4, <2>1, <2>2
       DEF Gather, Knows, Thread, Place, Task, Agreeing, Loaded, Saving, Numbered, Deciding
  <2>4. Backed(s)
    BY <1>1, <2>1, Onward
       DEF Backed, Thread, Place, Task, Agreeing, Loaded, Saving, Numbered, Deciding
  <2> QED
    BY <1>1, <1>4, <2>1, <2>3, <2>4, QuietStep DEF Gather
<1>5. CASE Untitled(t)
  BY <1>1, <1>5, FinishHolds DEF Untitled
<1> DEFINE To(i, next) == [thread[t] EXCEPT !.at = "number", !.item = i, !.next = next]
<1>6. ASSUME NEW i \in Ids, NEW next \in Draft, At(t, "item"), Become(t, To(i, next)),
             UNCHANGED <<agreed, registry, archive, people>>
      PROVE  IInv'
  <2>1. PICK s : s = To(i, next)
    OBVIOUS
  <2>2. s \in Thread /\ Knows(s)
    BY <1>1, <1>6, <2>1
       DEF Knows, Thread, Place, Task, Agreeing, Loaded, Saving, Numbered, Deciding
  <2>3. Backed(s)
    BY <1>1, <2>1, Onward
       DEF Backed, Thread, Place, Task, Agreeing, Loaded, Saving, Numbered, Deciding
  <2> QED
    BY <1>1, <1>6, <2>1, <2>2, <2>3, QuietStep
<1>7. \A links \in [People -> Standing], identified \in BOOLEAN :
        Agreed(t, links, identified) \in Draft
  BY DEF Agreed, Draft
<1>8. NoLinks \in [People -> Standing]
  BY DEF NoLinks, Standing
<1>9. CASE Mint(t)
  BY <1>6, <1>7, <1>8, <1>9 DEF Mint
<1>10. CASE Reopen(t)
  <2> DEFINE i == ItemOf(t)
             next == IF Live(i) THEN Agreed(t, sidecar[i].links, sidecar[i].identified)
                     ELSE Agreed(t, NoLinks, FALSE)
  <2>1. thread[t].record \in Record /\ thread[t].doc \in Docs
    BY <1>1, <1>10
       DEF Reopen, Knows, Thread, Place, Task, Agreeing, Loaded, Saving, Numbered, Deciding
  <2>2. i \in Ids
    BY <1>10, <2>1 DEF Reopen, ItemOf, Record, Boundary
  <2>3. next \in Draft
    <3>1. CASE Live(i)
      <4>1. sidecar[i] \in Sidecar
        BY <1>1, <2>2, <3>1 DEF Live
      <4>2. sidecar[i].links \in [People -> Standing] /\ sidecar[i].identified \in BOOLEAN
        BY <4>1 DEF Sidecar
      <4> QED
        BY <1>7, <3>1, <4>2
    <3>2. CASE ~Live(i)
      BY <1>7, <1>8, <3>2
    <3> QED
      BY <3>1, <3>2
  <2>4. At(t, "item") /\ Become(t, To(i, next)) /\ UNCHANGED <<agreed, registry, archive, people>>
    BY <1>10 DEF Reopen
  <2> QED
    BY <1>6, <2>2, <2>3, <2>4
<1> QED
  BY <1>2, <1>3, <1>4, <1>5, <1>9, <1>10

LEMMA IdentifyingHolds ==
  ASSUME IInv, NEW t \in Threads, Answer(t) \/ NoAnswer(t) \/ AddPeople(t)
  PROVE  IInv'
<1> USE DEF At
<1>1. /\ thread[t] \in Thread /\ Knows(thread[t]) /\ Backed(thread[t])
      /\ agreed \in SUBSET Pages /\ people \in [People -> Standing]
      /\ sidecar \in [Ids -> Sidecar \cup {None}]
  BY DEF IInv, TypeOK
<1>2. CASE Answer(t)
  <2> DEFINE i == thread[t].item
             Named(mentioned) == [q \in People |->
               IF q \notin mentioned THEN "absent"
               ELSE IF thread[t].named[q] = "absent" THEN "proposed" ELSE thread[t].named[q]]
             Linked(mentioned) == [q \in People |->
               IF sidecar[i].links[q] = "absent" /\ q \in mentioned THEN "proposed"
               ELSE sidecar[i].links[q]]
  <2>1. sidecar[i] \in Sidecar
    BY <1>1, <1>2
       DEF Answer, Live, Knows, Thread, Place, Task, Agreeing, Loaded, Saving, Numbered, Deciding
  <2>2. PICK mentioned \in SUBSET People :
          Become(t, [thread[t] EXCEPT !.at = "people", !.named = Named(mentioned),
            !.next = [sidecar[i] EXCEPT !.identified = TRUE, !.links = Linked(mentioned)]])
    BY <1>2, <2>1 DEF Answer, Sidecar
  <2>3. Named(mentioned) \in [People -> Standing]
    BY <1>1 DEF Standing, Thread
  <2>4. Linked(mentioned) \in [People -> Standing]
    BY <2>1 DEF Sidecar, Standing
  <2>5. [sidecar[i] EXCEPT !.identified = TRUE, !.links = Linked(mentioned)] \in Draft
    BY <2>1, <2>4 DEF Sidecar, Draft
  <2>6. PICK s : s = [thread[t] EXCEPT !.at = "people", !.named = Named(mentioned),
            !.next = [sidecar[i] EXCEPT !.identified = TRUE, !.links = Linked(mentioned)]]
    OBVIOUS
  <2> HIDE DEF Named, Linked
  <2>7. s \in Thread /\ Knows(s)
    BY <1>1, <1>2, <2>3, <2>5, <2>6
       DEF Answer, Knows, Thread, Place, Task, Agreeing, Loaded, Saving, Numbered, Deciding
  <2>8. Backed(s)
    BY <1>1, <2>6, Onward
       DEF Backed, Thread, Place, Task, Agreeing, Loaded, Saving, Numbered, Deciding
  <2> QED
    BY <1>1, <1>2, <2>2, <2>6, <2>7, <2>8, QuietStep DEF Answer
<1>3. CASE NoAnswer(t)
  BY <1>1, <1>3, FinishHolds DEF NoAnswer
<1>4. CASE AddPeople(t)
  <2>1. PICK s : s = [thread[t] EXCEPT !.at = "number"]
    OBVIOUS
  <2>2. s \in Thread /\ Knows(s)
    BY <1>1, <1>4, <2>1
       DEF AddPeople, Knows, Thread, Place, Task, Agreeing, Loaded, Saving, Numbered, Deciding
  <2>3. Backed(s)
    BY <1>1, <2>1, Onward
       DEF Backed, Thread, Place, Task, Agreeing, Loaded, Saving, Numbered, Deciding
  <2>4. people' \in [People -> Standing]
    BY <1>1, <1>4 DEF AddPeople, Standing
  <2> QED
    BY <1>1, <1>4, <2>1, <2>2, <2>3, <2>4, QuietStep DEF AddPeople
<1> QED
  BY <1>2, <1>3, <1>4

LEMMA DecidingHolds ==
  ASSUME IInv, NEW t \in Threads, ReadRecord(t) \/ Settle(t) \/ NoBasis(t) \/ Dismiss(t)
  PROVE  IInv'
<1> USE DEF At
<1>1. /\ thread[t] \in Thread /\ Knows(thread[t]) /\ Backed(thread[t])
      /\ agreed \in SUBSET Pages /\ people \in [People -> Standing]
      /\ sidecar \in [Ids -> Sidecar \cup {None}]
  BY DEF IInv, TypeOK
<1>2. CASE ReadRecord(t)
  <2> DEFINE q == thread[t].person
             link == Decided(thread[t].decision, people[q])
  <2>1. q \in People /\ thread[t].next \in Draft
    BY <1>1, <1>2
       DEF ReadRecord, Knows, Thread, Place, Task, Agreeing, Loaded, Saving, Numbered, Deciding
  <2>2. CASE people[q] = "absent"
    BY <1>1, <1>2, <2>2, FinishHolds DEF ReadRecord
  <2>3. CASE people[q] # "absent"
    <3>1. link \in Standing
      BY DEF Decided, Standing
    <3>2. Become(t, [thread[t] EXCEPT !.at = "number", !.named[q] = people[q],
                                      !.next.links[q] = link])
      BY <1>2, <2>3 DEF ReadRecord
    <3>3. PICK s : s = [thread[t] EXCEPT !.at = "number", !.named[q] = people[q],
                                         !.next.links[q] = link]
      OBVIOUS
    <3> HIDE DEF link
    <3>4. PICK named \in [People -> Standing], next \in Draft :
            s = [thread[t] EXCEPT !.at = "number", !.named = named, !.next = next]
      <4>1. [thread[t].named EXCEPT ![q] = people[q]] \in [People -> Standing]
        BY <1>1 DEF Thread
      <4>2. [thread[t].next EXCEPT !.links[q] = link] \in Draft
        BY <2>1, <3>1 DEF Draft
      <4>3. s = [thread[t] EXCEPT !.at = "number",
                   !.named = [thread[t].named EXCEPT ![q] = people[q]],
                   !.next = [thread[t].next EXCEPT !.links[q] = link]]
        BY <1>1, <3>3
      <4> HIDE DEF q
      <4> QED
        BY <4>1, <4>2, <4>3, Zenon
    <3>5. s \in Thread /\ Knows(s)
      BY <1>1, <1>2, <3>4
         DEF ReadRecord, Knows, Thread, Place, Task, Agreeing, Loaded, Saving, Numbered, Deciding
    <3>6. Backed(s)
      BY <1>1, <3>3, Onward
         DEF Backed, Thread, Place, Task, Agreeing, Loaded, Saving, Numbered, Deciding
    <3> QED
      BY <1>1, <1>2, <3>2, <3>3, <3>5, <3>6, QuietStep DEF ReadRecord
  <2> QED
    BY <2>2, <2>3
<1>3. CASE Settle(t)
  <2>1. thread[t].person \in People /\ thread[t].decision \in Decision
    BY <1>1, <1>3
       DEF Settle, Knows, Thread, Place, Task, Agreeing, Loaded, Saving, Numbered, Deciding
  <2>2. Resolved(thread[t].person, thread[t].decision) \in [People -> Standing]
    BY <1>1, <2>1 DEF Resolved, Decision, Standing
  <2>3. people' \in [People -> Standing]
    BY <1>1, <1>3, <2>2 DEF Settle
  <2>4. CASE Finish(t)
    BY <1>1, <1>3, <2>3, <2>4, FinishHolds DEF Settle
  <2>5. CASE Become(t, [thread[t] EXCEPT !.at = "dismiss"])
    <3>1. PICK s : s = [thread[t] EXCEPT !.at = "dismiss"]
      OBVIOUS
    <3>2. s \in Thread /\ Knows(s)
      BY <1>1, <1>3, <3>1
         DEF Settle, Knows, Thread, Place, Task, Agreeing, Loaded, Saving, Numbered, Deciding
    <3>3. Backed(s)
      BY <1>1, <3>1, Onward
         DEF Backed, Thread, Place, Task, Agreeing, Loaded, Saving, Numbered, Deciding
    <3> QED
      BY <1>1, <1>3, <2>3, <2>5, <3>1, <3>2, <3>3, QuietStep DEF Settle
  <2> QED
    BY <1>3, <2>4, <2>5 DEF Settle
<1>4. CASE NoBasis(t)
  BY <1>1, <1>4, FinishHolds DEF NoBasis
<1>5. CASE Dismiss(t)
  <2>1. people' \in [People -> Standing]
    BY <1>1, <1>5 DEF Dismiss, Standing
  <2> QED
    BY <1>1, <1>5, <2>1, FinishHolds DEF Dismiss
<1> QED
  BY <1>2, <1>3, <1>4, <1>5

LEMMA CrashHolds ==
  ASSUME IInv, Crash
  PROVE  IInv'
<1>1. UNCHANGED <<agreed, registry, sidecar, content, people>>
      /\ thread' = [t \in Threads |-> Resting]
  BY DEF Crash, archive
<1>2. TypeOK'
  BY <1>1, RestingIsFine DEF IInv, TypeOK
<1>3. ContentFollowsSidecar' /\ RecordBacked(registry)'
  BY <1>1 DEF IInv, ContentFollowsSidecar, RecordBacked, HasSomeText, HasText, HasSidecar, Length
<1>4. ASSUME NEW u \in Threads
      PROVE  (Knows(thread[u]) /\ Backed(thread[u]))'
  <2>1. thread'[u] = Resting /\ Resting.at = "idle" /\ Resting.task \notin Loaded
    BY <1>1, NoneAssumption DEF Resting, Loaded, Agreeing, Task
  <2>2. Knows(thread'[u])
    BY <2>1, RestingIsFine
  <2>3. Knows(thread[u])'
    BY <2>2 DEF Knows
  <2>4. Backed(thread[u])'
    BY <2>1 DEF Backed
  <2> QED
    BY <2>3, <2>4
<1> QED
  BY <1>2, <1>3, <1>4 DEF IInv

LEMMA StutterHolds ==
  ASSUME IInv, UNCHANGED vars
  PROVE  IInv'
<1> USE DEF vars
<1>1. TypeOK'
  BY DEF IInv, TypeOK
<1>2. ContentFollowsSidecar' /\ RecordBacked(registry)'
  BY DEF IInv, ContentFollowsSidecar, RecordBacked, HasSomeText, HasText, HasSidecar, Length
<1>3. \A u \in Threads : Knows(thread[u])'
  BY DEF IInv, Knows
<1>4. \A u \in Threads : Backed(thread[u])'
  BY DEF IInv, Backed, RecordBacked, HasSomeText, HasText, HasSidecar, Length
<1> QED
  BY <1>1, <1>2, <1>3, <1>4 DEF IInv

-----------------------------------------------------------------------------

LEMMA NextHolds ==
  ASSUME IInv, [Next]_vars
  PROVE  IInv'
<1>1. CASE Crash
  BY <1>1, CrashHolds
<1>2. ASSUME NEW t \in Threads, Request(t) \/ Save(t)
      PROVE  IInv'
  BY <1>2, RequestHolds, SaveHolds
<1>3. ASSUME NEW t \in Threads, Step(t)
      PROVE  IInv'
  BY <1>3, AgreeingHolds, RegisterHolds, IdentifyingHolds, DecidingHolds DEF Step
<1>4. CASE UNCHANGED vars
  BY <1>4, StutterHolds
<1> QED
  BY <1>1, <1>2, <1>3, <1>4 DEF Next

\* What every thread knows of its own request, and the archive of it, holds
\* in every reachable state.
THEOREM Inductive == Spec => []IInv
<1>1. Init => IInv
  BY InitHolds
<1>2. IInv /\ [Next]_vars => IInv'
  BY NextHolds
<1> QED
  BY <1>1, <1>2, PTL DEF Spec

\* Every variable has its type: in particular, no sidecar stands that save_item
\* has not numbered, whatever requests race.
THEOREM TypeCorrect == Spec => []TypeOK
<1>1. IInv => TypeOK
  BY DEF IInv
<1> QED
  BY <1>1, Inductive, PTL

\* No transcription stands at a version without a sidecar, whatever number of
\* requests race in save_item and wherever the server dies.
THEOREM SidecarFirst == Spec => []ContentFollowsSidecar
<1>1. IInv => ContentFollowsSidecar
  BY DEF IInv
<1> QED
  BY <1>1, Inductive, PTL

\* An item that the registry names has a transcription: record_confirmation
\* comes after save_item, and its whole-record write brings back only records
\* that were true.
THEOREM RegisteredLast == Spec => []RegisteredItemsHaveText
<1>1. IInv => RegisteredItemsHaveText
  BY DEF IInv, RecordBacked, HasSomeText, RegisteredItemsHaveText
<1> QED
  BY <1>1, Inductive, PTL

-----------------------------------------------------------------------------
(* One request at a time.  Requests that overlap write each other's older  *)
(* copies back; what follows holds of requests that do not, over deaths    *)
(* anywhere in them.  Then what a request has read is still so when it     *)
(* saves, which is what the places of a request know:                      *)

OneRequest == \A t, u \in Threads : t = u

Unsaved == {"number", "check", "put"}
Texting == {"text_check", "text_put"}
Reading == {"model", "people", "record"}

\* the item, if it is catalogued and its text is there, has all of d's pages
WholeFor(d, i) ==
  i # None /\ Catalogued(i) /\ Transcription(i) # None => PagesOf(d) \subseteq Transcription(i)

StillTrue(s) ==
  /\ s.task \in Loaded => s.record = registry
  /\ s.at = "gather" /\ s.whole => PagesOf(s.doc) \subseteq agreed
  /\ s.at = "model" => s.named = people
  /\ s.at = "record" => /\ s.next = sidecar[s.item] /\ Live(s.item)
                        /\ s.person \in Links(s.item)

\* a document's text: what is to be saved as catalogued is whole, and it goes
\* to an item that no other document has become
AgreesWell(s) ==
  s.task \in Agreeing =>
    /\ s.at \in {"item"} \cup Unsaved \cup Texting =>
         s.text \in Text /\ (s.whole => PagesOf(s.doc) \subseteq s.text)
    /\ s.at \in Unsaved \cup Texting /\ s.next.status = "catalogued" => s.whole
    /\ s.at \in {"check", "put"} \cup Texting => s.next.text = s.next.version
    /\ s.at \in Texting => sidecar[s.item] = s.next
    /\ s.at \in Unsaved \cup Texting \cup {"register"} =>
         \A d \in Docs : d # s.doc => registry[d].item # s.item
    /\ s.at = "register" => WholeFor(s.doc, s.item)

\* any other save keeps what the item publishes, or buries it
KeepsText(s) ==
  s.task \notin Agreeing =>
    /\ s.at \in Unsaved \cup Texting \cup Reading => s.text = None /\ s.at \notin Texting
    /\ s.at \in Unsaved \cup {"people"} =>
         \/ s.next.status = "deleted"
         \/ /\ sidecar[s.item] # None
            /\ s.next.status = sidecar[s.item].status /\ s.next.text = sidecar[s.item].text

NumberedLast(s) == s.at \in {"check", "put"} => s.next.version = Length(s.item) + 1

\* each link to be saved is there already or leads to a person, and each that
\* is there is kept, settled, or deleted by a decision on it
LinksWell(s) ==
  s.at \in Unsaved \cup {"people"} => \A q \in People :
    /\ s.next.links[q] # "absent" =>
         \/ q \in Links(s.item) \/ people[q] # "absent"
         \/ s.at = "people" /\ s.named[q] = "proposed"
    /\ q \in Links(s.item) =>
         \/ s.next.status = "deleted"
         \/ s.next.links[q] \notin {"absent", "proposed"}
         \/ s.next.links[q] = sidecar[s.item].links[q]
         \/ s.task = "decide" /\ s.decision = "delete" /\ s.person = q

Fits(s) ==
  StillTrue(s) /\ AgreesWell(s) /\ KeepsText(s) /\ NumberedLast(s) /\ LinksWell(s)

\* no two documents have become one item
Distinct ==
  \A d, e \in Docs : d # e /\ registry[d].item = registry[e].item => registry[d].item = None

AloneInv == CataloguedOnlyWhole /\ Distinct /\ \A t \in Threads : Fits(thread[t])

-----------------------------------------------------------------------------
(* Shapes of a step of the one request.                                    *)

LEMMA AloneStep ==
  ASSUME OneRequest, IInv, NEW t \in Threads, NEW s \in Thread, Become(t, s),
         CataloguedOnlyWhole', Distinct', Fits(s)'
  PROVE  AloneInv'
<1>1. ASSUME NEW u \in Threads PROVE Fits(thread[u])'
  <2>1. u = t
    BY DEF OneRequest
  <2>2. thread'[u] = s
    BY <2>1 DEF Become, IInv, TypeOK
  <2> QED
    BY <2>2 DEF Fits, StillTrue, AgreesWell, KeepsText, NumberedLast, LinksWell, WholeFor
<1> QED
  BY <1>1 DEF AloneInv

\* the archive and the registry as they were
LEMMA QuietAlone ==
  ASSUME OneRequest, IInv, AloneInv, NEW t \in Threads, NEW s \in Thread, Become(t, s),
         UNCHANGED <<registry, archive>>, Fits(s)'
  PROVE  AloneInv'
<1>1. CataloguedOnlyWhole'
  BY DEF AloneInv, CataloguedOnlyWhole, Catalogued, Live, Transcription, archive
<1>2. Distinct'
  BY DEF AloneInv, Distinct
<1> QED
  BY <1>1, <1>2, AloneStep

LEMMA SameFits ==
  ASSUME NEW s \in Thread, Fits(s), UNCHANGED <<agreed, registry, archive, people>>
  PROVE  Fits(s)'
<1> USE DEF archive
<1>1. StillTrue(s)'
  BY DEF Fits, StillTrue, Live, Links
<1>2. AgreesWell(s)'
  BY DEF Fits, AgreesWell, WholeFor, Catalogued, Live, Transcription
<1>3. KeepsText(s)'
  BY DEF Fits, KeepsText
<1>4. NumberedLast(s)'
  BY DEF Fits, NumberedLast, Length
<1>5. LinksWell(s)'
  BY DEF Fits, LinksWell, Links, Live
<1> QED
  BY <1>1, <1>2, <1>3, <1>4, <1>5 DEF Fits

LEMMA StillAlone ==
  ASSUME OneRequest, IInv, AloneInv, NEW t \in Threads, NEW s \in Thread, Become(t, s),
         UNCHANGED <<agreed, registry, archive, people>>, Fits(s)
  PROVE  AloneInv'
<1>1. UNCHANGED <<registry, archive>>
  OBVIOUS
<1> QED
  BY <1>1, SameFits, QuietAlone

LEMMA RestingFits ==
  /\ Resting \in Thread /\ Resting.at = "idle"
  /\ Resting.task \notin Loaded /\ Resting.task \notin Agreeing
  /\ Fits(Resting)
<1>1. /\ Resting \in Thread /\ Resting.at = "idle"
      /\ Resting.task \notin Loaded /\ Resting.task \notin Agreeing
  BY RestingIsFine, NoneAssumption DEF Resting, Loaded, Agreeing, Task
<1> QED
  BY <1>1 DEF Fits, StillTrue, AgreesWell, KeepsText, NumberedLast, LinksWell,
              Unsaved, Texting, Reading

\* a request that is over asks nothing of the archive
LEMMA FinishAlone ==
  ASSUME OneRequest, IInv, AloneInv, NEW t \in Threads, Finish(t),
         UNCHANGED <<registry, archive>>
  PROVE  AloneInv'
<1>1. PICK s \in Thread : /\ s = Resting /\ s.at = "idle"
                          /\ s.task \notin Loaded /\ s.task \notin Agreeing
  BY RestingFits
<1>2. Fits(s)'
  BY <1>1 DEF Fits, StillTrue, AgreesWell, KeepsText, NumberedLast, LinksWell,
              Unsaved, Texting, Reading
<1> QED
  BY <1>1, <1>2, QuietAlone DEF Finish

-----------------------------------------------------------------------------
(* Requests begin.                                                         *)

LEMMA RequestAlone ==
  ASSUME OneRequest, IInv, AloneInv, NEW t \in Threads, Request(t)
  PROVE  AloneInv'
<1> USE DEF Start
<1>0. agreed \in SUBSET Pages /\ registry \in Record /\ people \in [People -> Standing]
      /\ sidecar \in [Ids -> Sidecar \cup {None}]
  BY DEF IInv, TypeOK
<1>1. NoLinks \in [People -> Standing] /\ NoLinks \in [People -> {"absent"}]
  BY DEF NoLinks, Standing
<1>2. ASSUME NEW p \in Pages, Approve(t, p) PROVE AloneInv'
  <2>1. PICK s : s = [Resting EXCEPT !.task = "approve", !.at = "mark", !.page = p,
                                     !.doc = DocOf[p], !.record = registry]
    OBVIOUS
  <2>2. /\ s \in Thread /\ s.at = "mark" /\ s.task = "approve" /\ s.record = registry
    BY <1>0, <1>1, <2>1, DocOfAssumption DEF Resting, Thread, Place, Task
  <2>3. Fits(s)
    BY <2>2 DEF Fits, StillTrue, AgreesWell, KeepsText, NumberedLast, LinksWell,
                Unsaved, Texting, Reading, Agreeing
  <2> QED
    BY <1>2, <2>1, <2>2, <2>3, StillAlone DEF Approve
<1>3. ASSUME NEW d \in Docs, Confirm(t, d) PROVE AloneInv'
  <2>1. PICK s : s = [Resting EXCEPT !.task = "confirm", !.at = "item", !.doc = d,
                                 !.record = registry, !.whole = TRUE, !.text = PagesOf(d)]
    OBVIOUS
  <2>2. PagesOf(d) \in Text
    BY DEF PagesOf, Text
  <2>3. /\ s \in Thread /\ s.at = "item" /\ s.task = "confirm" /\ s.record = registry
        /\ s.text = PagesOf(d) /\ s.doc = d
    BY <1>0, <1>1, <2>1, <2>2 DEF Resting, Thread, Place, Task
  <2>4. Fits(s)
    BY <2>2, <2>3 DEF Fits, StillTrue, AgreesWell, KeepsText, NumberedLast, LinksWell,
                Unsaved, Texting, Reading, Agreeing
  <2> QED
    BY <1>3, <2>1, <2>3, <2>4, StillAlone DEF Confirm
<1>4. ASSUME NEW d \in Docs, Reject(t, d) PROVE AloneInv'
  <2>1. PICK s : s = [Resting EXCEPT !.task = "reject", !.at = "register", !.doc = d,
                                 !.record = registry]
    OBVIOUS
  <2>2. s \in Thread /\ s.at = "register" /\ s.task = "reject" /\ s.record = registry
    BY <1>0, <1>1, <2>1 DEF Resting, Thread, Place, Task
  <2>3. Fits(s)
    BY <2>2 DEF Fits, StillTrue, AgreesWell, KeepsText, NumberedLast, LinksWell,
                Unsaved, Texting, Reading, Agreeing
  <2> QED
    BY <1>4, <2>1, <2>2, <2>3, StillAlone DEF Reject
<1>5. ASSUME NEW i \in Ids, Identify(t, i) PROVE AloneInv'
  <2>1. PICK s : s = [Resting EXCEPT !.task = "identify", !.at = "model", !.item = i,
                                 !.named = people]
    OBVIOUS
  <2>2. /\ s \in Thread /\ s.at = "model" /\ s.task = "identify" /\ s.named = people
        /\ s.text = None
    BY <1>0, <1>1, <2>1 DEF Resting, Thread, Place, Task
  <2>3. Fits(s)
    BY <2>2 DEF Fits, StillTrue, AgreesWell, KeepsText, NumberedLast, LinksWell,
                Unsaved, Texting, Reading, Agreeing, Loaded
  <2> QED
    BY <1>5, <2>1, <2>2, <2>3, StillAlone DEF Identify
<1>6. ASSUME NEW i \in Ids, Delete(t, i) PROVE AloneInv'
  <2>1. PICK s : s = [Resting EXCEPT !.task = "delete", !.at = "number", !.item = i,
                                 !.next = Tombstone]
    OBVIOUS
  <2>2. /\ Tombstone \in Draft /\ Tombstone.status = "deleted"
        /\ \A q \in People : Tombstone.links[q] = "absent"
    BY <1>1 DEF Tombstone, Draft
  <2>3. /\ s \in Thread /\ s.at = "number" /\ s.task = "delete" /\ s.next = Tombstone
        /\ s.text = None
    BY <1>0, <1>1, <2>1, <2>2 DEF Resting, Thread, Place, Task
  <2>4. Fits(s)
    BY <2>2, <2>3 DEF Fits, StillTrue, AgreesWell, KeepsText, NumberedLast, LinksWell,
                Unsaved, Texting, Reading, Agreeing, Loaded
  <2> QED
    BY <1>6, <2>1, <2>3, <2>4, StillAlone DEF Delete
<1>7. ASSUME NEW i \in Ids, NEW q \in People, NEW decision \in Decision,
             Decide(t, i, q, decision)
      PROVE  AloneInv'
  <2>1. PICK s : s = [Resting EXCEPT !.task = "decide", !.at = "record", !.item = i,
            !.next = sidecar[i], !.person = q, !.decision = decision]
    OBVIOUS
  <2>2. Live(i) /\ q \in Links(i)
    BY <1>7 DEF Decide, Links
  <2>3. sidecar[i] \in Draft
    BY <1>0, <2>2 DEF Live, Sidecar, Draft
  <2>4. /\ s \in Thread /\ s.at = "record" /\ s.task = "decide" /\ s.next = sidecar[i]
        /\ s.text = None /\ s.item = i /\ s.person = q
    BY <1>0, <1>1, <2>1, <2>3 DEF Resting, Thread, Place, Task
  <2>5. Fits(s)
    BY <2>2, <2>4 DEF Fits, StillTrue, AgreesWell, KeepsText, NumberedLast, LinksWell,
                Unsaved, Texting, Reading, Agreeing, Loaded
  <2> QED
    BY <1>7, <2>1, <2>4, <2>5, StillAlone DEF Decide
<1>8. ASSUME NEW q \in People, NEW decision \in Decision, Review(t, q, decision)
      PROVE  AloneInv'
  <2>1. PICK s \in Thread : s = thread[t]
    BY DEF IInv, TypeOK
  <2>2. Become(t, s) /\ s.at = "idle" /\ UNCHANGED <<agreed, registry, archive>>
    BY <1>8, <2>1 DEF Review, At, Become, IInv, TypeOK
  <2>3. StillTrue(s)
    BY <2>1 DEF AloneInv, Fits
  <2>4. Fits(s)'
    BY <2>2, <2>3 DEF Fits, StillTrue, AgreesWell, KeepsText, NumberedLast, LinksWell,
                Unsaved, Texting, Reading
  <2> QED
    BY <2>2, <2>4, QuietAlone
<1> QED
  BY <1>2, <1>3, <1>4, <1>5, <1>6, <1>7, <1>8 DEF Request

-----------------------------------------------------------------------------
(* The steps of a request, up to its save.                                 *)

LEMMA AgreeingAlone ==
  ASSUME OneRequest, IInv, AloneInv, NEW t \in Threads,
         Mark(t) \/ Look(t) \/ Gather(t) \/ Untitled(t) \/ Mint(t) \/ Reopen(t)
  PROVE  AloneInv'
<1> USE DEF At
<1>1. /\ thread[t] \in Thread /\ Knows(thread[t]) /\ Fits(thread[t])
      /\ agreed \in SUBSET Pages /\ registry \in Record
      /\ sidecar \in [Ids -> Sidecar \cup {None}]
  BY DEF IInv, TypeOK, AloneInv
<1>2. ASSUME thread[t].at \in {"mark", "look", "gather", "item"}
      PROVE  /\ thread[t].task \in Agreeing /\ thread[t].doc \in Docs
             /\ thread[t].record = registry
  BY <1>1, <1>2 DEF Knows, Fits, StillTrue, Loaded
<1>3. CASE Mark(t)
  <2>1. PICK s : s = [thread[t] EXCEPT !.at = "look"]
    OBVIOUS
  <2>2. /\ s \in Thread /\ s.at = "look" /\ s.task \in Agreeing
        /\ s.record = registry
    BY <1>1, <1>2, <1>3, <2>1 DEF Mark, Thread, Place
  <2>3. UNCHANGED <<registry, archive>> /\ Become(t, s)
    BY <1>3, <2>1 DEF Mark
  <2>4. Fits(s)'
    BY <2>2, <2>3 DEF Fits, StillTrue, AgreesWell, KeepsText, NumberedLast, LinksWell,
                Unsaved, Texting, Reading
  <2> QED
    BY <2>2, <2>3, <2>4, QuietAlone
<1>4. CASE Look(t)
  <2> DEFINE whole == PagesOf(thread[t].doc) \subseteq agreed
  <2>1. PICK s : s = [thread[t] EXCEPT !.at = "gather", !.whole = whole]
    OBVIOUS
  <2>2. /\ s \in Thread /\ s.at = "gather" /\ s.task \in Agreeing
        /\ s.record = registry /\ (s.whole => PagesOf(s.doc) \subseteq agreed)
    <3>1. whole \in BOOLEAN /\ (whole => PagesOf(thread[t].doc) \subseteq agreed)
      OBVIOUS
    <3> HIDE DEF whole
    <3> QED
      BY <1>1, <1>2, <1>4, <2>1, <3>1 DEF Look, Thread, Place
  <2>3. Fits(s)
    BY <2>2 DEF Fits, StillTrue, AgreesWell, KeepsText, NumberedLast, LinksWell,
                Unsaved, Texting, Reading
  <2> QED
    BY <1>4, <2>1, <2>2, <2>3, StillAlone DEF Look
<1>5. CASE Gather(t)
  <2> DEFINE text == PagesOf(thread[t].doc) \cap agreed
  <2>1. PICK s : s = [thread[t] EXCEPT !.at = "item", !.text = text]
    OBVIOUS
  <2>2. text \in Text /\ (thread[t].whole => PagesOf(thread[t].doc) \subseteq text)
    BY <1>1, <1>5 DEF PagesOf, Text, Gather, Fits, StillTrue
  <2>3. /\ s \in Thread /\ s.at = "item" /\ s.task \in Agreeing /\ s.text = text
        /\ s.record = registry /\ s.doc = thread[t].doc /\ s.whole = thread[t].whole
    <3> HIDE DEF text
    <3> QED
      BY <1>1, <1>2, <1>5, <2>1, <2>2 DEF Gather, Thread, Place
  <2> HIDE DEF text
  <2>4. Fits(s)
    BY <2>2, <2>3 DEF Fits, StillTrue, AgreesWell, KeepsText, NumberedLast, LinksWell,
                Unsaved, Texting, Reading
  <2>5. Become(t, s) /\ UNCHANGED <<agreed, registry, archive, people>>
    BY <1>5, <2>1 DEF Gather, text
  <2> QED
    BY <2>3, <2>4, <2>5, StillAlone
<1>6. CASE Untitled(t)
  BY <1>6, FinishAlone DEF Untitled
\* the item is agreed, with links that it has
<1>7. ASSUME NEW i \in Ids, NEW links \in [People -> Standing], NEW identified \in BOOLEAN,
             At(t, "item"), UNCHANGED <<agreed, registry, archive, people>>,
             Become(t, [thread[t] EXCEPT !.at = "number", !.item = i,
                                         !.next = Agreed(t, links, identified)]),
             \A d \in Docs : d # thread[t].doc => registry[d].item # i,
             \A q \in People : links[q] # "absent" => q \in Links(i),
             \A q \in Links(i) : links[q] = sidecar[i].links[q]
      PROVE  AloneInv'
  <2> DEFINE next == Agreed(t, links, identified)
  <2>1. /\ next \in Draft /\ next.links = links
        /\ next.status = "catalogued" => thread[t].whole
    BY DEF Agreed, Draft
  <2>2. PICK s : s = [thread[t] EXCEPT !.at = "number", !.item = i, !.next = next]
    OBVIOUS
  <2> HIDE DEF next
  <2>3. /\ s \in Thread /\ s.at = "number" /\ s.item = i /\ s.next = next
        /\ s.task \in Agreeing /\ s.doc = thread[t].doc /\ s.text = thread[t].text
        /\ s.whole = thread[t].whole /\ s.record = registry
    BY <1>1, <1>2, <1>7, <2>1, <2>2 DEF Thread, Place
  <2>4. s.text \in Text /\ (s.whole => PagesOf(s.doc) \subseteq s.text)
    BY <1>1, <1>2, <1>7, <2>3 DEF Fits, AgreesWell
  <2>5. StillTrue(s) /\ KeepsText(s) /\ NumberedLast(s)
    BY <2>3 DEF StillTrue, KeepsText, NumberedLast, Unsaved, Texting, Reading
  <2>6. AgreesWell(s)
    BY <1>7, <2>1, <2>3, <2>4 DEF AgreesWell, Unsaved, Texting
  <2>7. LinksWell(s)
    BY <1>7, <2>1, <2>3 DEF LinksWell, Unsaved
  <2>8. Become(t, s)
    BY <1>7, <2>2 DEF next
  <2> QED
    BY <1>7, <2>3, <2>5, <2>6, <2>7, <2>8, StillAlone DEF Fits
<1>8. NoLinks \in [People -> Standing] /\ \A q \in People : NoLinks[q] = "absent"
  BY DEF NoLinks, Standing
<1>9. CASE Mint(t)
  <2>1. PICK i \in Ids :
          /\ ~Held(i)
          /\ Become(t, [thread[t] EXCEPT !.at = "number", !.item = i,
                                         !.next = Agreed(t, NoLinks, FALSE)])
    BY <1>9 DEF Mint
  <2>2. \A d \in Docs : registry[d].item # i
    <3>1. ~HasSomeText(i)
      BY <2>1 DEF Held, HasSomeText
    <3> QED
      BY <2>1, <3>1, NoneAssumption DEF IInv, RecordBacked
  <2>3. Links(i) = {}
    <3>1. sidecar[i] = None
      <4> SUFFICES ASSUME sidecar[i] # None PROVE FALSE
        OBVIOUS
      <4>1. Length(i) = sidecar[i].version /\ sidecar[i].version \in Versions
        BY <1>1 DEF Length, Sidecar
      <4> QED
        BY <2>1, <4>1, BoundAssumption DEF Held, Versions
    <3> QED
      BY <3>1 DEF Links, Live
  <2>4. At(t, "item") /\ UNCHANGED <<agreed, registry, archive, people>>
    BY <1>9 DEF Mint
  <2> QED
    BY <1>7, <1>8, <2>1, <2>2, <2>3, <2>4
<1>10. CASE Reopen(t)
  <2>1. PICK i : i = ItemOf(t) /\ i # None
    BY <1>10 DEF Reopen
  <2>2. /\ At(t, "item") /\ thread[t].doc \in Docs
        /\ i = registry[thread[t].doc].item /\ i \in Ids
    BY <1>1, <1>2, <1>10, <2>1 DEF Reopen, ItemOf, Record, Boundary
  <2>3. \A d \in Docs : d # thread[t].doc => registry[d].item # i
    BY <2>1, <2>2 DEF AloneInv, Distinct
  <2>4. UNCHANGED <<agreed, registry, archive, people>>
    BY <1>10 DEF Reopen
  <2>5. CASE Live(i)
    <3>1. sidecar[i] \in Sidecar
      BY <1>1, <2>2, <2>5 DEF Live
    <3>2. sidecar[i].links \in [People -> Standing] /\ sidecar[i].identified \in BOOLEAN
      BY <3>1 DEF Sidecar
    <3>3. Become(t, [thread[t] EXCEPT !.at = "number", !.item = i,
                      !.next = Agreed(t, sidecar[i].links, sidecar[i].identified)])
      BY <1>10, <2>1, <2>5 DEF Reopen
    <3>4. \A q \in People : sidecar[i].links[q] # "absent" => q \in Links(i)
      BY <2>5 DEF Links
    <3> QED
      BY <1>7, <2>2, <2>3, <2>4, <3>2, <3>3, <3>4
  <2>6. CASE ~Live(i)
    <3>1. Become(t, [thread[t] EXCEPT !.at = "number", !.item = i,
                      !.next = Agreed(t, NoLinks, FALSE)])
      BY <1>10, <2>1, <2>6 DEF Reopen
    <3>2. Links(i) = {}
      BY <2>6 DEF Links
    <3> QED
      BY <1>7, <1>8, <2>2, <2>3, <2>4, <3>1, <3>2
  <2> QED
    BY <2>5, <2>6
<1> QED
  BY <1>3, <1>4, <1>5, <1>6, <1>9, <1>10

LEMMA IdentifyingAlone ==
  ASSUME OneRequest, IInv, AloneInv, NEW t \in Threads,
         Answer(t) \/ NoAnswer(t) \/ AddPeople(t)
  PROVE  AloneInv'
<1> USE DEF At
<1>1. /\ thread[t] \in Thread /\ Knows(thread[t]) /\ Fits(thread[t])
      /\ people \in [People -> Standing]
      /\ sidecar \in [Ids -> Sidecar \cup {None}]
  BY DEF IInv, TypeOK, AloneInv
<1>2. CASE Answer(t)
  <2> DEFINE i == thread[t].item
             Named(mentioned) == [q \in People |->
               IF q \notin mentioned THEN "absent"
               ELSE IF thread[t].named[q] = "absent" THEN "proposed" ELSE thread[t].named[q]]
             Linked(mentioned) == [q \in People |->
               IF sidecar[i].links[q] = "absent" /\ q \in mentioned THEN "proposed"
               ELSE sidecar[i].links[q]]
             Next1(mentioned) == [sidecar[i] EXCEPT !.identified = TRUE, !.links = Linked(mentioned)]
  <2>1. sidecar[i] \in Sidecar /\ sidecar[i] # None /\ Live(i) /\ i \in Ids
    BY <1>1, <1>2 DEF Answer, Live, Knows
  <2>2. PICK mentioned \in SUBSET People :
          Become(t, [thread[t] EXCEPT !.at = "people", !.named = Named(mentioned),
                                      !.next = Next1(mentioned)])
    BY <1>2, <2>1 DEF Answer, Sidecar
  <2>3. PICK named, next : named = Named(mentioned) /\ next = Next1(mentioned)
    OBVIOUS
  <2>4. Linked(mentioned) \in [People -> Standing] /\ named \in [People -> Standing]
    BY <1>1, <2>1, <2>3 DEF Sidecar, Standing, Thread
  <2>5. /\ next \in Draft /\ next.links = Linked(mentioned)
        /\ next.status = sidecar[i].status /\ next.text = sidecar[i].text
    BY <2>1, <2>3, <2>4 DEF Sidecar, Draft
  <2>6. ASSUME NEW q \in People
        PROVE  /\ next.links[q] # "absent" =>
                    q \in Links(i) \/ people[q] # "absent" \/ named[q] = "proposed"
               /\ q \in Links(i) => next.links[q] = sidecar[i].links[q]
    <3>1. thread[t].named = people
      BY <1>1, <1>2 DEF Answer, Fits, StillTrue
    <3> QED
      BY <2>1, <2>3, <2>5, <3>1 DEF Links
  <2>7. PICK s : s = [thread[t] EXCEPT !.at = "people", !.named = named, !.next = next]
    OBVIOUS
  <2>8. Become(t, s) /\ UNCHANGED <<agreed, registry, archive, people>>
    BY <1>2, <2>2, <2>3, <2>7 DEF Answer
  <2> HIDE DEF Named, Linked, Next1
  <2>9. /\ s \in Thread /\ s.at = "people" /\ s.task = "identify" /\ s.named = named
        /\ s.next = next /\ s.item = i /\ s.text = None
    BY <1>1, <1>2, <2>4, <2>5, <2>7
    DEF Answer, Thread, Place, Knows, Fits, KeepsText, Reading, Agreeing
  <2>10. StillTrue(s) /\ AgreesWell(s) /\ KeepsText(s) /\ NumberedLast(s)
    BY <2>1, <2>5, <2>9
    DEF StillTrue, AgreesWell, KeepsText, NumberedLast, Unsaved, Texting, Reading,
        Agreeing, Loaded
  <2>11. LinksWell(s)
    BY <2>6, <2>9 DEF LinksWell
  <2> QED
    BY <2>8, <2>9, <2>10, <2>11, StillAlone DEF Fits
<1>3. CASE NoAnswer(t)
  BY <1>3, FinishAlone DEF NoAnswer
<1>4. CASE AddPeople(t)
  <2>1. PICK s : s = [thread[t] EXCEPT !.at = "number"]
    OBVIOUS
  <2>2. /\ s \in Thread /\ s.at = "number" /\ s.task = "identify"
        /\ s.next = thread[t].next /\ s.item = thread[t].item /\ s.text = None
        /\ s.item \in Ids
    BY <1>1, <1>4, <2>1
    DEF AddPeople, Thread, Place, Knows, Fits, KeepsText, Reading, Agreeing
  <2>3. Become(t, s) /\ UNCHANGED <<agreed, registry, archive>>
    BY <1>4, <2>1 DEF AddPeople
  <2>4. StillTrue(s)' /\ AgreesWell(s)' /\ NumberedLast(s)'
    BY <2>2 DEF StillTrue, AgreesWell, NumberedLast, Agreeing, Loaded
  <2>5. KeepsText(s)'
    <3>1. \/ s.next.status = "deleted"
          \/ /\ sidecar[s.item] # None
             /\ s.next.status = sidecar[s.item].status /\ s.next.text = sidecar[s.item].text
      BY <1>1, <1>4, <2>2 DEF AddPeople, Fits, KeepsText, Agreeing, Knows
    <3> QED
      BY <2>2, <2>3, <3>1 DEF KeepsText, Unsaved, Texting, archive
  <2>6. ASSUME NEW q \in People
        PROVE  /\ s.next.links[q] # "absent" => q \in Links(s.item) \/ people'[q] # "absent"
               /\ q \in Links(s.item) =>
                    \/ s.next.status = "deleted"
                    \/ s.next.links[q] \notin {"absent", "proposed"}
                    \/ s.next.links[q] = sidecar[s.item].links[q]
                    \/ s.task = "decide" /\ s.decision = "delete" /\ s.person = q
    <3>1. people'[q] = IF thread[t].named[q] = "proposed" THEN "proposed" ELSE people[q]
      BY <1>4 DEF AddPeople
    <3>2. thread[t].task = "identify"
      BY <1>1, <1>4 DEF AddPeople, Knows
    <3> QED
      BY <1>1, <1>4, <2>2, <3>1, <3>2 DEF AddPeople, Fits, LinksWell
  <2>7. LinksWell(s)'
    BY <2>2, <2>3, <2>6 DEF LinksWell, Links, Live, archive
  <2> QED
    BY <2>2, <2>3, <2>4, <2>5, <2>7, QuietAlone DEF Fits
<1> QED
  BY <1>2, <1>3, <1>4

LEMMA DecidingAlone ==
  ASSUME OneRequest, IInv, AloneInv, NEW t \in Threads,
         ReadRecord(t) \/ Settle(t) \/ NoBasis(t) \/ Dismiss(t)
  PROVE  AloneInv'
<1> USE DEF At
<1>1. /\ thread[t] \in Thread /\ Knows(thread[t]) /\ Fits(thread[t])
      /\ people \in [People -> Standing]
      /\ sidecar \in [Ids -> Sidecar \cup {None}]
  BY DEF IInv, TypeOK, AloneInv
<1>2. CASE ReadRecord(t)
  <2> DEFINE q == thread[t].person
             link == Decided(thread[t].decision, people[q])
             i == thread[t].item
  <2>1. /\ q \in People /\ thread[t].next \in Draft /\ i \in Ids
        /\ thread[t].task = "decide" /\ thread[t].text = None
        /\ thread[t].next = sidecar[i] /\ Live(i) /\ q \in Links(i)
    BY <1>1, <1>2 DEF ReadRecord, Knows, Fits, StillTrue, KeepsText, Reading, Agreeing, Deciding
  <2>2. CASE people[q] = "absent"
    BY <1>2, <2>2, FinishAlone DEF ReadRecord
  <2>3. CASE people[q] # "absent"
    <3>1. /\ link \in Standing /\ link # "proposed"
          /\ link = "absent" => thread[t].decision = "delete"
      BY DEF Decided, Standing
    <3>2. PICK s : s = [thread[t] EXCEPT !.at = "number", !.named[q] = people[q],
                                         !.next.links[q] = link]
      OBVIOUS
    <3>3. Become(t, s) /\ UNCHANGED <<agreed, registry, archive, people>>
      BY <1>2, <2>3, <3>2 DEF ReadRecord
    <3> HIDE DEF link
    <3>4. PICK named, next :
            /\ named = [thread[t].named EXCEPT ![q] = people[q]]
            /\ next = [thread[t].next EXCEPT !.links[q] = link]
      OBVIOUS
    <3>5. named \in [People -> Standing] /\ next \in Draft
      BY <1>1, <2>1, <3>1, <3>4 DEF Draft, Thread
    <3>6. /\ next.status = sidecar[i].status /\ next.text = sidecar[i].text
          /\ next.links = [sidecar[i].links EXCEPT ![q] = link]
          /\ sidecar[i].links \in [People -> Standing]
      BY <2>1, <3>4 DEF Draft
    <3>7. s = [thread[t] EXCEPT !.at = "number", !.named = named, !.next = next]
      BY <1>1, <3>2, <3>4
    <3>8. /\ s \in Thread /\ s.at = "number" /\ s.task = "decide" /\ s.next = next
          /\ s.item = i /\ s.text = None /\ s.person = q /\ s.decision = thread[t].decision
      <4>1. s \in Thread
        <5> HIDE DEF q, i
        <5> QED
          BY <1>1, <3>5, <3>7 DEF Thread, Place
      <4>2. /\ s.at = "number" /\ s.next = next /\ s.task = thread[t].task
            /\ s.item = thread[t].item /\ s.text = thread[t].text
            /\ s.person = thread[t].person /\ s.decision = thread[t].decision
        BY <1>1, <3>7 DEF Thread
      <4> QED
        BY <2>1, <4>1, <4>2
    <3>9. ASSUME NEW r \in People
          PROVE  /\ next.links[r] # "absent" => r \in Links(i)
                 /\ r \in Links(i) =>
                      \/ next.links[r] \notin {"absent", "proposed"}
                      \/ next.links[r] = sidecar[i].links[r]
                      \/ thread[t].decision = "delete" /\ q = r
      BY <2>1, <3>1, <3>6 DEF Links
    <3>10. StillTrue(s) /\ AgreesWell(s) /\ KeepsText(s) /\ NumberedLast(s)
      BY <2>1, <3>6, <3>8
      DEF StillTrue, AgreesWell, KeepsText, NumberedLast, Unsaved, Texting, Agreeing,
          Loaded, Live
    <3>11. LinksWell(s)
      BY <3>8, <3>9 DEF LinksWell
    <3> QED
      BY <3>3, <3>8, <3>10, <3>11, StillAlone DEF Fits
  <2> QED
    BY <2>2, <2>3
<1>3. CASE Settle(t)
  <2>1. UNCHANGED <<agreed, registry, archive>>
    BY <1>3 DEF Settle
  <2>2. CASE Finish(t)
    BY <2>1, <2>2, FinishAlone
  <2>3. CASE Become(t, [thread[t] EXCEPT !.at = "dismiss"])
    <3>1. PICK s : s = [thread[t] EXCEPT !.at = "dismiss"]
      OBVIOUS
    <3>2. s \in Thread /\ s.at = "dismiss" /\ s.task = "decide"
      BY <1>1, <1>3, <3>1 DEF Settle, Thread, Place, Knows, Deciding
    <3>3. Fits(s)'
      BY <3>2 DEF Fits, StillTrue, AgreesWell, KeepsText, NumberedLast, LinksWell,
                  Unsaved, Texting, Reading, Agreeing, Loaded
    <3> QED
      BY <2>1, <2>3, <3>1, <3>2, <3>3, QuietAlone
  <2> QED
    BY <1>3, <2>2, <2>3 DEF Settle
<1>4. CASE NoBasis(t)
  BY <1>4, FinishAlone DEF NoBasis
<1>5. CASE Dismiss(t)
  BY <1>5, FinishAlone DEF Dismiss
<1> QED
  BY <1>2, <1>3, <1>4, <1>5

-----------------------------------------------------------------------------
(* The save, and the registry's record after it.                           *)

LEMMA NumberAlone ==
  ASSUME OneRequest, IInv, AloneInv, NEW t \in Threads, Number(t)
  PROVE  AloneInv'
<1> DEFINE i == thread[t].item
           v == Length(i) + 1
<1>1. /\ thread[t] \in Thread /\ Knows(thread[t]) /\ Fits(thread[t])
      /\ thread[t].at = "number" /\ i \in Ids /\ thread[t].next \in Draft
  BY DEF IInv, TypeOK, AloneInv, Number, At, Knows, Saving
<1>2. PICK s : s = [thread[t] EXCEPT !.at = "check", !.next.version = v,
                       !.next.text = IF thread[t].text = None THEN @ ELSE v]
  OBVIOUS
<1>3. Become(t, s) /\ v \in Versions /\ UNCHANGED <<agreed, registry, archive, people>>
  BY <1>2 DEF Number
<1> DEFINE next == [thread[t].next EXCEPT !.version = v,
                      !.text = IF thread[t].text = None THEN @ ELSE v]
<1>4. s = [thread[t] EXCEPT !.at = "check", !.next = next]
  BY <1>1, <1>2 DEF Thread, Draft
<1>5. /\ next \in Draft /\ next.version = v
      /\ next.links = thread[t].next.links /\ next.status = thread[t].next.status
      /\ next.text = IF thread[t].text = None THEN thread[t].next.text ELSE v
  BY <1>1, <1>3 DEF Draft
<1> HIDE DEF next
<1>6. s \in Thread
  BY <1>1, <1>4, <1>5 DEF Thread, Place
<1>7. /\ s.at = "check" /\ s.next = next /\ s.item = i /\ s.text = thread[t].text
      /\ s.task = thread[t].task /\ s.doc = thread[t].doc /\ s.whole = thread[t].whole
      /\ s.record = thread[t].record /\ s.decision = thread[t].decision
      /\ s.person = thread[t].person
  BY <1>1, <1>4 DEF Thread
<1>8. StillTrue(s) /\ NumberedLast(s)
  BY <1>1, <1>5, <1>7 DEF Fits, StillTrue, NumberedLast
<1>9. AgreesWell(s)
  <2> SUFFICES ASSUME s.task \in Agreeing PROVE AgreesWell(s)
    BY DEF AgreesWell
  <2>1. /\ thread[t].text \in Text /\ (thread[t].whole => PagesOf(thread[t].doc) \subseteq thread[t].text)
        /\ thread[t].next.status = "catalogued" => thread[t].whole
        /\ \A d \in Docs : d # thread[t].doc => registry[d].item # i
    BY <1>1, <1>7 DEF Fits, AgreesWell, Unsaved
  <2>2. thread[t].text # None
    BY <2>1, NoneAssumption
  <2> QED
    BY <1>5, <1>7, <2>1, <2>2 DEF AgreesWell, Texting
<1>10. KeepsText(s)
  <2> SUFFICES ASSUME s.task \notin Agreeing PROVE KeepsText(s)
    BY DEF KeepsText
  <2>1. /\ thread[t].text = None
        /\ \/ thread[t].next.status = "deleted"
           \/ /\ sidecar[i] # None
              /\ thread[t].next.status = sidecar[i].status /\ thread[t].next.text = sidecar[i].text
    BY <1>1, <1>7 DEF Fits, KeepsText, Unsaved
  <2> QED
    BY <1>5, <1>7, <2>1 DEF KeepsText, Texting
<1>11. LinksWell(s)
  BY <1>1, <1>5, <1>7 DEF Fits, LinksWell, Unsaved
<1> QED
  BY <1>3, <1>6, <1>8, <1>9, <1>10, <1>11, StillAlone DEF Fits

\* what a save puts at its item's end is there afterwards, and no other item
\* has changed
LEMMA PutLast ==
  ASSUME IInv, AloneInv, NEW t \in Threads, Put(t)
  PROVE  /\ thread[t].item \in Ids /\ thread[t].next \in Sidecar /\ thread[t].next # None
         /\ sidecar' = [sidecar EXCEPT ![thread[t].item] = thread[t].next]
         /\ thread[t].next.version = Length(thread[t].item) + 1
<1>1. /\ thread[t].item \in Ids /\ thread[t].next \in Draft
      /\ thread[t].next.version \in Versions
      /\ thread[t].next.version = Length(thread[t].item) + 1
  BY DEF IInv, AloneInv, Fits, NumberedLast, Put, At, Knows, Saving, Numbered
<1>2. thread[t].next \in Sidecar
  BY <1>1 DEF Draft, Sidecar
<1>3. ~(thread[t].next.version < Length(thread[t].item))
  BY <1>1, LengthType DEF IInv
<1> QED
  BY <1>1, <1>2, <1>3, NoneAssumption DEF Put, PutSidecar

LEMMA PutAloneHolds ==
  ASSUME OneRequest, IInv, AloneInv, NEW t \in Threads, Put(t)
  PROVE  AloneInv'
<1>0. PICK i, next : i = thread[t].item /\ next = thread[t].next
  OBVIOUS
<1>1. /\ thread[t] \in Thread /\ Knows(thread[t]) /\ Fits(thread[t])
      /\ thread[t].at = "put"
      /\ sidecar \in [Ids -> Sidecar \cup {None}] /\ registry \in Record
  BY DEF IInv, TypeOK, AloneInv, Put, At
<1>2. /\ i \in Ids /\ next \in Sidecar /\ next # None
      /\ sidecar' = [sidecar EXCEPT ![i] = next]
      /\ next.version = Length(i) + 1
  BY <1>0, PutLast
<1>3. UNCHANGED <<agreed, registry, content, people>>
  BY DEF Put
<1>4. sidecar'[i] = next /\ \A j \in Ids : j # i => sidecar'[j] = sidecar[j]
  BY <1>1, <1>2
<1>5. \A d \in Docs : registry[d].item \in Ids \cup {None}
  BY <1>1 DEF Record, Boundary
<1>6. ASSUME NEW d \in Docs, registry[d].item # i, WholeFor(d, registry[d].item)
      PROVE  WholeFor(d, registry[d].item)'
  BY <1>3, <1>4, <1>5, <1>6 DEF WholeFor, Catalogued, Live, Transcription
<1>7. \A d \in Docs : WholeFor(d, registry[d].item)
  BY DEF AloneInv, CataloguedOnlyWhole, WholeFor
<1>8. Distinct'
  BY <1>3 DEF AloneInv, Distinct
<1>9. CASE thread[t].task \in Agreeing
  <2>1. /\ thread[t].text \in Text
        /\ thread[t].whole => PagesOf(thread[t].doc) \subseteq thread[t].text
        /\ next.status = "catalogued" => thread[t].whole
        /\ next.text = next.version
        /\ \A d \in Docs : d # thread[t].doc => registry[d].item # i
        /\ thread[t].doc \in Docs
    BY <1>0, <1>1, <1>9 DEF Fits, AgreesWell, Unsaved, Knows, Loaded
  <2>2. thread[t].text # None
    BY <2>1, NoneAssumption
  <2>3. Transcription(i)' = None
    <3>1. next.version \in Versions /\ next.version # 0
      BY <1>2, BoundAssumption DEF Sidecar, Versions
    <3>2. content[i][next.version] = None
      <4>1. ~HasSidecar(i, next.version)
        BY <1>2, LengthType DEF HasSidecar, IInv
      <4> QED
        BY <1>2, <3>1, <4>1 DEF IInv, ContentFollowsSidecar, HasText
    <3> QED
      BY <1>3, <1>4, <2>1, <3>1, <3>2 DEF Transcription
  <2>4. CataloguedOnlyWhole'
    <3>1. ASSUME NEW d \in Docs PROVE WholeFor(d, registry[d].item)'
      <4>1. CASE registry[d].item = i
        BY <1>3, <2>3, <4>1 DEF WholeFor
      <4>2. CASE registry[d].item # i
        BY <1>6, <1>7, <4>2
      <4> QED
        BY <4>1, <4>2
    <3> QED
      BY <3>1 DEF CataloguedOnlyWhole, WholeFor
  <2>5. PICK s : s = [thread[t] EXCEPT !.at = "text_check"]
    OBVIOUS
  <2>6. Become(t, s)
    BY <2>2, <2>5 DEF Put
  <2>7. /\ s \in Thread /\ s.at = "text_check" /\ s.task \in Agreeing /\ s.next = next
        /\ s.item = i /\ s.text = thread[t].text /\ s.doc = thread[t].doc
        /\ s.whole = thread[t].whole /\ s.record = thread[t].record
    BY <1>0, <1>1, <1>9, <2>5 DEF Thread, Place
  <2>8. thread[t].record = registry
    BY <1>1, <1>9 DEF Fits, StillTrue, Loaded
  <2>9. StillTrue(s)' /\ KeepsText(s)' /\ NumberedLast(s)' /\ LinksWell(s)'
    BY <1>3, <2>7, <2>8 DEF StillTrue, KeepsText, NumberedLast, LinksWell, Unsaved
  <2>10. AgreesWell(s)'
    BY <1>3, <1>4, <2>1, <2>7 DEF AgreesWell, Unsaved, Texting
  <2> QED
    BY <1>8, <2>4, <2>6, <2>7, <2>9, <2>10, AloneStep DEF Fits
<1>10. CASE thread[t].task \notin Agreeing
  <2>1. /\ thread[t].text = None
        /\ \/ next.status = "deleted"
           \/ /\ sidecar[i] # None
              /\ next.status = sidecar[i].status /\ next.text = sidecar[i].text
    BY <1>0, <1>1, <1>10 DEF Fits, KeepsText, Unsaved
  <2>2. CataloguedOnlyWhole'
    <3>1. ASSUME NEW d \in Docs PROVE WholeFor(d, registry[d].item)'
      <4>1. CASE registry[d].item = i
        BY <1>2, <1>3, <1>4, <1>7, <2>1, <4>1 DEF WholeFor, Catalogued, Live, Transcription
      <4>2. CASE registry[d].item # i
        BY <1>6, <1>7, <4>2
      <4> QED
        BY <4>1, <4>2
    <3> QED
      BY <3>1 DEF CataloguedOnlyWhole, WholeFor
  <2>3. PICK s : s = Saved(t)
    OBVIOUS
  <2>4. Become(t, s)
    BY <2>1, <2>3 DEF Put
  <2>5. s \in Thread /\ s.at \in {"settle", "idle"}
        /\ (s.task \in Loaded \/ s.task \in Agreeing => s.at = "idle" /\ s.record = registry)
    <3>1. CASE thread[t].task = "decide"
      <4>1. s = [thread[t] EXCEPT !.at = "settle"]
        BY <2>3, <3>1 DEF Saved, Do
      <4> QED
        BY <1>1, <3>1, <4>1 DEF Thread, Place, Loaded, Agreeing
    <3>2. CASE thread[t].task # "decide"
      <4>1. s = Resting
        BY <1>10, <2>3, <3>2 DEF Saved, Do, Agreeing
      <4> QED
        BY <4>1, RestingFits
    <3> QED
      BY <3>1, <3>2
  <2>6. Fits(s)'
    BY <1>3, <2>5 DEF Fits, StillTrue, AgreesWell, KeepsText, NumberedLast, LinksWell,
                      Unsaved, Texting, Reading
  <2> QED
    BY <1>8, <2>2, <2>4, <2>5, <2>6, AloneStep
<1> QED
  BY <1>9, <1>10

LEMMA TextPutAlone ==
  ASSUME OneRequest, IInv, AloneInv, NEW t \in Threads, TextPut(t)
  PROVE  AloneInv'
<1>0. PICK i, next, v, d0, text0, whole0 :
        /\ i = thread[t].item /\ next = thread[t].next /\ v = next.version
        /\ d0 = thread[t].doc /\ text0 = thread[t].text /\ whole0 = thread[t].whole
  OBVIOUS
<1>1. /\ thread[t] \in Thread /\ Knows(thread[t]) /\ Fits(thread[t])
      /\ thread[t].at = "text_put" /\ i \in Ids /\ v \in Versions
      /\ content \in [Ids -> [Versions -> Text \cup {None}]] /\ registry \in Record
  BY <1>0 DEF IInv, TypeOK, AloneInv, TextPut, At, Knows, Saving, Numbered
<1>2. /\ thread[t].task \in Agreeing /\ thread[t].record = registry
      /\ d0 \in Docs
  BY <1>0, <1>1 DEF Fits, KeepsText, Texting, StillTrue, Loaded, Knows
<1>3. /\ whole0 => PagesOf(d0) \subseteq text0
      /\ next.status = "catalogued" => whole0
      /\ next.text = v /\ sidecar[i] = next
      /\ \A d \in Docs : d # d0 => registry[d].item # i
  BY <1>0, <1>1, <1>2 DEF Fits, AgreesWell, Texting
<1>4. /\ content' = [content EXCEPT ![i][v] = text0]
      /\ UNCHANGED <<agreed, registry, sidecar, people>>
  BY <1>0 DEF TextPut
<1>5. content'[i][v] = text0 /\ \A j \in Ids : j # i => content'[j] = content[j]
  BY <1>1, <1>4
<1>6. v # 0
  BY <1>1, BoundAssumption DEF Versions
<1>7. WholeFor(d0, i)'
  <2>1. Transcription(i)' = text0
    BY <1>3, <1>4, <1>5, <1>6 DEF Transcription
  <2>2. Catalogued(i)' => whole0
    BY <1>3, <1>4 DEF Catalogued
  <2> QED
    BY <1>3, <2>1, <2>2 DEF WholeFor
<1>8. ASSUME NEW d \in Docs PROVE WholeFor(d, registry[d].item)'
  <2>1. CASE registry[d].item = i
    BY <1>3, <1>4, <1>7, <2>1
  <2>2. CASE registry[d].item # i
    <3>1. WholeFor(d, registry[d].item)
      BY DEF AloneInv, CataloguedOnlyWhole, WholeFor
    <3>2. registry[d].item \in Ids \cup {None}
      BY <1>1 DEF Record, Boundary
    <3> QED
      BY <1>4, <1>5, <2>2, <3>1, <3>2 DEF WholeFor, Catalogued, Live, Transcription
  <2> QED
    BY <2>1, <2>2
<1>9. CataloguedOnlyWhole'
  BY <1>8 DEF CataloguedOnlyWhole, WholeFor
<1>10. Distinct'
  BY <1>4 DEF AloneInv, Distinct
<1>11. PICK s : s = [thread[t] EXCEPT !.at = "register"]
  OBVIOUS
<1>12. Become(t, s)
  BY <1>2, <1>11 DEF TextPut, Saved, Agreeing
<1>13. /\ s \in Thread /\ s.at = "register" /\ s.task \in Agreeing /\ s.item = i
       /\ s.doc = d0 /\ s.record = registry
  BY <1>0, <1>1, <1>2, <1>11 DEF Thread, Place
<1>14. StillTrue(s)' /\ KeepsText(s)' /\ NumberedLast(s)' /\ LinksWell(s)'
  BY <1>4, <1>13 DEF StillTrue, KeepsText, NumberedLast, LinksWell, Unsaved
<1>15. AgreesWell(s)'
  BY <1>3, <1>4, <1>7, <1>13 DEF AgreesWell, Unsaved, Texting
<1> QED
  BY <1>9, <1>10, <1>12, <1>13, <1>14, <1>15, AloneStep DEF Fits

LEMMA SaveAlone ==
  ASSUME OneRequest, IInv, AloneInv, NEW t \in Threads, Save(t)
  PROVE  AloneInv'
<1> USE DEF At
<1>1. thread[t] \in Thread /\ Fits(thread[t])
  BY DEF IInv, TypeOK, AloneInv
<1>2. ASSUME NEW from, NEW to \in Place, thread[t].at = from,
             <<from, to>> \in {<<"check", "put">>, <<"text_check", "text_put">>},
             Become(t, [thread[t] EXCEPT !.at = to]),
             UNCHANGED <<agreed, registry, archive, people>>
      PROVE  AloneInv'
  <2>1. PICK s : s = [thread[t] EXCEPT !.at = to]
    OBVIOUS
  <2>2. /\ s \in Thread /\ s.at = to /\ s.item = thread[t].item /\ s.next = thread[t].next
        /\ s.text = thread[t].text /\ s.task = thread[t].task /\ s.doc = thread[t].doc
        /\ s.whole = thread[t].whole /\ s.record = thread[t].record
        /\ s.decision = thread[t].decision /\ s.person = thread[t].person
    BY <1>1, <2>1 DEF Thread
  <2>3. StillTrue(s) /\ NumberedLast(s)
    BY <1>1, <1>2, <2>2 DEF Fits, StillTrue, NumberedLast
  <2>4. AgreesWell(s)
    BY <1>1, <1>2, <2>2 DEF Fits, AgreesWell, Unsaved, Texting
  <2>5. KeepsText(s)
    BY <1>1, <1>2, <2>2 DEF Fits, KeepsText, Unsaved, Texting
  <2>6. LinksWell(s)
    BY <1>1, <1>2, <2>2 DEF Fits, LinksWell, Unsaved
  <2> QED
    BY <1>2, <2>1, <2>2, <2>3, <2>4, <2>5, <2>6, StillAlone DEF Fits
<1>3. CASE Check(t)
  BY <1>2, <1>3 DEF Check, Place
<1>4. CASE TextCheck(t)
  BY <1>2, <1>4 DEF TextCheck, Place
<1>5. CASE Refused(t)
  BY <1>5, FinishAlone DEF Refused
<1> QED
  BY <1>3, <1>4, <1>5, NumberAlone, PutAloneHolds, TextPutAlone DEF Save

LEMMA RegisterAlone ==
  ASSUME OneRequest, IInv, AloneInv, NEW t \in Threads, Register(t)
  PROVE  AloneInv'
<1> DEFINE d == thread[t].doc
           b == IF Do(t, "reject") THEN [registry[d] EXCEPT !.status = "rejected"]
                ELSE [item |-> thread[t].item,
                      status |-> IF thread[t].whole THEN "confirmed" ELSE registry[d].status]
<1>1. /\ thread[t] \in Thread /\ Knows(thread[t]) /\ Fits(thread[t]) /\ Backed(thread[t])
      /\ thread[t].at = "register" /\ registry \in Record
  BY DEF IInv, TypeOK, AloneInv, Register, At
<1>2. thread[t].task \in Loaded /\ d \in Docs /\ thread[t].record = registry
  BY <1>1 DEF Knows, Fits, StillTrue
<1>3. registry' = [registry EXCEPT ![d] = b] /\ UNCHANGED archive /\ Finish(t)
  BY <1>2 DEF Register
<1>4. CASE thread[t].task = "reject"
  <2>1. \A e \in Docs : registry'[e].item = registry[e].item
    BY <1>1, <1>2, <1>3, <1>4 DEF Do, Record, Boundary
  <2>2. CataloguedOnlyWhole' /\ Distinct'
    <3>1. Distinct'
      BY <2>1 DEF AloneInv, Distinct
    <3>2. CataloguedOnlyWhole'
      BY <1>3, <2>1
      DEF AloneInv, CataloguedOnlyWhole, Catalogued, Live, Transcription, archive
    <3> QED
      BY <3>1, <3>2
  <2>3. PICK s \in Thread : /\ s = Resting /\ s.at = "idle"
                            /\ s.task \notin Loaded /\ s.task \notin Agreeing
    BY RestingFits
  <2>4. Fits(s)'
    BY <2>3 DEF Fits, StillTrue, AgreesWell, KeepsText, NumberedLast, LinksWell,
                Unsaved, Texting, Reading
  <2> QED
    BY <1>3, <2>2, <2>3, <2>4, AloneStep DEF Finish
<1>5. CASE thread[t].task # "reject"
  <2>1. /\ WholeFor(d, thread[t].item)
        /\ \A e \in Docs : e # d => registry[e].item # thread[t].item
    BY <1>1, <1>2, <1>5 DEF Fits, AgreesWell, Loaded
  <2>2. /\ registry'[d].item = thread[t].item
        /\ \A e \in Docs : e # d => registry'[e] = registry[e]
    BY <1>1, <1>2, <1>3, <1>5 DEF Do, Record
  <2> HIDE DEF d, b
  <2>3. CataloguedOnlyWhole'
    <3>1. ASSUME NEW e \in Docs PROVE WholeFor(e, registry'[e].item)
      <4>1. CASE e = d
        BY <2>1, <2>2, <4>1
      <4>2. CASE e # d
        BY <2>2, <4>2 DEF AloneInv, CataloguedOnlyWhole, WholeFor
      <4> QED
        BY <4>1, <4>2
    <3> QED
      BY <1>3, <3>1
      DEF CataloguedOnlyWhole, WholeFor, Catalogued, Live, Transcription, archive
  <2>4. Distinct'
    BY <1>2, <2>1, <2>2 DEF AloneInv, Distinct
  <2>5. PICK s \in Thread : /\ s = Resting /\ s.at = "idle"
                            /\ s.task \notin Loaded /\ s.task \notin Agreeing
    BY RestingFits
  <2>6. Fits(s)'
    BY <2>5 DEF Fits, StillTrue, AgreesWell, KeepsText, NumberedLast, LinksWell,
                Unsaved, Texting, Reading
  <2> QED
    BY <1>3, <2>3, <2>4, <2>5, <2>6, AloneStep DEF Finish
<1> QED
  BY <1>4, <1>5

LEMMA CrashAlone ==
  ASSUME OneRequest, IInv, AloneInv, Crash
  PROVE  AloneInv'
<1>1. PICK t \in Threads : ~At(t, "idle")
  BY DEF Crash
<1>2. Finish(t)
  <2>1. \A u \in Threads : u = t
    BY DEF OneRequest
  <2> QED
    BY <2>1 DEF Crash, Finish, Become, IInv, TypeOK
<1> QED
  BY <1>2, FinishAlone DEF Crash

LEMMA NextAlone ==
  ASSUME OneRequest, IInv, AloneInv, [Next]_vars
  PROVE  AloneInv'
<1>1. ASSUME NEW t \in Threads, Request(t) \/ Save(t) PROVE AloneInv'
  BY <1>1, RequestAlone, SaveAlone
<1>2. ASSUME NEW t \in Threads, Step(t) PROVE AloneInv'
  BY <1>2, AgreeingAlone, IdentifyingAlone, DecidingAlone, RegisterAlone DEF Step
<1>3. CASE UNCHANGED vars
  <2>1. CASE Threads = {}
    BY <1>3, <2>1 DEF AloneInv, CataloguedOnlyWhole, Distinct, Catalogued, Live,
                      Transcription, vars
  <2>2. ASSUME NEW t \in Threads PROVE AloneInv'
    <3>1. PICK s \in Thread : s = thread[t] /\ Become(t, s)
      BY <1>3 DEF IInv, TypeOK, Become, vars
    <3>2. UNCHANGED <<agreed, registry, archive, people>>
      BY <1>3 DEF vars, archive
    <3>3. Fits(s)
      BY <3>1 DEF AloneInv
    <3> QED
      BY <3>1, <3>2, <3>3, StillAlone
  <2> QED
    BY <2>1, <2>2
<1> QED
  BY <1>1, <1>2, <1>3, CrashAlone DEF Next

LEMMA AloneInductive ==
  ASSUME OneRequest
  PROVE  Spec => []AloneInv
<1>1. Init => AloneInv
  <2> SUFFICES ASSUME Init PROVE AloneInv
    OBVIOUS
  <2>1. CataloguedOnlyWhole /\ Distinct
    BY DEF Init, CataloguedOnlyWhole, Distinct
  <2> QED
    BY <2>1, RestingFits DEF Init, AloneInv
<1>2. IInv /\ AloneInv /\ [Next]_vars => AloneInv'
  BY NextAlone
<1> QED
  BY <1>1, <1>2, Inductive, PTL DEF Spec

\* With one request at a time, over deaths, rejections, deletions and
\* confirmations in between, an item that is catalogued publishes all pages of
\* its document (approve_page: "`draft` while a text page is unapproved").
THEOREM CataloguedWhole ==
  ASSUME OneRequest
  PROVE  Spec => []CataloguedOnlyWhole
<1>1. AloneInv => CataloguedOnlyWhole
  BY DEF AloneInv
<1> QED
  BY <1>1, AloneInductive, PTL

\* With one request at a time, whatever dies in between, no save brings a link
\* to a person the table lacks (record_identification: "the tables go first").
THEOREM LinksResolve ==
  ASSUME OneRequest
  PROVE  Spec => SavedLinksResolve
<1>1. ASSUME IInv, AloneInv, Next, sidecar' # sidecar, NEW i \in Ids, NEW q \in Links(i)',
             q \notin Links(i)
      PROVE  people'[q] # "absent"
  <2>1. PICK t \in Threads : Put(t)
    BY <1>1
    DEF Next, Crash, Request, Save, Step, Approve, Confirm, Reject, Identify, Delete,
        Decide, Review, Number, Check, TextCheck, TextPut, Refused, Mark, Look, Gather,
        Untitled, Mint, Reopen, Register, Answer, NoAnswer, AddPeople, ReadRecord,
        Settle, NoBasis, Dismiss, archive
  <2>2. /\ thread[t].item \in Ids /\ thread[t].next \in Sidecar
        /\ sidecar' = [sidecar EXCEPT ![thread[t].item] = thread[t].next]
    BY <1>1, <2>1, PutLast
  <2>3. sidecar \in [Ids -> Sidecar \cup {None}]
    BY <1>1 DEF IInv, TypeOK
  <2>4. i = thread[t].item
    BY <1>1, <2>2, <2>3 DEF Links, Live
  <2>5. q \in People /\ thread[t].next.links[q] # "absent"
    BY <2>2, <2>3, <2>4, <1>1 DEF Links
  <2>6. LinksWell(thread[t]) /\ thread[t].at = "put"
    BY <1>1, <2>1 DEF AloneInv, Fits, Put, At
  <2> QED
    BY <1>1, <2>1, <2>4, <2>5, <2>6 DEF LinksWell, Unsaved, Put
<1>2. IInv /\ AloneInv /\ [Next]_vars =>
        [\A i \in Ids : \A q \in Links(i)' \ Links(i) : people'[q] # "absent"]_sidecar
  BY <1>1 DEF vars
<1> QED
  BY <1>2, Inductive, AloneInductive, PTL DEF Spec, SavedLinksResolve

\* With one request at a time, a live item's link is lost only to a decision
\* that deletes it, and a settled one never becomes a proposal again
\* (record_identification, agree_document, decide_identification).
THEOREM LinksStay ==
  ASSUME OneRequest
  PROVE  Spec => LinksKept
<1>1. ASSUME IInv, AloneInv, Next, sidecar' # sidecar, NEW i \in Ids, Live(i), Live(i)',
             NEW q \in Links(i)
      PROVE  \/ sidecar'[i].links[q] # "proposed" /\ q \in Links(i)'
             \/ sidecar'[i].links[q] = sidecar[i].links[q]
             \/ \E t \in Threads : /\ Do(t, "decide") /\ thread[t].decision = "delete"
                                   /\ thread[t].person = q
  <2>1. PICK t \in Threads : Put(t)
    BY <1>1
    DEF Next, Crash, Request, Save, Step, Approve, Confirm, Reject, Identify, Delete,
        Decide, Review, Number, Check, TextCheck, TextPut, Refused, Mark, Look, Gather,
        Untitled, Mint, Reopen, Register, Answer, NoAnswer, AddPeople, ReadRecord,
        Settle, NoBasis, Dismiss, archive
  <2>2. /\ thread[t].item \in Ids /\ thread[t].next \in Sidecar
        /\ sidecar' = [sidecar EXCEPT ![thread[t].item] = thread[t].next]
    BY <1>1, <2>1, PutLast
  <2>3. sidecar \in [Ids -> Sidecar \cup {None}]
    BY <1>1 DEF IInv, TypeOK
  <2>4. CASE i # thread[t].item
    BY <2>2, <2>3, <2>4
  <2>5. CASE i = thread[t].item
    <3>1. sidecar'[i] = thread[t].next /\ thread[t].next.status # "deleted"
      BY <1>1, <2>2, <2>3, <2>5 DEF Live
    <3>2. LinksWell(thread[t]) /\ thread[t].at = "put" /\ q \in People
      BY <1>1, <2>1 DEF AloneInv, Fits, Put, At, Links
    <3>3. \/ thread[t].next.links[q] \notin {"absent", "proposed"}
          \/ thread[t].next.links[q] = sidecar[i].links[q]
          \/ Do(t, "decide") /\ thread[t].decision = "delete" /\ thread[t].person = q
      BY <1>1, <2>5, <3>1, <3>2 DEF LinksWell, Unsaved, Do
    <3>4. thread[t].next.links[q] # "absent" => q \in Links(i)'
      BY <1>1, <3>1, <3>2 DEF Links
    <3> QED
      BY <3>1, <3>3, <3>4
  <2> QED
    BY <2>4, <2>5
<1>2. IInv /\ AloneInv /\ [Next]_vars =>
        [\A i \in Ids : Live(i) /\ Live(i)' =>
           \A q \in Links(i) :
             \/ sidecar[i]'.links[q] # "proposed" /\ q \in Links(i)'
             \/ sidecar[i]'.links[q] = sidecar[i].links[q]
             \/ \E t \in Threads : Do(t, "decide") /\ thread[t].decision = "delete"
                                   /\ thread[t].person = q]_sidecar
  BY <1>1 DEF vars
<1> QED
  BY <1>2, Inductive, AloneInductive, PTL DEF Spec, LinksKept
=============================================================================
