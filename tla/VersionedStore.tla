--------------------------- MODULE VersionedStore ---------------------------
(***************************************************************************)
(* One path of PipelineStore (pipeline/store.py) over DiskStore            *)
(* (tools/store.py): the base file and its numbered copies, and writers    *)
(* that go through write() one file operation at a time.  A registry       *)
(* record is such a path, written by the worker, the server and the        *)
(* command line; a writer may die between any two operations.              *)
(*                                                                         *)
(* atomic_write (a temporary file renamed into place) is one step, and so  *)
(* is unlink.  write_new's test and its write are two.                     *)
(***************************************************************************)
EXTENDS Naturals

CONSTANTS
  Writers,
  Contents,     \* what may be written
  MaxVersion,   \* bound: the highest version number in use
  None

\* what the constants are (assumed where the module is instantiated)
StoreAssumption == None \notin Contents /\ MaxVersion \in Nat

VARIABLES
  base,     \* the base file: the content it holds, or None when there is none
  copy,     \* version |-> the content of the numbered copy, or None
  writer    \* writer |-> the operation it is at, and write's local variables

vars == <<base, copy, writer>>

Versions == 2 .. MaxVersion
File     == Contents \cup {None}

Place == {"idle", "read", "pick", "copy_check", "copy_put", "delete",
          "base_check", "base_put"}
Writer == [at: Place, content: File, old: File, version: Versions \cup {0}]
Idle   == [at |-> "idle", content |-> None, old |-> None, version |-> 0]

TypeOK ==
  /\ base \in File
  /\ copy \in [Versions -> File]
  /\ writer \in [Writers -> Writer]

Init ==
  /\ base = None
  /\ copy = [v \in Versions |-> None]
  /\ writer = [w \in Writers |-> Idle]

At(w, place) == writer[w].at = place
Go(w, place) == writer' = [writer EXCEPT ![w].at = place]

-----------------------------------------------------------------------------
(* PipelineStore.write                                                     *)

\* the base's existence decides between a first write and a new version
Begin(w, content) ==
  /\ At(w, "idle")
  /\ writer' = [writer EXCEPT ![w] =
       [@ EXCEPT !.at = IF base = None THEN "base_check" ELSE "read",
                 !.content = content]]
  /\ UNCHANGED <<base, copy>>

ReadOld(w) ==
  /\ At(w, "read") /\ base # None
  /\ writer' = [writer EXCEPT ![w] = [@ EXCEPT !.at = "pick", !.old = base]]
  /\ UNCHANGED <<base, copy>>

\* (variant) the numbers are counted from the base, as number 1
PickFromBase(w) ==
  /\ At(w, "pick")
  /\ \E v \in Versions :
       /\ copy[v] = None
       /\ \A u \in Versions : u < v => copy[u] # None
       /\ writer' = [writer EXCEPT ![w] = [@ EXCEPT !.at = "copy_check", !.version = v - 1]]
  /\ UNCHANGED <<base, copy>>

\* (variant) the numbers are not looked at: the copy always goes to the first
PickFirst(w) ==
  /\ At(w, "pick") /\ 2 \in Versions
  /\ writer' = [writer EXCEPT ![w] = [@ EXCEPT !.at = "copy_put", !.version = 2]]
  /\ UNCHANGED <<base, copy>>

\* The first free number.  Copies are never removed, so the loop's tests of
\* the lower numbers still hold when the last one is made.
Pick(w) ==
  /\ At(w, "pick")
  /\ \E v \in Versions :
       /\ copy[v] = None
       /\ \A u \in Versions : u < v => copy[u] # None
       /\ writer' = [writer EXCEPT ![w] = [@ EXCEPT !.at = "copy_check", !.version = v]]
  /\ UNCHANGED <<base, copy>>

CopyCheck(w) ==
  /\ At(w, "copy_check") /\ copy[writer[w].version] = None
  /\ Go(w, "copy_put")
  /\ UNCHANGED <<base, copy>>

\* (variant) the new content is kept in place of the old
CopyNew(w) ==
  /\ At(w, "copy_put")
  /\ copy' = [copy EXCEPT ![writer[w].version] = writer[w].content]
  /\ Go(w, "delete")
  /\ UNCHANGED base

CopyPut(w) ==
  /\ At(w, "copy_put")
  /\ copy' = [copy EXCEPT ![writer[w].version] = writer[w].old]
  /\ Go(w, "delete")
  /\ UNCHANGED base

\* (variant) the base goes before its copy is made
DeleteEarly(w) ==
  /\ At(w, "pick") /\ base # None
  /\ base' = None
  /\ Go(w, "base_check")
  /\ UNCHANGED copy

Delete(w) ==
  /\ At(w, "delete") /\ base # None
  /\ base' = None
  /\ Go(w, "base_check")
  /\ UNCHANGED copy

BaseCheck(w) ==
  /\ At(w, "base_check") /\ base = None
  /\ Go(w, "base_put")
  /\ UNCHANGED <<base, copy>>

BasePut(w) ==
  /\ At(w, "base_put")
  /\ base' = writer[w].content
  /\ writer' = [writer EXCEPT ![w] = Idle]
  /\ UNCHANGED copy

\* StoreError, ImmutableStoreError or FileNotFoundError: write gives up where
\* it stands
Refused(w) ==
  /\ \/ At(w, "read") /\ base = None
     \/ At(w, "copy_check") /\ copy[writer[w].version] # None
     \/ At(w, "delete") /\ base = None
     \/ At(w, "base_check") /\ base # None
  /\ writer' = [writer EXCEPT ![w] = Idle]
  /\ UNCHANGED <<base, copy>>

\* the writer's process dies
Crash(w) ==
  /\ ~At(w, "idle")
  /\ writer' = [writer EXCEPT ![w] = Idle]
  /\ UNCHANGED <<base, copy>>

-----------------------------------------------------------------------------

Step(w) ==
  \/ \E content \in Contents : Begin(w, content)
  \/ ReadOld(w) \/ Pick(w) \/ CopyCheck(w) \/ CopyPut(w) \/ Delete(w)
  \/ BaseCheck(w) \/ BasePut(w) \/ Refused(w) \/ Crash(w)

Next == \E w \in Writers : Step(w)

Spec == Init /\ [][Next]_vars

-----------------------------------------------------------------------------
(* Properties.                                                             *)

Copies == {v \in Versions : copy[v] # None}

\* every version that can still be found on disk
Kept == {copy[v] : v \in Copies} \cup ({base} \ {None})

\* read_latest: the base's content; with no base it raises
Latest == base

Log == INSTANCE VersionLog WITH kept <- Kept, latest <- Latest

\* With one writer the file operations of write() implement the version log,
\* whatever dies between them: each version is added in one step, none is ever
\* lost, and what read_latest returns is the last one added - or it raises,
\* from the deletion of the base to the next write that is completed.
ImplementsLog == Log!Spec

\* "The old version is preserved at path-2.suffix, path-3.suffix, etc.": no
\* version that is on disk ever leaves it.
VersionsPreserved == [][Kept \subseteq Kept']_vars

\* "a re-run never overwrites existing data": a numbered copy never changes
CopiesNeverChange == [][\A v \in Copies : copy'[v] = copy[v]]_vars

\* Even writers that race, or die, leave some version of a path that was ever
\* written: PipelineStore.write takes the base away only when a copy stands.
SomeVersionStays == [][Kept # {} => Kept' # {}]_vars
=============================================================================
