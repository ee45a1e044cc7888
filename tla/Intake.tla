----------------------------- MODULE Intake -----------------------------
(* How a pile of scans becomes a batch: tools/scan.py publishes a job     *)
(* folder and registers it, pipeline/adopt.py matches a folder against    *)
(* the registry by the hashes of its pages, pipeline/worker.py adopts     *)
(* every folder of the scan area and reads the batches.  The worker and a *)
(* person at the command line share registry and work directory, and one  *)
(* of them runs at a time; the server's reviewer agrees whenever it likes.*)
(* The status is BatchQueue's: nothing decides by it here.                *)
EXTENDS Integers, FiniteSets

CONSTANTS
    Names,      \* the names of page images, numbers: pages are read in their order
    Contents,   \* the contents one may have, which its hash tells apart
    Piles,      \* the sets of page images that a folder may hold
    Folders,    \* the folders of the scan area
    Agents,     \* "worker", and "cli" for a person's `pipeline process`
    Home,       \* the folder that holds the user's first pile
    JobFolder,  \* the folder, and batch id, of the scanner's job
    JobPages,   \* the pages the scanner finds
    Adopted,    \* the ids adoption may mint, a bound on the batches
    MaxEdits,   \* bound on the user's changes to the folders
    MaxDeaths,  \* bound on the deaths of a process
    MaxCopies   \* bound on the copies of a record remembered beside the newest

\* a pile gives each name its content; reading it tells a text by the image it was read
\* from and the one the record listed under that name
NoPage == "no page"
Images == Contents \cup {NoPage}
Empty == [n \in Names |-> NoPage]
Texts == [image : Images, listed : Images]
NoText == [image |-> NoPage, listed |-> NoPage]
Unread == [n \in Names |-> NoText]

\* what the constants are (assumed where the module is instantiated)
IntakeAssumption ==
    /\ "worker" \in Agents /\ Agents \subseteq {"worker", "cli"}
    /\ {Home, JobFolder} \subseteq Folders /\ JobFolder \notin Adopted
    /\ Names \subseteq Nat /\ Piles \subseteq [Names -> Images] /\ {Empty, JobPages} \subseteq Piles
    /\ MaxEdits \in Nat /\ MaxDeaths \in Nat /\ MaxCopies \in Nat

\* copies[b] is what the numbered copies beside b's record say, found when the record is gone;
\* no part of the program: `torn`, the batches whose record a death took away, and `standing`,
\* those agreed since while no process held an older copy of the record
VARIABLES folders, registry, copies, read, scanner, agent, edits, deaths, torn, standing

vars == <<folders, registry, copies, read, scanner, agent, edits, deaths, torn, standing>>

Ids == Adopted \cup {JobFolder}

\* pipeline/batch_record.py, and a registry of no such file; a record without a page, of a job
\* moved away before it was registered, is matched by nothing and counts as none
Records == [path: Folders, pages: Piles, agreed: BOOLEAN, changed: BOOLEAN]
Fresh(f, pages) == [path |-> f, pages |-> pages, agreed |-> FALSE, changed |-> FALSE]
NoRecord == Fresh(JobFolder, Empty)

\* list_batches and _existing_records: a copy is taken for a record when its base is gone
Found(b) == IF registry[b] # NoRecord THEN {registry[b]} ELSE copies[b]
Entries == UNION {{[batch |-> b, record |-> r] : r \in Found(b)} : b \in Ids}

\* an agent's folder and its pages as hashed, the batch it writes, the record in its memory,
\* and which copy it was found in, when no base was
Idle == [who |-> "worker", pc |-> "idle", folder |-> JobFolder, seen |-> Empty, batch |-> JobFolder,
         copy |-> NoRecord, foundIn |-> NoRecord]

Steps == {"idle", "match", "save", "save and clear", "clear", "begin", "stale", "consume", "read"}
AgentStates == [who: Agents, pc: Steps, folder: Folders, seen: Piles, batch: Ids, copy: Records, foundIn: Records]

TypeOK ==
    /\ folders \in [Folders -> Piles]
    /\ registry \in [Ids -> Records]
    /\ copies \in [Ids -> SUBSET Records]
    /\ read \in [Ids -> [Names -> Texts]]
    /\ scanner \in {"idle", "published", "done"}
    /\ agent \in AgentStates
    /\ edits \in 0..MaxEdits /\ deaths \in 0..MaxDeaths
    /\ torn \subseteq Ids /\ standing \subseteq Ids

Init ==
    /\ \E pages \in Piles : folders = [f \in Folders |-> IF f = Home THEN pages ELSE Empty]
    /\ registry = [b \in Ids |-> NoRecord]
    /\ copies = [b \in Ids |-> {}]
    /\ read = [b \in Ids |-> Unread]
    /\ scanner = "idle"
    /\ agent = Idle
    /\ edits = 0 /\ deaths = 0
    /\ torn = {} /\ standing = {}

-----------------------------------------------------------------------------
\* The user adds, removes, rescans or renames pages, and moves or copies a folder.

Disk == <<registry, copies, read, torn, standing>>

Edit(f, pages) ==
    /\ edits < MaxEdits /\ f # JobFolder /\ pages # folders[f]
    /\ edits' = edits + 1
    /\ folders' = [folders EXCEPT ![f] = pages]
    /\ UNCHANGED <<Disk, scanner, agent, deaths>>

Move(f, g) ==
    /\ edits < MaxEdits /\ folders[f] # Empty /\ folders[g] = Empty /\ g # JobFolder
    /\ edits' = edits + 1
    /\ folders' = [folders EXCEPT ![f] = Empty, ![g] = folders[f]]
    /\ UNCHANGED <<Disk, scanner, agent, deaths>>

-----------------------------------------------------------------------------
\* The registry.

\* the copies beside a record that are remembered: none when no death is left to uncover them
Kept(b) ==
    IF deaths = MaxDeaths THEN {}
    ELSE IF registry[b] = NoRecord \/ Cardinality(copies[b]) >= MaxCopies THEN copies[b]
    ELSE copies[b] \cup {registry[b]}

\* PipelineStore.write: what the record said is copied to a number before it is replaced
Write(b, r) ==
    /\ registry' = [registry EXCEPT ![b] = r]
    /\ copies' = [copies EXCEPT ![b] = Kept(b)]
    /\ UNCHANGED <<torn, standing>>

\* ... of a record that was found in one of its copies, as adoption writes it; another copy may
\* have said the same
WriteCopy(b, old, r) ==
    /\ \E kept \in {copies[b], copies[b] \ {old}} : copies' = [copies EXCEPT ![b] = kept \cup {r}]
    /\ UNCHANGED <<registry, torn, standing>>

\* ... cut by a death between the delete and the write, when the newest copy is always found
TakenAway(b) ==
    /\ registry[b] # NoRecord /\ deaths < MaxDeaths
    /\ deaths' = deaths + 1
    /\ registry' = [registry EXCEPT ![b] = NoRecord]
    /\ copies' = [copies EXCEPT ![b] = @ \cup {registry[b]}]
    /\ torn' = torn \cup {b} /\ standing' = standing \ {b}

-----------------------------------------------------------------------------
\* tools/scan.py: the job is staged elsewhere and renamed into place whole, or not at all

Publish ==
    /\ scanner = "idle" /\ folders[JobFolder] = Empty
    /\ scanner' = "published"
    /\ folders' = [folders EXCEPT ![JobFolder] = JobPages]
    /\ UNCHANGED <<Disk, agent, edits, deaths>>

\* register_batch writes the job's record without looking for another one of the pile
Register ==
    /\ scanner = "published"
    /\ scanner' = "done"
    /\ registry' = [registry EXCEPT ![JobFolder] = Fresh(JobFolder, folders[JobFolder])]
    /\ UNCHANGED <<folders, copies, read, agent, edits, deaths, torn, standing>>

ScannerDies ==
    /\ scanner = "published" /\ deaths < MaxDeaths
    /\ scanner' = "done" /\ deaths' = deaths + 1
    /\ UNCHANGED <<Disk, folders, agent, edits>>

-----------------------------------------------------------------------------
\* register_adopted, for one folder: hash, match, save, and clear the work directory

Become(new) == agent' = new
Think(new) == Become(new) /\ UNCHANGED <<Disk, folders, scanner, edits, deaths>>
Stay == UNCHANGED <<folders, scanner, edits, deaths>>

Hash(f) ==
    /\ agent.pc = "idle" /\ folders[f] # Empty
    /\ Think([Idle EXCEPT !.pc = "match", !.folder = f, !.seen = folders[f]])

\* the fingerprint is the sorted hashes: it does not say which name has which
Hashes(pages) == {pages[n] : n \in Names} \ {NoPage}
SameFingerprint(pages, others) ==
    \A c \in Contents : Cardinality({n \in Names : pages[n] = c}) = Cardinality({n \in Names : others[n] = c})
Exact == {e \in Entries : SameFingerprint(e.record.pages, agent.seen)}

Overlap(e) == Cardinality(Hashes(e.record.pages) \cap Hashes(agent.seen))
AtLeastHalf(n, pages) == n >= 1 /\ n >= Cardinality(Hashes(pages)) \div 2
Here == {e \in Entries : e.record.path = agent.folder /\ Overlap(e) > 0}
Elsewhere == {e \in Entries :
    AtLeastHalf(Overlap(e), agent.seen) /\ AtLeastHalf(Overlap(e), e.record.pages)}
Best(candidates) == {e \in candidates : \A d \in candidates : Overlap(e) >= Overlap(d)}
SamePile == IF Here # {} THEN Best(Here) ELSE Best(Elsewhere)

\* the record in hand is written back to the file that it was found in
WriteBack(next, e, r) ==
    Think([agent EXCEPT !.pc = next, !.batch = e.batch, !.copy = r,
                        !.foundIn = IF registry[e.batch] = NoRecord THEN e.record ELSE NoRecord])

\* variant: a record with the folder's pages will do, wherever it lies
RegisteredAnywhere == agent.pc = "match" /\ Exact # {} /\ Think(Idle)

AlreadyRegistered ==
    /\ agent.pc = "match"
    /\ \E e \in Exact : e.record.path = agent.folder
    /\ Think(Idle)

\* the folder moved: its record follows it; the first record found decides, here any of them
ReHome(e) ==
    /\ agent.pc = "match" /\ e \in Exact /\ e.record.path # agent.folder
    /\ WriteBack("save", e, [e.record EXCEPT !.path = agent.folder])

Requeue(e, next, flag) ==
    /\ agent.pc = "match" /\ Exact = {} /\ e \in SamePile
    /\ WriteBack(next, e, [e.record EXCEPT !.path = agent.folder, !.pages = agent.seen, !.changed = flag])
Confirmed(e) == e.record.agreed

ContentUnflagged(e) == Requeue(e, IF Confirmed(e) THEN "save" ELSE "save and clear", e.record.changed)  \* variant
ContentCleared(e) == Requeue(e, "save and clear", TRUE)  \* variant: whatever was agreed
ContentChanged(e) == Requeue(e, IF Confirmed(e) THEN "save" ELSE "save and clear", TRUE)

\* an id is a time stamp: no two batches share one, saved or about to be
Unminted == {b \in Adopted : Found(b) = {} /\ b # agent.batch}

RegisterNew ==
    /\ agent.pc = "match" /\ Exact = {} /\ SamePile = {} /\ Unminted # {}
    /\ Think([agent EXCEPT !.pc = "save", !.batch = CHOOSE b \in Unminted : TRUE,
                           !.copy = Fresh(agent.folder, agent.seen)])

Save ==
    /\ agent.pc \in {"save", "save and clear"}
    /\ \/ agent.foundIn = NoRecord /\ Write(agent.batch, agent.copy)
       \/ agent.foundIn # NoRecord /\ WriteCopy(agent.batch, agent.foundIn, agent.copy)
    /\ Become(IF agent.pc = "save" THEN Idle ELSE [agent EXCEPT !.pc = "clear"])
    /\ UNCHANGED read /\ Stay

ClearWork ==
    /\ agent.pc = "clear"
    /\ read' = [read EXCEPT ![agent.batch] = Unread]
    /\ Become(Idle)
    /\ UNCHANGED <<registry, copies, torn, standing>> /\ Stay

-----------------------------------------------------------------------------
\* A pass over a batch.  The worker takes what its sweep has listed, a copy too, whatever the
\* record asks for; the command line loads the record, and it alone consumes the flag.

Take(a, e) ==
    /\ agent = Idle /\ e \in Entries
    /\ a = "cli" => registry[e.batch] # NoRecord
    /\ Think([Idle EXCEPT !.who = a, !.pc = "begin", !.batch = e.batch, !.copy = e.record])

BeginPass ==
    /\ agent.pc = "begin"
    /\ Write(agent.batch, agent.copy)
    /\ Become([agent EXCEPT !.pc = IF agent.who = "cli" /\ agent.copy.changed THEN "stale" ELSE "read"])
    /\ UNCHANGED read /\ Stay

ClearStaleStages ==
    /\ agent.pc = "stale"
    /\ read' = [read EXCEPT ![agent.batch] = Unread]
    /\ Become([agent EXCEPT !.pc = "consume", !.copy.changed = FALSE])
    /\ UNCHANGED <<registry, copies, torn, standing>> /\ Stay

ConsumeFlag ==
    /\ agent.pc = "consume"
    /\ Write(agent.batch, agent.copy)
    /\ Become([agent EXCEPT !.pc = "read"])
    /\ UNCHANGED read /\ Stay

\* a page that the record lists is turned upright and read, once; the image is the folder's of
\* that name, whatever hash the record has
Image(n) == folders[agent.copy.path][n]
Waiting(n) == agent.copy.pages[n] # NoPage /\ read[agent.batch][n] = NoText /\ Image(n) # NoPage

\* variant: the record's own list of pages is the list of what is left to read
ReadPopped(n) ==
    /\ agent.pc = "read" /\ Waiting(n)
    /\ read' = [read EXCEPT ![agent.batch][n] = [image |-> Image(n), listed |-> agent.copy.pages[n]]]
    /\ Become([agent EXCEPT !.copy.pages[n] = NoPage])
    /\ UNCHANGED <<registry, copies, torn, standing>> /\ Stay

ReadPage(n) ==
    /\ agent.pc = "read" /\ Waiting(n) /\ \A m \in Names : m < n => ~Waiting(m)
    /\ read' = [read EXCEPT ![agent.batch][n] = [image |-> Image(n), listed |-> agent.copy.pages[n]]]
    /\ UNCHANGED <<registry, copies, torn, standing, agent>> /\ Stay

\* the record is loaded again for the status, which may be refused; a page without an image is
\* passed over ...
FinishPass ==
    LET b == agent.batch IN
    /\ agent.pc = "read" /\ \A n \in Names : ~Waiting(n)
    /\ \/ registry[b] = NoRecord /\ UNCHANGED <<registry, copies, torn, standing>>
       \/ registry[b] # NoRecord /\ Write(b, registry[b])
    /\ Become(Idle)
    /\ UNCHANGED read /\ Stay

\* ... or fails the pass, as an answer may; the command line then writes the record it holds
FailPass ==
    /\ agent.pc = "read"
    /\ \/ agent.who = "worker" /\ UNCHANGED <<registry, copies, torn, standing>>
       \/ agent.who = "cli" /\ Write(agent.batch, agent.copy)
    /\ Become(Idle)
    /\ UNCHANGED read /\ Stay

\* between "begin" and "read" a death cuts a write or falls between two
Writing == {"save", "save and clear", "begin", "consume", "read"}

AgentDies ==
    /\ agent.pc # "idle"
    /\ \/ deaths < MaxDeaths /\ deaths' = deaths + 1 /\ UNCHANGED <<registry, copies, torn, standing>>
       \/ agent.pc \in Writing /\ agent.foundIn = NoRecord /\ TakenAway(agent.batch)
    /\ Become(Idle)
    /\ UNCHANGED <<read, folders, scanner, edits>>

-----------------------------------------------------------------------------
\* The reviewer agrees a document of a batch: approve_page, whose write makes a copy, or
\* record_confirmation, whose does not.  One batch is agreed at a time, a bound.

\* the agent has b's record in hand, or its work to erase, by what the record said before
HoldsOlder(b) ==
    /\ agent.batch = b
    /\ \/ agent.pc \in {"save", "save and clear", "clear", "begin", "stale", "consume"}
       \/ agent.pc = "read" /\ agent.who = "cli"

Agree(b) ==
    /\ registry[b] # NoRecord /\ \A c \in Ids : ~registry[c].agreed
    /\ registry' = [registry EXCEPT ![b].agreed = TRUE]
    /\ copies' \in {copies, [copies EXCEPT ![b] = Kept(b)]}
    /\ standing' = IF HoldsOlder(b) THEN standing ELSE standing \cup {b}
    /\ UNCHANGED <<read, torn, agent>> /\ Stay

ServerDies(b) ==
    /\ TakenAway(b)
    /\ UNCHANGED <<read, agent, folders, scanner, edits>>

-----------------------------------------------------------------------------
Adopting ==
    \/ AlreadyRegistered \/ RegisterNew \/ Save \/ ClearWork
    \/ \E e \in Entries : ReHome(e) \/ ContentChanged(e)
Passing == BeginPass \/ ClearStaleStages \/ ConsumeFlag \/ (\E n \in Names : ReadPage(n)) \/ FinishPass
Step == Adopting \/ Passing

Next ==
    \/ \E f \in Folders, pages \in Piles : Edit(f, pages)
    \/ \E f, g \in Folders : Move(f, g)
    \/ Publish \/ Register \/ ScannerDies
    \/ \E f \in Folders : Hash(f)
    \/ \E e \in Entries, a \in Agents : Take(a, e)
    \/ \E b \in Ids : Agree(b) \/ ServerDies(b)
    \/ Step \/ FailPass \/ AgentDies

\* the worker sweeps: it adopts every folder and steps through what it began
Fairness ==
    /\ WF_vars(Step)
    /\ \A f \in Folders : SF_vars(Hash(f))

Spec == Init /\ [][Next]_vars /\ Fairness

-----------------------------------------------------------------------------
\* Text read from an image as the record listed it is kept, when the record comes to list
\* another, only with the flag that asks for a manual review (adopt.py, apply_content_changed),
\* whatever process died.  Two things are left out: the text of an image that was replaced under
\* its name between adoption and reading, of which nothing is noted, and a record that a death
\* took away, of which an older copy may come back.
StaleWorkFlagged ==
    \A b \in Ids \ torn, n \in Names :
        LET text == read[b][n] IN
        text # NoText /\ text.image = text.listed =>
            registry[b].pages[n] = text.listed \/ registry[b].changed

\* Every pile of the scan area is, again and again, on record at its place with the pages it
\* holds: also when the scanner died before it registered its job, when two folders hold the
\* same pages, whose one record each sweep moves from the one to the other, and when a death
\* took the record away and its copies are found instead.
Filed(f) ==
    \/ folders[f] = Empty
    \/ \E e \in Entries : e.record.path = f /\ SameFingerprint(e.record.pages, folders[f])
PileRegistered == \A f \in Folders : []<>Filed(f)

\* Once a document of a batch is agreed, no adoption and no pass takes that back or erases the
\* work (adopt.py, confirmed), but the stages that the command line clears for a flag; unless
\* the agreement came while a process held the record as it was before, or a death took the
\* record away.
ConfirmedWorkKept ==
    [][\A b \in standing \cap standing' :
        /\ registry'[b].agreed
        /\ agent.pc = "stale" \/ \A n \in Names : read[b][n] # NoText => read'[b][n] # NoText]_vars
=============================================================================
