----------------------------- MODULE BatchQueue -----------------------------
(***************************************************************************)
(* The ingest queue: one registry record per batch, the worker and the     *)
(* command-line passes that run a batch's missing stages, and the server's *)
(* request threads that write the same records (pipeline/worker.py,        *)
(* reconcile.py, stage_table.py, chain.py, registry.py, api/sync.py).      *)
(*                                                                         *)
(* Nothing locks a record: every writer reads it, works on its own copy    *)
(* and writes the whole copy back, with minutes of model calls in between. *)
(* Each load and each store is therefore a step of its own, and the copy   *)
(* an agent carries is part of its state.                                  *)
(*                                                                         *)
(* A store is PipelineStore.write: the old content is kept as a numbered   *)
(* copy and the base file deleted, then the new content is written, and a  *)
(* process may die in between.  While the base is away a batch list shows  *)
(* the copies as records, and a load of the batch raises.  VersionedStore  *)
(* has the file operations one by one; a batch list is read in one step.   *)
(***************************************************************************)
EXTENDS Naturals, FiniteSets

CONSTANTS
  Batches,      \* the registered batches
  Pages,        \* the pages of a batch
  Route,        \* page |-> how its category is read: "rows", "direct", "none"
  Workers,      \* processes running `./loft work`
  Clis,         \* processes running `pipeline process <batch>`
  Threads,      \* the server's request and job threads
  MayRaise,     \* batches a model call may fail on
  MayBeBlank,   \* <<batch, page>> whose reading may come back with nothing
  MaxLife,      \* bound: starts and deaths of one process
  MaxCopies,    \* bound: different past records of one batch
  None

ASSUME RouteAssumption == Route \in [Pages -> {"rows", "direct", "none"}]
ASSUME AgentsAssumption ==
  Workers \cap Clis = {} /\ Workers \cap Threads = {} /\ Clis \cap Threads = {}
ASSUME FaultsAssumption ==
  MayRaise \subseteq Batches /\ MayBeBlank \subseteq Batches \X Pages
ASSUME BoundsAssumption == MaxLife \in Nat /\ MaxCopies \in Nat

VARIABLES
  registry,   \* batch |-> the record its base file holds, or held last
  whole,      \* the batches whose base file is there
  copies,     \* batch |-> the past records kept as numbered copies
  tree,       \* batch |-> the artefacts in its work directory
  agent,      \* agent |-> where it is and the copies it holds
  life        \* process |-> its incarnation; odd while it runs

disk == <<registry, whole, copies>>
vars == <<registry, whole, copies, tree, agent, life>>

-----------------------------------------------------------------------------
(* State.                                                                  *)

Processes == Workers \cup Clis
Agents    == Processes \cup Threads

RowPages    == {p \in Pages : Route[p] = "rows"}
DirectPages == {p \in Pages : Route[p] = "direct"}
TextPages   == RowPages \cup DirectPages

Status == {"pending", "importing", "review", "confirmed"}
Stamp  == [process: Processes, life: Nat]

\* agreed: the pages of the record's boundaries that a person agreed
Record == [status: Status, stamp: Stamp \cup {None}, agreed: SUBSET Pages]

ASSUME NoneAssumption == None \notin Record

\* marked: pages with a read marker; texts: pages whose text file is the
\* marked reading's; drawn: pages with drawn rows their reading lacks
Tree == [classified: BOOLEAN, oriented: SUBSET Pages, marked: SUBSET Pages,
         texts: SUBSET Pages, drawn: SUBSET Pages, grouped: BOOLEAN]

\* where an agent writes a record back
StorePlace == {"set_store", "begin_store", "cli_store", "direct_store",
               "close_store", "group_store", "finish_store", "fail_store",
               "review", "confirm"}

Place == StorePlace \cup
         {"idle", "start", "requeue", "set_load", "sweep", "loop", "direct_load",
          "direct", "direct_read", "direct_mark", "close_load", "rows",
          "rows_read", "rows_text", "group", "finish_load"}

\* held: the record as last loaded; taken: the base file is out of the way of
\* the agent's write; listed: the records of a batch list that are still to
\* be looked at (of a command-line pass: the one it loaded); todo, page: the
\* pages left in a read loop, and the one at the model
Agent == [at: Place, on: Batches \cup {None}, held: Record \cup {None},
          taken: BOOLEAN, listed: [Batches -> SUBSET Record],
          todo: SUBSET Pages, page: Pages \cup {None}]

FreshRecord == [status |-> "pending", stamp |-> None, agreed |-> {}]
EmptyTree   == [classified |-> FALSE, oriented |-> {}, marked |-> {},
                texts |-> {}, drawn |-> {}, grouped |-> FALSE]
Resting     == [at |-> "idle", on |-> None, held |-> None, taken |-> FALSE,
                listed |-> [b \in Batches |-> {}], todo |-> {}, page |-> None]

TypeOK ==
  /\ registry \in [Batches -> Record]
  /\ whole \in SUBSET Batches
  /\ copies \in [Batches -> SUBSET Record]
  /\ tree \in [Batches -> Tree]
  /\ agent \in [Agents -> Agent]
  /\ life \in [Processes -> Nat]

Init ==
  /\ registry = [b \in Batches |-> FreshRecord]
  /\ whole = Batches
  /\ copies = [b \in Batches |-> {}]
  /\ tree = [b \in Batches |-> EmptyTree]
  /\ agent = [a \in Agents |-> Resting]
  /\ life = [p \in Processes |-> 0]

Running(p) == life[p] % 2 = 1

\* (variant, for the runs' sensitivity) any stamp counts as a live pass
AnyStampAlive(record) == record.stamp # None

\* The stamp's pid is that of a process that still runs.
PassAlive(record) ==
  /\ record.stamp # None
  /\ life[record.stamp.process] = record.stamp.life

\* (variant) the group stage listed before the read stage
GroupBeforeRead(b) ==
  LET t == tree[b] IN
  IF ~t.classified                              THEN "classify"
  ELSE IF ~(RowPages \subseteq t.oriented)      THEN "orient"
  ELSE IF TextPages # {} /\ ~t.grouped          THEN "group"
  ELSE IF ~(TextPages \subseteq t.marked)       THEN "read"
  ELSE "none"

\* What plan_stages finds missing, in the order of the stage table.
Gap(b) ==
  LET t == tree[b] IN
  IF ~t.classified                              THEN "classify"
  ELSE IF ~(RowPages \subseteq t.oriented)      THEN "orient"
  ELSE IF ~(TextPages \subseteq t.marked)       THEN "read"
  ELSE IF TextPages # {} /\ ~t.grouped          THEN "group"
  ELSE "none"

-----------------------------------------------------------------------------
(* Shapes of a step.                                                       *)

At(a, place) == agent[a].at = place
On(a) == agent[a].on
Held(a) == agent[a].held

Become(a, state) == agent' = [agent EXCEPT ![a] = state]
Go(a, place) == Become(a, [agent[a] EXCEPT !.at = place])

\* load_batch, into the agent's own copy; with the base away it raises
Load(a, b, place) ==
  /\ b \in whole
  /\ Become(a, [agent[a] EXCEPT !.at = place, !.on = b, !.held = registry[b]])
  /\ UNCHANGED <<disk, tree, life>>

\* PipelineStore.write: the base's content is kept as a copy and the base
\* deleted (with no base there is nothing to do) ...
TakeAway(a) ==
  /\ agent[a].at \in StorePlace /\ ~agent[a].taken
  /\ whole' = whole \ {On(a)}
  /\ copies' = IF On(a) \in whole
               THEN [copies EXCEPT ![On(a)] = @ \cup {registry[On(a)]}] ELSE copies
  /\ \A b \in Batches : Cardinality(copies'[b]) <= MaxCopies
  /\ Become(a, [agent[a] EXCEPT !.taken = TRUE])
  /\ UNCHANGED <<registry, tree, life>>

\* ... and the whole of the agent's copy goes into its place, whatever the
\* disk held; write_new refuses a base that another writer put there
Put(a, record) ==
  /\ agent[a].taken /\ On(a) \notin whole
  /\ registry' = [registry EXCEPT ![On(a)] = record]
  /\ whole' = whole \cup {On(a)}
  /\ UNCHANGED copies

Store(a, record, place) ==
  /\ Put(a, record)
  /\ Become(a, [agent[a] EXCEPT !.at = place, !.held = None, !.taken = FALSE])
  /\ UNCHANGED <<tree, life>>

\* The agent leaves its batch: a worker turns to the rest of its list, a
\* thread has answered, and a command-line process ends.
Leave(a) ==
  /\ Become(a, IF a \in Workers
               THEN [Resting EXCEPT !.at = IF At(a, "set_load") \/ At(a, "set_store")
                                           THEN "requeue" ELSE "sweep",
                                    !.listed = agent[a].listed]
               ELSE Resting)
  /\ life' = IF a \in Clis THEN [life EXCEPT ![a] = @ + 1] ELSE life

StoreAndLeave(a, record) ==
  /\ Put(a, record)
  /\ Leave(a)
  /\ UNCHANGED tree

\* list_batches: the base's record, or every copy's while the base is away
Listing(b) == IF b \in whole THEN {registry[b]} ELSE copies[b]
AllListed  == [b \in Batches |-> Listing(b)]

Listed(a) == {b \in Batches : agent[a].listed[b] # {}}

\* the list without b's record
Struck(a, b, record) == [agent[a].listed EXCEPT ![b] = @ \ {record}]

\* a batch list of one
Only(b, record) == [c \in Batches |-> IF c = b THEN {record} ELSE {}]

Stamped(a, record) ==
  [record EXCEPT !.status = "importing",
                 !.stamp = [process |-> a, life |-> life[a]]]

-----------------------------------------------------------------------------
(* registry.set_status: re-read the record, then put it back in the queue  *)
(* with no stamp.                                                          *)

SetStatusLoad(a) ==
  /\ At(a, "set_load") /\ On(a) \in whole
  /\ LET record == registry[On(a)] IN
       IF record.status = "pending" /\ record.stamp = None
       THEN Leave(a) /\ UNCHANGED <<disk, tree>>
       ELSE Load(a, On(a), "set_store")

\* (variant) a new record in place of the one re-read
SetStatusAfresh(a) ==
  /\ At(a, "set_store")
  /\ StoreAndLeave(a, FreshRecord)

SetStatusStore(a) ==
  /\ At(a, "set_store")
  /\ StoreAndLeave(a, [Held(a) EXCEPT !.status = "pending", !.stamp = None])

-----------------------------------------------------------------------------
(* The worker: sweep = requeue the dead, then reconcile the listed records *)
(* one after another; an event reconciles one.                             *)

Start(w) ==
  /\ ~Running(w) /\ life[w] < MaxLife
  /\ life' = [life EXCEPT ![w] = @ + 1]
  /\ Become(w, [Resting EXCEPT !.at = "start"])
  /\ UNCHANGED <<disk, tree>>

\* a resync: the first thing a started worker does, and again when a quiet
\* interval has passed
ListForRequeue(w) ==
  /\ Running(w) /\ (At(w, "start") \/ At(w, "idle"))
  /\ Become(w, [agent[w] EXCEPT !.at = "requeue", !.listed = AllListed])
  /\ UNCHANGED <<disk, tree, life>>

\* the next listed record: put back when its pass is judged dead
RequeueIf(dead, w, b, record) ==
  /\ At(w, "requeue") /\ record \in agent[w].listed[b]
  /\ Become(w, [agent[w] EXCEPT !.at = IF dead THEN "set_load" ELSE "requeue",
                                !.on = IF dead THEN b ELSE None,
                                !.listed = Struck(w, b, record)])
  /\ UNCHANGED <<disk, tree, life>>

RequeueNext(w, b, record) ==
  RequeueIf(record.status = "importing" /\ ~PassAlive(record), w, b, record)

\* list_batches: read once, before the first batch is run
ListForSweep(w) ==
  /\ At(w, "requeue") /\ Listed(w) = {}
  /\ Become(w, [agent[w] EXCEPT !.at = "sweep", !.listed = AllListed])
  /\ UNCHANGED <<disk, tree, life>>

FileEvent(w, b) ==
  /\ Running(w) /\ At(w, "idle")
  /\ \E record \in Listing(b) :
       Become(w, [agent[w] EXCEPT !.at = "sweep", !.listed = Only(b, record)])
  /\ UNCHANGED <<disk, tree, life>>

Reconcilable(w, b, record) ==
  /\ At(w, "sweep") /\ record \in agent[w].listed[b]
  /\ ~PassAlive(record)
  /\ Gap(b) # "none"

PassOver(w, b, record) ==
  /\ At(w, "sweep") /\ record \in agent[w].listed[b]
  /\ ~Reconcilable(w, b, record)
  /\ Become(w, [agent[w] EXCEPT !.listed = Struck(w, b, record)])
  /\ UNCHANGED <<disk, tree, life>>

\* Reconciler.run stamps the LISTED record and writes it back
BeginPass(w, b, record) ==
  /\ Reconcilable(w, b, record)
  /\ Become(w, [agent[w] EXCEPT !.at = "begin_store", !.on = b,
                                !.held = Stamped(w, record),
                                !.listed = Struck(w, b, record)])
  /\ UNCHANGED <<disk, tree, life>>

BeginStore(w) == At(w, "begin_store") /\ Store(w, Held(w), "loop")

SweepDone(w) ==
  /\ At(w, "sweep") /\ Listed(w) = {}
  /\ Go(w, "idle")
  /\ UNCHANGED <<disk, tree, life>>

-----------------------------------------------------------------------------
(* `pipeline process`: no look at the stamp; the stamped record is kept    *)
(* (a list of one) for the failure path.                                   *)

CliLoad(c, b) ==
  /\ ~Running(c) /\ life[c] < MaxLife /\ b \in whole
  /\ life' = [life EXCEPT ![c] = @ + 1]
  /\ Become(c, [Resting EXCEPT !.at = "cli_store", !.on = b, !.held = registry[b]])
  /\ UNCHANGED <<disk, tree>>

CliStore(c) ==
  /\ At(c, "cli_store")
  /\ LET record == Stamped(c, Held(c)) IN
       /\ Put(c, record)
       /\ Become(c, [agent[c] EXCEPT !.at = "loop", !.held = None, !.taken = FALSE,
                                     !.listed = Only(On(c), record)])
  /\ UNCHANGED <<tree, life>>

-----------------------------------------------------------------------------
(* run_plan: the first gap's stage, then look again.                       *)

Classify(m) ==
  /\ At(m, "loop") /\ Gap(On(m)) = "classify"
  /\ tree' = [tree EXCEPT ![On(m)].classified = TRUE]
  /\ UNCHANGED <<disk, agent, life>>

Orient(m, p) ==
  /\ At(m, "loop") /\ Gap(On(m)) = "orient" /\ p \in RowPages
  /\ p \notin tree[On(m)].oriented
  /\ tree' = [tree EXCEPT ![On(m)].oriented = @ \cup {p}]
  /\ UNCHANGED <<disk, agent, life>>

\* read_all: the direct read over every direct page, then the row pages
BeginRead(m) ==
  /\ At(m, "loop") /\ Gap(On(m)) = "read"
  /\ IF DirectPages # {}
     THEN Become(m, [agent[m] EXCEPT !.at = "direct_load", !.todo = DirectPages])
     ELSE Become(m, [agent[m] EXCEPT !.at = "rows", !.todo = RowPages])
  /\ UNCHANGED <<disk, tree, life>>

DirectLoad(m) == At(m, "direct_load") /\ Load(m, On(m), "direct_store")

DirectStore(m) ==
  At(m, "direct_store") /\ Store(m, Stamped(m, Held(m)), "direct")

\* The read loops: a page whose marker stands (and carries its drawn rows)
\* is skipped, and so is a row page that is not oriented; any other is sent
\* to the model.
ToRead(a, p) ==
  /\ p \notin tree[On(a)].marked \/ p \in tree[On(a)].drawn
  /\ At(a, "rows") => p \in tree[On(a)].oriented

SkipPage(a, p) ==
  /\ At(a, "direct") \/ At(a, "rows")
  /\ p \in agent[a].todo /\ ~ToRead(a, p)
  /\ Become(a, [agent[a] EXCEPT !.todo = @ \ {p}])
  /\ UNCHANGED <<disk, tree, life>>

\* (variant) the loop forgets which page is at the model
ReadUnnamed(a, p) ==
  /\ At(a, "direct") \/ At(a, "rows")
  /\ p \in agent[a].todo /\ ToRead(a, p)
  /\ Become(a, [agent[a] EXCEPT !.at = IF At(a, "direct") THEN "direct_read" ELSE "rows_read",
                                !.todo = @ \ {p}])
  /\ UNCHANGED <<disk, tree, life>>

ReadPage(a, p) ==
  /\ At(a, "direct") \/ At(a, "rows")
  /\ p \in agent[a].todo /\ ToRead(a, p)
  /\ Become(a, [agent[a] EXCEPT !.at = IF At(a, "direct") THEN "direct_read" ELSE "rows_read",
                                !.page = p, !.todo = @ \ {p}])
  /\ UNCHANGED <<disk, tree, life>>

\* the page has no image, or its reading came back with nothing
BlankPage(a) ==
  /\ At(a, "direct_read") \/ At(a, "rows_read")
  /\ <<On(a), agent[a].page>> \in MayBeBlank
  /\ agent[a].page \notin tree[On(a)].drawn
  /\ Become(a, [agent[a] EXCEPT !.at = IF At(a, "direct_read") THEN "direct" ELSE "rows",
                                !.page = None])
  /\ UNCHANGED <<disk, tree, life>>

\* a direct page: its text, then its marker
DirectText(m) ==
  /\ At(m, "direct_read")
  /\ tree' = [tree EXCEPT ![On(m)].texts = @ \cup {agent[m].page}]
  /\ Go(m, "direct_mark")
  /\ UNCHANGED <<disk, life>>

DirectMark(m) ==
  /\ At(m, "direct_mark")
  /\ tree' = [tree EXCEPT ![On(m)].marked = @ \cup {agent[m].page}]
  /\ Become(m, [agent[m] EXCEPT !.at = "direct", !.page = None])
  /\ UNCHANGED <<disk, life>>

DirectDone(m) ==
  /\ At(m, "direct") /\ agent[m].todo = {}
  /\ Go(m, "close_load")
  /\ UNCHANGED <<disk, tree, life>>

CloseLoad(m) == At(m, "close_load") /\ Load(m, On(m), "close_store")

\* _direct_read ends by writing `review`, with the row pages still to come
CloseStore(m) ==
  /\ At(m, "close_store")
  /\ Put(m, [Held(m) EXCEPT !.status = "review"])
  /\ Become(m, [agent[m] EXCEPT !.at = "rows", !.held = None, !.taken = FALSE,
                                !.todo = RowPages])
  /\ UNCHANGED <<tree, life>>

\* the tree once p's rows are written, and its text not yet; and without them
RowsWritten(t, p) ==
  [t EXCEPT !.marked = t.marked \cup {p}, !.texts = t.texts \ {p},
            !.drawn = t.drawn \ {p}]
RowsDropped(t, p) ==
  [t EXCEPT !.marked = t.marked \ {p}, !.texts = t.texts \ {p},
            !.drawn = t.drawn \ {p}]

\* A row page: its marker (rows and words), then its text.  The reading of
\* drawn rows takes the same way; its marker carries their sha.
RowMark(a) ==
  /\ At(a, "rows_read")
  /\ tree' = [tree EXCEPT ![On(a)] = RowsWritten(tree[On(a)], agent[a].page)]
  /\ Go(a, "rows_text")
  /\ UNCHANGED <<disk, life>>

RowText(a) ==
  /\ At(a, "rows_text")
  /\ tree' = [tree EXCEPT ![On(a)].texts = @ \cup {agent[a].page}]
  /\ Become(a, [agent[a] EXCEPT !.at = "rows", !.page = None])
  /\ UNCHANGED <<disk, life>>

\* a pass looks for the next gap; a re-read job is over
RowsDone(a) ==
  /\ At(a, "rows") /\ agent[a].todo = {}
  /\ IF a \in Threads THEN Leave(a) ELSE Go(a, "loop") /\ UNCHANGED life
  /\ UNCHANGED <<disk, tree>>

\* the group stage loads the record BEFORE its model calls ...
GroupLoad(m) ==
  At(m, "loop") /\ Gap(On(m)) = "group" /\ Load(m, On(m), "group")

GroupFile(m) ==
  /\ At(m, "group")
  /\ tree' = [tree EXCEPT ![On(m)].grouped = TRUE]
  /\ Go(m, "group_store")
  /\ UNCHANGED <<disk, life>>

\* ... and writes that copy after them, with fresh boundaries nobody agreed
GroupStore(m) ==
  At(m, "group_store") /\ Store(m, [Held(m) EXCEPT !.agreed = {}], "loop")

PlanDone(m) ==
  /\ At(m, "loop") /\ Gap(On(m)) = "none"
  /\ Go(m, "finish_load")
  /\ UNCHANGED <<disk, tree, life>>

FinishLoad(m) == At(m, "finish_load") /\ Load(m, On(m), "finish_store")

\* (variant) the pass ends without the last write
FinishUnwritten(m) ==
  At(m, "finish_store") /\ Leave(m) /\ UNCHANGED <<disk, tree>>

\* the stamp stays in the record
FinishStore(m) ==
  /\ At(m, "finish_store")
  /\ StoreAndLeave(m, [Held(m) EXCEPT !.status = "review"])

\* What raises: a model call, ...
InModelCall(a) ==
  \/ At(a, "loop") /\ Gap(On(a)) \in {"classify", "orient"}
  \/ At(a, "direct_read") \/ At(a, "rows_read") \/ At(a, "group")

\* ... a load of a record whose base is away, ...
LoadsNothing(a) ==
  /\ \/ At(a, "set_load") \/ At(a, "direct_load") \/ At(a, "close_load")
     \/ At(a, "finish_load")
     \/ At(a, "loop") /\ Gap(On(a)) = "group"
  /\ On(a) \notin whole

\* ... and write_new on a base that is there again
FindsTheBase(a) == agent[a].taken /\ On(a) \in whole

\* Nothing in requeue_dead catches an exception: it ends the worker, which is
\* started again.  An incarnation that stamped no record cannot be told from
\* the next and keeps its number (the bound on deaths is on the others).
WorkerEnds(w) ==
  LET mine(record) == record.stamp = [process |-> w, life |-> life[w]] IN
  IF \E b \in Batches : \E record \in copies[b] \cup {registry[b]} : mine(record)
  THEN Become(w, Resting) /\ life' = [life EXCEPT ![w] = @ + 1]
  ELSE Become(w, [Resting EXCEPT !.at = "start"]) /\ UNCHANGED life

\* `process` writes its own copy back as pending before it ends
PutsItsCopyBack(c) ==
  /\ \E record \in agent[c].listed[On(c)] :
       Become(c, [agent[c] EXCEPT !.at = "fail_store",
                                  !.held = [record EXCEPT !.status = "pending"],
                                  !.taken = FALSE, !.todo = {}, !.page = None])
  /\ UNCHANGED life

FailStore(c) == At(c, "fail_store") /\ StoreAndLeave(c, Held(c))

\* An exception at any other place is the end of the pass, and the worker
\* goes on to its next batch (the reconciler journals it); of a request; or
\* of the command.
Raises(a) ==
  /\ IF a \in Workers /\ (At(a, "set_load") \/ At(a, "set_store")) THEN WorkerEnds(a)
     ELSE IF a \in Clis /\ ~At(a, "cli_store") /\ ~At(a, "fail_store")
     THEN PutsItsCopyBack(a)
     ELSE Leave(a)
  /\ UNCHANGED <<disk, tree>>

\* (variant) a failed pass is tried again at once
PassRetried(a) ==
  /\ InModelCall(a) /\ On(a) \in MayRaise
  /\ Become(a, [agent[a] EXCEPT !.at = "loop", !.page = None])
  /\ UNCHANGED <<disk, tree, life>>

PassFails(a) == InModelCall(a) /\ On(a) \in MayRaise /\ Raises(a)

RecordFails(a) == (LoadsNothing(a) \/ FindsTheBase(a)) /\ Raises(a)

\* a killed process leaves everything where it was; a worker is started again
Kill(m) ==
  /\ Running(m)
  /\ m \in Workers => life[m] + 1 < MaxLife
  /\ life' = [life EXCEPT ![m] = @ + 1]
  /\ Become(m, Resting)
  /\ UNCHANGED <<disk, tree>>

-----------------------------------------------------------------------------
(* The server's threads, and the review gate of the command line.          *)

\* approve_page and record_confirmation, of a batch with text to review (it
\* need not be grouped): load, write the archive, and then ...
ReviewLoad(t, b) ==
  At(t, "idle") /\ tree[b].texts # {} /\ Load(t, b, "review")

\* ... approve_page stores as everyone does
ReviewStore(t) ==
  /\ At(t, "review")
  /\ \E pages \in SUBSET TextPages \ {{}} :
       StoreAndLeave(t, [Held(t) EXCEPT !.agreed = @ \cup pages])

\* ... and record_confirmation, which agrees or rejects, puts its copy in the
\* base's place in one step, whether a base is there or not
ReviewReplace(t) ==
  /\ At(t, "review") /\ ~agent[t].taken
  /\ \E pages \in SUBSET TextPages \ {{}} :
       \E agreed \in {Held(t).agreed \cup pages, Held(t).agreed \ pages} :
         registry' = [registry EXCEPT ![On(t)] = [Held(t) EXCEPT !.agreed = agreed]]
  /\ whole' = whole \cup {On(t)}
  /\ Leave(t)
  /\ UNCHANGED <<copies, tree>>

\* ReviewGate.run's last two lines
ConfirmLoad(t, b) ==
  At(t, "idle") /\ tree[b].grouped /\ Load(t, b, "confirm")

ConfirmStore(t) ==
  /\ At(t, "confirm")
  /\ StoreAndLeave(t, [Held(t) EXCEPT !.status = "confirmed"])

\* apply_row_adjustments: the drawn rows, then set_status
DrawRows(t, b, p) ==
  /\ At(t, "idle") /\ p \in RowPages /\ p \in tree[b].marked
  /\ tree' = [tree EXCEPT ![b].drawn = @ \cup {p}]
  /\ Become(t, [agent[t] EXCEPT !.at = "set_load", !.on = b])
  /\ UNCHANGED <<disk, life>>

\* `./loft work --requeue`
Requeue(t, b) ==
  /\ At(t, "idle")
  /\ Become(t, [agent[t] EXCEPT !.at = "set_load", !.on = b])
  /\ UNCHANGED <<disk, tree, life>>

\* _reread_page: the page's receipts and drawn rows go, then it is read again
DropReading(t, b, p) ==
  /\ At(t, "idle") /\ p \in RowPages /\ p \in tree[b].oriented
  /\ tree' = [tree EXCEPT ![b] = RowsDropped(tree[b], p)]
  /\ Become(t, [agent[t] EXCEPT !.at = "rows", !.on = b, !.todo = {p}])
  /\ UNCHANGED <<disk, life>>

\* the server dies under the thread
ThreadDies(t) ==
  /\ ~At(t, "idle")
  /\ Become(t, Resting)
  /\ UNCHANGED <<disk, tree, life>>

-----------------------------------------------------------------------------

StageStep(m) ==
  \/ Classify(m) \/ (\E p \in Pages : Orient(m, p)) \/ BeginRead(m)
  \/ DirectLoad(m) \/ DirectStore(m) \/ DirectText(m) \/ DirectMark(m)
  \/ DirectDone(m) \/ CloseLoad(m) \/ CloseStore(m)
  \/ GroupLoad(m) \/ GroupFile(m) \/ GroupStore(m)
  \/ PlanDone(m) \/ FinishLoad(m) \/ FinishStore(m)

ReadStep(a) ==
  \/ \E p \in Pages : SkipPage(a, p) \/ ReadPage(a, p)
  \/ BlankPage(a) \/ RowMark(a) \/ RowText(a) \/ RowsDone(a)

\* the first half of a write, and the failures of loads and writes
RecordStep(a) == TakeAway(a) \/ RecordFails(a)

WorkerStep(w) ==
  \/ Start(w) \/ ListForRequeue(w) \/ ListForSweep(w) \/ SweepDone(w)
  \/ \E b \in Batches : \E record \in agent[w].listed[b] :
       RequeueNext(w, b, record) \/ PassOver(w, b, record) \/ BeginPass(w, b, record)
  \/ BeginStore(w) \/ SetStatusLoad(w) \/ SetStatusStore(w)
  \/ StageStep(w) \/ ReadStep(w) \/ RecordStep(w)

CliStep(c) ==
  \/ (\E b \in Batches : CliLoad(c, b)) \/ CliStore(c) \/ FailStore(c)
  \/ StageStep(c) \/ ReadStep(c) \/ RecordStep(c)

ThreadStep(t) ==
  \/ \E b \in Batches : ReviewLoad(t, b) \/ ConfirmLoad(t, b) \/ Requeue(t, b)
  \/ \E b \in Batches, p \in Pages : DrawRows(t, b, p) \/ DropReading(t, b, p)
  \/ ReviewStore(t) \/ ReviewReplace(t) \/ ConfirmStore(t)
  \/ SetStatusLoad(t) \/ SetStatusStore(t) \/ ReadStep(t) \/ RecordStep(t)
  \/ ThreadDies(t)

Next ==
  \/ \E w \in Workers : WorkerStep(w) \/ (\E b \in Batches : FileEvent(w, b))
  \/ \E c \in Clis : CliStep(c)
  \/ \E t \in Threads : ThreadStep(t)
  \/ \E a \in Agents : PassFails(a)
  \/ \E m \in Processes : Kill(m)

\* The worker is a restarted daemon that never stops on its own, and the
\* quiet interval that makes it sweep comes again and again.
Fairness ==
  \A w \in Workers : WF_vars(WorkerStep(w)) /\ SF_vars(ListForRequeue(w))

Spec     == Init /\ [][Next]_vars
FairSpec == Spec /\ Fairness

-----------------------------------------------------------------------------
(* Properties that hold.                                                   *)

\* Whenever a page stops being agreed in its batch's record, the step is a
\* person's own review, a regrouping, or the write-back of a copy that is
\* older than the agreement: no other writer of a record drops one
\* (update_status, set_status, write_boundaries, record_confirmation).
AgreementLostOnlyToStaleCopy ==
  [][\A b \in Batches :
       ~(registry[b].agreed \subseteq registry'[b].agreed) =>
         \E a \in Agents :
           /\ agent'[a] # agent[a]
           /\ On(a) = b
           /\ \/ At(a, "review") \/ At(a, "group_store")
              \/ Held(a) # None /\ Held(a).agreed # registry[b].agreed]_vars

InPass(m, b) ==
  On(m) = b /\ agent[m].at \notin {"idle", "start", "requeue", "set_load", "set_store", "sweep"}

\* The record says `importing` under the stamp of a running process that is
\* not working on it: nobody looks at it again while that process lives.
Stranded(b) ==
  /\ registry[b].status = "importing" /\ PassAlive(registry[b])
  /\ ~InPass(registry[b].stamp.process, b)

\* As long as one process alone writes the records, no batch whose model calls
\* do not fail is ever stranded by it, however it dies and starts again: a
\* pass ends by taking `importing` off the record (Reconciler.run), and a
\* stamp that a dead incarnation left behind is never taken for a live one.
HealthyNotStranded == \A b \in Batches \ MayRaise : ~Stranded(b)

\* A pile is grouped into documents only once all its writing is read,
\* however passes overlap, die and start again (plan_stages, run_plan); no
\* page being re-read by the server meanwhile.
GroupedAfterRead ==
  \A b \in Batches : tree[b].grouped => TextPages \subseteq tree[b].marked

\* The record says `importing` and the process that was at it has ended.
Abandoned(b) ==
  /\ registry[b].status = "importing"
  /\ registry[b].stamp # None =>
       life[registry[b].stamp.process] # registry[b].stamp.life

\* A death in the middle of a write left only copies of the record, and one
\* of them says `importing`: requeue_dead finds it, load_batch raises, and the
\* worker ends at each start, before it looks at any batch.
Jammed(b) ==
  /\ b \notin whole
  /\ \A a \in Agents : On(a) = b => ~agent[a].taken
  /\ \E record \in copies[b] : record.status = "importing" /\ ~PassAlive(record)

\* A record left `importing` by a pass that died does not stay so: a later
\* sweep puts it back in the queue or begins a pass of its own on it
\* (Worker.requeue_dead, Worker.sweep) - or the queue is jammed.
DeadPassRequeued ==
  \A b \in Batches : Abandoned(b) ~> (~Abandoned(b) \/ \E c \in Batches : Jammed(c))

\* Every missing stage of a batch whose model calls do not fail is run in the
\* end, whatever happens to the worker and to the other batches, a write of
\* a record torn in its first pass included - unless the queue is jammed.
HealthyBatchFinishes ==
  \A b \in Batches \ MayRaise :
    (Gap(b) # "none") ~> (Gap(b) = "none" \/ \E c \in Batches : Jammed(c))

-----------------------------------------------------------------------------
(* What the documents say and the code does not do: each is violated.      *)

\* "A pass that dies half-way puts its batch back to `pending`", so that no
\* crash in `importing` strands a batch
NotStranded == \A b \in Batches : ~Stranded(b)

\* "a crash costs at most the batch in flight": a batch whose own record is
\* there, and whose model calls do not fail, is run to its end (or its record
\* is being written)
CrashCostsOneBatch ==
  \A b \in Batches \ MayRaise :
    (b \in whole /\ Gap(b) # "none") ~> (b \notin whole \/ Gap(b) = "none")

\* "A corrected page is re-read on the worker's next pass." (or its batch's
\* record is being written, or was lost in a write)
CorrectionIsRead ==
  \A b \in Batches, p \in Pages :
    (p \in tree[b].drawn /\ b \in whole) ~> (p \notin tree[b].drawn \/ b \notin whole)
=============================================================================
