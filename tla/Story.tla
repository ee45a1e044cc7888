----------------------------- MODULE Story ------------------------------
(* A told story: its links are matched against the people the site serves *)
(* (tools/memory.py), its sidecar and the people it adds are written to    *)
(* the archive (tools/archive.py), and the served projection is patched   *)
(* (pipeline/api/server.py) until a publish rebuilds it from the archive   *)
(* (tools/projection.py).  Requests run in threads that share all of it.  *)
(* Places go the way people go and are left out.                          *)
EXTENDS Naturals, FiniteSets, Sequences

CONSTANTS
    Threads,
    Names,       \* what people are called
    Kin,         \* the names that are bare kinship terms ("Dad")
    Table,       \* the people of the identity table at the start
    Tales,       \* the sequences of mentions a narrator may tell of
    Narrators,   \* the names of the narrators
    MaxStories,  \* bound on the stories' ids
    MaxNamesakes,\* bound on the ids p-<name>, p-<name>-2, ...
    MaxRequests, \* bound on the requests
    None

Persons == [name : Names, n : 1..MaxNamesakes]
Mention == [name : Names, match : Persons \cup {None}]

\* what the constants are (assumed where the module is instantiated)
StoryAssumption ==
    /\ Kin \subseteq Names /\ Narrators \subseteq Names
    /\ Table \subseteq Persons
    /\ Tales \subseteq Seq(Mention)
    /\ MaxStories \in Nat /\ MaxNamesakes \in Nat /\ MaxRequests \in Nat

VARIABLES
    items,      \* the archive's stories
    table,      \* the people table: person |-> standing
    proposals,  \* the files under proposed/people
    index,      \* the served index.json: its items
    cast,       \* the served people.json: person |-> standing
    thread,
    patched,    \* history: did requests overlap, or one fail, since the last whole publish
    failed,     \* history: was a request ever cut short
    asked       \* how many requests there were

vars == <<items, table, proposals, index, cast, thread, patched, failed, asked>>

Stories == 1..MaxStories
Standing == {"absent", "proposed", "confirmed"}
Item == [status : {"draft", "catalogued", "deleted"}, links : SUBSET Persons]
Shelf == [Stories -> Item \cup {None}]
Cast == [Persons -> Standing]
In(people) == {p \in Persons : people[p] # "absent"}

Tasks == {"save", "delete", "publish"}
Idle == [pc |-> "idle", task |-> "publish", story |-> None, item |-> None, new |-> {}, filed |-> {},
         index |-> None, cast |-> None, alone |-> TRUE]

TypeOK ==
    /\ items \in Shelf /\ index \in Shelf
    /\ table \in Cast /\ cast \in Cast
    /\ proposals \subseteq Persons
    /\ patched \in BOOLEAN /\ failed \in BOOLEAN /\ asked \in 0..MaxRequests
    /\ \A t \in Threads : /\ thread[t].task \in Tasks /\ thread[t].story \in Stories \cup {None}
                          /\ thread[t].item \in Item \cup {None} /\ thread[t].new \subseteq Persons
                          /\ thread[t].index \in Shelf \cup {None} /\ thread[t].cast \in Cast \cup {None}

Init ==
    /\ items = [s \in Stories |-> None] /\ index = items
    /\ table = [p \in Persons |-> IF p \in Table THEN "confirmed" ELSE "absent"]
    /\ cast = table
    /\ proposals = {}
    /\ thread = [t \in Threads |-> Idle]
    /\ patched = FALSE /\ failed = FALSE /\ asked = 0

-----------------------------------------------------------------------------
\* StoryLinks: whom the mentions of a tale refer to

Named(people, name) == {p \in In(people) : p.name = name}
First(people) == CHOOSE p \in people : \A q \in people : p.n <= q.n
Reusable(people, name) ==   \* a kinship term never resolves to a confirmed cast member
    IF name \in Kin THEN {p \in Named(people, name) : people[p] = "proposed"} ELSE Named(people, name)

\* the first id of the name not taken; none when the bound is reached
Unused(taken, name) == {p \in Persons : p.name = name /\ p \notin taken}

\* links and people added so far, after one more mention
Nothing == [links |-> {}, new |-> {}, full |-> FALSE]
Minted(built, taken, name, linked) ==
    LET free == Unused(taken \cup built.new, name) IN
    IF free = {} THEN [built EXCEPT !.full = TRUE]
    ELSE [built EXCEPT !.new = @ \cup {First(free)},
                       !.links = IF linked THEN @ \cup {First(free)} ELSE @]
Linked(built, people, taken, mention) ==
    LET reuse == Reusable(people, mention.name) IN
    IF mention.match # None /\ mention.match \in In(people)
    THEN [built EXCEPT !.links = @ \cup {mention.match}]
    ELSE IF reuse # {} THEN [built EXCEPT !.links = @ \cup {First(reuse)}]
    ELSE Minted(built, taken, mention.name, TRUE)

\* the mentions in their order, the narrator last
BuiltStory(people, taken, tale, who) ==
    LET after[i \in 0..Len(tale)] ==
            IF i = 0 THEN Nothing ELSE Linked(after[i - 1], people, taken, tale[i])
        told == after[Len(tale)]
    IN  IF Named(people, who) # {} THEN told ELSE Minted(told, taken, who, FALSE)

-----------------------------------------------------------------------------
\* what a publish makes of the archive

Live(shelf) == [s \in Stories |->
    IF shelf[s] # None /\ shelf[s].status = "deleted" THEN None ELSE shelf[s]]

\* the proposals are listed by their paths: p-<name>-2.json comes before p-<name>.json
ListedBefore(p, q) == IF p.n = 1 THEN FALSE ELSE q.n = 1 \/ p.n < q.n

TableOnly(people, proposed) == people  \* variant: the proposals are left out

\* a proposal is skipped when the table has its id or its name, or an earlier proposal has its name
Published(people, proposed) ==
    LET fresh == {p \in proposed : p \notin In(people) /\ Named(people, p.name) = {}}
        kept == {p \in fresh : ~\E q \in fresh : q.name = p.name /\ ListedBefore(q, p)}
    IN  [p \in Persons |-> IF p \in kept THEN "proposed" ELSE people[p]]

LinksResolve(shelf, people) ==
    \A s \in Stories : shelf[s] # None /\ shelf[s].status = "catalogued" => shelf[s].links \subseteq In(people)

-----------------------------------------------------------------------------
At(t, pc) == thread[t].pc = pc
Others(t) == {o \in Threads \ {t} : ~At(o, "idle")}

\* a request starts; who runs beside another is marked as not alone
Begin(t, request) ==
    /\ asked < MaxRequests /\ asked' = asked + 1
    /\ thread' = [o \in Threads |-> IF o = t THEN [request EXCEPT !.alone = Others(t) = {}]
                                    ELSE IF At(o, "idle") THEN Idle ELSE [thread[o] EXCEPT !.alone = FALSE]]

\* POST save: the links are matched against what is served, the free ids looked up
Tell(t, tale, who, story, status) ==
    LET taken == In(cast) \cup proposals
        built == BuiltStory(cast, taken, tale, who)
    IN  /\ At(t, "idle") /\ ~built.full
        /\ Begin(t, [Idle EXCEPT !.pc = "save", !.task = "save", !.story = story, !.new = built.new,
                                 !.item = [status |-> status, links |-> built.links]])
        /\ UNCHANGED <<items, table, proposals, index, cast, patched, failed>>

Unheld == {s \in Stories : items[s] = None /\ index[s] = None}
NextStory == {s \in Unheld : \A r \in Unheld : s <= r}

TellNew(t, tale, who, status) == \E s \in NextStory : Tell(t, tale, who, s, status)
Retell(t, tale, who) ==
    \E s \in Stories : /\ items[s] # None /\ items[s].status = "draft"
                       /\ Tell(t, tale, who, s, "catalogued")

SaveItem(t) ==
    /\ At(t, "save")
    /\ items' = [items EXCEPT ![thread[t].story] = thread[t].item]
    /\ thread' = [thread EXCEPT ![t].pc = "propose"]
    /\ UNCHANGED <<table, proposals, index, cast, patched, failed, asked>>

\* write_new refuses a record that is there: the request fails and patches nothing
Propose(t, p) ==
    /\ At(t, "propose") /\ p \in thread[t].new \ thread[t].filed
    /\ proposals' = proposals \cup {p}
    /\ thread' = [thread EXCEPT ![t] = IF p \in proposals THEN Idle ELSE [thread[t] EXCEPT !.filed = @ \cup {p}]]
    /\ patched' = (patched \/ p \in proposals)
    /\ failed' = (failed \/ p \in proposals)
    /\ UNCHANGED <<items, table, index, cast, asked>>

ReadIndex(t) ==
    /\ At(t, "propose") /\ thread[t].new = thread[t].filed
    /\ thread' = [thread EXCEPT ![t].pc = "patch", ![t].index = index]
    /\ UNCHANGED <<items, table, proposals, index, cast, patched, failed, asked>>

DeletedStays(t) ==  \* variant: a deleted story stays in the index
    /\ At(t, "patch")
    /\ index' = [thread[t].index EXCEPT ![thread[t].story] = thread[t].item]
    /\ thread' = [thread EXCEPT ![t] = IF @.new = {} THEN Idle ELSE [@ EXCEPT !.pc = "cast"]]
    /\ patched' = (patched \/ ~thread[t].alone)
    /\ UNCHANGED <<items, table, proposals, cast, failed, asked>>

PatchIndex(t) ==
    /\ At(t, "patch")
    /\ index' = [thread[t].index EXCEPT ![thread[t].story] =
                   IF thread[t].task = "delete" THEN None ELSE thread[t].item]
    /\ thread' = [thread EXCEPT ![t] = IF @.new = {} THEN Idle ELSE [@ EXCEPT !.pc = "cast"]]
    /\ patched' = (patched \/ ~thread[t].alone)
    /\ UNCHANGED <<items, table, proposals, cast, failed, asked>>

ReadCast(t) ==
    /\ At(t, "cast")
    /\ thread' = [thread EXCEPT ![t].pc = "merge", ![t].cast = cast]
    /\ UNCHANGED <<items, table, proposals, index, cast, patched, failed, asked>>

MergeCast(t) ==
    /\ At(t, "merge")
    /\ cast' = [p \in Persons |-> IF p \in thread[t].new /\ thread[t].cast[p] = "absent"
                                  THEN "proposed" ELSE thread[t].cast[p]]
    /\ thread' = [thread EXCEPT ![t] = Idle]
    /\ UNCHANGED <<items, table, proposals, index, patched, failed, asked>>

\* POST delete: a tombstone, then the index
Delete(t, s) ==
    /\ At(t, "idle") /\ items[s] # None /\ items[s].status # "deleted"
    /\ Begin(t, [Idle EXCEPT !.pc = "save", !.task = "delete", !.story = s,
                             !.item = [items[s] EXCEPT !.status = "deleted"]])
    /\ UNCHANGED <<items, table, proposals, index, cast, patched, failed>>

-----------------------------------------------------------------------------
\* publish: the items are read, then the people; a dangling link refuses it whole

Publish(t) ==
    /\ At(t, "idle")
    /\ Begin(t, [Idle EXCEPT !.pc = "resolve", !.index = Live(items)])
    /\ UNCHANGED <<items, table, proposals, index, cast, patched, failed>>

ResolveUnchecked(t) ==  \* variant: no link is checked
    /\ At(t, "resolve")
    /\ thread' = [thread EXCEPT ![t].pc = "replace", ![t].cast = Published(table, proposals)]
    /\ UNCHANGED <<items, table, proposals, index, cast, patched, failed, asked>>

Resolve(t) ==
    /\ At(t, "resolve")
    /\ LET people == Published(table, proposals) IN
       thread' = [thread EXCEPT ![t] = IF LinksResolve(@.index, people)
                                       THEN [@ EXCEPT !.pc = "replace", !.cast = people] ELSE Idle]
    /\ UNCHANGED <<items, table, proposals, index, cast, patched, failed, asked>>

ReplaceIndex(t) ==
    /\ At(t, "replace")
    /\ index' = thread[t].index
    /\ thread' = [thread EXCEPT ![t].pc = "replace cast"]
    /\ patched' = ~thread[t].alone
    /\ UNCHANGED <<items, table, proposals, cast, failed, asked>>

ReplaceCast(t) ==
    /\ At(t, "replace cast")
    /\ cast' = thread[t].cast
    /\ thread' = [thread EXCEPT ![t] = Idle]
    /\ UNCHANGED <<items, table, proposals, index, patched, failed, asked>>

\* a reviewer of the import takes a person out of the table, whoever names them
Remove(p) ==
    /\ table[p] # "absent"
    /\ table' = [table EXCEPT ![p] = "absent"]
    /\ UNCHANGED <<items, proposals, index, cast, thread, patched, failed, asked>>

\* the server dies, or a write fails: every request is cut short where it is
Die ==
    /\ ~failed /\ \E t \in Threads : ~At(t, "idle")
    /\ failed' = TRUE /\ patched' = TRUE
    /\ thread' = [t \in Threads |-> Idle]
    /\ UNCHANGED <<items, table, proposals, index, cast, asked>>

Step(t) ==
    \/ SaveItem(t) \/ (\E p \in Persons : Propose(t, p)) \/ ReadIndex(t) \/ PatchIndex(t)
    \/ ReadCast(t) \/ MergeCast(t) \/ Resolve(t) \/ ReplaceIndex(t) \/ ReplaceCast(t)

Next ==
    \/ \E t \in Threads :
         \/ \E tale \in Tales, who \in Narrators :
               Retell(t, tale, who) \/ \E status \in {"draft", "catalogued"} : TellNew(t, tale, who, status)
         \/ \E s \in Stories : Delete(t, s)
         \/ Publish(t) \/ Step(t)
    \/ \E p \in Persons : Remove(p)
    \/ Die

Spec == Init /\ [][Next]_vars

-----------------------------------------------------------------------------
Quiet == \A t \in Threads : At(t, "idle")

\* The index as the requests have patched it is the one a rebuild would serve, as long as no
\* two requests overlapped and none was cut short; and the next whole publish makes it so again.
PatchedAsRebuilt == Quiet /\ ~patched => index = Live(items)

\* A link of a catalogued story dangles in the archive, and stops every publish, only while
\* its request is adding the person, after one was cut short, or where the person was taken
\* out of the table or has a namesake that is published in their place.
DanglingLinkExplained ==
    LET people == In(Published(table, proposals)) IN
    \A s \in Stories : items[s] # None /\ items[s].status = "catalogued" =>
        \A p \in items[s].links \ people :
            \/ failed \/ p \in Table
            \/ \E t \in Threads : p \in thread[t].new \ thread[t].filed
            \/ \E q \in people : q.name = p.name

\* What readers are served never has a dangling link ("a ref to an entity the reader cannot
\* see is dangling", projection.py), though a publish may have been refused for one.
ServedLinksResolve == Quiet /\ ~patched => LinksResolve(index, cast)
=============================================================================
