------------------------------ MODULE Archive -------------------------------
(***************************************************************************)
(* The archive (tools/archive.py) and the server's requests that write it: *)
(* a page approved (pipeline/api/approval.py), a document confirmed or     *)
(* rejected (pipeline/api/sync.py), its people identified and decided on.  *)
(*                                                                         *)
(* An item is a chain of sidecar versions, each pointing at the version of *)
(* the transcription it publishes; only the last is ever read, and the     *)
(* model keeps that one.  One batch's registry record says which *)
(* item a document became; the people table is the archive's own.  Every   *)
(* request runs in a thread of its own, and every file it reads or writes  *)
(* is a step.  A text is the set of pages it was put together from: the    *)
(* pages are those that have writing on them, and a document has one.      *)
(***************************************************************************)
EXTENDS Naturals, FiniteSets

CONSTANTS
  Threads, Docs, Pages, People,
  DocOf,        \* page |-> its document
  MaxItems,     \* bound: how many ids doc-<date>, doc-<date>-2, ... there are
  MaxVersion,   \* bound: the highest version of an item
  None

ASSUME DocOfAssumption ==
  DocOf \in [Pages -> Docs] /\ \A d \in Docs : \E p \in Pages : DocOf[p] = d
ASSUME BoundAssumption == MaxItems \in Nat /\ MaxVersion \in Nat
VARIABLES
  agreed,     \* the pages with an agreed marker (<page>.agreed.json)
  registry,   \* the record's boundaries: document |-> its item and status
  sidecar,    \* item |-> the last version of its sidecar, or None
  content,    \* item |-> version |-> transcription, or None
  people,     \* the people table's current version: person |-> standing
  thread      \* thread |-> the place it is at, and what it carries

vars == <<agreed, registry, sidecar, content, people, thread>>
archive == <<sidecar, content>>

Ids      == 1 .. MaxItems
Versions == 1 .. MaxVersion
Text     == SUBSET Pages
PagesOf(d) == {p \in Pages : DocOf[p] = d}

Standing == {"absent", "proposed", "estimated", "confirmed"}
Boundary == [item: Ids \cup {None}, status: {"review", "confirmed", "rejected"}]
Record   == [Docs -> Boundary]

\* text: the version of the transcription file it points at; a link to a
\* person has the standing "absent" when there is none
Sidecar == [version: Versions, status: {"draft", "catalogued", "deleted"},
            text: Versions \cup {0}, links: [People -> Standing], identified: BOOLEAN]

\* a sidecar before save_item has numbered it
Draft == [version: Versions \cup {0}, status: {"draft", "catalogued", "deleted"},
          text: Versions \cup {0}, links: [People -> Standing], identified: BOOLEAN]

Place == {"idle", "mark", "look", "gather", "item", "number", "check", "put",
          "text_check", "text_put", "register", "model", "people", "record",
          "settle", "dismiss"}
Task  == {"approve", "confirm", "reject", "identify", "decide", "delete"}
Decision == {"attested", "estimated", "delete"}

ASSUME NoneAssumption ==
  /\ None \notin Task /\ None \notin Ids
  /\ \A T \in Text : T # None
  /\ \A s \in Sidecar : s # None

\* record: the registry's record as loaded; whole: are all pages approved;
\* text, next: what save_item is to write; named: standings of people as the
\* table was read
Thread == [at: Place, task: Task \cup {None}, doc: Docs \cup {None},
           page: Pages \cup {None}, record: Record \cup {None}, whole: BOOLEAN,
           text: Text \cup {None}, item: Ids \cup {None},
           next: Draft \cup {None}, named: [People -> Standing],
           person: People \cup {None}, decision: Decision \cup {None}]

NoLinks == [q \in People |-> "absent"]
Resting == [at |-> "idle", task |-> None, doc |-> None, page |-> None,
            record |-> None, whole |-> FALSE, text |-> None, item |-> None,
            next |-> None, named |-> NoLinks, person |-> None,
            decision |-> None]

TypeOK ==
  /\ agreed \in SUBSET Pages
  /\ registry \in Record
  /\ sidecar \in [Ids -> Sidecar \cup {None}]
  /\ content \in [Ids -> [Versions -> Text \cup {None}]]
  /\ people \in [People -> Standing]
  /\ thread \in [Threads -> Thread]

Init ==
  /\ agreed = {}
  /\ registry = [d \in Docs |-> [item |-> None, status |-> "review"]]
  /\ sidecar = [i \in Ids |-> None]
  /\ content = [i \in Ids |-> [v \in Versions |-> None]]
  /\ people = NoLinks
  /\ thread = [t \in Threads |-> Resting]

-----------------------------------------------------------------------------
(* The archive as it is read.                                              *)

\* how many versions of the item's sidecar there are; the chain has no gap
Length(i) == IF sidecar[i] = None THEN 0 ELSE sidecar[i].version

HasSidecar(i, v) == v \in 1 .. Length(i)
HasText(i, v)    == content[i][v] # None

\* an item's folder exists once any file is in it
Held(i) == Length(i) > 0 \/ \E v \in Versions : HasText(i, v)

\* get_item: the last sidecar, unless it is a tombstone
Live(i) == sidecar[i] # None /\ sidecar[i].status # "deleted"
Catalogued(i) == Live(i) /\ sidecar[i].status = "catalogued"
Links(i) == {q \in People : Live(i) /\ sidecar[i].links[q] # "absent"}

\* the transcription a live item publishes; None when its file is missing
Transcription(i) ==
  IF sidecar[i].text = 0 THEN {} ELSE content[i][sidecar[i].text]

-----------------------------------------------------------------------------
(* Shapes of a step.                                                       *)

At(t, place) == thread[t].at = place
Do(t, task)  == thread[t].task = task
Become(t, state) == thread' = [thread EXCEPT ![t] = state]
Finish(t) == Become(t, Resting)

\* a request's thread at its first step, with what it has read
Start(t, state) == At(t, "idle") /\ Become(t, state)

-----------------------------------------------------------------------------
(* approve_page and record_confirmation.                                   *)

Approve(t, p) ==
  /\ Start(t, [Resting EXCEPT !.task = "approve", !.at = "mark", !.page = p,
                                 !.doc = DocOf[p], !.record = registry])
  /\ UNCHANGED <<agreed, registry, archive, people>>

Mark(t) ==
  /\ At(t, "mark")
  /\ agreed' = agreed \cup {thread[t].page}
  /\ Become(t, [thread[t] EXCEPT !.at = "look"])
  /\ UNCHANGED <<registry, archive, people>>

\* (variant) one approved page makes its document complete
LookAtAny(t) ==
  /\ At(t, "look")
  /\ Become(t, [thread[t] EXCEPT !.at = "gather",
                                 !.whole = PagesOf(thread[t].doc) \cap agreed # {}])
  /\ UNCHANGED <<agreed, registry, archive, people>>

\* _DocumentPages.complete
Look(t) ==
  /\ At(t, "look")
  /\ Become(t, [thread[t] EXCEPT !.at = "gather",
                                 !.whole = PagesOf(thread[t].doc) \subseteq agreed])
  /\ UNCHANGED <<agreed, registry, archive, people>>

\* _DocumentPages.approved_text
Gather(t) ==
  /\ At(t, "gather")
  /\ Become(t, [thread[t] EXCEPT !.at = "item",
                                 !.text = PagesOf(thread[t].doc) \cap agreed])
  /\ UNCHANGED <<agreed, registry, archive, people>>

Confirm(t, d) ==
  /\ Start(t, [Resting EXCEPT !.task = "confirm", !.at = "item", !.doc = d,
                                 !.record = registry, !.whole = TRUE, !.text = PagesOf(d)])
  /\ UNCHANGED <<agreed, registry, archive, people>>

Reject(t, d) ==
  /\ Start(t, [Resting EXCEPT !.task = "reject", !.at = "register", !.doc = d,
                                 !.record = registry])
  /\ UNCHANGED <<agreed, registry, archive, people>>

\* an approval without a title is refused, after its marker is written
Untitled(t) ==
  /\ At(t, "item") /\ Do(t, "approve")
  /\ Finish(t)
  /\ UNCHANGED <<agreed, registry, archive, people>>

Agreed(t, links, identified) ==
  [version |-> 0, status |-> IF thread[t].whole THEN "catalogued" ELSE "draft",
   text |-> 0, links |-> links, identified |-> identified]

ItemOf(t) == thread[t].record[thread[t].doc].item

\* agree_document for a document that is no item yet: the next free id
Mint(t) ==
  /\ At(t, "item") /\ ItemOf(t) = None
  /\ \E i \in Ids :
       /\ ~Held(i)
       /\ \A j \in Ids : j < i => Held(j)
       /\ Become(t, [thread[t] EXCEPT !.at = "number", !.item = i,
                                      !.next = Agreed(t, NoLinks, FALSE)])
  /\ UNCHANGED <<agreed, registry, archive, people>>

\* (variant) the item is agreed afresh, without what its sidecar carries
ReopenAfresh(t) ==
  /\ At(t, "item") /\ ItemOf(t) # None
  /\ Become(t, [thread[t] EXCEPT !.at = "number", !.item = ItemOf(t),
                                 !.next = Agreed(t, NoLinks, FALSE)])
  /\ UNCHANGED <<agreed, registry, archive, people>>

\* agree_document for the item the document already became
Reopen(t) ==
  /\ At(t, "item") /\ ItemOf(t) # None
  /\ LET i == ItemOf(t) IN
     Become(t, [thread[t] EXCEPT !.at = "number", !.item = i,
                  !.next = IF Live(i)
                           THEN Agreed(t, sidecar[i].links, sidecar[i].identified)
                           ELSE Agreed(t, NoLinks, FALSE)])
  /\ UNCHANGED <<agreed, registry, archive, people>>

\* The whole record goes back, as it was loaded but for this document.
Register(t) ==
  /\ At(t, "register")
  /\ LET d == thread[t].doc IN
     LET b == thread[t].record[d] IN
     registry' = [thread[t].record EXCEPT ![d] =
       IF Do(t, "reject") THEN [b EXCEPT !.status = "rejected"]
       ELSE [item   |-> thread[t].item,
             status |-> IF thread[t].whole THEN "confirmed" ELSE b.status]]
  /\ Finish(t)
  /\ UNCHANGED <<agreed, archive, people>>

-----------------------------------------------------------------------------
(* save_item                                                               *)

\* (variant) the last version instead of the next
NumberLast(t) ==
  /\ At(t, "number")
  /\ LET v == Length(thread[t].item) IN
       Become(t, [thread[t] EXCEPT !.at = "check", !.next.version = v,
                    !.next.text = IF thread[t].text = None THEN @ ELSE v])
  /\ UNCHANGED <<agreed, registry, archive, people>>

Number(t) ==
  /\ At(t, "number")
  /\ LET v == Length(thread[t].item) + 1 IN
       /\ v \in Versions
       /\ Become(t, [thread[t] EXCEPT !.at = "check", !.next.version = v,
                       !.next.text = IF thread[t].text = None THEN @ ELSE v])
  /\ UNCHANGED <<agreed, registry, archive, people>>

\* (variant) the transcription goes before its sidecar
CheckTextFirst(t) ==
  /\ At(t, "check") /\ ~HasSidecar(thread[t].item, thread[t].next.version)
  /\ content' = IF thread[t].text = None THEN content
                ELSE [content EXCEPT ![thread[t].item][thread[t].next.version] = thread[t].text]
  /\ Become(t, [thread[t] EXCEPT !.at = "put"])
  /\ UNCHANGED <<agreed, registry, sidecar, people>>

Check(t) ==
  /\ At(t, "check") /\ ~HasSidecar(thread[t].item, thread[t].next.version)
  /\ Become(t, [thread[t] EXCEPT !.at = "put"])
  /\ UNCHANGED <<agreed, registry, archive, people>>

\* where a request goes on once its item is saved
Saved(t) ==
  IF thread[t].task \in {"approve", "confirm"} THEN [thread[t] EXCEPT !.at = "register"]
  ELSE IF Do(t, "decide") THEN [thread[t] EXCEPT !.at = "settle"]
  ELSE Resting

\* A save that lost the race for its version replaces it, and is seen only
\* if no later one stands by then.
PutSidecar(t) ==
  LET i == thread[t].item IN
  IF thread[t].next.version < Length(i) THEN sidecar
  ELSE [sidecar EXCEPT ![i] = thread[t].next]

\* (variant) the sidecar alone is saved
PutAlone(t) ==
  /\ At(t, "put")
  /\ sidecar' = PutSidecar(t)
  /\ Become(t, Saved(t))
  /\ UNCHANGED <<agreed, registry, content, people>>

Put(t) ==
  /\ At(t, "put")
  /\ sidecar' = PutSidecar(t)
  /\ Become(t, IF thread[t].text = None THEN Saved(t)
               ELSE [thread[t] EXCEPT !.at = "text_check"])
  /\ UNCHANGED <<agreed, registry, content, people>>

TextCheck(t) ==
  /\ At(t, "text_check") /\ ~HasText(thread[t].item, thread[t].next.version)
  /\ Become(t, [thread[t] EXCEPT !.at = "text_put"])
  /\ UNCHANGED <<agreed, registry, archive, people>>

TextPut(t) ==
  /\ At(t, "text_put")
  /\ content' = [content EXCEPT ![thread[t].item][thread[t].next.version] = thread[t].text]
  /\ Become(t, Saved(t))
  /\ UNCHANGED <<agreed, registry, sidecar, people>>

\* ImmutableStoreError: another save took the version; the request fails
Refused(t) ==
  /\ \/ At(t, "check") /\ HasSidecar(thread[t].item, thread[t].next.version)
     \/ At(t, "text_check") /\ HasText(thread[t].item, thread[t].next.version)
  /\ Finish(t)
  /\ UNCHANGED <<agreed, registry, archive, people>>

-----------------------------------------------------------------------------
(* Identification: the model reads a document's names, a person decides.   *)

\* A document is read once; the standing knowledge is the table as it is
\* before the model is asked.
Identify(t, i) ==
  /\ Live(i) /\ ~sidecar[i].identified /\ Transcription(i) \notin {None, {}}
  /\ Start(t, [Resting EXCEPT !.task = "identify", !.at = "model", !.item = i,
                                 !.named = people])
  /\ UNCHANGED <<agreed, registry, archive, people>>

\* The answer: the people mentioned, known ones as they were known and the
\* others proposed.  Then record_identification reads the item; links it
\* already has keep their standing.
Answer(t) ==
  /\ At(t, "model") /\ Live(thread[t].item)
  /\ \E mentioned \in SUBSET People :
       Become(t, [thread[t] EXCEPT !.at = "people",
         !.named = [q \in People |->
            IF q \notin mentioned THEN "absent"
            ELSE IF @[q] = "absent" THEN "proposed" ELSE @[q]],
         !.next = [sidecar[thread[t].item] EXCEPT !.identified = TRUE,
            !.links = [q \in People |->
               IF @[q] = "absent" /\ q \in mentioned THEN "proposed" ELSE @[q]]]])
  /\ UNCHANGED <<agreed, registry, archive, people>>

\* the model raises, or its document is gone
NoAnswer(t) ==
  /\ At(t, "model")
  /\ Finish(t)
  /\ UNCHANGED <<agreed, registry, archive, people>>

\* (variant) the item goes first: the people are left for later
PeopleLater(t) ==
  /\ At(t, "people")
  /\ Become(t, [thread[t] EXCEPT !.at = "number"])
  /\ UNCHANGED <<agreed, registry, archive, people>>

\* with_record for every one who was named as a proposal
AddPeople(t) ==
  /\ At(t, "people")
  /\ people' = [q \in People |-> IF thread[t].named[q] = "proposed"
                                 THEN "proposed" ELSE people[q]]
  /\ Become(t, [thread[t] EXCEPT !.at = "number"])
  /\ UNCHANGED <<agreed, registry, archive>>

\* decide_identification, for a person the item names
Decide(t, i, q, decision) ==
  /\ q \in Links(i)
  /\ Start(t, [Resting EXCEPT !.task = "decide", !.at = "record", !.item = i,
            !.next = sidecar[i], !.person = q, !.decision = decision])
  /\ UNCHANGED <<agreed, registry, archive, people>>

\* what the decision makes of the item's link, given the table's record
Decided(decision, standing) ==
  IF decision = "delete" THEN "absent"
  ELSE IF decision = "attested" \/ standing = "confirmed" THEN "confirmed"
  ELSE "estimated"

ReadRecord(t) ==
  /\ At(t, "record")
  /\ LET q == thread[t].person IN
     IF people[q] = "absent" THEN Finish(t)
     ELSE Become(t, [thread[t] EXCEPT !.at = "number", !.named[q] = people[q],
            !.next.links[q] = Decided(thread[t].decision, people[q])])
  /\ UNCHANGED <<agreed, registry, archive, people>>

\* the table's own rule (PeopleTable.resolved), under the archive's lock
Resolved(q, decision) ==
  IF people[q] = "absent" THEN people
  ELSE [people EXCEPT ![q] = CASE decision = "delete"    -> "absent"
                               [] decision = "estimated" -> "estimated"
                               [] decision = "attested"  -> "confirmed"]

\* The item is saved; the record follows.  A proposal is deleted if no
\* catalogued item names it.
Settle(t) ==
  /\ At(t, "settle")
  /\ LET q == thread[t].person
         standing == thread[t].named[q]
         deleting == thread[t].decision = "delete"
     IN \/ /\ deleting /\ standing = "proposed"
           /\ IF \E j \in Ids : Catalogued(j) /\ q \in Links(j)
              THEN Finish(t) ELSE Become(t, [thread[t] EXCEPT !.at = "dismiss"])
           /\ UNCHANGED people
        \/ /\ standing = "confirmed"
           /\ Finish(t)
           /\ UNCHANGED people
        \/ /\ standing = "estimated" \/ (standing = "proposed" /\ ~deleting)
           /\ people' = Resolved(q, thread[t].decision)
           /\ Finish(t)
  /\ UNCHANGED <<agreed, registry, archive>>

\* a guess without a basis is refused by the table, after its item is saved
NoBasis(t) ==
  /\ At(t, "settle") /\ thread[t].decision = "estimated"
  /\ thread[t].named[thread[t].person] # "confirmed"
  /\ Finish(t)
  /\ UNCHANGED <<agreed, registry, archive, people>>

\* a record that is gone already is a KeyError: nothing changes then either
Dismiss(t) ==
  /\ At(t, "dismiss")
  /\ people' = [people EXCEPT ![thread[t].person] = "absent"]
  /\ Finish(t)
  /\ UNCHANGED <<agreed, registry, archive>>

\* the import review's decision on a person (resolve_person): one step, under
\* the archive's lock
Review(t, q, decision) ==
  /\ At(t, "idle") /\ people[q] # "absent"
  /\ people' = Resolved(q, decision)
  /\ UNCHANGED <<agreed, registry, archive, thread>>

\* delete_item: a tombstone supersedes the item
Tombstone == [version |-> 0, status |-> "deleted", text |-> 0, links |-> NoLinks,
              identified |-> FALSE]

Delete(t, i) ==
  /\ Live(i)
  /\ Start(t, [Resting EXCEPT !.task = "delete", !.at = "number", !.item = i,
                                 !.next = Tombstone])
  /\ UNCHANGED <<agreed, registry, archive, people>>

\* the server's process dies, and its threads with it
Crash ==
  /\ \E t \in Threads : ~At(t, "idle")
  /\ thread' = [t \in Threads |-> Resting]
  /\ UNCHANGED <<agreed, registry, archive, people>>

-----------------------------------------------------------------------------

Request(t) ==
  \/ \E p \in Pages : Approve(t, p)
  \/ \E d \in Docs : Confirm(t, d) \/ Reject(t, d)
  \/ \E i \in Ids : Identify(t, i) \/ Delete(t, i)
  \/ \E i \in Ids, q \in People, decision \in Decision : Decide(t, i, q, decision)
  \/ \E q \in People, decision \in Decision : Review(t, q, decision)

Save(t) == Number(t) \/ Check(t) \/ Put(t) \/ TextCheck(t) \/ TextPut(t) \/ Refused(t)

Step(t) ==
  \/ Mark(t) \/ Look(t) \/ Gather(t) \/ Untitled(t) \/ Mint(t) \/ Reopen(t)
  \/ Register(t) \/ Answer(t) \/ NoAnswer(t) \/ AddPeople(t) \/ ReadRecord(t)
  \/ Settle(t) \/ NoBasis(t) \/ Dismiss(t)

Next == Crash \/ \E t \in Threads : Request(t) \/ Save(t) \/ Step(t)

Spec == Init /\ [][Next]_vars

-----------------------------------------------------------------------------
(* Properties.                                                             *)

\* "Content-first leaves an orphan content file with no sidecar - the next
\* save collides with the same filename and is permanently blocked"
\* (save_item): whatever threads race and die, a transcription never stands
\* at a version that a later save would take.
ContentFollowsSidecar ==
  \A i \in Ids, v \in Versions : HasText(i, v) => HasSidecar(i, v)

\* "the archive holds the agreed text, the registry holds which page set it
\* came from" (record_confirmation): an item the registry names has a
\* transcription in the archive, however many requests race or died.
RegisteredItemsHaveText ==
  \A d \in Docs : registry[d].item # None =>
    \E v \in Versions : HasText(registry[d].item, v)

\* "The item's status follows the document: `draft` while a text page is
\* unapproved" (approve_page): with one request at a time, over deaths,
\* rejections, deletions and confirmations in between, an item that is
\* catalogued publishes all pages of its document.
CataloguedOnlyWhole ==
  \A d \in Docs :
    LET i == registry[d].item IN
    (i # None /\ Catalogued(i) /\ Transcription(i) # None)
      => PagesOf(d) \subseteq Transcription(i)

\* "The tables go first" (record_identification): with one request at a time,
\* whatever dies in between, no save brings a link to a person the table lacks.
SavedLinksResolve ==
  [][\A i \in Ids : \A q \in Links(i)' \ Links(i) : people'[q] # "absent"]_sidecar

\* "an existing link keeps its status" (record_identification) and "supersedes
\* the item it already became" (agree_document): with one request at a time, a
\* live item's link is lost only to a decision that deletes it, and a settled
\* one never becomes a proposal again.
LinksKept ==
  [][\A i \in Ids : Live(i) /\ Live(i)' =>
       \A q \in Links(i) :
         \/ sidecar[i]'.links[q] # "proposed" /\ q \in Links(i)'
         \/ sidecar[i]'.links[q] = sidecar[i].links[q]
         \/ \E t \in Threads : Do(t, "decide") /\ thread[t].decision = "delete"
                               /\ thread[t].person = q]_sidecar

\* "deleting one document's mention never removes a person another document
\* (or a story) still names" (decide_identification), taken for catalogued
\* documents only.
MentionsKeepPeople ==
  [][\A t \in Threads : At(t, "settle") \/ At(t, "dismiss") =>
       LET q == thread[t].person IN
       (people[q] # "absent" /\ people'[q] = "absent")
         => ~\E j \in Ids : Catalogued(j) /\ q \in Links(j)]_vars
=============================================================================
