-------------------------- MODULE BatchQueue_proofs --------------------------
(***************************************************************************)
(* Proofs about BatchQueue, for any batches, pages, workers, command-line  *)
(* passes and server threads: the type invariant, and the one way in which *)
(* a person's agreement leaves a batch's record; with no server threads,   *)
(* that a pile is grouped once it is read; and with one process, that no   *)
(* batch is stranded.                                                      *)
(***************************************************************************)
EXTENDS BatchQueue, TLAPS

USE DEF disk

-----------------------------------------------------------------------------
(* The inductive invariant.  A store writes back the agent's copy of a     *)
(* record, and the read loops name a page: that those are a record and a   *)
(* page depends on where the agent is.                                     *)

OnBatch  == Place \ {"idle", "start", "requeue", "sweep"}
HasCopy  == StorePlace \cup {"group"}
HasPage  == {"direct_read", "direct_mark", "rows_read", "rows_text"}

Knows(state) ==
  /\ state.at \in OnBatch => state.on \in Batches
  /\ state.at \in HasCopy => state.held \in Record
  /\ state.at \in HasPage => state.page \in Pages
  /\ state.taken => state.at \in StorePlace

IInv == TypeOK /\ \A a \in Agents : Knows(agent[a])

\* A step of one agent that keeps all of it.
MovesWell(a) ==
  /\ Become(a, agent'[a])
  /\ agent'[a] \in Agent
  /\ Knows(agent'[a])
  /\ registry' \in [Batches -> Record]
  /\ whole' \in SUBSET Batches /\ copies' \in [Batches -> SUBSET Record]
  /\ tree' \in [Batches -> Tree]
  /\ life' \in [Processes -> Nat]

LEMMA MovesWellKeepsIInv ==
  ASSUME IInv, NEW a \in Agents, MovesWell(a)
  PROVE  IInv'
BY DEF IInv, TypeOK, MovesWell, Become

LEMMA BecomeMovesWell ==
  ASSUME IInv, NEW a \in Agents, NEW state \in Agent, Become(a, state),
         Knows(state),
         registry' \in [Batches -> Record], tree' \in [Batches -> Tree],
         whole' \in SUBSET Batches, copies' \in [Batches -> SUBSET Record],
         life' \in [Processes -> Nat]
  PROVE  MovesWell(a)
BY DEF IInv, TypeOK, MovesWell, Become

LEMMA StaysWell ==
  ASSUME IInv, NEW a \in Agents, tree' \in [Batches -> Tree],
         UNCHANGED <<disk, agent, life>>
  PROVE  MovesWell(a)
<1>1. agent[a] \in Agent /\ Knows(agent[a]) /\ agent \in [Agents -> Agent]
  BY DEF IInv, TypeOK
<1>2. Become(a, agent[a])
  BY <1>1 DEF Become
<1> QED
  BY <1>1, <1>2, BecomeMovesWell DEF IInv, TypeOK

-----------------------------------------------------------------------------
(* The shapes of a step.                                                   *)

LEMMA RestingWell ==
  ASSUME NEW a \in Agents
  PROVE  Resting \in Agent /\ Knows(Resting)
BY DEF Resting, Agent, StorePlace, Place, Knows, OnBatch, HasCopy, HasPage

LEMMA LoadMovesWell ==
  ASSUME IInv, NEW a \in Agents, NEW b \in Batches, NEW place \in Place,
         Load(a, b, place), place \notin HasPage, ~agent[a].taken
  PROVE  MovesWell(a)
<1> agent[a] \in Agent /\ Knows(agent[a]) /\ registry[b] \in Record
  BY DEF IInv, TypeOK
<1> DEFINE next == [agent[a] EXCEPT !.at = place, !.on = b, !.held = registry[b]]
<1>1. next \in Agent
  BY DEF Agent
<1>2. Knows(next)
  BY DEF Knows, At, On, Agent
<1>3. Become(a, next) /\ UNCHANGED <<disk, tree, life>>
  BY DEF Load
<1> HIDE DEF next
<1> QED
  BY <1>1, <1>2, <1>3, BecomeMovesWell DEF IInv, TypeOK

LEMMA PutWell ==
  ASSUME IInv, NEW a \in Agents, NEW record \in Record, On(a) \in Batches,
         Put(a, record)
  PROVE  /\ registry' \in [Batches -> Record]
         /\ whole' \in SUBSET Batches /\ copies' \in [Batches -> SUBSET Record]
BY DEF Put, IInv, TypeOK

LEMMA StoreMovesWell ==
  ASSUME IInv, NEW a \in Agents, NEW record \in Record,
         NEW place \in Place \ (HasCopy \cup HasPage),
         On(a) \in Batches, Store(a, record, place)
  PROVE  MovesWell(a)
<1> agent[a] \in Agent /\ Knows(agent[a])
  BY DEF IInv, TypeOK
<1> DEFINE next == [agent[a] EXCEPT !.at = place, !.held = None, !.taken = FALSE]
<1>1. next \in Agent
  BY DEF Agent
<1>2. Knows(next)
  BY DEF Knows, HasCopy, HasPage, On, At, Agent
<1>3. /\ registry' \in [Batches -> Record]
      /\ whole' \in SUBSET Batches /\ copies' \in [Batches -> SUBSET Record]
      /\ tree' = tree /\ life' = life /\ Become(a, next)
  BY PutWell DEF Store
<1> HIDE DEF next
<1> QED
  BY <1>1, <1>2, <1>3, BecomeMovesWell DEF IInv, TypeOK

LEMMA LeaveMovesWell ==
  ASSUME IInv, NEW a \in Agents, Leave(a),
         registry' \in [Batches -> Record], tree' \in [Batches -> Tree],
         whole' \in SUBSET Batches, copies' \in [Batches -> SUBSET Record]
  PROVE  MovesWell(a)
<1> DEFINE next == IF At(a, "set_load") \/ At(a, "set_store") THEN "requeue" ELSE "sweep"
           listing == [Resting EXCEPT !.at = next, !.listed = agent[a].listed]
<1>1. listing \in Agent /\ (a \in Workers => Knows(listing))
  BY DEF Resting, Agent, StorePlace, Place, Knows, OnBatch, HasCopy, HasPage, IInv, TypeOK
<1>2. agent'[a] = IF a \in Workers THEN listing ELSE Resting
  BY DEF Leave, Become, IInv, TypeOK
<1>3. agent'[a] \in Agent /\ Knows(agent'[a])
  BY <1>1, <1>2, RestingWell
<1>4. life' \in [Processes -> Nat]
  BY DEF Leave, IInv, TypeOK, Processes
<1> QED
  BY <1>3, <1>4 DEF MovesWell, Leave, Become, IInv, TypeOK

LEMMA StoreAndLeaveMovesWell ==
  ASSUME IInv, NEW a \in Agents, NEW record \in Record, On(a) \in Batches,
         StoreAndLeave(a, record)
  PROVE  MovesWell(a)
BY PutWell, LeaveMovesWell DEF StoreAndLeave, IInv, TypeOK

LEMMA StampedWell ==
  ASSUME IInv, NEW m \in Processes, NEW record \in Record
  PROVE  Stamped(m, record) \in Record
BY DEF Stamped, Record, Status, Stamp, IInv, TypeOK

LEMMA RowsWell ==
  ASSUME NEW t \in Tree, NEW p \in Pages
  PROVE  RowsWritten(t, p) \in Tree /\ RowsDropped(t, p) \in Tree
<1>1. /\ t.marked \cup {p} \in SUBSET Pages /\ t.marked \ {p} \in SUBSET Pages
      /\ t.texts \ {p} \in SUBSET Pages /\ t.drawn \ {p} \in SUBSET Pages
  BY DEF Tree
<1> QED
  BY <1>1 DEF RowsWritten, RowsDropped, Tree

LEMMA ListWell ==
  ASSUME IInv, NEW a \in Agents, NEW b \in Batches
  PROVE  /\ Listing(b) \subseteq Record
         /\ AllListed \in [Batches -> SUBSET Record]
         /\ agent[a].listed[b] \subseteq Record
         /\ \A record : Struck(a, b, record) \in [Batches -> SUBSET Record]
         /\ \A record \in Record : Only(b, record) \in [Batches -> SUBSET Record]
BY DEF Struck, Only, Listing, AllListed, IInv, TypeOK, Agent

\* an agent that is not at a store has no base out of its way
LEMMA NotAtStore ==
  ASSUME IInv, NEW a \in Agents
  PROVE  agent[a].taken \in BOOLEAN /\ (agent[a].taken => agent[a].at \in StorePlace)
BY DEF IInv, TypeOK, Agent, Knows

\* where a record is written back, it is a batch's and the copy is a record
LEMMA AtStore ==
  ASSUME IInv, NEW a \in Agents, agent[a].at \in StorePlace
  PROVE  On(a) \in Batches /\ Held(a) \in Record
BY DEF IInv, Knows, OnBatch, HasCopy, StorePlace, Place, On, Held

-----------------------------------------------------------------------------
(* The actions, one by one.                                                *)

LEMMA SetStatusMovesWell ==
  ASSUME IInv, NEW a \in Workers \cup Threads, SetStatusLoad(a) \/ SetStatusStore(a)
  PROVE  MovesWell(a)
<1> a \in Agents /\ a \notin Clis
  BY AgentsAssumption DEF Agents, Processes
<1>1. CASE SetStatusLoad(a)
  <2>1. On(a) \in Batches
    BY <1>1 DEF SetStatusLoad, At, On, IInv, Knows, OnBatch, Place, StorePlace
  <2>2. CASE Leave(a) /\ UNCHANGED <<disk, tree>>
    BY <2>2, LeaveMovesWell DEF IInv, TypeOK
  <2>3. CASE Load(a, On(a), "set_store")
    BY <1>1, <2>1, <2>3, NotAtStore, LoadMovesWell
    DEF SetStatusLoad, At, Place, StorePlace, HasPage
  <2> QED
    BY <1>1, <2>2, <2>3 DEF SetStatusLoad
<1>2. CASE SetStatusStore(a)
  <2>1. Held(a) \in Record /\ On(a) \in Batches
    BY <1>2, AtStore DEF SetStatusStore, At, StorePlace
  <2>2. [Held(a) EXCEPT !.status = "pending", !.stamp = None] \in Record
    BY <2>1 DEF Record, Status
  <2> QED
    BY <1>2, <2>1, <2>2, StoreAndLeaveMovesWell DEF SetStatusStore
<1> QED
  BY <1>1, <1>2

LEMMA WorkerMovesWell ==
  ASSUME IInv, NEW w \in Workers,
         \/ Start(w) \/ ListForRequeue(w) \/ ListForSweep(w) \/ SweepDone(w)
         \/ BeginStore(w)
         \/ \E b \in Batches : \E record \in agent[w].listed[b] :
              \/ RequeueNext(w, b, record) \/ PassOver(w, b, record)
              \/ BeginPass(w, b, record)
         \/ \E b \in Batches : FileEvent(w, b)
  PROVE  MovesWell(w)
<1> w \in Agents /\ w \in Processes
  BY DEF Agents, Processes
<1> /\ agent[w] \in Agent
    /\ registry \in [Batches -> Record] /\ tree \in [Batches -> Tree]
    /\ whole \in SUBSET Batches /\ copies \in [Batches -> SUBSET Record]
    /\ life \in [Processes -> Nat]
  BY DEF IInv, TypeOK
<1> USE DEF Agent, StorePlace, Place, Knows, OnBatch, HasCopy, HasPage, At
<1>1. CASE Start(w)
  <2>1. /\ [Resting EXCEPT !.at = "start"] \in Agent
        /\ Knows([Resting EXCEPT !.at = "start"])
    BY DEF Resting
  <2>2. life' \in [Processes -> Nat]
    BY <1>1 DEF Start
  <2> QED
    BY <1>1, <2>1, <2>2, BecomeMovesWell DEF Start
<1>2. ASSUME NEW place \in {"requeue", "sweep"}, ~agent[w].taken,
             NEW list \in [Batches -> SUBSET Record],
             Become(w, [agent[w] EXCEPT !.at = place, !.listed = list]),
             UNCHANGED <<disk, tree, life>>
      PROVE  MovesWell(w)
  <2>1. [agent[w] EXCEPT !.at = place, !.listed = list] \in Agent
    OBVIOUS
  <2> QED
    BY <1>2, <2>1, BecomeMovesWell
<1>3. CASE ListForRequeue(w) \/ ListForSweep(w)
  <2>0. ~agent[w].taken
    BY <1>3, NotAtStore DEF ListForRequeue, ListForSweep
  <2>1. Batches # {} => AllListed \in [Batches -> SUBSET Record]
    BY ListWell
  <2>2. AllListed \in [Batches -> SUBSET Record]
    BY <2>1 DEF AllListed
  <2> QED
    BY <1>2, <1>3, <2>0, <2>2 DEF ListForRequeue, ListForSweep
<1>4. CASE SweepDone(w)
  <2>1. [agent[w] EXCEPT !.at = "idle"] \in Agent /\ ~agent[w].taken
    BY <1>4, NotAtStore DEF SweepDone
  <2> QED
    BY <1>4, <2>1, BecomeMovesWell DEF SweepDone, Go
<1>5. ASSUME NEW b \in Batches, NEW record, NEW dead \in BOOLEAN,
             RequeueIf(dead, w, b, record)
      PROVE  MovesWell(w)
  <2> DEFINE place == IF dead THEN "set_load" ELSE "requeue"
             on    == IF dead THEN b ELSE None
             next  == [agent[w] EXCEPT !.at = place, !.on = on,
                                       !.listed = Struck(w, b, record)]
  <2>0. Struck(w, b, record) \in [Batches -> SUBSET Record] /\ ~agent[w].taken
    BY <1>5, ListWell, NotAtStore DEF RequeueIf
  <2>1. next \in Agent
    BY <2>0
  <2>2. Knows(next)
    BY <2>0
  <2>3. Become(w, next) /\ UNCHANGED <<disk, tree, life>>
    BY <1>5 DEF RequeueIf
  <2> HIDE DEF next, Agent, StorePlace, Place, Knows, OnBatch, HasCopy, HasPage, At
  <2> QED
    BY <2>1, <2>2, <2>3, BecomeMovesWell
<1>6. ASSUME NEW b \in Batches, NEW record, PassOver(w, b, record) PROVE MovesWell(w)
  <2>0. Struck(w, b, record) \in [Batches -> SUBSET Record] /\ ~agent[w].taken
    BY <1>6, ListWell, NotAtStore DEF PassOver
  <2>1. [agent[w] EXCEPT !.listed = Struck(w, b, record)] \in Agent
    BY <2>0
  <2> QED
    BY <1>6, <2>0, <2>1, BecomeMovesWell DEF PassOver
<1>7. ASSUME NEW b \in Batches, FileEvent(w, b) PROVE MovesWell(w)
  <2>1. PICK record \in Listing(b) :
          Become(w, [agent[w] EXCEPT !.at = "sweep", !.listed = Only(b, record)])
    BY <1>7 DEF FileEvent
  <2>0. ~agent[w].taken
    BY <1>7, NotAtStore DEF FileEvent
  <2>2. Only(b, record) \in [Batches -> SUBSET Record]
    BY ListWell
  <2> QED
    BY <1>2, <1>7, <2>0, <2>1, <2>2 DEF FileEvent
<1>8. ASSUME NEW b \in Batches, NEW record \in agent[w].listed[b], BeginPass(w, b, record)
      PROVE  MovesWell(w)
  <2> DEFINE copy == Stamped(w, record)
             list == Struck(w, b, record)
             next == [agent[w] EXCEPT !.at = "begin_store", !.on = b, !.held = copy,
                                      !.listed = list]
  <2>1. copy \in Record
    BY ListWell, StampedWell
  <2>2. list \in [Batches -> SUBSET Record] /\ ~agent[w].taken
    BY <1>8, ListWell, NotAtStore DEF BeginPass, Reconcilable
  <2> HIDE DEF copy, list
  <2>3. next \in Agent
    BY <2>1, <2>2
  <2>4. Knows(next)
    BY <2>1, <2>2
  <2>5. Become(w, next) /\ UNCHANGED <<disk, tree, life>>
    BY <1>8 DEF BeginPass, copy, list
  <2> HIDE DEF next, Agent, StorePlace, Place, Knows, OnBatch, HasCopy, HasPage, At
  <2> QED
    BY <2>3, <2>4, <2>5, BecomeMovesWell
<1>9. CASE BeginStore(w)
  <2>1. Held(w) \in Record /\ On(w) \in Batches
    BY <1>9, AtStore DEF BeginStore
  <2> QED
    BY <1>9, <2>1, StoreMovesWell DEF BeginStore
<1> QED
  BY <1>1, <1>3, <1>4, <1>5, <1>6, <1>7, <1>8, <1>9 DEF RequeueNext

LEMMA CliMovesWell ==
  ASSUME IInv, NEW c \in Clis,
         CliStore(c) \/ FailStore(c) \/ \E b \in Batches : CliLoad(c, b)
  PROVE  MovesWell(c)
<1> c \in Agents /\ c \in Processes
  BY DEF Agents, Processes
<1> /\ agent[c] \in Agent /\ Knows(agent[c])
    /\ registry \in [Batches -> Record] /\ tree \in [Batches -> Tree]
    /\ whole \in SUBSET Batches /\ copies \in [Batches -> SUBSET Record]
    /\ life \in [Processes -> Nat]
  BY DEF IInv, TypeOK
<1>1. ASSUME NEW b \in Batches, CliLoad(c, b) PROVE MovesWell(c)
  <2> DEFINE next == [Resting EXCEPT !.at = "cli_store", !.on = b, !.held = registry[b]]
  <2>1. life' = [life EXCEPT ![c] = @ + 1] /\ UNCHANGED <<disk, tree>>
    BY <1>1 DEF CliLoad
  <2>2. life' \in [Processes -> Nat]
    BY <2>1
  <2>3. Become(c, next)
    BY <1>1 DEF CliLoad
  <2>4. next \in Agent /\ Knows(next)
    BY DEF Resting, Agent, StorePlace, Place, Knows, OnBatch, HasCopy, HasPage
  <2> HIDE DEF next
  <2> QED
    BY <2>1, <2>2, <2>3, <2>4, BecomeMovesWell
<1>2. CASE CliStore(c)
  <2> DEFINE record == Stamped(c, Held(c))
             list   == Only(On(c), record)
             next   == [agent[c] EXCEPT !.at = "loop", !.held = None, !.taken = FALSE,
                                        !.listed = list]
  <2>1. On(c) \in Batches /\ Held(c) \in Record
    BY <1>2, AtStore DEF CliStore, At, StorePlace
  <2>2. record \in Record
    BY <2>1, StampedWell
  <2>3. Put(c, record) /\ Become(c, next) /\ UNCHANGED <<tree, life>>
    BY <1>2 DEF CliStore
  <2> HIDE DEF record
  <2>4. list \in [Batches -> SUBSET Record]
    BY <2>1, <2>2, ListWell
  <2> HIDE DEF list
  <2>5. next \in Agent /\ Knows(next)
    BY <2>1, <2>4 DEF Agent, Knows, OnBatch, HasCopy, HasPage, StorePlace, Place, On
  <2>6. /\ registry' \in [Batches -> Record]
        /\ whole' \in SUBSET Batches /\ copies' \in [Batches -> SUBSET Record]
    BY <2>1, <2>2, <2>3, PutWell
  <2> HIDE DEF next
  <2> QED
    BY <2>3, <2>5, <2>6, BecomeMovesWell
<1>3. CASE FailStore(c)
  BY <1>3, AtStore, StoreAndLeaveMovesWell DEF FailStore, At, StorePlace
<1> QED
  BY <1>1, <1>2, <1>3

LEMMA StageMovesWell ==
  ASSUME IInv, NEW m \in Processes, StageStep(m)
  PROVE  MovesWell(m)
<1> m \in Agents
  BY DEF Agents
<1> /\ agent[m] \in Agent /\ Knows(agent[m])
    /\ registry \in [Batches -> Record] /\ tree \in [Batches -> Tree]
    /\ whole \in SUBSET Batches /\ copies \in [Batches -> SUBSET Record]
    /\ life \in [Processes -> Nat]
  BY DEF IInv, TypeOK
<1>1. ASSUME NEW place \in Place \ (HasCopy \cup HasPage), ~agent[m].taken,
             On(m) \in Batches, Go(m, place), UNCHANGED disk,
             tree' \in [Batches -> Tree], life' = life
      PROVE  MovesWell(m)
  <2>1. [agent[m] EXCEPT !.at = place] \in Agent
    BY DEF Agent
  <2>2. Knows([agent[m] EXCEPT !.at = place])
    BY <1>1 DEF Knows, HasCopy, StorePlace, HasPage, On, At, Agent
  <2> QED
    BY <1>1, <2>1, <2>2, BecomeMovesWell DEF Go
<1>2. ASSUME NEW place \in OnBatch \ StorePlace, At(m, place)
      PROVE  On(m) \in Batches /\ ~agent[m].taken
  BY <1>2 DEF Knows, At, On, OnBatch
<1>3. CASE Classify(m)
  <2>1. tree' \in [Batches -> Tree]
    BY ZenonT(60), <1>3 DEF Classify, Tree
  <2>2. UNCHANGED <<disk, agent, life>>
    BY <1>3 DEF Classify
  <2> QED
    BY <2>1, <2>2, StaysWell
<1>4. ASSUME NEW p \in Pages, Orient(m, p) PROVE MovesWell(m)
  <2>1. tree' \in [Batches -> Tree]
    BY ZenonT(60), <1>4 DEF Orient, Tree
  <2>2. UNCHANGED <<disk, agent, life>>
    BY <1>4 DEF Orient
  <2> QED
    BY <2>1, <2>2, StaysWell
<1>5. CASE BeginRead(m)
  <2>1. On(m) \in Batches /\ ~agent[m].taken
    BY <1>2, <1>5 DEF BeginRead, OnBatch, StorePlace, Place
  <2>2. ASSUME NEW place \in {"direct_load", "rows"}, NEW pages \in SUBSET Pages,
               Become(m, [agent[m] EXCEPT !.at = place, !.todo = pages])
        PROVE  MovesWell(m)
    <3> DEFINE next == [agent[m] EXCEPT !.at = place, !.todo = pages]
    <3>1. next \in Agent
      BY DEF Agent, StorePlace, Place
    <3>2. Knows(next)
      BY <2>1 DEF Knows, HasCopy, StorePlace, HasPage, On, At, Agent
    <3> QED
      BY <1>5, <2>2, <3>1, <3>2, BecomeMovesWell DEF BeginRead
  <2>3. DirectPages \in SUBSET Pages /\ RowPages \in SUBSET Pages
    BY DEF DirectPages, RowPages
  <2> QED
    BY <1>5, <2>2, <2>3 DEF BeginRead
<1>6. ASSUME NEW place \in OnBatch \ HasPage, NEW from \in OnBatch \ StorePlace,
             At(m, from), Load(m, On(m), place)
      PROVE  MovesWell(m)
  <2>1. On(m) \in Batches /\ ~agent[m].taken
    BY <1>2, <1>6
  <2> QED
    BY <1>6, <2>1, LoadMovesWell DEF OnBatch
<1>7. CASE DirectLoad(m) \/ GroupLoad(m) \/ FinishLoad(m) \/ CloseLoad(m)
  BY <1>6, <1>7 DEF DirectLoad, GroupLoad, FinishLoad, CloseLoad, OnBatch, StorePlace, Place, HasPage
<1>9. CASE DirectStore(m)
  <2>1. Held(m) \in Record /\ On(m) \in Batches
    BY <1>9, AtStore DEF DirectStore, At, StorePlace
  <2>2. Stamped(m, Held(m)) \in Record
    BY <2>1, StampedWell
  <2>3. "direct" \in Place \ (HasCopy \cup HasPage)
    BY DEF StorePlace, Place, HasCopy, HasPage
  <2> QED
    BY <1>9, <2>1, <2>2, <2>3, StoreMovesWell DEF DirectStore
<1>10. CASE DirectText(m)
  <2>1. tree' \in [Batches -> Tree]
    BY ZenonT(60), <1>10 DEF DirectText, Tree, Knows, HasPage, At
  <2> DEFINE next == [agent[m] EXCEPT !.at = "direct_mark"]
  <2>2. next \in Agent
    BY DEF Agent, StorePlace, Place
  <2>3. Knows(next)
    BY <1>10 DEF DirectText, Knows, HasCopy, StorePlace, HasPage, OnBatch, StorePlace, Place, At, Agent
  <2>4. Become(m, next) /\ UNCHANGED <<disk, life>>
    BY <1>10 DEF DirectText, Go
  <2> HIDE DEF next
  <2> QED
    BY <2>1, <2>2, <2>3, <2>4, BecomeMovesWell
<1>11. CASE DirectMark(m)
  <2> DEFINE next == [agent[m] EXCEPT !.at = "direct", !.page = None]
  <2>1. tree' \in [Batches -> Tree]
    BY ZenonT(60), <1>11 DEF DirectMark, Tree, Knows, HasPage, At
  <2>2. next \in Agent
    BY DEF Agent, StorePlace, Place
  <2>3. Knows(next)
    BY <1>11 DEF DirectMark, Knows, HasCopy, StorePlace, HasPage, OnBatch, StorePlace, Place, At, Agent
  <2>4. Become(m, next) /\ UNCHANGED <<disk, life>>
    BY <1>11 DEF DirectMark
  <2> HIDE DEF next
  <2> QED
    BY <2>1, <2>2, <2>3, <2>4, BecomeMovesWell
<1>12. CASE DirectDone(m)
  BY <1>1, <1>2, <1>12 DEF DirectDone, OnBatch, StorePlace, Place, HasCopy, HasPage
<1>13. CASE CloseStore(m)
  <2> DEFINE record == [Held(m) EXCEPT !.status = "review"]
             next   == [agent[m] EXCEPT !.at = "rows", !.held = None, !.taken = FALSE,
                                        !.todo = RowPages]
  <2>1. Held(m) \in Record /\ On(m) \in Batches
    BY <1>13, AtStore DEF CloseStore, At, StorePlace
  <2>2. record \in Record
    BY <2>1 DEF Record, Status
  <2>3. /\ registry' \in [Batches -> Record]
        /\ whole' \in SUBSET Batches /\ copies' \in [Batches -> SUBSET Record]
    <3> HIDE DEF record
    <3> QED
      BY <1>13, <2>1, <2>2, PutWell DEF CloseStore, record
  <2>4. next \in Agent
    BY DEF Agent, StorePlace, Place, RowPages
  <2>5. Knows(next)
    BY <2>1 DEF Knows, HasCopy, StorePlace, HasPage, On, Agent
  <2>6. Become(m, next) /\ UNCHANGED <<tree, life>>
    BY <1>13 DEF CloseStore
  <2> HIDE DEF next
  <2> QED
    BY <2>3, <2>4, <2>5, <2>6, BecomeMovesWell
<1>14. CASE GroupFile(m)
  <2>1. tree' \in [Batches -> Tree]
    BY ZenonT(60), <1>14 DEF GroupFile, Tree
  <2>2. [agent[m] EXCEPT !.at = "group_store"] \in Agent
    BY DEF Agent, StorePlace, Place
  <2>3. Knows([agent[m] EXCEPT !.at = "group_store"])
    BY <1>14 DEF GroupFile, Knows, HasCopy, StorePlace, HasPage, OnBatch, StorePlace, Place, At, Agent
  <2> QED
    BY <1>14, <2>1, <2>2, <2>3, BecomeMovesWell DEF GroupFile, Go
<1>15. CASE GroupStore(m)
  <2>1. Held(m) \in Record /\ On(m) \in Batches
    BY <1>15, AtStore DEF GroupStore, At, StorePlace
  <2>2. [Held(m) EXCEPT !.agreed = {}] \in Record
    BY <2>1 DEF Record
  <2> QED
    BY <1>15, <2>1, <2>2, StoreMovesWell DEF GroupStore, StorePlace, Place, HasCopy, HasPage
<1>16. CASE PlanDone(m)
  BY <1>1, <1>2, <1>16 DEF PlanDone, OnBatch, StorePlace, Place, HasCopy, HasPage
<1>17. CASE FinishStore(m)
  <2>1. Held(m) \in Record /\ On(m) \in Batches
    BY <1>17, AtStore DEF FinishStore, At, StorePlace
  <2>2. [Held(m) EXCEPT !.status = "review"] \in Record
    BY <2>1 DEF Record, Status
  <2> QED
    BY <1>17, <2>1, <2>2, StoreAndLeaveMovesWell DEF FinishStore
<1> QED
  BY <1>3, <1>4, <1>5, <1>7, <1>9, <1>10, <1>11, <1>12, <1>13, <1>14, <1>15,
     <1>16, <1>17 DEF StageStep

LEMMA ReadMovesWell ==
  ASSUME IInv, NEW a \in Agents, ReadStep(a)
  PROVE  MovesWell(a)
<1> /\ agent[a] \in Agent /\ Knows(agent[a])
    /\ registry \in [Batches -> Record] /\ tree \in [Batches -> Tree]
    /\ whole \in SUBSET Batches /\ copies \in [Batches -> SUBSET Record]
    /\ life \in [Processes -> Nat]
  BY DEF IInv, TypeOK
<1> USE DEF Agent, StorePlace, Place, Knows, OnBatch, HasCopy, HasPage, At
<1>1. ASSUME NEW p \in Pages, SkipPage(a, p) PROVE MovesWell(a)
  <2> DEFINE pages == agent[a].todo \ {p}
             next  == [agent[a] EXCEPT !.todo = pages]
  <2>0. pages \in SUBSET Pages
    OBVIOUS
  <2>1. next \in Agent
    <3> HIDE DEF pages
    <3> QED
      BY <2>0
  <2>2. Knows(next)
    OBVIOUS
  <2>3. Become(a, next) /\ UNCHANGED <<disk, tree, life>>
    BY <1>1 DEF SkipPage
  <2> HIDE DEF next, Agent, StorePlace, Place, Knows, OnBatch, HasCopy, HasPage, At
  <2> QED
    BY <2>1, <2>2, <2>3, BecomeMovesWell
<1>2. ASSUME NEW p \in Pages, ReadPage(a, p) PROVE MovesWell(a)
  <2> DEFINE place == IF At(a, "direct") THEN "direct_read" ELSE "rows_read"
             pages == agent[a].todo \ {p}
             next  == [agent[a] EXCEPT !.at = place, !.page = p, !.todo = pages]
  <2>0. place \in Place /\ pages \in SUBSET Pages
    OBVIOUS
  <2>1. next \in Agent
    <3> HIDE DEF place, pages
    <3> QED
      BY ZenonT(60), <2>0
  <2>2. Knows(next)
    BY <1>2 DEF ReadPage
  <2>3. Become(a, next) /\ UNCHANGED <<disk, tree, life>>
    BY <1>2 DEF ReadPage
  <2> HIDE DEF next, Agent, StorePlace, Place, Knows, OnBatch, HasCopy, HasPage, At
  <2> QED
    BY <2>1, <2>2, <2>3, BecomeMovesWell
<1>3. CASE BlankPage(a)
  <2> DEFINE place == IF At(a, "direct_read") THEN "direct" ELSE "rows"
             next  == [agent[a] EXCEPT !.at = place, !.page = None]
  <2>1. next \in Agent
    BY ZenonT(60)
  <2>2. Knows(next)
    BY <1>3 DEF BlankPage
  <2>3. Become(a, next) /\ UNCHANGED <<disk, tree, life>>
    BY <1>3 DEF BlankPage
  <2> HIDE DEF next, Agent, StorePlace, Place, Knows, OnBatch, HasCopy, HasPage, At
  <2> QED
    BY <2>1, <2>2, <2>3, BecomeMovesWell
<1>4. CASE RowMark(a)
  <2> DEFINE next == [agent[a] EXCEPT !.at = "rows_text"]
  <2>1. agent[a].page \in Pages /\ On(a) \in Batches
    BY <1>4 DEF RowMark, On
  <2>2. tree' \in [Batches -> Tree]
    <3>1. RowsWritten(tree[On(a)], agent[a].page) \in Tree
      BY <2>1, RowsWell
    <3> QED
      BY <1>4, <2>1, <3>1 DEF RowMark
  <2>3. next \in Agent
    OBVIOUS
  <2>4. Knows(next)
    BY <1>4 DEF RowMark
  <2> QED
    BY <1>4, <2>2, <2>3, <2>4, BecomeMovesWell DEF RowMark, Go
<1>5. CASE RowText(a)
  <2> DEFINE next == [agent[a] EXCEPT !.at = "rows", !.page = None]
  <2>1. tree' \in [Batches -> Tree]
    <3>1. agent[a].page \in Pages /\ On(a) \in Batches
      BY <1>5 DEF RowText, On
    <3>2. [tree[On(a)] EXCEPT !.texts = @ \cup {agent[a].page}] \in Tree
      BY <3>1 DEF Tree
    <3> QED
      BY <1>5, <3>1, <3>2 DEF RowText
  <2>2. next \in Agent
    OBVIOUS
  <2>3. Knows(next)
    BY <1>5 DEF RowText
  <2> QED
    BY <1>5, <2>1, <2>2, <2>3, BecomeMovesWell DEF RowText
<1>6. CASE RowsDone(a)
  <2>1. CASE Leave(a) /\ UNCHANGED <<disk, tree>>
    BY <2>1, LeaveMovesWell
  <2>2. CASE Go(a, "loop") /\ UNCHANGED <<disk, tree, life>>
    <3> DEFINE next == [agent[a] EXCEPT !.at = "loop"]
    <3>1. next \in Agent
      OBVIOUS
    <3>2. Knows(next)
      BY <1>6 DEF RowsDone
    <3> QED
      BY <2>2, <3>1, <3>2, BecomeMovesWell DEF Go
  <2> QED
    BY <1>6, <2>1, <2>2 DEF RowsDone
<1> QED
  BY <1>1, <1>2, <1>3, <1>4, <1>5, <1>6 DEF ReadStep

LEMMA RecordMovesWell ==
  ASSUME IInv, NEW a \in Agents, TakeAway(a)
  PROVE  MovesWell(a)
<1> /\ agent[a] \in Agent /\ Knows(agent[a])
    /\ registry \in [Batches -> Record] /\ tree \in [Batches -> Tree]
    /\ whole \in SUBSET Batches /\ copies \in [Batches -> SUBSET Record]
    /\ life \in [Processes -> Nat]
  BY DEF IInv, TypeOK
<1> DEFINE next == [agent[a] EXCEPT !.taken = TRUE]
<1>1. next \in Agent /\ Knows(next)
  BY DEF Agent, Knows, TakeAway
<1>2. Become(a, next) /\ UNCHANGED <<registry, tree, life>>
  BY DEF TakeAway
<1>3. whole' \in SUBSET Batches /\ copies' \in [Batches -> SUBSET Record]
  BY DEF TakeAway
<1> HIDE DEF next
<1> QED
  BY <1>1, <1>2, <1>3, BecomeMovesWell

LEMMA RaisingMovesWell ==
  ASSUME IInv, NEW a \in Agents, Raises(a), agent[a].at \in OnBatch
  PROVE  MovesWell(a)
<1> /\ agent[a] \in Agent /\ Knows(agent[a])
    /\ registry \in [Batches -> Record] /\ tree \in [Batches -> Tree]
    /\ whole \in SUBSET Batches /\ copies \in [Batches -> SUBSET Record]
    /\ life \in [Processes -> Nat]
  BY DEF IInv, TypeOK
<1>1. UNCHANGED <<disk, tree>>
  BY DEF Raises
<1>2. CASE a \in Workers /\ WorkerEnds(a)
  <2>1. a \in Processes
    BY <1>2 DEF Processes
  <2>2. life' \in [Processes -> Nat]
    BY <1>2, <2>1 DEF WorkerEnds
  <2>3. Become(a, Resting) \/ Become(a, [Resting EXCEPT !.at = "start"])
    BY <1>2 DEF WorkerEnds
  <2>4. /\ [Resting EXCEPT !.at = "start"] \in Agent
        /\ Knows([Resting EXCEPT !.at = "start"])
    BY DEF Resting, Agent, StorePlace, Place, Knows, OnBatch, HasCopy, HasPage
  <2> QED
    BY <1>1, <2>2, <2>3, <2>4, RestingWell, BecomeMovesWell
<1>3. CASE PutsItsCopyBack(a)
  <2>1. PICK record \in agent[a].listed[On(a)] :
          Become(a, [agent[a] EXCEPT !.at = "fail_store",
                                     !.held = [record EXCEPT !.status = "pending"],
                                     !.taken = FALSE, !.todo = {}, !.page = None])
    BY <1>3 DEF PutsItsCopyBack
  <2> DEFINE copy == [record EXCEPT !.status = "pending"]
             next == [agent[a] EXCEPT !.at = "fail_store", !.held = copy,
                                      !.taken = FALSE, !.todo = {}, !.page = None]
  <2>2. On(a) \in Batches
    BY DEF Knows, On, OnBatch
  <2>3. copy \in Record
    <3>1. record \in Record
      BY <2>2, ListWell
    <3> QED
      BY <3>1 DEF Record, Status
  <2> HIDE DEF copy
  <2>4. next \in Agent
    BY <2>3 DEF Agent, StorePlace, Place
  <2>5. Knows(next)
    BY <2>2, <2>3 DEF Knows, HasPage, Agent, On
  <2>6. Become(a, next) /\ life' = life
    BY <1>3, <2>1 DEF PutsItsCopyBack, copy
  <2> HIDE DEF next
  <2> QED
    BY <1>1, <2>4, <2>5, <2>6, BecomeMovesWell
<1>4. CASE Leave(a)
  BY <1>1, <1>4, LeaveMovesWell
<1> QED
  BY <1>2, <1>3, <1>4 DEF Raises

LEMMA FailingMovesWell ==
  ASSUME IInv, NEW a \in Agents, PassFails(a) \/ RecordFails(a)
  PROVE  MovesWell(a)
<1>1. agent[a].taken => agent[a].at \in StorePlace
  BY NotAtStore
<1>2. agent[a].at \in OnBatch
  BY <1>1 DEF PassFails, RecordFails, InModelCall, LoadsNothing, FindsTheBase, At,
              OnBatch, Place, StorePlace
<1> QED
  BY <1>2, RaisingMovesWell DEF PassFails, RecordFails

LEMMA KillMovesWell ==
  ASSUME IInv, NEW m \in Processes, Kill(m)
  PROVE  MovesWell(m)
<1>1. life' \in [Processes -> Nat] /\ UNCHANGED <<disk, tree>>
  BY DEF Kill, IInv, TypeOK
<1>2. m \in Agents /\ Become(m, Resting)
  BY DEF Kill, Agents
<1> QED
  BY <1>1, <1>2, RestingWell, BecomeMovesWell DEF IInv, TypeOK

LEMMA ThreadMovesWell ==
  ASSUME IInv, NEW t \in Threads,
         \/ \E b \in Batches : ReviewLoad(t, b) \/ ConfirmLoad(t, b) \/ Requeue(t, b)
         \/ \E b \in Batches, p \in Pages : DrawRows(t, b, p) \/ DropReading(t, b, p)
         \/ ReviewStore(t) \/ ReviewReplace(t) \/ ConfirmStore(t) \/ ThreadDies(t)
  PROVE  MovesWell(t)
<1> t \in Agents
  BY DEF Agents
<1> /\ agent[t] \in Agent /\ Knows(agent[t])
    /\ registry \in [Batches -> Record] /\ tree \in [Batches -> Tree]
    /\ whole \in SUBSET Batches /\ copies \in [Batches -> SUBSET Record]
    /\ life \in [Processes -> Nat]
  BY DEF IInv, TypeOK
<1>1. ASSUME NEW b \in Batches, ReviewLoad(t, b) \/ ConfirmLoad(t, b)
      PROVE  MovesWell(t)
  BY <1>1, NotAtStore, LoadMovesWell
  DEF ReviewLoad, ConfirmLoad, At, StorePlace, Place, HasPage
<1>2. ASSUME NEW b \in Batches, ~agent[t].taken, tree' \in [Batches -> Tree],
             Become(t, [agent[t] EXCEPT !.at = "set_load", !.on = b]),
             UNCHANGED <<disk, life>>
      PROVE  MovesWell(t)
  <2> DEFINE next == [agent[t] EXCEPT !.at = "set_load", !.on = b]
  <2>1. next \in Agent
    BY DEF Agent, StorePlace, Place
  <2>2. Knows(next)
    BY <1>2 DEF Knows, OnBatch, HasCopy, HasPage, StorePlace, Place, Agent
  <2>3. Become(t, next) /\ UNCHANGED <<disk, life>> /\ tree' \in [Batches -> Tree]
    BY <1>2
  <2> HIDE DEF next
  <2> QED
    BY <2>1, <2>2, <2>3, BecomeMovesWell
<1>3. ASSUME NEW b \in Batches, Requeue(t, b) PROVE MovesWell(t)
  <2>1. ~agent[t].taken
    BY <1>3, NotAtStore DEF Requeue, At, StorePlace
  <2> QED
    BY <1>2, <1>3, <2>1 DEF Requeue
<1>4. ASSUME NEW b \in Batches, NEW p \in Pages, DrawRows(t, b, p) PROVE MovesWell(t)
  <2>1. tree' \in [Batches -> Tree]
    BY ZenonT(60), <1>4 DEF DrawRows, Tree
  <2>2. ~agent[t].taken
    BY <1>4, NotAtStore DEF DrawRows, At, StorePlace
  <2> QED
    BY <1>2, <1>4, <2>1, <2>2 DEF DrawRows
<1>5. ASSUME NEW b \in Batches, NEW p \in Pages, DropReading(t, b, p)
      PROVE  MovesWell(t)
  <2> DEFINE next == [agent[t] EXCEPT !.at = "rows", !.on = b, !.todo = {p}]
  <2>1. tree' \in [Batches -> Tree]
    <3>1. RowsDropped(tree[b], p) \in Tree
      BY RowsWell
    <3> QED
      BY <1>5, <3>1 DEF DropReading
  <2>2. next \in Agent
    BY DEF Agent, StorePlace, Place
  <2>3. Knows(next)
    <3>1. ~agent[t].taken
      BY <1>5, NotAtStore DEF DropReading, At, StorePlace
    <3> QED
      BY <3>1 DEF Knows, OnBatch, HasCopy, HasPage, StorePlace, Place, Agent
  <2> QED
    BY <1>5, <2>1, <2>2, <2>3, BecomeMovesWell DEF DropReading
<1>6. CASE ReviewStore(t)
  <2>1. Held(t) \in Record /\ On(t) \in Batches
    BY <1>6, AtStore DEF ReviewStore, At, StorePlace
  <2>2. PICK pages \in SUBSET TextPages :
          StoreAndLeave(t, [Held(t) EXCEPT !.agreed = @ \cup pages])
    BY <1>6 DEF ReviewStore
  <2>3. pages \in SUBSET Pages
    BY DEF TextPages, RowPages, DirectPages
  <2>4. [Held(t) EXCEPT !.agreed = @ \cup pages] \in Record
    BY <2>1, <2>3 DEF Record
  <2> QED
    BY <2>1, <2>2, <2>4, StoreAndLeaveMovesWell
<1>7. CASE ConfirmStore(t)
  <2>1. Held(t) \in Record /\ On(t) \in Batches
    BY <1>7, AtStore DEF ConfirmStore, At, StorePlace
  <2>2. [Held(t) EXCEPT !.status = "confirmed"] \in Record
    BY <2>1 DEF Record, Status
  <2> QED
    BY <1>7, <2>1, <2>2, StoreAndLeaveMovesWell DEF ConfirmStore
<1>8. CASE ThreadDies(t)
  BY <1>8, RestingWell, BecomeMovesWell DEF ThreadDies
<1>9. CASE ReviewReplace(t)
  <2>1. Held(t) \in Record /\ On(t) \in Batches
    BY <1>9, AtStore DEF ReviewReplace, At, StorePlace
  <2>2. PICK agreed \in SUBSET Pages :
          registry' = [registry EXCEPT ![On(t)] = [Held(t) EXCEPT !.agreed = agreed]]
    <3>1. \A pages \in SUBSET TextPages :
            /\ Held(t).agreed \cup pages \in SUBSET Pages
            /\ Held(t).agreed \ pages \in SUBSET Pages
      BY <2>1 DEF Record, TextPages, RowPages, DirectPages
    <3> QED
      BY <1>9, <3>1 DEF ReviewReplace
  <2>3. [Held(t) EXCEPT !.agreed = agreed] \in Record
    BY <2>1 DEF Record
  <2>4. registry' \in [Batches -> Record] /\ whole' \in SUBSET Batches
    BY <1>9, <2>1, <2>2, <2>3 DEF ReviewReplace
  <2> QED
    BY <1>9, <2>4, LeaveMovesWell DEF ReviewReplace
<1> QED
  BY <1>1, <1>3, <1>4, <1>5, <1>6, <1>7, <1>8, <1>9

-----------------------------------------------------------------------------

LEMMA NextMovesWell ==
  ASSUME IInv, Next
  PROVE  \E a \in Agents : MovesWell(a)
<1>1. ASSUME NEW a \in Agents, RecordStep(a) \/ PassFails(a) PROVE MovesWell(a)
  BY <1>1, RecordMovesWell, FailingMovesWell DEF RecordStep
<1>2. ASSUME NEW w \in Workers, WorkerStep(w) \/ \E b \in Batches : FileEvent(w, b)
      PROVE  MovesWell(w) /\ w \in Agents
  BY <1>1, <1>2, WorkerMovesWell, SetStatusMovesWell, StageMovesWell, ReadMovesWell
  DEF WorkerStep, Agents, Processes
<1>3. ASSUME NEW c \in Clis, CliStep(c) PROVE MovesWell(c) /\ c \in Agents
  BY <1>1, <1>3, CliMovesWell, StageMovesWell, ReadMovesWell
  DEF CliStep, Agents, Processes
<1>4. ASSUME NEW t \in Threads, ThreadStep(t) PROVE MovesWell(t) /\ t \in Agents
  BY <1>1, <1>4, ThreadMovesWell, SetStatusMovesWell, ReadMovesWell
  DEF ThreadStep, Agents
<1>5. ASSUME NEW m \in Processes, Kill(m) PROVE MovesWell(m) /\ m \in Agents
  BY <1>5, KillMovesWell DEF Agents
<1> QED
  BY <1>1, <1>2, <1>3, <1>4, <1>5 DEF Next

LEMMA Inductive == Spec => []IInv
<1>1. Init => IInv
  <2> SUFFICES ASSUME Init PROVE IInv
    OBVIOUS
  <2>1. FreshRecord \in Record /\ EmptyTree \in Tree
    BY DEF FreshRecord, Record, Status, EmptyTree, Tree
  <2>2. \A a \in Agents : Resting \in Agent /\ Knows(Resting)
    BY RestingWell
  <2> QED
    BY <2>1, <2>2 DEF Init, IInv, TypeOK
<1>2. IInv /\ [Next]_vars => IInv'
  <2>1. IInv /\ UNCHANGED vars => IInv'
    BY DEF IInv, TypeOK, vars
  <2> QED
    BY <2>1, NextMovesWell, MovesWellKeepsIInv
<1> QED
  BY <1>1, <1>2, PTL DEF Spec

\* The state stays within its declared types, for any number of workers,
\* passes and threads: in particular what a pass or a request thread writes
\* back over a registry record is always a record (update_status, set_status,
\* write_boundaries, record_confirmation).
THEOREM TypeCorrect == Spec => []TypeOK
BY Inductive, PTL DEF IInv

-----------------------------------------------------------------------------
(* How an agreement leaves a record: by cases on the stores.               *)

Lost(b) == ~(registry[b].agreed \subseteq registry'[b].agreed)

Excused(a, b) ==
  /\ agent'[a] # agent[a]
  /\ On(a) = b
  /\ \/ At(a, "review") \/ At(a, "group_store")
     \/ Held(a) # None /\ Held(a).agreed # registry[b].agreed

LEMMA NothingLost ==
  ASSUME NEW b \in Batches, registry' = registry PROVE ~Lost(b)
BY DEF Lost

\* an agent that has written goes on with no base out of its way
LEMMA Written ==
  ASSUME IInv, NEW a \in Agents, NEW record, NEW place,
         Store(a, record, place) \/ StoreAndLeave(a, record)
  PROVE  Put(a, record) /\ agent'[a].taken = FALSE
<1>1. CASE Store(a, record, place)
  BY <1>1 DEF Store, Become, IInv, TypeOK, Agent
<1>2. CASE StoreAndLeave(a, record)
  BY <1>2 DEF StoreAndLeave, Leave, Become, Resting, IInv, TypeOK
<1> QED
  BY <1>1, <1>2

\* the write of a held copy, its agreements as they were
LEMMA WriteExcused ==
  ASSUME IInv, NEW a \in Agents, NEW b \in Batches, Lost(b), NEW record,
         Put(a, record), agent'[a].taken = FALSE, agent[a].at \in StorePlace,
         \/ record.agreed = Held(a).agreed
         \/ At(a, "review") \/ At(a, "group_store")
  PROVE  Excused(a, b)
<1>1. On(a) = b
  BY DEF Put, Lost, IInv, TypeOK
<1>2. registry'[b] = record /\ Held(a) \in Record
  BY <1>1, AtStore DEF Put, IInv, TypeOK
<1>3. agent'[a] # agent[a]
  BY DEF Put
<1>4. record.agreed = Held(a).agreed => Held(a).agreed # registry[b].agreed
  BY <1>2 DEF Lost
<1> QED
  BY <1>1, <1>2, <1>3, <1>4, NoneAssumption DEF Excused

\* The writers, one by one.
Writer(a) ==
  \/ SetStatusStore(a) \/ BeginStore(a) \/ CliStore(a) \/ FailStore(a)
  \/ DirectStore(a) \/ CloseStore(a) \/ GroupStore(a) \/ FinishStore(a)
  \/ ReviewStore(a) \/ ReviewReplace(a) \/ ConfirmStore(a)

\* a review's own write: the request is answered, and so at another place
LEMMA ReviewExcused ==
  ASSUME IInv, NEW a \in Agents, NEW b \in Batches, Lost(b), ReviewReplace(a)
  PROVE  Excused(a, b)
<1>1. On(a) = b
  BY DEF ReviewReplace, Lost, IInv, TypeOK
<1>2. agent'[a] # agent[a]
  <2>1. agent'[a].at # "review"
    BY DEF ReviewReplace, Leave, Become, Resting, At, IInv, TypeOK
  <2> QED
    BY <2>1 DEF ReviewReplace, At
<1> QED
  BY <1>1, <1>2 DEF Excused, ReviewReplace

LEMMA WriterExcused ==
  ASSUME IInv, NEW a \in Agents, NEW b \in Batches, Lost(b), Writer(a)
  PROVE  Excused(a, b)
<1>1. agent[a].at \in StorePlace
  BY DEF Writer, SetStatusStore, BeginStore, CliStore, FailStore, DirectStore,
         CloseStore, GroupStore, FinishStore, ReviewStore, ReviewReplace, ConfirmStore,
         At, StorePlace
<1>2. Held(a) \in Record
  BY <1>1, AtStore
<1>3. CASE BeginStore(a) \/ FailStore(a)
  BY <1>1, <1>3, Written, WriteExcused DEF BeginStore, FailStore
<1>4. CASE SetStatusStore(a)
  <2>1. [Held(a) EXCEPT !.status = "pending", !.stamp = None].agreed = Held(a).agreed
    BY <1>2 DEF Record
  <2> QED
    BY <1>1, <1>4, <2>1, Written, WriteExcused DEF SetStatusStore
<1>5. CASE DirectStore(a)
  <2>1. Stamped(a, Held(a)).agreed = Held(a).agreed
    BY <1>2 DEF Stamped, Record
  <2> QED
    BY <1>1, <1>5, <2>1, Written, WriteExcused DEF DirectStore
<1>6. CASE CloseStore(a)
  <2>1. [Held(a) EXCEPT !.status = "review"].agreed = Held(a).agreed
    BY <1>2 DEF Record
  <2>2. agent'[a].taken = FALSE
    BY <1>6 DEF CloseStore, Become, IInv, TypeOK, Agent
  <2> QED
    BY <1>1, <1>6, <2>1, <2>2, WriteExcused DEF CloseStore
<1>7. CASE GroupStore(a)
  BY <1>1, <1>7, Written, WriteExcused DEF GroupStore
<1>8. CASE FinishStore(a)
  <2>1. [Held(a) EXCEPT !.status = "review"].agreed = Held(a).agreed
    BY <1>2 DEF Record
  <2> QED
    BY <1>1, <1>8, <2>1, Written, WriteExcused DEF FinishStore
<1>9. CASE ReviewStore(a)
  <2>1. PICK record : StoreAndLeave(a, record)
    BY <1>9 DEF ReviewStore
  <2> QED
    BY <1>1, <1>9, <2>1, Written, WriteExcused DEF ReviewStore
<1>12. CASE ReviewReplace(a)
  BY <1>12, ReviewExcused
<1>10. CASE ConfirmStore(a)
  <2>1. [Held(a) EXCEPT !.status = "confirmed"].agreed = Held(a).agreed
    BY <1>2 DEF Record
  <2> QED
    BY <1>1, <1>10, <2>1, Written, WriteExcused DEF ConfirmStore
<1>11. CASE CliStore(a)
  <2>1. Stamped(a, Held(a)).agreed = Held(a).agreed
    BY <1>2 DEF Stamped, Record
  <2>2. agent'[a].taken = FALSE
    BY <1>11 DEF CliStore, Become, IInv, TypeOK, Agent
  <2> QED
    BY <1>1, <1>11, <2>1, <2>2, WriteExcused DEF CliStore
<1> QED
  BY <1>3, <1>4, <1>5, <1>6, <1>7, <1>8, <1>9, <1>10, <1>11, <1>12 DEF Writer

LEMMA ReadLosesNothing ==
  ASSUME NEW a \in Agents, NEW b \in Batches,
         ReadStep(a) \/ RecordStep(a) \/ PassFails(a) \/ SetStatusLoad(a)
  PROVE  ~Lost(b)
BY NothingLost
DEF ReadStep, SkipPage, ReadPage, BlankPage, RowMark, RowText, RowsDone, RecordStep,
    TakeAway, RecordFails, PassFails, Raises, SetStatusLoad, Load

LEMMA StageWrites ==
  ASSUME NEW m \in Processes, NEW b \in Batches, Lost(b), StageStep(m)
  PROVE  Writer(m)
BY NothingLost
DEF StageStep, Classify, Orient, BeginRead, DirectLoad, DirectText, DirectMark,
    DirectDone, CloseLoad, GroupLoad, GroupFile, PlanDone, FinishLoad, Load, Writer

LEMMA NextExcused ==
  ASSUME IInv, NEW b \in Batches, Lost(b), Next
  PROVE  \E a \in Agents : Excused(a, b)
<1>1. ASSUME NEW w \in Workers, WorkerStep(w) \/ \E c \in Batches : FileEvent(w, c)
      PROVE  Writer(w) /\ w \in Agents
  <2> w \in Agents /\ w \in Processes
    BY DEF Agents, Processes
  <2>1. ~ (Start(w) \/ ListForRequeue(w) \/ ListForSweep(w) \/ SweepDone(w))
    BY NothingLost DEF Start, ListForRequeue, ListForSweep, SweepDone
  <2>2. \A c \in Batches : /\ ~ FileEvent(w, c)
                           /\ \A record : ~ (\/ RequeueNext(w, c, record)
                                            \/ PassOver(w, c, record)
                                            \/ BeginPass(w, c, record))
    BY NothingLost DEF RequeueNext, RequeueIf, PassOver, BeginPass, FileEvent
  <2> QED
    BY <1>1, <2>1, <2>2, StageWrites, ReadLosesNothing DEF WorkerStep, Writer
<1>2. ASSUME NEW c \in Clis, CliStep(c) PROVE Writer(c) /\ c \in Agents
  <2> c \in Agents /\ c \in Processes
    BY DEF Agents, Processes
  <2>1. ~ \E d \in Batches : CliLoad(c, d)
    BY NothingLost DEF CliLoad
  <2> QED
    BY <1>2, <2>1, StageWrites, ReadLosesNothing DEF CliStep, Writer
<1>3. ASSUME NEW t \in Threads, ThreadStep(t) PROVE Writer(t) /\ t \in Agents
  <2> t \in Agents
    BY DEF Agents
  <2>1. ~ \E c \in Batches : ReviewLoad(t, c) \/ ConfirmLoad(t, c) \/ Requeue(t, c)
    BY NothingLost DEF ReviewLoad, ConfirmLoad, Requeue, Load
  <2>2. ~ \E c \in Batches, p \in Pages : DrawRows(t, c, p) \/ DropReading(t, c, p)
    BY NothingLost DEF DrawRows, DropReading
  <2>3. ~ ThreadDies(t)
    BY NothingLost DEF ThreadDies
  <2> QED
    BY <1>3, <2>1, <2>2, <2>3, ReadLosesNothing DEF ThreadStep, Writer
<1>4. ASSUME NEW a \in Agents, PassFails(a) PROVE FALSE
  BY <1>4, ReadLosesNothing
<1>5. ASSUME NEW m \in Processes, Kill(m) PROVE FALSE
  BY <1>5, NothingLost DEF Kill
<1> QED
  BY <1>1, <1>2, <1>3, <1>4, <1>5, WriterExcused DEF Next

\* Whatever runs at once, a page stops being agreed in its batch's record only
\* by a person's own review, by a regrouping, or by the write-back of a copy
\* older than the agreement: no other writer of a record drops one
\* (update_status, set_status, write_boundaries, record_confirmation).
THEOREM LostOnlyToStaleCopy == Spec => AgreementLostOnlyToStaleCopy
<1>1. IInv /\ [Next]_vars =>
        [\A b \in Batches : Lost(b) => \E a \in Agents : Excused(a, b)]_vars
  BY NextExcused
<1>2. IInv /\ [Next]_vars =>
        [\A b \in Batches :
           ~(registry[b].agreed \subseteq registry'[b].agreed) =>
             \E a \in Agents :
               /\ agent'[a] # agent[a]
               /\ On(a) = b
               /\ \/ At(a, "review") \/ At(a, "group_store")
                  \/ Held(a) # None /\ Held(a).agreed # registry[b].agreed]_vars
  BY <1>1 DEF Lost, Excused
<1> QED
  BY <1>2, Inductive, PTL DEF Spec, AgreementLostOnlyToStaleCopy

-----------------------------------------------------------------------------
(* Grouping.  Without the server's re-reads markers are only ever added,   *)
(* and the agent that groups a batch found all its text pages marked.      *)

ReadOut(b) == TextPages \subseteq tree[b].marked

GroupInv ==
  /\ GroupedAfterRead
  /\ \A a \in Agents : At(a, "group") => ReadOut(On(a))

\* A step of one process that takes no marker away and groups nothing early.
GroupsWell(a) ==
  /\ agent' = [agent EXCEPT ![a] = agent'[a]]
  /\ \A b \in Batches : tree[b].marked \subseteq tree'[b].marked
  /\ \A b \in Batches : tree'[b].grouped => tree[b].grouped \/ ReadOut(b)
  /\ agent'[a].at = "group" => agent'[a].on \in Batches /\ ReadOut(agent'[a].on)

LEMMA GroupsWellKeepsGroupInv ==
  ASSUME IInv, GroupInv, NEW a \in Agents, GroupsWell(a)
  PROVE  GroupInv'
<1>1. \A b \in Batches : ReadOut(b) => ReadOut(b)'
  BY DEF GroupsWell, ReadOut
<1>2. \A b \in Batches : tree'[b].grouped => ReadOut(b)'
  BY <1>1 DEF GroupsWell, GroupInv, GroupedAfterRead, ReadOut
<1>3. ASSUME NEW c \in Agents, At(c, "group")' PROVE ReadOut(On(c))'
  <2>1. CASE c = a
    BY <1>1, <1>3, <2>1 DEF GroupsWell, At, On, ReadOut
  <2>2. CASE c # a
    <3>1. agent'[c] = agent[c]
      BY <2>2 DEF GroupsWell, IInv, TypeOK
    <3>2. agent[c].on \in Batches /\ ReadOut(agent[c].on)
      BY <1>3, <3>1 DEF GroupInv, IInv, Knows, OnBatch, Place, At, On
    <3> QED
      BY <1>1, <3>1, <3>2 DEF On, ReadOut
  <2> QED
    BY <2>1, <2>2
<1> QED
  BY <1>2, <1>3 DEF GroupInv, GroupedAfterRead, ReadOut

\* A step that leaves the trees alone and does not load a batch to group it.
LEMMA GroupsNothing ==
  ASSUME IInv, NEW a \in Agents, NEW state, Become(a, state), tree' = tree,
         state.at # "group"
  PROVE  GroupsWell(a)
BY DEF GroupsWell, Become, IInv, TypeOK

LEMMA LeavingGroupsNothing ==
  ASSUME IInv, NEW a \in Agents, Leave(a), tree' = tree
  PROVE  GroupsWell(a)
<1> DEFINE next == IF a \in Workers
               THEN [Resting EXCEPT !.at = IF At(a, "set_load") \/ At(a, "set_store")
                                           THEN "requeue" ELSE "sweep",
                                    !.listed = agent[a].listed]
               ELSE Resting
<1>1. next.at # "group"
  BY DEF Resting
<1>2. Become(a, next)
  BY DEF Leave
<1> HIDE DEF next
<1> QED
  BY <1>1, <1>2, GroupsNothing

LEMMA GoGroupsNothing ==
  ASSUME IInv, NEW a \in Agents, NEW place, Go(a, place), place # "group", tree' = tree
  PROVE  GroupsWell(a)
<1> DEFINE next == [agent[a] EXCEPT !.at = place]
<1>1. next.at # "group" /\ Become(a, next)
  BY DEF Go, Agent, IInv, TypeOK
<1> HIDE DEF next
<1> QED
  BY <1>1, GroupsNothing

LEMMA LoadGroupsNothing ==
  ASSUME IInv, NEW a \in Agents, NEW b, NEW place, Load(a, b, place), place # "group"
  PROVE  GroupsWell(a)
<1> DEFINE next == [agent[a] EXCEPT !.at = place, !.on = b, !.held = registry[b]]
<1>1. next.at # "group" /\ Become(a, next) /\ tree' = tree
  BY DEF Load, Agent, IInv, TypeOK
<1> HIDE DEF next
<1> QED
  BY <1>1, GroupsNothing

LEMMA StoreGroupsNothing ==
  ASSUME IInv, NEW a \in Agents, NEW record, NEW place, Store(a, record, place),
         place # "group"
  PROVE  GroupsWell(a)
<1> DEFINE next == [agent[a] EXCEPT !.at = place, !.held = None, !.taken = FALSE]
<1>1. next.at # "group" /\ Become(a, next) /\ tree' = tree
  BY DEF Store, Agent, IInv, TypeOK
<1> HIDE DEF next
<1> QED
  BY <1>1, GroupsNothing

LEMMA StageGroupsWell ==
  ASSUME IInv, GroupInv, NEW m \in Processes, StageStep(m)
  PROVE  GroupsWell(m)
<1> m \in Agents /\ agent[m] \in Agent /\ agent \in [Agents -> Agent]
    /\ tree \in [Batches -> Tree]
  BY DEF Agents, IInv, TypeOK
<1>1. ASSUME NEW p \in Pages, Orient(m, p) PROVE GroupsWell(m)
  <2>1. agent' = agent /\ agent[m].at = "loop"
    BY <1>1 DEF Orient, At
  <2>2. \A b \in Batches : tree'[b].marked = tree[b].marked /\ tree'[b].grouped = tree[b].grouped
    BY <1>1 DEF Orient, Tree
  <2> QED
    BY <2>1, <2>2 DEF GroupsWell
<1>2. CASE Classify(m)
  <2>1. agent' = agent /\ agent[m].at = "loop"
    BY <1>2 DEF Classify, At
  <2>2. \A b \in Batches : tree'[b].marked = tree[b].marked /\ tree'[b].grouped = tree[b].grouped
    BY <1>2 DEF Classify, Tree
  <2> QED
    BY <2>1, <2>2 DEF GroupsWell
<1>3. CASE BeginRead(m)
  <2>1. CASE DirectPages # {}
    <3> DEFINE next == [agent[m] EXCEPT !.at = "direct_load", !.todo = DirectPages]
    <3>1. next.at # "group" /\ Become(m, next) /\ tree' = tree
      BY <1>3, <2>1 DEF BeginRead, Agent
    <3> HIDE DEF next
    <3> QED
      BY <3>1, GroupsNothing
  <2>2. CASE DirectPages = {}
    <3> DEFINE next == [agent[m] EXCEPT !.at = "rows", !.todo = RowPages]
    <3>1. next.at # "group" /\ Become(m, next) /\ tree' = tree
      BY <1>3, <2>2 DEF BeginRead, Agent
    <3> HIDE DEF next
    <3> QED
      BY <3>1, GroupsNothing
  <2> QED
    BY <2>1, <2>2
<1>4. CASE DirectDone(m) \/ PlanDone(m)
  BY <1>4, GoGroupsNothing DEF DirectDone, PlanDone
<1>5. CASE CloseStore(m)
  <2> DEFINE next == [agent[m] EXCEPT !.at = "rows", !.held = None, !.taken = FALSE,
                                      !.todo = RowPages]
  <2>1. next.at # "group" /\ Become(m, next) /\ tree' = tree
    BY <1>5 DEF CloseStore, Agent
  <2> HIDE DEF next
  <2> QED
    BY <2>1, GroupsNothing
<1>11. CASE DirectLoad(m) \/ CloseLoad(m) \/ FinishLoad(m)
  BY <1>11, LoadGroupsNothing DEF DirectLoad, CloseLoad, FinishLoad
<1>12. CASE DirectStore(m) \/ GroupStore(m)
  BY <1>12, StoreGroupsNothing DEF DirectStore, GroupStore
<1>6. CASE FinishStore(m)
  BY <1>6, LeavingGroupsNothing DEF FinishStore, StoreAndLeave
<1>7. CASE DirectText(m)
  <2>1. \A b \in Batches : tree'[b].marked = tree[b].marked /\ tree'[b].grouped = tree[b].grouped
    BY <1>7 DEF DirectText, Tree
  <2>2. agent' = [agent EXCEPT ![m] = [agent[m] EXCEPT !.at = "direct_mark"]]
    BY <1>7 DEF DirectText, Go, Become
  <2>3. agent'[m].at = "direct_mark"
    BY <2>2 DEF Agent
  <2> QED
    BY <2>1, <2>2, <2>3 DEF GroupsWell
<1>8. CASE DirectMark(m)
  <2>1. \A b \in Batches : tree[b].marked \subseteq tree'[b].marked /\ tree'[b].grouped = tree[b].grouped
    BY <1>8 DEF DirectMark, Tree
  <2>2. agent' = [agent EXCEPT ![m] = [agent[m] EXCEPT !.at = "direct", !.page = None]]
    BY <1>8 DEF DirectMark, Become
  <2>3. agent'[m].at = "direct"
    BY <2>2 DEF Agent
  <2> QED
    BY <2>1, <2>2, <2>3 DEF GroupsWell
<1>9. CASE GroupLoad(m)
  <2>1. ReadOut(On(m)) /\ tree' = tree
    BY <1>9 DEF GroupLoad, Gap, ReadOut, Load
  <2>2. On(m) \in Batches
    BY <1>9 DEF GroupLoad, IInv, Knows, OnBatch, StorePlace, Place, At, On
  <2>3. agent' = [agent EXCEPT ![m] = [agent[m] EXCEPT !.at = "group", !.on = On(m),
                                                      !.held = registry[On(m)]]]
    BY <1>9 DEF GroupLoad, Load, Become
  <2>4. agent'[m].on = On(m)
    BY <2>3 DEF Agent
  <2> QED
    BY <2>1, <2>2, <2>3, <2>4 DEF GroupsWell
<1>10. CASE GroupFile(m)
  <2>1. ReadOut(On(m)) /\ On(m) \in Batches
    BY <1>10 DEF GroupInv, GroupFile, IInv, Knows, OnBatch, StorePlace, Place, At, On
  <2>2. \A b \in Batches : /\ tree'[b].marked = tree[b].marked
                           /\ b # On(m) => tree'[b].grouped = tree[b].grouped
    BY <1>10 DEF GroupFile, Tree
  <2>3. agent' = [agent EXCEPT ![m] = [agent[m] EXCEPT !.at = "group_store"]]
    BY <1>10 DEF GroupFile, Go, Become
  <2>4. agent'[m].at = "group_store"
    BY <2>3 DEF Agent
  <2> QED
    BY <2>1, <2>2, <2>3, <2>4 DEF GroupsWell
<1> QED
  BY <1>1, <1>2, <1>3, <1>4, <1>5, <1>6, <1>7, <1>8, <1>9, <1>10, <1>11, <1>12 DEF StageStep

LEMMA ReadGroupsWell ==
  ASSUME IInv, NEW a \in Agents, ReadStep(a)
  PROVE  GroupsWell(a)
<1> agent[a] \in Agent /\ agent \in [Agents -> Agent] /\ tree \in [Batches -> Tree]
  BY DEF IInv, TypeOK
<1>1. ASSUME NEW p \in Pages, SkipPage(a, p) PROVE GroupsWell(a)
  <2> DEFINE next == [agent[a] EXCEPT !.todo = @ \ {p}]
  <2>1. next.at # "group" /\ Become(a, next) /\ tree' = tree
    BY <1>1 DEF SkipPage, Agent, At
  <2> HIDE DEF next
  <2> QED
    BY <2>1, GroupsNothing
<1>2. ASSUME NEW p \in Pages, ReadPage(a, p) PROVE GroupsWell(a)
  <2> DEFINE place == IF At(a, "direct") THEN "direct_read" ELSE "rows_read"
             next  == [agent[a] EXCEPT !.at = place, !.page = p, !.todo = @ \ {p}]
  <2>1. next.at # "group" /\ Become(a, next) /\ tree' = tree
    BY <1>2 DEF ReadPage, Agent, At
  <2> HIDE DEF next
  <2> QED
    BY <2>1, GroupsNothing
<1>3. CASE BlankPage(a)
  <2> DEFINE place == IF At(a, "direct_read") THEN "direct" ELSE "rows"
             next  == [agent[a] EXCEPT !.at = place, !.page = None]
  <2>1. next.at # "group" /\ Become(a, next) /\ tree' = tree
    BY <1>3 DEF BlankPage, Agent, At
  <2> HIDE DEF next
  <2> QED
    BY <2>1, GroupsNothing
<1>4. CASE RowMark(a)
  <2> DEFINE next == [agent[a] EXCEPT !.at = "rows_text"]
  <2>1. next.at # "group" /\ Become(a, next)
    BY <1>4 DEF RowMark, Go, Agent
  <2>2. /\ \A b \in Batches : tree[b].marked \subseteq tree'[b].marked
        /\ \A b \in Batches : tree'[b].grouped = tree[b].grouped
    <3>1. ASSUME NEW b \in Batches, b # On(a) PROVE tree'[b] = tree[b]
      BY <1>4, <3>1 DEF RowMark
    <3>2. ASSUME NEW b \in Batches, b = On(a)
          PROVE  tree[b].marked \subseteq tree'[b].marked /\ tree'[b].grouped = tree[b].grouped
      <4>1. tree'[b] = RowsWritten(tree[b], agent[a].page)
        BY <1>4, <3>2 DEF RowMark
      <4>2. tree[b] \in Tree
        BY <3>2
      <4> QED
        BY <4>1, <4>2 DEF RowsWritten, Tree
    <3> QED
      BY <3>1, <3>2
  <2>3. agent' = [agent EXCEPT ![a] = next] /\ agent'[a] = next
    BY <2>1 DEF Become
  <2> HIDE DEF next
  <2> QED
    BY <2>1, <2>2, <2>3 DEF GroupsWell
<1>5. CASE RowText(a)
  <2> DEFINE next == [agent[a] EXCEPT !.at = "rows", !.page = None]
  <2>1. next.at # "group" /\ Become(a, next)
    BY <1>5 DEF RowText, Agent
  <2>2. \A b \in Batches : tree'[b].marked = tree[b].marked /\ tree'[b].grouped = tree[b].grouped
    BY <1>5 DEF RowText, Tree
  <2>3. agent' = [agent EXCEPT ![a] = next] /\ agent'[a] = next
    BY <2>1 DEF Become
  <2> HIDE DEF next
  <2> QED
    BY <2>1, <2>2, <2>3 DEF GroupsWell
<1>6. CASE RowsDone(a)
  BY <1>6, LeavingGroupsNothing, GoGroupsNothing DEF RowsDone
<1> QED
  BY <1>1, <1>2, <1>3, <1>4, <1>5, <1>6 DEF ReadStep

LEMMA WorkerGroupsWell ==
  ASSUME IInv, NEW w \in Workers,
         \/ Start(w) \/ ListForRequeue(w) \/ ListForSweep(w) \/ SweepDone(w)
         \/ BeginStore(w)
         \/ \E b \in Batches : \E record \in agent[w].listed[b] :
              \/ RequeueNext(w, b, record) \/ PassOver(w, b, record)
              \/ BeginPass(w, b, record)
         \/ \E b \in Batches : FileEvent(w, b)
         \/ SetStatusLoad(w) \/ SetStatusStore(w)
  PROVE  GroupsWell(w)
<1> w \in Agents /\ agent[w] \in Agent
  BY DEF Agents, Processes, IInv, TypeOK
<1>1. CASE Start(w)
  <2>1. [Resting EXCEPT !.at = "start"].at # "group"
    BY DEF Resting
  <2> QED
    BY <1>1, <2>1, GroupsNothing DEF Start
<1>2. CASE SweepDone(w)
  BY <1>2, GoGroupsNothing DEF SweepDone
<1>3. ASSUME NEW place \in {"requeue", "sweep"}, NEW list,
             Become(w, [agent[w] EXCEPT !.at = place, !.listed = list]), tree' = tree
      PROVE  GroupsWell(w)
  <2>1. [agent[w] EXCEPT !.at = place, !.listed = list].at # "group"
    BY DEF Agent
  <2> QED
    BY <1>3, <2>1, GroupsNothing
<1>4. ASSUME NEW b \in Batches, NEW record, NEW dead, RequeueIf(dead, w, b, record)
      PROVE  GroupsWell(w)
  <2> DEFINE place == IF dead THEN "set_load" ELSE "requeue"
             on    == IF dead THEN b ELSE None
             next  == [agent[w] EXCEPT !.at = place, !.on = on,
                                       !.listed = Struck(w, b, record)]
  <2>1. next.at # "group" /\ Become(w, next) /\ tree' = tree
    BY <1>4 DEF RequeueIf, Agent
  <2> HIDE DEF next
  <2> QED
    BY <2>1, GroupsNothing
<1>5. ASSUME NEW b \in Batches, NEW record, PassOver(w, b, record) PROVE GroupsWell(w)
  <2> DEFINE next == [agent[w] EXCEPT !.listed = Struck(w, b, record)]
  <2>1. next.at # "group" /\ Become(w, next) /\ tree' = tree
    BY <1>5 DEF PassOver, Agent, At
  <2> HIDE DEF next
  <2> QED
    BY <2>1, GroupsNothing
<1>6. ASSUME NEW b \in Batches, NEW record, BeginPass(w, b, record) PROVE GroupsWell(w)
  <2> DEFINE next == [agent[w] EXCEPT !.at = "begin_store", !.on = b,
                                      !.held = Stamped(w, record),
                                      !.listed = Struck(w, b, record)]
  <2>1. next.at # "group" /\ Become(w, next) /\ tree' = tree
    BY <1>6 DEF BeginPass, Agent
  <2> HIDE DEF next
  <2> QED
    BY <2>1, GroupsNothing
<1>7. CASE BeginStore(w)
  BY <1>7, StoreGroupsNothing DEF BeginStore
<1>8. CASE SetStatusLoad(w)
  BY <1>8, LeavingGroupsNothing, LoadGroupsNothing DEF SetStatusLoad
<1>9. CASE SetStatusStore(w)
  BY <1>9, LeavingGroupsNothing DEF SetStatusStore, StoreAndLeave
<1>10. CASE ListForRequeue(w) \/ ListForSweep(w) \/ \E b \in Batches : FileEvent(w, b)
  BY <1>3, <1>10 DEF ListForRequeue, ListForSweep, FileEvent
<1> QED
  BY <1>1, <1>2, <1>4, <1>5, <1>6, <1>7, <1>8, <1>9, <1>10 DEF RequeueNext

LEMMA CliGroupsWell ==
  ASSUME IInv, NEW c \in Clis,
         CliStore(c) \/ FailStore(c) \/ \E b \in Batches : CliLoad(c, b)
  PROVE  GroupsWell(c)
<1> c \in Agents /\ agent[c] \in Agent
  BY DEF Agents, Processes, IInv, TypeOK
<1>1. ASSUME NEW b \in Batches, CliLoad(c, b) PROVE GroupsWell(c)
  <2> DEFINE next == [Resting EXCEPT !.at = "cli_store", !.on = b, !.held = registry[b]]
  <2>1. next.at # "group" /\ Become(c, next) /\ tree' = tree
    BY <1>1 DEF CliLoad, Resting
  <2> HIDE DEF next
  <2> QED
    BY <2>1, GroupsNothing
<1>2. CASE CliStore(c)
  <2> DEFINE next == [agent[c] EXCEPT !.at = "loop", !.held = None, !.taken = FALSE,
                                      !.listed = Only(On(c), Stamped(c, Held(c)))]
  <2>1. next.at # "group" /\ Become(c, next) /\ tree' = tree
    BY <1>2 DEF CliStore, Agent
  <2> HIDE DEF next
  <2> QED
    BY <2>1, GroupsNothing
<1>3. CASE FailStore(c)
  BY <1>3, LeavingGroupsNothing DEF FailStore, StoreAndLeave
<1> QED
  BY <1>1, <1>2, <1>3

\* the first half of a write, and what becomes of an agent when a call raises
LEMMA RecordGroupsWell ==
  ASSUME IInv, NEW a \in Agents, RecordStep(a) \/ PassFails(a)
  PROVE  GroupsWell(a)
<1> agent[a] \in Agent
  BY DEF IInv, TypeOK
<1>1. CASE TakeAway(a)
  <2> DEFINE next == [agent[a] EXCEPT !.taken = TRUE]
  <2>1. next.at # "group" /\ Become(a, next) /\ tree' = tree
    BY <1>1 DEF TakeAway, Agent, StorePlace
  <2> HIDE DEF next
  <2> QED
    BY <2>1, GroupsNothing
<1>2. CASE Raises(a)
  <2>1. CASE WorkerEnds(a)
    <3>1. Resting.at # "group" /\ [Resting EXCEPT !.at = "start"].at # "group"
      BY DEF Resting
    <3> QED
      BY <1>2, <2>1, <3>1, GroupsNothing DEF Raises, WorkerEnds
  <2>2. CASE PutsItsCopyBack(a)
    <3>1. PICK record : Become(a, [agent[a] EXCEPT !.at = "fail_store",
                                     !.held = [record EXCEPT !.status = "pending"],
                                     !.taken = FALSE, !.todo = {}, !.page = None])
      BY <2>2 DEF PutsItsCopyBack
    <3> DEFINE next == [agent[a] EXCEPT !.at = "fail_store",
                                        !.held = [record EXCEPT !.status = "pending"],
                                        !.taken = FALSE, !.todo = {}, !.page = None]
    <3>2. next.at # "group" /\ Become(a, next) /\ tree' = tree
      BY <1>2, <3>1 DEF Raises, Agent
    <3> HIDE DEF next
    <3> QED
      BY <3>2, GroupsNothing
  <2>3. CASE Leave(a)
    BY <1>2, <2>3, LeavingGroupsNothing DEF Raises
  <2> QED
    BY <1>2, <2>1, <2>2, <2>3 DEF Raises
<1> QED
  BY <1>1, <1>2 DEF RecordStep, RecordFails, PassFails

LEMMA NextGroupsWell ==
  ASSUME Threads = {}, IInv, GroupInv, Next
  PROVE  \E a \in Agents : GroupsWell(a)
<1>1. ASSUME NEW w \in Workers, WorkerStep(w) \/ \E b \in Batches : FileEvent(w, b)
      PROVE  GroupsWell(w) /\ w \in Agents
  BY <1>1, WorkerGroupsWell, StageGroupsWell, ReadGroupsWell, RecordGroupsWell
  DEF WorkerStep, Agents, Processes
<1>2. ASSUME NEW c \in Clis, CliStep(c) PROVE GroupsWell(c) /\ c \in Agents
  BY <1>2, CliGroupsWell, StageGroupsWell, ReadGroupsWell, RecordGroupsWell
  DEF CliStep, Agents, Processes
<1>3. ASSUME NEW a \in Agents, PassFails(a) PROVE GroupsWell(a)
  BY <1>3, RecordGroupsWell
<1>4. ASSUME NEW m \in Processes, Kill(m) PROVE GroupsWell(m) /\ m \in Agents
  <2>1. Resting.at # "group"
    BY DEF Resting
  <2> QED
    BY <1>4, <2>1, GroupsNothing DEF Kill, Agents
<1> QED
  BY <1>1, <1>2, <1>3, <1>4 DEF Next

\* However many workers and command-line passes overlap on one batch, die
\* half-way and start again, a pile is grouped into documents only once all
\* its writing is read (plan_stages, run_plan); no page being re-read by the
\* server meanwhile, which takes a marker away.
THEOREM ReadBeforeGrouped ==
  ASSUME Threads = {}
  PROVE  Spec => []GroupedAfterRead
<1>1. Init => GroupInv
  BY DEF Init, GroupInv, GroupedAfterRead, EmptyTree, At, Resting
<1>2. IInv /\ GroupInv /\ [Next]_vars => GroupInv'
  <2>1. GroupInv /\ UNCHANGED vars => GroupInv'
    BY DEF GroupInv, GroupedAfterRead, ReadOut, At, On, vars
  <2> QED
    BY <2>1, NextGroupsWell, GroupsWellKeepsGroupInv
<1>3. GroupInv => GroupedAfterRead
  BY DEF GroupInv
<1> QED
  BY <1>1, <1>2, <1>3, Inductive, PTL DEF Spec

-----------------------------------------------------------------------------
(* Stamps.  A stamp names an incarnation of a process that has been; so    *)
(* none is taken for that of a later one.  With one process on the queue,  *)
(* a record that is `importing` under a live stamp is the one it works on, *)
(* and the base file of the batch it works on is there when it loads it.   *)

\* the record bears no stamp, or one that is not from the future
Past(record) ==
  record.stamp # None => record.stamp.life <= life[record.stamp.process]

\* the records there are: on the disk, and in a's hands
Seen(a, record) ==
  \/ record = Held(a)
  \/ \E b \in Batches : \/ record = registry[b]
                        \/ record \in copies[b]
                        \/ record \in agent[a].listed[b]

\* the record's stamp is one that a can have read, or its own
Copied(a, record) ==
  \/ record.stamp = None
  \/ record.stamp = [process |-> a, life |-> life[a]]
  \/ \E other \in Record : Seen(a, other) /\ record.stamp = other.stamp

Between == {"idle", "start", "requeue", "set_load", "set_store", "sweep"}
Settled == Place \ (Between \cup {"begin_store", "cli_store", "fail_store"})

\* m's batch has its base file, but for m's own write; and a failed command
\* puts its batch back in the queue
Undisturbed(m) ==
  /\ agent[m].taken => On(m) \notin whole
  /\ agent[m].at \in Settled /\ ~agent[m].taken => On(m) \in whole
  /\ agent[m].at = "fail_store" => agent[m].held.status = "pending"

\* b is left alone, or no longer `importing`, or worked on by m, or m is gone
Answered(m, b) ==
  \/ registry'[b] = registry[b] /\ life' = life /\ (InPass(m, b) => InPass(m, b)')
  \/ registry'[b].status # "importing"
  \/ InPass(m, b)'
  \/ life'[m] > life[m]

\* A step of m that makes up no stamp and strands no healthy batch.
StampsWell(m) ==
  /\ agent' = [agent EXCEPT ![m] = agent'[m]]
  /\ \A p \in Processes : life'[p] >= life[p]
  /\ \A record \in Record : Seen(m, record)' => Copied(m, record)
  /\ Undisturbed(m)'
  /\ \A b \in Batches \ MayRaise : Answered(m, b)

Timely(m) == \A record \in Record : Seen(m, record) => Past(record)

StampInv(m) == Timely(m) /\ Undisturbed(m) /\ HealthyNotStranded

LEMMA CopiedIsPast ==
  ASSUME IInv, NEW m \in Processes, Timely(m), NEW record \in Record,
         Copied(m, record), record.stamp # None
  PROVE  /\ record.stamp.process \in Processes /\ record.stamp.life \in Nat
         /\ record.stamp.life <= life[record.stamp.process]
<1>1. /\ record.stamp \in Stamp
      /\ record.stamp.process \in Processes /\ record.stamp.life \in Nat
  BY DEF Record, Stamp
<1>2. life \in [Processes -> Nat]
  BY DEF IInv, TypeOK
<1>3. CASE record.stamp = [process |-> m, life |-> life[m]]
  BY <1>1, <1>2, <1>3
<1>4. ASSUME NEW other \in Record, Seen(m, other), record.stamp = other.stamp
      PROVE  record.stamp.life <= life[record.stamp.process]
  BY <1>4 DEF Timely, Past
<1> QED
  BY <1>1, <1>3, <1>4 DEF Copied

LEMMA StampsWellKeepsStampInv ==
  ASSUME NEW m \in Processes, Processes = {m}, IInv, IInv', StampInv(m), StampsWell(m)
  PROVE  StampInv(m)'
<1> /\ registry' \in [Batches -> Record]
    /\ life' \in [Processes -> Nat] /\ life \in [Processes -> Nat]
    /\ \A p \in Processes : life'[p] >= life[p]
  BY DEF IInv, TypeOK, StampsWell
<1>1. ASSUME NEW record \in Record, Seen(m, record)' PROVE Past(record)'
  <2> SUFFICES ASSUME record.stamp # None
               PROVE  record.stamp.life <= life'[record.stamp.process]
    BY DEF Past
  <2>1. /\ record.stamp.process \in Processes /\ record.stamp.life \in Nat
        /\ record.stamp.life <= life[record.stamp.process]
    BY <1>1, CopiedIsPast DEF StampsWell, StampInv
  <2>2. /\ life[record.stamp.process] \in Nat /\ life'[record.stamp.process] \in Nat
        /\ life'[record.stamp.process] >= life[record.stamp.process]
    BY <2>1
  <2> QED
    BY <2>1, <2>2
<1>2. ASSUME NEW b \in Batches \ MayRaise PROVE ~Stranded(b)'
  <2> SUFFICES ASSUME registry'[b].status = "importing", PassAlive(registry[b])',
                      ~InPass(m, b)'
               PROVE  FALSE
    <3>1. PassAlive(registry[b])' => registry'[b].stamp.process = m
      BY DEF PassAlive, Record, Stamp
    <3> QED
      BY <3>1 DEF Stranded
  <2>1. /\ registry'[b].stamp # None /\ registry'[b].stamp.process = m
        /\ registry'[b].stamp.life = life'[m]
    BY DEF PassAlive, Record, Stamp
  <2>2. CASE registry'[b] = registry[b] /\ life' = life /\ (InPass(m, b) => InPass(m, b)')
    BY <2>1, <2>2 DEF StampInv, HealthyNotStranded, Stranded, PassAlive
  <2>3. CASE life'[m] > life[m]
    <3>1. registry'[b] \in Record /\ Copied(m, registry'[b])
      BY DEF StampsWell, Seen
    <3>2. registry'[b].stamp.life <= life[m]
      BY <2>1, <3>1, CopiedIsPast DEF StampInv
    <3>3. life[m] \in Nat /\ life'[m] \in Nat
      OBVIOUS
    <3> QED
      BY <2>1, <2>3, <3>2, <3>3
  <2> QED
    BY <2>2, <2>3 DEF StampsWell, Answered
<1> QED
  BY <1>1, <1>2 DEF StampInv, Timely, HealthyNotStranded, StampsWell

\* what a can have read stays so
LEMMA SeenCopied ==
  ASSUME NEW a, NEW record \in Record, Seen(a, record) PROVE Copied(a, record)
BY DEF Copied

LEMMA KeptCopies ==
  ASSUME IInv, NEW m \in Agents
  PROVE  /\ agent[m].held \in Record => Copied(m, agent[m].held)
         /\ \A b \in Batches : /\ registry[b] \in Record /\ Copied(m, registry[b])
                              /\ \A record \in copies[b] \cup agent[m].listed[b] :
                                   record \in Record /\ Copied(m, record)
<1> \A b \in Batches : /\ registry[b] \in Record /\ copies[b] \subseteq Record
                      /\ agent[m].listed[b] \subseteq Record
  BY DEF IInv, TypeOK, Agent
<1> QED
  BY SeenCopied DEF Seen, Held

\* what there is after a step of m: its copy, its lists, and the disk
LEMMA SeenAfter ==
  ASSUME IInv, NEW m \in Processes, NEW state \in Agent, Become(m, state),
         state.held \in Record => Copied(m, state.held),
         \A b \in Batches : \A record \in state.listed[b] : Copied(m, record),
         \A b \in Batches : Copied(m, registry'[b]),
         \A b \in Batches : copies'[b] \subseteq copies[b] \cup {registry[b]}
  PROVE  /\ agent' = [agent EXCEPT ![m] = agent'[m]] /\ agent'[m] = state
         /\ \A record \in Record : Seen(m, record)' => Copied(m, record)
<1> m \in Agents /\ agent \in [Agents -> Agent]
  BY DEF Agents, IInv, TypeOK
<1>1. agent' = [agent EXCEPT ![m] = state] /\ agent'[m] = state
  BY DEF Become
<1>2. ASSUME NEW record \in Record, Seen(m, record)' PROVE Copied(m, record)
  <2>1. CASE record = state.held
    BY <2>1
  <2>2. ASSUME NEW b \in Batches, record \in copies'[b] PROVE Copied(m, record)
    BY <2>2, SeenCopied DEF Seen
  <2> QED
    BY <1>1, <1>2, <2>1, <2>2 DEF Seen, Held
<1> QED
  BY <1>1, <1>2

\* an agent that leaves the records as they are
LEMMA LooksWell ==
  ASSUME IInv, NEW m \in Processes, NEW state \in Agent, Become(m, state),
         UNCHANGED <<registry, life>>,
         \A b \in Batches : copies'[b] \subseteq copies[b] \cup {registry[b]},
         state.held \in Record => Copied(m, state.held),
         \A b \in Batches : \A record \in state.listed[b] : Copied(m, record),
         \A b \in Batches : InPass(m, b) => InPass(m, b)',
         Undisturbed(m)'
  PROVE  StampsWell(m)
<1> /\ agent \in [Agents -> Agent] /\ life \in [Processes -> Nat]
    /\ registry \in [Batches -> Record]
  BY DEF IInv, TypeOK
<1>1. \A b \in Batches : Copied(m, registry'[b])
  BY SeenCopied DEF Seen
<1>2. /\ agent' = [agent EXCEPT ![m] = agent'[m]]
      /\ \A record \in Record : Seen(m, record)' => Copied(m, record)
  BY <1>1, SeenAfter
<1>3. \A p \in Processes : life'[p] >= life[p]
  OBVIOUS
<1> QED
  BY <1>2, <1>3 DEF StampsWell, Answered

\* an agent between passes, with another list
LEMMA ListsWell ==
  ASSUME IInv, NEW m \in Processes, NEW state \in Agent, Become(m, state),
         UNCHANGED <<disk, life>>, agent[m].at \in Between, ~agent[m].taken,
         state.at \in Between \cup {"begin_store"},
         state.held \in Record => Copied(m, state.held),
         state.taken = agent[m].taken,
         \A b \in Batches : \A record \in state.listed[b] : Copied(m, record)
  PROVE  StampsWell(m)
<1>1. agent'[m] = state
  BY DEF Become, IInv, TypeOK, Agents
<1>2. \A b \in Batches : ~InPass(m, b)
  BY DEF InPass, Between
<1>3. Undisturbed(m)'
  BY <1>1 DEF Undisturbed, Settled, Between
<1> QED
  BY <1>2, <1>3, LooksWell

\* what a step of a pass changes besides the tree: where it is, its pages
LEMMA PassesWell ==
  ASSUME IInv, NEW m \in Processes, Undisturbed(m), NEW state \in Agent,
         Become(m, state), UNCHANGED <<disk, life>>,
         state.held = agent[m].held, state.listed = agent[m].listed,
         state.on = agent[m].on, state.taken = agent[m].taken,
         agent[m].at \in Settled, state.at \in Settled
  PROVE  StampsWell(m)
<1> m \in Agents /\ agent \in [Agents -> Agent]
  BY DEF Agents, IInv, TypeOK
<1>1. agent'[m] = state
  BY DEF Become
<1>2. \A b \in Batches : InPass(m, b) => InPass(m, b)'
  BY <1>1 DEF InPass, On, Settled, Between
<1>3. Undisturbed(m)'
  BY <1>1 DEF Undisturbed, On, Settled
<1> QED
  BY <1>2, <1>3, KeptCopies, LooksWell

LEMMA GoesWell ==
  ASSUME IInv, NEW m \in Processes, Undisturbed(m), NEW place \in Settled,
         Go(m, place), UNCHANGED <<disk, life>>, agent[m].at \in Settled
  PROVE  StampsWell(m)
<1> DEFINE next == [agent[m] EXCEPT !.at = place]
<1> m \in Agents /\ agent[m] \in Agent
  BY DEF Agents, IInv, TypeOK
<1>1. next \in Agent /\ Become(m, next)
  BY DEF Go, Agent, Settled
<1>2. /\ next.held = agent[m].held /\ next.listed = agent[m].listed
      /\ next.on = agent[m].on /\ next.at = place /\ next.taken = agent[m].taken
  BY DEF Agent
<1> HIDE DEF next
<1> QED
  BY <1>1, <1>2, PassesWell

LEMMA StaysStampsWell ==
  ASSUME IInv, NEW m \in Processes, Undisturbed(m), UNCHANGED <<disk, agent, life>>
  PROVE  StampsWell(m)
<1> m \in Agents /\ agent \in [Agents -> Agent] /\ agent[m] \in Agent
  BY DEF Agents, IInv, TypeOK
<1>1. Become(m, agent[m])
  BY DEF Become
<1>2. Undisturbed(m)' /\ \A b \in Batches : InPass(m, b) => InPass(m, b)'
  BY DEF Undisturbed, InPass, On
<1> QED
  BY <1>1, <1>2, KeptCopies, LooksWell

LEMMA LoadStampsWell ==
  ASSUME IInv, NEW m \in Processes, Undisturbed(m), ~agent[m].taken,
         On(m) \in Batches, NEW place \in Place, Load(m, On(m), place),
         \/ place \in Settled
         \/ At(m, "set_load") /\ place = "set_store"
  PROVE  StampsWell(m)
<1> DEFINE next == [agent[m] EXCEPT !.at = place, !.on = On(m), !.held = registry[On(m)]]
<1> m \in Agents /\ agent[m] \in Agent /\ registry \in [Batches -> Record]
    /\ agent \in [Agents -> Agent]
  BY DEF Agents, IInv, TypeOK
<1>1. next \in Agent
  BY DEF Agent
<1>2. Become(m, next) /\ UNCHANGED <<disk, life>> /\ On(m) \in whole
  BY DEF Load
<1>3. /\ next.held = registry[On(m)] /\ next.listed = agent[m].listed
      /\ next.on = On(m) /\ next.at = place /\ ~next.taken
  BY DEF Agent
<1> HIDE DEF next
<1>4. agent'[m] = next
  BY <1>2 DEF Become
<1>5. \A b \in Batches : InPass(m, b) => InPass(m, b)'
  BY <1>3, <1>4 DEF InPass, On, At, Settled, Between
<1>6. Undisturbed(m)'
  BY <1>2, <1>3, <1>4 DEF Undisturbed, On, Settled, Between
<1> QED
  BY <1>1, <1>2, <1>3, <1>5, <1>6, KeptCopies, LooksWell

LEMMA PutStampsWell ==
  ASSUME IInv, NEW m \in Processes, NEW record \in Record, NEW state \in Agent,
         On(m) \in Batches, Copied(m, record), Put(m, record), life' = life,
         Become(m, state), state.on = On(m), state.held = None, ~state.taken,
         \A b \in Batches : \A other \in state.listed[b] : Copied(m, other),
         state.at \in Settled
  PROVE  StampsWell(m)
<1> /\ m \in Agents /\ registry \in [Batches -> Record] /\ life \in [Processes -> Nat]
    /\ agent \in [Agents -> Agent] /\ whole \in SUBSET Batches
  BY DEF Agents, IInv, TypeOK
<1>1. /\ registry' = [registry EXCEPT ![On(m)] = record] /\ copies' = copies
      /\ On(m) \in whole'
  BY DEF Put
<1>2. agent'[m] = state
  BY DEF Become
<1>3. ASSUME NEW b \in Batches PROVE Copied(m, registry'[b]) /\ Answered(m, b)
  <2>1. CASE b = On(m)
    <3>1. registry'[b] = record
      BY <1>1, <2>1
    <3>2. InPass(m, b)'
      BY <2>1, <1>2 DEF InPass, On, Settled, Between
    <3> QED
      BY <3>1, <3>2 DEF Answered
  <2>2. CASE b # On(m)
    <3>1. registry'[b] = registry[b] /\ ~InPass(m, b)
      BY <1>1, <2>2 DEF InPass
    <3> QED
      BY <3>1, SeenCopied DEF Answered, Seen
  <2> QED
    BY <2>1, <2>2
<1>4. \A p \in Processes : life'[p] >= life[p]
  OBVIOUS
<1>5. state.held \notin Record
  BY NoneAssumption
<1>6. /\ agent' = [agent EXCEPT ![m] = agent'[m]]
      /\ \A other \in Record : Seen(m, other)' => Copied(m, other)
  BY <1>1, <1>3, <1>5, SeenAfter
<1>7. Undisturbed(m)'
  BY <1>1, <1>2 DEF Undisturbed, On, Settled
<1> QED
  BY <1>3, <1>4, <1>6, <1>7 DEF StampsWell

LEMMA StoreStampsWell ==
  ASSUME IInv, NEW m \in Processes, NEW record \in Record, NEW place \in Settled,
         On(m) \in Batches, Copied(m, record), Store(m, record, place)
  PROVE  StampsWell(m)
<1> DEFINE next == [agent[m] EXCEPT !.at = place, !.held = None, !.taken = FALSE]
<1> m \in Agents /\ agent[m] \in Agent
  BY DEF Agents, IInv, TypeOK
<1>1. next \in Agent
  BY DEF Agent, Settled
<1>2. /\ next.held = None /\ next.listed = agent[m].listed
      /\ next.on = On(m) /\ next.at = place /\ ~next.taken
  BY DEF Agent, On
<1>3. Become(m, next) /\ life' = life /\ Put(m, record)
  BY DEF Store
<1>4. \A b \in Batches : agent[m].listed[b] \subseteq Record
  BY DEF Agent
<1> HIDE DEF next
<1> QED
  BY <1>1, <1>2, <1>3, <1>4, SeenCopied, PutStampsWell DEF Seen

LEMMA LeaveStampsWell ==
  ASSUME IInv, NEW m \in Processes, Leave(m),
         \A b \in Batches : Copied(m, registry'[b]), copies' = copies,
         \A b \in Batches \ MayRaise :
           \/ registry'[b] = registry[b] /\ ~InPass(m, b)
           \/ registry'[b].status # "importing"
           \/ life'[m] > life[m]
  PROVE  StampsWell(m)
<1> m \in Agents /\ agent \in [Agents -> Agent] /\ life \in [Processes -> Nat]
  BY DEF Agents, IInv, TypeOK
<1> DEFINE place == IF At(m, "set_load") \/ At(m, "set_store") THEN "requeue" ELSE "sweep"
           next  == IF m \in Workers
                    THEN [Resting EXCEPT !.at = place, !.listed = agent[m].listed]
                    ELSE Resting
<1>1. Become(m, next)
  BY DEF Leave
<1>2. /\ next.held = None /\ ~next.taken /\ next.at \notin Settled /\ next.at # "fail_store"
      /\ \A b \in Batches : next.listed[b] \in {{}, agent[m].listed[b]}
  BY DEF Resting, Settled, Between
<1>3. next \in Agent
  BY DEF Resting, Agent, Place, StorePlace
<1> HIDE DEF next
<1>4. \A b \in Batches : \A record \in next.listed[b] : Copied(m, record)
  <2>1. \A b \in Batches : agent[m].listed[b] \subseteq Record
    BY DEF Agent
  <2> QED
    BY <1>2, <2>1, SeenCopied DEF Seen
<1>5. /\ agent' = [agent EXCEPT ![m] = agent'[m]] /\ agent'[m] = next
      /\ \A other \in Record : Seen(m, other)' => Copied(m, other)
  BY <1>1, <1>2, <1>3, <1>4, NoneAssumption, SeenAfter
<1>6. \A p \in Processes : life'[p] >= life[p]
  BY DEF Leave
<1>7. life' = life \/ life'[m] > life[m]
  BY DEF Leave
<1>8. Undisturbed(m)'
  BY <1>2, <1>5 DEF Undisturbed
<1> QED
  BY <1>5, <1>6, <1>7, <1>8 DEF StampsWell, Answered

LEMMA StoreAndLeaveStampsWell ==
  ASSUME IInv, NEW m \in Processes, NEW record \in Record, StoreAndLeave(m, record),
         On(m) \in Batches, Copied(m, record),
         record.status # "importing" \/ On(m) \in MayRaise
  PROVE  StampsWell(m)
<1> registry \in [Batches -> Record]
  BY DEF IInv, TypeOK
<1>1. Leave(m) /\ registry' = [registry EXCEPT ![On(m)] = record] /\ copies' = copies
  BY DEF StoreAndLeave, Put
<1>2. \A b \in Batches : Copied(m, registry'[b])
  BY <1>1, SeenCopied DEF Seen
<1>3. \A b \in Batches \ MayRaise : \/ registry'[b] = registry[b] /\ ~InPass(m, b)
                                    \/ registry'[b].status # "importing"
  BY <1>1 DEF InPass
<1> QED
  BY <1>1, <1>2, <1>3, LeaveStampsWell

LEMMA OwnStamp ==
  ASSUME NEW m \in Processes, NEW record \in Record
  PROVE  Copied(m, Stamped(m, record))
<1>1. Stamped(m, record).stamp = [process |-> m, life |-> life[m]]
  BY DEF Stamped, Record
<1> QED
  BY <1>1 DEF Copied

\* the agent's copy goes back with another status or other agreements
LEMMA HeldStamp ==
  ASSUME IInv, NEW m \in Processes, Held(m) \in Record
  PROVE  /\ Copied(m, Held(m))
         /\ \A s \in Status : Copied(m, [Held(m) EXCEPT !.status = s])
         /\ \A pages \in SUBSET Pages : Copied(m, [Held(m) EXCEPT !.agreed = pages])
         /\ Copied(m, [Held(m) EXCEPT !.status = "pending", !.stamp = None])
<1>1. Seen(m, Held(m))
  BY DEF Seen
<1>2. ASSUME NEW s \in Status PROVE [Held(m) EXCEPT !.status = s].stamp = Held(m).stamp
  BY DEF Record
<1>3. ASSUME NEW pages \in SUBSET Pages
      PROVE  [Held(m) EXCEPT !.agreed = pages].stamp = Held(m).stamp
  BY DEF Record
<1>4. [Held(m) EXCEPT !.status = "pending", !.stamp = None].stamp = None
  BY DEF Record
<1> QED
  BY <1>1, <1>2, <1>3, <1>4 DEF Copied

LEMMA StageStampsWell ==
  ASSUME IInv, NEW m \in Processes, Undisturbed(m), StageStep(m)
  PROVE  StampsWell(m)
<1> /\ m \in Agents /\ agent[m] \in Agent /\ Knows(agent[m])
    /\ agent \in [Agents -> Agent]
  BY DEF Agents, IInv, TypeOK
<1> USE DEF Settled, Between, Place, StorePlace
<1>1. ASSUME NEW place \in OnBatch, At(m, place) PROVE On(m) \in Batches
  BY <1>1 DEF Knows, At, On
<1>2. ASSUME NEW p \in Pages, Classify(m) \/ Orient(m, p) PROVE StampsWell(m)
  BY <1>2, StaysStampsWell DEF Classify, Orient
<1>3. CASE Classify(m)
  BY <1>3, StaysStampsWell DEF Classify
<1>4. CASE BeginRead(m)
  <2>1. PICK place \in {"direct_load", "rows"}, pages \in SUBSET Pages :
          Become(m, [agent[m] EXCEPT !.at = place, !.todo = pages])
    BY <1>4 DEF BeginRead, DirectPages, RowPages
  <2> DEFINE next == [agent[m] EXCEPT !.at = place, !.todo = pages]
  <2>2. next \in Agent
    BY DEF Agent
  <2>3. /\ next.held = agent[m].held /\ next.listed = agent[m].listed
        /\ next.on = agent[m].on /\ next.at = place /\ next.taken = agent[m].taken
    BY DEF Agent
  <2>4. Become(m, next) /\ UNCHANGED <<disk, life>> /\ agent[m].at = "loop"
    BY <1>4, <2>1 DEF BeginRead, At
  <2> HIDE DEF next
  <2> QED
    BY <2>2, <2>3, <2>4, PassesWell
<1>5. CASE DirectText(m) \/ DirectDone(m) \/ GroupFile(m) \/ PlanDone(m)
  BY <1>5, GoesWell DEF DirectText, DirectDone, GroupFile, PlanDone, At
<1>6. CASE DirectLoad(m) \/ CloseLoad(m) \/ GroupLoad(m) \/ FinishLoad(m)
  <2>1. On(m) \in Batches /\ ~agent[m].taken
    BY <1>1, <1>6, NotAtStore DEF DirectLoad, CloseLoad, GroupLoad, FinishLoad, OnBatch, At
  <2> QED
    BY <1>6, <2>1, LoadStampsWell DEF DirectLoad, CloseLoad, GroupLoad, FinishLoad
<1>7. CASE DirectMark(m)
  <2> DEFINE next == [agent[m] EXCEPT !.at = "direct", !.page = None]
  <2>1. next \in Agent
    BY DEF Agent
  <2>2. /\ next.held = agent[m].held /\ next.listed = agent[m].listed
        /\ next.on = agent[m].on /\ next.at = "direct" /\ next.taken = agent[m].taken
    BY DEF Agent
  <2>3. Become(m, next) /\ UNCHANGED <<disk, life>> /\ agent[m].at = "direct_mark"
    BY <1>7 DEF DirectMark, At
  <2> HIDE DEF next
  <2> QED
    BY <2>1, <2>2, <2>3, PassesWell
<1>8. CASE DirectStore(m)
  <2>1. On(m) \in Batches /\ Held(m) \in Record
    BY <1>8, AtStore DEF DirectStore, At
  <2>2. Stamped(m, Held(m)) \in Record /\ Copied(m, Stamped(m, Held(m)))
    BY <2>1, StampedWell, OwnStamp
  <2> QED
    BY <1>8, <2>1, <2>2, StoreStampsWell DEF DirectStore
<1>9. CASE GroupStore(m)
  <2>1. On(m) \in Batches /\ Held(m) \in Record
    BY <1>9, AtStore DEF GroupStore, At
  <2>2. [Held(m) EXCEPT !.agreed = {}] \in Record
    BY <2>1 DEF Record
  <2>3. Copied(m, [Held(m) EXCEPT !.agreed = {}])
    BY <2>1, HeldStamp
  <2> QED
    BY <1>9, <2>1, <2>2, <2>3, StoreStampsWell DEF GroupStore
<1>10. CASE CloseStore(m)
  <2> DEFINE next   == [agent[m] EXCEPT !.at = "rows", !.held = None, !.taken = FALSE,
                                        !.todo = RowPages]
             record == [Held(m) EXCEPT !.status = "review"]
  <2>1. On(m) \in Batches /\ Held(m) \in Record
    BY <1>10, AtStore DEF CloseStore, At
  <2>2. record \in Record /\ "review" \in Status
    BY <2>1 DEF Record, Status
  <2>3. Copied(m, record)
    BY <2>1, <2>2, HeldStamp
  <2>4. next \in Agent
    BY DEF Agent, RowPages
  <2>5. /\ next.held = None /\ next.listed = agent[m].listed /\ next.on = On(m)
        /\ next.at = "rows" /\ ~next.taken
    BY DEF Agent, On
  <2>6. Become(m, next) /\ life' = life /\ Put(m, record)
    BY <1>10 DEF CloseStore
  <2> HIDE DEF next, record
  <2> QED
    BY <2>1, <2>2, <2>3, <2>4, <2>5, <2>6, KeptCopies, PutStampsWell
<1>11. CASE FinishStore(m)
  <2> DEFINE record == [Held(m) EXCEPT !.status = "review"]
  <2>1. On(m) \in Batches /\ Held(m) \in Record
    BY <1>11, AtStore DEF FinishStore, At
  <2>2. record \in Record /\ "review" \in Status /\ record.status = "review"
    BY <2>1 DEF Record, Status
  <2>3. Copied(m, record)
    BY <2>1, <2>2, HeldStamp
  <2> QED
    BY <1>11, <2>1, <2>2, <2>3, StoreAndLeaveStampsWell DEF FinishStore
<1> QED
  BY <1>2, <1>3, <1>4, <1>5, <1>6, <1>7, <1>8, <1>9, <1>10, <1>11 DEF StageStep

LEMMA ReadStampsWell ==
  ASSUME Threads = {}, IInv, NEW m \in Processes, Undisturbed(m), ReadStep(m)
  PROVE  StampsWell(m)
<1> /\ m \in Agents /\ agent[m] \in Agent /\ agent \in [Agents -> Agent]
  BY DEF Agents, IInv, TypeOK
<1> USE DEF Settled, Between, Place, StorePlace
<1>1. ASSUME NEW p \in Pages, SkipPage(m, p) PROVE StampsWell(m)
  <2> DEFINE pages == agent[m].todo \ {p}
             next  == [agent[m] EXCEPT !.todo = pages]
  <2>1. pages \in SUBSET Pages
    BY DEF Agent
  <2>2. Become(m, next) /\ UNCHANGED <<disk, life>>
    BY <1>1 DEF SkipPage
  <2> HIDE DEF pages
  <2>3. next \in Agent
    BY <2>1 DEF Agent
  <2>4. /\ next.held = agent[m].held /\ next.listed = agent[m].listed
        /\ next.on = agent[m].on /\ next.taken = agent[m].taken
        /\ next.at = agent[m].at /\ next.at \in {"direct", "rows"}
    BY <1>1 DEF SkipPage, At, Agent
  <2> HIDE DEF next
  <2> QED
    BY <2>2, <2>3, <2>4, PassesWell
<1>2. ASSUME NEW p \in Pages, ReadPage(m, p) PROVE StampsWell(m)
  <2> DEFINE place == IF At(m, "direct") THEN "direct_read" ELSE "rows_read"
             pages == agent[m].todo \ {p}
             next  == [agent[m] EXCEPT !.at = place, !.page = p, !.todo = pages]
  <2>1. pages \in SUBSET Pages /\ place \in {"direct_read", "rows_read"}
    BY DEF Agent
  <2>2. Become(m, next) /\ UNCHANGED <<disk, life>> /\ agent[m].at \in {"direct", "rows"}
    BY <1>2 DEF ReadPage, At
  <2> HIDE DEF pages, place
  <2>3. next \in Agent
    BY <2>1 DEF Agent
  <2>4. /\ next.held = agent[m].held /\ next.listed = agent[m].listed
        /\ next.on = agent[m].on /\ next.at = place /\ next.taken = agent[m].taken
    BY DEF Agent
  <2> HIDE DEF next
  <2> QED
    BY <2>1, <2>2, <2>3, <2>4, PassesWell
<1>3. CASE BlankPage(m)
  <2> DEFINE place == IF At(m, "direct_read") THEN "direct" ELSE "rows"
             next  == [agent[m] EXCEPT !.at = place, !.page = None]
  <2>1. place \in {"direct", "rows"}
    OBVIOUS
  <2>2. /\ Become(m, next) /\ UNCHANGED <<disk, life>>
        /\ agent[m].at \in {"direct_read", "rows_read"}
    BY <1>3 DEF BlankPage, At
  <2> HIDE DEF place
  <2>3. next \in Agent
    BY <2>1 DEF Agent
  <2>4. /\ next.held = agent[m].held /\ next.listed = agent[m].listed
        /\ next.on = agent[m].on /\ next.at = place /\ next.taken = agent[m].taken
    BY DEF Agent
  <2> HIDE DEF next
  <2> QED
    BY <2>1, <2>2, <2>3, <2>4, PassesWell
<1>4. CASE RowMark(m)
  BY <1>4, GoesWell DEF RowMark, At
<1>5. CASE RowText(m)
  <2> DEFINE next == [agent[m] EXCEPT !.at = "rows", !.page = None]
  <2>1. next \in Agent
    BY DEF Agent
  <2>2. /\ next.held = agent[m].held /\ next.listed = agent[m].listed
        /\ next.on = agent[m].on /\ next.at = "rows" /\ next.taken = agent[m].taken
    BY DEF Agent
  <2>3. Become(m, next) /\ UNCHANGED <<disk, life>> /\ agent[m].at = "rows_text"
    BY <1>5 DEF RowText, At
  <2> HIDE DEF next
  <2> QED
    BY <2>1, <2>2, <2>3, PassesWell
<1>6. CASE RowsDone(m)
  BY <1>6, GoesWell DEF RowsDone, At
<1> QED
  BY <1>1, <1>2, <1>3, <1>4, <1>5, <1>6 DEF ReadStep

LEMMA WorkerStampsWell ==
  ASSUME IInv, NEW w \in Workers, Undisturbed(w),
         \/ Start(w) \/ ListForRequeue(w) \/ ListForSweep(w) \/ SweepDone(w)
         \/ \E b \in Batches : FileEvent(w, b)
         \/ \E b \in Batches : \E record \in agent[w].listed[b] :
              RequeueNext(w, b, record) \/ PassOver(w, b, record) \/ BeginPass(w, b, record)
         \/ BeginStore(w) \/ SetStatusLoad(w) \/ SetStatusStore(w)
  PROVE  StampsWell(w)
<1> /\ w \in Agents /\ w \in Processes /\ agent[w] \in Agent /\ Knows(agent[w])
    /\ agent \in [Agents -> Agent] /\ registry \in [Batches -> Record]
    /\ life \in [Processes -> Nat]
  BY DEF Agents, Processes, IInv, TypeOK
<1> USE DEF Place, StorePlace
<1>1. agent[w].at \in {"idle", "start", "requeue", "sweep"} =>
        agent[w].at \in Between /\ ~agent[w].taken
  BY NotAtStore DEF Between
<1>2. CASE Start(w)
  <2>1. life' = [life EXCEPT ![w] = @ + 1] /\ registry' = registry /\ copies' = copies
    BY <1>2 DEF Start
  <2>2. life'[w] > life[w] /\ \A p \in Processes : life'[p] >= life[p]
    BY <2>1
  <2> DEFINE next == [Resting EXCEPT !.at = "start"]
  <2>3. Become(w, next)
    BY <1>2 DEF Start
  <2>4. next \in Agent /\ next.held = None /\ next.at = "start" /\ ~next.taken
        /\ \A b \in Batches : next.listed[b] = {}
    BY DEF Agent, Resting
  <2> HIDE DEF next
  <2>5. /\ agent' = [agent EXCEPT ![w] = agent'[w]] /\ agent'[w] = next
        /\ \A record \in Record : Seen(w, record)' => Copied(w, record)
    BY <2>1, <2>3, <2>4, NoneAssumption, KeptCopies, SeenAfter
  <2>6. Undisturbed(w)'
    BY <2>4, <2>5 DEF Undisturbed, Settled, Between
  <2> QED
    BY <2>1, <2>2, <2>5, <2>6 DEF StampsWell, Answered
<1>3. \A b \in Batches : \A record \in AllListed[b] : Copied(w, record)
  BY KeptCopies DEF AllListed, Listing
<1>4. ASSUME NEW place \in {"requeue", "sweep"}, UNCHANGED <<disk, life>>,
             Become(w, [agent[w] EXCEPT !.at = place, !.listed = AllListed]),
             agent[w].at \in {"idle", "start", "requeue"}
      PROVE  StampsWell(w)
  <2> DEFINE next == [agent[w] EXCEPT !.at = place, !.listed = AllListed]
  <2>1. AllListed \in [Batches -> SUBSET Record]
    BY DEF AllListed, Listing, IInv, TypeOK
  <2>5. next \in Agent
    BY <2>1 DEF Agent
  <2>2. /\ next.held = agent[w].held /\ next.listed = AllListed
        /\ next.at = place /\ next.taken = agent[w].taken
    BY DEF Agent
  <2>3. next.at \in Between
    BY <2>2 DEF Between
  <2>4. Become(w, next)
    BY <1>4
  <2> HIDE DEF next
  <2> QED
    BY <1>1, <1>3, <1>4, <2>2, <2>3, <2>4, <2>5, KeptCopies, ListsWell
<1>5. CASE ListForRequeue(w)
  BY <1>4, <1>5 DEF ListForRequeue, At
<1>6. CASE ListForSweep(w)
  BY <1>4, <1>6 DEF ListForSweep, At
<1>7. CASE SweepDone(w)
  <2> DEFINE next == [agent[w] EXCEPT !.at = "idle"]
  <2>1. next \in Agent
    BY DEF Agent
  <2>2. /\ next.held = agent[w].held /\ next.listed = agent[w].listed
        /\ next.taken = agent[w].taken /\ next.at \in Between
    BY DEF Agent, Between
  <2>3. Become(w, next) /\ UNCHANGED <<disk, life>> /\ agent[w].at = "sweep"
    BY <1>7 DEF SweepDone, Go, At
  <2> HIDE DEF next
  <2> QED
    BY <1>1, <2>1, <2>2, <2>3, KeptCopies, ListsWell
<1>8. ASSUME NEW b \in Batches, NEW record
      PROVE  \A c \in Batches : \A other \in Struck(w, b, record)[c] : Copied(w, other)
  <2>1. \A c \in Batches : Struck(w, b, record)[c] \subseteq agent[w].listed[c]
    BY DEF Struck, Agent
  <2> QED
    BY <2>1, KeptCopies
<1>9. ASSUME NEW b \in Batches, NEW record \in agent[w].listed[b], NEW dead,
             RequeueIf(dead, w, b, record)
      PROVE  StampsWell(w)
  <2> DEFINE place == IF dead THEN "set_load" ELSE "requeue"
             on    == IF dead THEN b ELSE None
             next  == [agent[w] EXCEPT !.at = place, !.on = on,
                                       !.listed = Struck(w, b, record)]
  <2>1. next \in Agent
    BY ListWell DEF Agent
  <2>2. /\ next.held = agent[w].held /\ next.listed = Struck(w, b, record)
        /\ next.taken = agent[w].taken /\ next.at \in Between
    BY DEF Agent, Between
  <2>3. Become(w, next) /\ UNCHANGED <<disk, life>> /\ agent[w].at = "requeue"
    BY <1>9 DEF RequeueIf, At
  <2> HIDE DEF next
  <2> QED
    BY <1>1, <1>8, <2>1, <2>2, <2>3, KeptCopies, ListsWell
<1>10. ASSUME NEW b \in Batches, NEW record \in agent[w].listed[b], PassOver(w, b, record)
       PROVE  StampsWell(w)
  <2> DEFINE next == [agent[w] EXCEPT !.listed = Struck(w, b, record)]
  <2>1. next \in Agent
    BY ListWell DEF Agent
  <2>2. /\ next.held = agent[w].held /\ next.listed = Struck(w, b, record)
        /\ next.taken = agent[w].taken /\ next.at = agent[w].at
    BY DEF Agent
  <2>3. Become(w, next) /\ UNCHANGED <<disk, life>> /\ agent[w].at = "sweep"
    BY <1>10 DEF PassOver, At
  <2> HIDE DEF next
  <2> QED
    BY <1>1, <1>8, <2>1, <2>2, <2>3, KeptCopies, ListsWell
<1>11. ASSUME NEW b \in Batches, FileEvent(w, b) PROVE StampsWell(w)
  <2>1. PICK record \in Listing(b) :
          Become(w, [agent[w] EXCEPT !.at = "sweep", !.listed = Only(b, record)])
    BY <1>11 DEF FileEvent
  <2> DEFINE next == [agent[w] EXCEPT !.at = "sweep", !.listed = Only(b, record)]
  <2>2. record \in Record /\ Copied(w, record)
    BY KeptCopies DEF Listing
  <2>3. next \in Agent
    BY <2>2, ListWell DEF Agent
  <2>4. /\ next.held = agent[w].held /\ next.listed = Only(b, record)
        /\ next.taken = agent[w].taken /\ next.at \in Between
    BY DEF Agent, Between
  <2>5. Become(w, next) /\ UNCHANGED <<disk, life>> /\ agent[w].at = "idle"
    BY <1>11, <2>1 DEF FileEvent, At
  <2>6. \A c \in Batches : \A other \in Only(b, record)[c] : Copied(w, other)
    BY <2>2 DEF Only
  <2> HIDE DEF next
  <2> QED
    BY <1>1, <2>3, <2>4, <2>5, <2>6, KeptCopies, ListsWell
<1>12. ASSUME NEW b \in Batches, NEW record \in agent[w].listed[b], BeginPass(w, b, record)
       PROVE  StampsWell(w)
  <2> DEFINE stamped == Stamped(w, record)
             next    == [agent[w] EXCEPT !.at = "begin_store", !.on = b,
                                         !.held = stamped,
                                         !.listed = Struck(w, b, record)]
  <2>1. record \in Record
    BY ListWell
  <2>2. stamped \in Record /\ Copied(w, stamped)
    BY <2>1, StampedWell, OwnStamp
  <2>3. Become(w, next) /\ UNCHANGED <<disk, life>> /\ agent[w].at = "sweep"
    BY <1>12 DEF BeginPass, Reconcilable, At
  <2> HIDE DEF stamped
  <2>4. next \in Agent
    BY <2>2, ListWell DEF Agent
  <2>5. /\ next.held = stamped /\ next.listed = Struck(w, b, record)
        /\ next.taken = agent[w].taken /\ next.at = "begin_store"
    BY DEF Agent
  <2> HIDE DEF next
  <2> QED
    BY <1>1, <1>8, <2>2, <2>3, <2>4, <2>5, ListsWell
<1>13. CASE BeginStore(w)
  <2>1. On(w) \in Batches /\ Held(w) \in Record
    BY <1>13, AtStore DEF BeginStore, At
  <2> QED
    BY <1>13, <2>1, HeldStamp, StoreStampsWell DEF BeginStore, Settled, Between
<1>14. CASE SetStatusLoad(w)
  <2>1. /\ On(w) \in Batches /\ At(w, "set_load") /\ \A b \in Batches : ~InPass(w, b)
        /\ ~agent[w].taken
    BY <1>14, NotAtStore DEF SetStatusLoad, Knows, At, On, OnBatch, InPass
  <2>2. CASE Leave(w) /\ UNCHANGED <<disk, tree>>
    BY <2>1, <2>2, KeptCopies, LeaveStampsWell
  <2>3. CASE Load(w, On(w), "set_store")
    BY <2>1, <2>3, LoadStampsWell
  <2> QED
    BY <1>14, <2>2, <2>3 DEF SetStatusLoad
<1>15. CASE SetStatusStore(w)
  <2> DEFINE record == [Held(w) EXCEPT !.status = "pending", !.stamp = None]
  <2>1. On(w) \in Batches /\ Held(w) \in Record
    BY <1>15, AtStore DEF SetStatusStore, At
  <2>2. record \in Record /\ record.status = "pending"
    BY <2>1 DEF Record, Status
  <2>3. Copied(w, record)
    BY <2>1, HeldStamp
  <2> QED
    BY <1>15, <2>1, <2>2, <2>3, StoreAndLeaveStampsWell DEF SetStatusStore
<1> QED
  BY <1>2, <1>5, <1>6, <1>7, <1>9, <1>10, <1>11, <1>12, <1>13, <1>14, <1>15
  DEF RequeueNext

LEMMA CliStampsWell ==
  ASSUME IInv, NEW c \in Clis, Undisturbed(c),
         CliStore(c) \/ FailStore(c) \/ \E b \in Batches : CliLoad(c, b)
  PROVE  StampsWell(c)
<1> /\ c \in Agents /\ c \in Processes /\ agent[c] \in Agent /\ Knows(agent[c])
    /\ agent \in [Agents -> Agent] /\ registry \in [Batches -> Record]
    /\ life \in [Processes -> Nat]
  BY DEF Agents, Processes, IInv, TypeOK
<1> USE DEF Place, StorePlace
<1>1. ASSUME NEW b \in Batches, CliLoad(c, b) PROVE StampsWell(c)
  <2> DEFINE next == [Resting EXCEPT !.at = "cli_store", !.on = b, !.held = registry[b]]
  <2>1. life' = [life EXCEPT ![c] = @ + 1] /\ registry' = registry /\ copies' = copies
    BY <1>1 DEF CliLoad
  <2>2. life'[c] > life[c] /\ \A p \in Processes : life'[p] >= life[p]
    BY <2>1
  <2>3. Become(c, next)
    BY <1>1 DEF CliLoad
  <2>4. next \in Agent /\ next.held = registry[b] /\ next.at = "cli_store" /\ ~next.taken
        /\ \A d \in Batches : next.listed[d] = {}
    BY DEF Agent, Resting
  <2> HIDE DEF next
  <2>5. /\ agent' = [agent EXCEPT ![c] = agent'[c]] /\ agent'[c] = next
        /\ \A record \in Record : Seen(c, record)' => Copied(c, record)
    BY <2>1, <2>3, <2>4, KeptCopies, SeenAfter
  <2>6. Undisturbed(c)'
    BY <2>4, <2>5 DEF Undisturbed, Settled, Between
  <2> QED
    BY <2>1, <2>2, <2>5, <2>6 DEF StampsWell, Answered
<1>2. CASE CliStore(c)
  <2> DEFINE record == Stamped(c, Held(c))
             list   == Only(On(c), record)
             next   == [agent[c] EXCEPT !.at = "loop", !.held = None, !.taken = FALSE,
                                        !.listed = list]
  <2>1. On(c) \in Batches /\ Held(c) \in Record
    BY <1>2, AtStore DEF CliStore, At
  <2>2. record \in Record /\ Copied(c, record)
    BY <2>1, StampedWell, OwnStamp
  <2>3. Put(c, record) /\ Become(c, next) /\ life' = life
    BY <1>2 DEF CliStore
  <2> HIDE DEF record
  <2>4. /\ list \in [Batches -> SUBSET Record]
        /\ \A d \in Batches : \A other \in list[d] : Copied(c, other)
    BY <2>1, <2>2, ListWell DEF Only
  <2> HIDE DEF list
  <2>5. next \in Agent
    BY <2>4 DEF Agent
  <2>6. /\ next.held = None /\ next.listed = list /\ ~next.taken
        /\ next.on = On(c) /\ next.at = "loop" /\ "loop" \in Settled
    BY DEF Agent, On, Settled, Between
  <2> HIDE DEF next
  <2> QED
    BY <2>1, <2>2, <2>3, <2>4, <2>5, <2>6, PutStampsWell
<1>3. CASE FailStore(c)
  <2>1. On(c) \in Batches /\ Held(c) \in Record
    BY <1>3, AtStore DEF FailStore, At
  <2>2. Held(c).status # "importing"
    BY <1>3 DEF FailStore, Undisturbed, At, Held
  <2> QED
    BY <1>3, <2>1, <2>2, HeldStamp, StoreAndLeaveStampsWell DEF FailStore
<1> QED
  BY <1>1, <1>2, <1>3

\* the base file is moved out of the way
LEMMA TakeAwayStampsWell ==
  ASSUME IInv, NEW m \in Processes, Undisturbed(m), TakeAway(m)
  PROVE  StampsWell(m)
<1> DEFINE next == [agent[m] EXCEPT !.taken = TRUE]
<1> /\ m \in Agents /\ agent[m] \in Agent /\ agent \in [Agents -> Agent]
    /\ copies \in [Batches -> SUBSET Record]
  BY DEF Agents, IInv, TypeOK
<1>1. next \in Agent
  BY DEF Agent
<1>2. /\ next.held = agent[m].held /\ next.listed = agent[m].listed
      /\ next.on = agent[m].on /\ next.at = agent[m].at /\ next.taken
  BY DEF Agent
<1>3. Become(m, next) /\ UNCHANGED <<registry, life>> /\ whole' = whole \ {On(m)}
  BY DEF TakeAway
<1>4. \A b \in Batches : copies'[b] \subseteq copies[b] \cup {registry[b]}
  BY DEF TakeAway
<1> HIDE DEF next
<1>5. agent'[m] = next
  BY <1>3 DEF Become
<1>6. \A b \in Batches : InPass(m, b) => InPass(m, b)'
  BY <1>2, <1>5 DEF InPass, On
<1>7. Undisturbed(m)'
  <2>1. agent'[m].taken /\ On(m)' \notin whole'
    BY <1>2, <1>3, <1>5 DEF On
  <2>2. agent'[m].at = "fail_store" => agent'[m].held.status = "pending"
    BY <1>2, <1>5 DEF Undisturbed
  <2> QED
    BY <2>1, <2>2 DEF Undisturbed
<1> QED
  BY <1>1, <1>2, <1>3, <1>4, <1>6, <1>7, KeptCopies, LooksWell

\* a call raises: on the record of a batch that m works on undisturbed, none
\* does; elsewhere nobody is in a pass, or the batch is one that may fail
LEMMA RaisesStampsWell ==
  ASSUME Threads = {}, IInv, NEW m \in Processes, Undisturbed(m),
         PassFails(m) \/ RecordFails(m)
  PROVE  StampsWell(m)
<1> /\ m \in Agents /\ agent[m] \in Agent /\ Knows(agent[m])
    /\ registry \in [Batches -> Record] /\ agent \in [Agents -> Agent]
    /\ life \in [Processes -> Nat]
  BY DEF Agents, IInv, TypeOK
<1> USE DEF Place, StorePlace
<1>1. Raises(m) /\ UNCHANGED disk
  BY DEF PassFails, RecordFails, Raises
<1>2. \/ On(m) \in MayRaise
      \/ \A b \in Batches : ~InPass(m, b)
  <2>1. CASE PassFails(m)
    BY <2>1 DEF PassFails
  <2>2. CASE FindsTheBase(m)
    BY <2>2 DEF FindsTheBase, Undisturbed
  <2>3. CASE LoadsNothing(m)
    <3>1. CASE At(m, "set_load")
      BY <3>1 DEF At, InPass
    <3>2. CASE ~At(m, "set_load")
      <4>1. agent[m].at \in Settled /\ ~agent[m].taken
        BY <2>3, <3>2, NotAtStore DEF LoadsNothing, At, Settled, Between
      <4> QED
        BY <2>3, <4>1 DEF LoadsNothing, Undisturbed
    <3> QED
      BY <3>1, <3>2
  <2> QED
    BY <2>1, <2>2, <2>3 DEF RecordFails
<1>3. \A b \in Batches \ MayRaise : registry'[b] = registry[b] /\ ~InPass(m, b)
  BY <1>1, <1>2 DEF InPass
<1>4. CASE Leave(m)
  BY <1>1, <1>3, <1>4, KeptCopies, LeaveStampsWell
<1>5. CASE WorkerEnds(m)
  <2> DEFINE started == [Resting EXCEPT !.at = "start"]
  <2>1. /\ Resting \in Agent /\ Resting.held = None /\ ~Resting.taken
        /\ Resting.at = "idle" /\ \A b \in Batches : Resting.listed[b] = {}
    BY RestingWell DEF Resting
  <2>2. /\ started \in Agent /\ started.held = None /\ ~started.taken
        /\ started.at = "start" /\ \A b \in Batches : started.listed[b] = {}
    BY DEF Resting, Agent
  <2>7. Become(m, Resting) \/ Become(m, started)
    BY <1>5 DEF WorkerEnds
  <2> HIDE DEF started
  <2>8. PICK state \in Agent : /\ Become(m, state) /\ state.held = None /\ ~state.taken
                              /\ state.at \in {"idle", "start"}
                              /\ \A b \in Batches : state.listed[b] = {}
    BY <2>1, <2>2, <2>7
  <2>3. /\ agent' = [agent EXCEPT ![m] = agent'[m]] /\ agent'[m] = state
        /\ \A record \in Record : Seen(m, record)' => Copied(m, record)
    BY <1>1, <2>8, NoneAssumption, KeptCopies, SeenAfter
  <2>4. Undisturbed(m)'
    BY <2>3, <2>8 DEF Undisturbed, Settled, Between
  <2>5. life' = life \/ life' = [life EXCEPT ![m] = @ + 1]
    BY <1>5 DEF WorkerEnds
  <2>6. (life' = life \/ life'[m] > life[m]) /\ \A p \in Processes : life'[p] >= life[p]
    BY <2>5
  <2> QED
    BY <1>3, <2>3, <2>4, <2>6 DEF StampsWell, Answered
<1>6. CASE m \in Clis /\ PutsItsCopyBack(m)
  <2>1. PICK record \in agent[m].listed[On(m)] :
          Become(m, [agent[m] EXCEPT !.at = "fail_store",
                                     !.held = [record EXCEPT !.status = "pending"],
                                     !.taken = FALSE, !.todo = {}, !.page = None])
    BY <1>6 DEF PutsItsCopyBack
  <2> DEFINE copy == [record EXCEPT !.status = "pending"]
             next == [agent[m] EXCEPT !.at = "fail_store", !.held = copy,
                                      !.taken = FALSE, !.todo = {}, !.page = None]
  <2>2. On(m) \in Batches
    BY DEF PassFails, RecordFails, InModelCall, LoadsNothing, FindsTheBase, Undisturbed,
           Knows, OnBatch, At, On
  <2>3. record \in Record /\ Copied(m, record)
    BY <2>2, KeptCopies
  <2>4. /\ copy \in Record /\ copy.status = "pending"
        /\ copy.stamp = record.stamp
    BY <2>3 DEF Record, Status
  <2>5. Copied(m, copy)
    BY <2>3, <2>4 DEF Copied
  <2>6. Become(m, next)
    BY <2>1
  <2> HIDE DEF copy
  <2>7. next \in Agent
    BY <2>4 DEF Agent
  <2>8. /\ next.held = copy /\ next.listed = agent[m].listed /\ ~next.taken
        /\ next.at = "fail_store"
    BY DEF Agent
  <2> HIDE DEF next
  <2>9. agent'[m] = next
    BY <2>6 DEF Become
  <2>10. Undisturbed(m)'
    BY <2>4, <2>8, <2>9 DEF Undisturbed, Settled, Between
  <2>11. life' = life /\ registry' = registry /\ copies' = copies
    BY <1>1, <1>6 DEF PutsItsCopyBack
  <2>12. /\ agent' = [agent EXCEPT ![m] = agent'[m]]
         /\ \A other \in Record : Seen(m, other)' => Copied(m, other)
    BY <2>5, <2>6, <2>7, <2>8, <2>11, KeptCopies, SeenAfter
  <2>13. \A p \in Processes : life'[p] >= life[p]
    BY <2>11
  <2> QED
    BY <1>3, <2>10, <2>11, <2>12, <2>13 DEF StampsWell, Answered
<1> QED
  BY <1>1, <1>4, <1>5, <1>6 DEF Raises

LEMMA KillStampsWell ==
  ASSUME IInv, NEW m \in Processes, Kill(m)
  PROVE  StampsWell(m)
<1> m \in Agents /\ agent \in [Agents -> Agent] /\ life \in [Processes -> Nat]
  BY DEF Agents, IInv, TypeOK
<1>1. /\ Become(m, Resting) /\ life' = [life EXCEPT ![m] = @ + 1]
      /\ registry' = registry /\ copies' = copies
  BY DEF Kill
<1>2. life'[m] > life[m] /\ \A p \in Processes : life'[p] >= life[p]
  BY <1>1
<1>3. /\ Resting \in Agent /\ Resting.held = None /\ ~Resting.taken
      /\ Resting.at \notin Settled /\ Resting.at # "fail_store"
      /\ \A b \in Batches : Resting.listed[b] = {}
  BY RestingWell DEF Resting, Settled, Between
<1>4. /\ agent' = [agent EXCEPT ![m] = agent'[m]] /\ agent'[m] = Resting
      /\ \A record \in Record : Seen(m, record)' => Copied(m, record)
  BY <1>1, <1>3, NoneAssumption, KeptCopies, SeenAfter
<1>5. Undisturbed(m)'
  BY <1>3, <1>4 DEF Undisturbed
<1> QED
  BY <1>2, <1>4, <1>5 DEF StampsWell, Answered

LEMMA NextStampsWell ==
  ASSUME Threads = {}, NEW m \in Processes, Processes = {m}, IInv, Undisturbed(m), Next
  PROVE  StampsWell(m)
<1> Agents = {m}
  BY DEF Agents
<1>1. ASSUME NEW a \in Agents, RecordStep(a) \/ PassFails(a) PROVE StampsWell(m)
  BY <1>1, TakeAwayStampsWell, RaisesStampsWell DEF RecordStep
<1>2. ASSUME NEW w \in Workers, WorkerStep(w) \/ \E b \in Batches : FileEvent(w, b)
      PROVE  StampsWell(m)
  <2>1. w = m
    BY DEF Processes
  <2> QED
    BY <1>1, <1>2, <2>1, WorkerStampsWell, StageStampsWell, ReadStampsWell DEF WorkerStep
<1>3. ASSUME NEW c \in Clis, CliStep(c) PROVE StampsWell(m)
  <2>1. c = m
    BY DEF Processes
  <2> QED
    BY <1>1, <1>3, <2>1, CliStampsWell, StageStampsWell, ReadStampsWell DEF CliStep
<1>4. ASSUME NEW p \in Processes, Kill(p) PROVE StampsWell(m)
  BY <1>4, KillStampsWell
<1> QED
  BY <1>1, <1>2, <1>3, <1>4 DEF Next

\* As long as one process alone writes the records, none of its deaths and
\* restarts strands a batch whose model calls do not fail: no such record says
\* `importing` under a live stamp while nobody works on it (Reconciler.run,
\* requeue_dead, pass_alive), the middle of a write being no exception.
THEOREM NeverStranded ==
  ASSUME Threads = {}, \A p, q \in Processes : p = q
  PROVE  Spec => []HealthyNotStranded
<1>1. CASE Processes = {}
  <2>1. IInv => HealthyNotStranded
    <3>1. IInv => \A b \in Batches : registry[b].stamp = None
      BY <1>1 DEF IInv, TypeOK, Record, Stamp
    <3> QED
      BY <3>1 DEF HealthyNotStranded, Stranded, PassAlive
  <2> QED
    BY <2>1, Inductive, PTL
<1>2. ASSUME NEW m \in Processes PROVE Spec => []HealthyNotStranded
  <2>1. Processes = {m}
    OBVIOUS
  <2>2. Init => StampInv(m)
    <3> SUFFICES ASSUME Init PROVE StampInv(m)
      OBVIOUS
    <3>1. \A b \in Batches : registry[b].stamp = None /\ registry[b].status = "pending"
      BY DEF Init, FreshRecord
    <3>2. agent[m] = Resting /\ copies = [b \in Batches |-> {}]
      BY DEF Init, Agents
    <3>3. Undisturbed(m)
      BY <3>2 DEF Undisturbed, Resting, Settled, Between
    <3>4. \A record \in Record : Seen(m, record) => record.stamp = None
      BY <3>1, <3>2, NoneAssumption DEF Seen, Held, Resting
    <3> QED
      BY <3>1, <3>3, <3>4 DEF StampInv, Timely, Past, HealthyNotStranded, Stranded
  <2>3. IInv /\ IInv' /\ StampInv(m) /\ [Next]_vars => StampInv(m)'
    <3>1. StampInv(m) /\ UNCHANGED vars => StampInv(m)'
      BY DEF StampInv, Timely, Past, Seen, Undisturbed, HealthyNotStranded, Stranded,
             PassAlive, InPass, Held, On, vars
    <3>2. ASSUME IInv, IInv', StampInv(m), Next PROVE StampInv(m)'
      BY <2>1, <3>2, NextStampsWell, StampsWellKeepsStampInv DEF StampInv
    <3> QED
      BY <3>1, <3>2
  <2>4. StampInv(m) => HealthyNotStranded
    BY DEF StampInv
  <2> QED
    BY <2>2, <2>3, <2>4, Inductive, PTL DEF Spec
<1> QED
  BY <1>1, <1>2
=============================================================================
