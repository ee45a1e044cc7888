---------------------------- MODULE Asking_proofs ----------------------------
(***************************************************************************)
(* Proofs about what is asked of models and kept of the answers, for any   *)
(* values of the constants: the review of an import, the reading of a      *)
(* page, the telling of a story, and one call of a model.                  *)
(***************************************************************************)
EXTENDS Reviews, FiniteSetTheorems, SequenceTheorems, WellFoundedInduction, TLAPS

CONSTANTS
    Bands, Answers, NotJson, Strings, LongLines,                                  \* of PageReading
    Contents, Asks, NamesSpoken, Kin, Wordings, Narrators, Words, Today,          \* of Telling
    MaxRetries, MaxCalls                                                          \* of ModelCall

VARIABLES phase, left, got, alone, refused, doubts
VARIABLES narrator, pc, attempt, draft, clean, next, facts, date
VARIABLES client, thinking, budget, retry, burned, calls, outcome

Pr == INSTANCE PageReading
Tl == INSTANCE Telling
Mc == INSTANCE ModelCall WITH attempt <- retry

-----------------------------------------------------------------------------
(* The session's operations, and what a request holds.                     *)

LEMMA FreshType == Fresh \in Attempt /\ <<Fresh>> \in Seq(Attempt) /\ Len(<<Fresh>>) = 1
BY DEF Fresh, Attempt

LEMMA IdleType ==
  ASSUME ReviewsAssumption
  PROVE  Idle \in Caller /\ Idle.pc = "idle"
BY DEF ReviewsAssumption, Idle, Caller, Steps

\* a request that moves on keeps its type
LEMMA CallerType ==
  ASSUME NEW a \in Caller, NEW step \in Steps, NEW n \in 0..MaxRequests, NEW p \in People, NEW h \in Seq(Lines),
         NEW turns \in 0..MaxTurns, NEW tools \in 0..MaxToolCalls
  PROVE  /\ [a EXCEPT !.pc = step] \in Caller
         /\ [a EXCEPT !.pc = step, !.request = n] \in Caller
         /\ [a EXCEPT !.pc = step, !.request = n, !.person = p] \in Caller
         /\ [a EXCEPT !.pc = step, !.request = n, !.person = p, !.history = h] \in Caller
         /\ [a EXCEPT !.pc = step, !.turns = turns, !.tools = tools] \in Caller
BY DEF Caller

LEMMA WalkerType ==
  ASSUME NEW a \in Caller, NEW step \in Steps, NEW last \in BOOLEAN
  PROVE  [a EXCEPT !.pc = step, !.last = last] \in Caller
BY DEF Caller

LEMMA DiggerType ==
  ASSUME NEW a \in Caller, NEW turns \in 0..MaxTurns, NEW tools \in 0..MaxToolCalls
  PROVE  [a EXCEPT !.turns = turns, !.tools = tools] \in Caller
BY DEF Caller

LEMMA AttemptsType ==
  ASSUME NEW s \in Session
  PROVE  Attempts(s) \in Seq(Attempt) /\ Len(Attempts(s)) \in 1..Len(Attempts(s))
<1>1. s.attempts \in Seq(Attempt) /\ (s.attempts # <<>> => Len(s.attempts) \in Nat \ {0})
  BY EmptySeq DEF Session
<1> QED
  BY <1>1, FreshType DEF Attempts

\* a started, spoken or decided session is a session, of the same status
LEMMA StartType ==
  ASSUME NEW s \in Session
  PROVE  StartAttempt(s) \in Session /\ StartAttempt(s).status = s.status
BY FreshType DEF StartAttempt, Session

LEMMA MessageType ==
  ASSUME NEW s \in Session, NEW role \in {"user", "assistant"}, NEW n \in 1..MaxRequests
  PROVE  AddMessage(s, role, n) \in Session /\ AddMessage(s, role, n).status = s.status
<1> DEFINE all == Attempts(s)
           i == Len(all)
           a == [all[i] EXCEPT !.messages = Append(@, <<role, n>>)]
<1>1. all \in Seq(Attempt) /\ i \in 1..Len(all)
  BY AttemptsType
<1>2. all[i] \in Attempt
  BY <1>1, ElementOfSeq
<1>3. <<role, n>> \in Lines
  BY DEF Lines
<1>4. a \in Attempt
  <2>1. all[i].messages \in Seq(Lines)
    BY <1>2 DEF Attempt
  <2>2. PICK m \in Seq(Lines) : m = Append(all[i].messages, <<role, n>>)
    BY <1>3, <2>1, AppendProperties
  <2> QED
    BY <1>2, <2>2 DEF Attempt
<1>5. [all EXCEPT ![i] = a] \in Seq(Attempt)
  BY <1>1, <1>4, ExceptSeq
<1>6. AddMessage(s, role, n) = [s EXCEPT !.attempts = [all EXCEPT ![i] = a]]
  BY DEF AddMessage
<1> QED
  BY <1>5, <1>6 DEF Session

LEMMA DecisionType ==
  ASSUME NEW s \in Session, NEW p \in People, NEW last \in BOOLEAN
  PROVE  AddDecision(s, p, last) \in Session /\ AddDecision(s, p, last).status = s.status
<1> DEFINE all == Attempts(s)
           i == Len(all)
           d == [person |-> p, last |-> last]
           a == [all[i] EXCEPT !.decisions = Append(@, d)]
           c == IF last THEN None ELSE p
<1>1. all \in Seq(Attempt) /\ i \in 1..Len(all)
  BY AttemptsType
<1>2. all[i] \in Attempt
  BY <1>1, ElementOfSeq
<1>3. d \in Decided
  BY DEF Decided
<1>4. a \in Attempt
  <2>1. all[i].decisions \in Seq(Decided)
    BY <1>2 DEF Attempt
  <2>2. PICK m \in Seq(Decided) : m = Append(all[i].decisions, d)
    BY <1>3, <2>1, AppendProperties
  <2> QED
    BY <1>2, <2>2 DEF Attempt
<1>5. [all EXCEPT ![i] = a] \in Seq(Attempt)
  BY <1>1, <1>4, ExceptSeq
<1>6. AddDecision(s, p, last) = [s EXCEPT !.attempts = [all EXCEPT ![i] = a], !.current = c]
  BY DEF AddDecision
<1>7. c \in People \cup {None}
  OBVIOUS
<1> QED
  BY <1>5, <1>6, <1>7 DEF Session

LEMMA MessagesType ==
  ASSUME session \in Session
  PROVE  CurrentMessages \in Seq(Lines)
<1>1. CASE session.attempts = <<>>
  BY <1>1, EmptySeq DEF CurrentMessages
<1>2. CASE session.attempts # <<>>
  <2>1. session.attempts \in Seq(Attempt) /\ Len(session.attempts) \in 1..Len(session.attempts)
    BY <1>2, EmptySeq DEF Session
  <2>2. Last(session.attempts) \in Attempt
    BY <2>1, ElementOfSeq DEF Last
  <2> QED
    BY <1>2, <2>2 DEF CurrentMessages, Attempt
<1> QED
  BY <1>1, <1>2

LEMMA ResolvedType ==
  ASSUME TypeOK, NEW p \in People, NEW d \in Decisions
  PROVE  /\ Resolved(p, d) \in [People -> Statuses]
         /\ \A q \in People : Resolved(p, d)[q] = "proposed" => people[q] = "proposed"
BY DEF TypeOK, Resolved, Statuses, Decisions

LEMMA Before ==
  ASSUME TypeOK, NEW t \in Threads
  PROVE  /\ thread \in [Threads -> Caller] /\ thread[t] \in Caller
         /\ thread[t].pc \in Steps /\ thread[t].request \in 0..MaxRequests /\ thread[t].last \in BOOLEAN
         /\ thread[t].person \in People \cup {None} /\ thread[t].history \in Seq(Lines)
         /\ thread[t].turns \in 0..MaxTurns /\ thread[t].tools \in 0..MaxToolCalls
         /\ thread[t].pc \in {"queue", "decide", "hear", "ask", "answer"} => thread[t].person \in People
         /\ thread[t].pc \notin {"idle", "refresh", "complete"} => thread[t].request \in 1..MaxRequests
         /\ session \in Session /\ people \in [People -> Statuses] /\ requests \in 0..MaxRequests
BY DEF TypeOK, Caller

-----------------------------------------------------------------------------
(* The type invariant.                                                     *)

\* what a thread may hold
Well(c) ==
    /\ c \in Caller
    /\ c.pc \in {"queue", "decide", "hear", "ask", "answer"} => c.person \in People
    /\ c.pc \notin {"idle", "refresh", "complete"} => c.request > 0

\* a step that changes one thread at most
LEMMA TypesAfter ==
  ASSUME TypeOK, NEW t \in Threads, NEW c, Well(c), thread' = [thread EXCEPT ![t] = c] \/ UNCHANGED thread,
         people' \in [People -> Statuses], session' \in Session, requests' \in 0..MaxRequests,
         answered' \subseteq 1..MaxRequests
  PROVE  TypeOK'
BY DEF TypeOK, Well

LEMMA TypesHold ==
  ASSUME ReviewsAssumption, TypeOK, Next
  PROVE  TypeOK'
<1> USE DEF At
<1>1. PICK t \in Threads :
        \/ Work(t) \/ Start(t) \/ Message(t)
        \/ \E p \in People : Take(t, p) \/ \E d \in Decisions : Resolve(t, p, d)
  BY DEF Next
<1>2. PICK c :
      /\ c = thread[t]
      /\ c \in Caller /\ c.request \in 0..MaxRequests /\ c.last \in BOOLEAN
      /\ c.person \in People \cup {None} /\ c.history \in Seq(Lines)
      /\ c.turns \in 0..MaxTurns /\ c.tools \in 0..MaxToolCalls
      /\ c.pc \in {"queue", "decide", "hear", "ask", "answer"} => c.person \in People
      /\ c.pc \notin {"idle", "refresh", "complete"} => c.request \in 1..MaxRequests
      /\ session \in Session /\ people \in [People -> Statuses] /\ requests \in 0..MaxRequests
      /\ answered \subseteq 1..MaxRequests
      /\ MaxTurns \in Nat /\ MaxToolCalls \in Nat /\ MaxRequests \in Nat
  BY Before DEF TypeOK, ReviewsAssumption
<1>3. Well(Idle) /\ Idle \in Caller
  BY IdleType DEF Well
<1>4. CASE Start(t) \/ Message(t)
  <2>1. requests' \in 1..MaxRequests /\ requests' \in 0..MaxRequests
    BY <1>2, <1>4 DEF Start, Message, Arrives
  <2>2. session' \in Session
    BY <1>2, <1>4, <2>1, StartType, MessageType DEF Start, Message
  <2> QED
    BY <1>2, <1>3, <1>4, <2>1, <2>2, TypesAfter DEF Start, Message
<1>5. ASSUME NEW p \in People, Take(t, p) PROVE TypeOK'
  <2>1. requests' \in 0..MaxRequests /\ requests' > 0
    BY <1>2, <1>5 DEF Take, Arrives
  <2>2. PICK x : /\ x = [Idle EXCEPT !.pc = "hear", !.request = requests', !.person = p, !.history = CurrentMessages]
                 /\ thread' = [thread EXCEPT ![t] = x]
    BY <1>5 DEF Take
  <2>3. Well(x)
    <3>1. CurrentMessages \in Seq(Lines)
      BY <1>2, MessagesType
    <3>2. x \in Caller
      <4>1. "hear" \in Steps
        BY DEF Steps
      <4> QED
        BY <1>2, <1>3, <2>1, <2>2, <3>1, <4>1, CallerType
    <3>3. x.pc = "hear" /\ x.person = p /\ x.request = requests'
      BY <2>2, IdleType DEF Caller
    <3> QED
      BY <1>2, <2>1, <3>2, <3>3 DEF Well
  <2> QED
    BY <1>2, <1>5, <2>1, <2>2, <2>3, TypesAfter DEF Take
<1>6. ASSUME NEW p \in People, NEW d \in Decisions, Resolve(t, p, d) PROVE TypeOK'
  <2>1. requests' \in 0..MaxRequests /\ requests' > 0
    BY <1>2, <1>6 DEF Resolve, Arrives
  <2>2. PICK x : x = [Idle EXCEPT !.pc = "queue", !.request = requests', !.person = p]
    OBVIOUS
  <2>3. Well(x)
    <3>1. x \in Caller
      <4>1. "queue" \in Steps
        BY DEF Steps
      <4> QED
        BY <1>2, <1>3, <2>1, <2>2, <4>1, CallerType
    <3>2. x.pc = "queue" /\ x.person = p /\ x.request = requests'
      BY <1>2, <2>2, IdleType DEF Caller
    <3> QED
      BY <1>2, <2>1, <3>1, <3>2 DEF Well
  <2>4. people' \in [People -> Statuses]
    BY <1>2, <1>6, ResolvedType DEF Resolve
  <2> QED
    BY <1>2, <1>6, <2>1, <2>2, <2>3, <2>4, TypesAfter DEF Resolve
<1>7. CASE ReadQueue(t)
  <2>1. PICK last, x : last = (Queue = {}) /\ last \in BOOLEAN /\ x = [c EXCEPT !.pc = "decide", !.last = last]
    OBVIOUS
  <2>2. Well(x)
    <3>1. c.pc = "queue" /\ "decide" \in Steps
      BY <1>2, <1>7 DEF ReadQueue, Steps
    <3>2. x \in Caller
      BY <1>2, <2>1, <3>1, WalkerType
    <3>3. x.pc = "decide" /\ x.person = c.person /\ x.request = c.request
      BY <1>2, <2>1 DEF Caller
    <3> QED
      BY <1>2, <3>1, <3>2, <3>3 DEF Well
  <2>3. thread' = [thread EXCEPT ![t] = x]
    BY <1>2, <1>7, <2>1 DEF TypeOK, ReadQueue
  <2> QED
    BY <1>2, <1>7, <2>2, <2>3, TypesAfter DEF ReadQueue
<1>8. CASE RecordDecision(t)
  <2>1. PICK x : x = [Idle EXCEPT !.pc = "confirm", !.request = c.request]
    OBVIOUS
  <2>2. Well(x)
    <3>1. c.pc = "decide" /\ "confirm" \in Steps
      BY <1>2, <1>8 DEF RecordDecision, Steps
    <3>2. x \in Caller
      BY <1>2, <1>3, <2>1, <3>1, CallerType
    <3>3. x.pc = "confirm" /\ x.request = c.request
      BY <1>2, <1>3, <2>1 DEF Caller
    <3> QED
      BY <1>2, <3>1, <3>2, <3>3 DEF Well
  <2>3. session' \in Session
    BY <1>2, <1>8, DecisionType DEF RecordDecision
  <2> QED
    BY <1>2, <1>8, <2>1, <2>2, <2>3, TypesAfter DEF RecordDecision
<1>9. CASE RecordConfirmation(t)
  <2>1. PICK x : x = [Idle EXCEPT !.pc = "refresh"]
    OBVIOUS
  <2>2. Well(x)
    BY <1>2, <2>1, IdleType DEF Well, Caller, Steps
  <2>3. session' \in Session
    BY <1>2, <1>9, MessageType DEF RecordConfirmation
  <2> QED
    BY <1>2, <1>9, <2>1, <2>2, <2>3, TypesAfter DEF RecordConfirmation
<1>10. CASE RefreshStatus(t)
  <2>1. PICK x : x = [c EXCEPT !.pc = "complete"]
    OBVIOUS
  <2>2. Well(x)
    BY <1>2, <2>1 DEF Well, Caller, Steps
  <2>3. thread' = [thread EXCEPT ![t] = x] \/ thread' = [thread EXCEPT ![t] = Idle]
    BY <1>2, <1>10, <2>1 DEF TypeOK, RefreshStatus, Goto, Done
  <2> QED
    BY <1>2, <1>3, <1>10, <2>2, <2>3, TypesAfter DEF RefreshStatus
<1>11. CASE Complete(t)
  <2>1. session' \in Session
    BY <1>2, <1>11 DEF Complete, Session
  <2> QED
    BY <1>2, <1>3, <1>11, <2>1, TypesAfter DEF Complete, Done
<1>12. CASE Hear(t)
  <2>1. PICK x : x = [c EXCEPT !.pc = "ask", !.turns = 0, !.tools = 0]
    OBVIOUS
  <2>2. Well(x)
    <3>1. c.pc = "hear" /\ "ask" \in Steps /\ 0 \in 0..MaxTurns /\ 0 \in 0..MaxToolCalls
      BY <1>2, <1>12 DEF Hear, Steps
    <3>2. x \in Caller
      BY <1>2, <2>1, <3>1, CallerType
    <3>3. x.pc = "ask" /\ x.person = c.person /\ x.request = c.request
      BY <1>2, <2>1 DEF Caller
    <3> QED
      BY <1>2, <3>1, <3>2, <3>3 DEF Well
  <2>3. thread' = [thread EXCEPT ![t] = x]
    BY <1>2, <1>12, <2>1 DEF TypeOK, Hear, Investigate
  <2>4. session' \in Session
    BY <1>2, <1>12, MessageType DEF Hear
  <2> QED
    BY <1>2, <1>12, <2>2, <2>3, <2>4, TypesAfter DEF Hear
<1>13. CASE RecordAnswer(t)
  <2>1. session' \in Session
    BY <1>2, <1>13, MessageType DEF RecordAnswer
  <2>2. c.request \in 1..MaxRequests
    BY <1>2, <1>13 DEF RecordAnswer
  <2> QED
    BY <1>2, <1>3, <1>13, <2>1, <2>2, TypesAfter DEF RecordAnswer, Done
<1>14. ASSUME NEW reply \in Replies, Turn(t, reply) PROVE TypeOK'
  <2>1. PICK x : x = [c EXCEPT !.pc = "answer", !.turns = 0, !.tools = 0]
    OBVIOUS
  <2>2. PICK y : y = [c EXCEPT !.turns = @ + 1, !.tools = IF reply = "dig" THEN Dug(@) ELSE @]
    OBVIOUS
  <2>3. Well(x)
    <3>1. c.pc = "ask" /\ "answer" \in Steps /\ 0 \in 0..MaxTurns /\ 0 \in 0..MaxToolCalls
      BY <1>2, <1>14 DEF Turn, Steps
    <3>2. x \in Caller
      BY <1>2, <2>1, <3>1, CallerType
    <3>3. x.pc = "answer" /\ x.person = c.person /\ x.request = c.request
      BY <1>2, <2>1 DEF Caller
    <3> QED
      BY <1>2, <3>1, <3>2, <3>3 DEF Well
  <2>4. c.turns # MaxTurns => Well(y)
    <3>1. c.pc = "ask"
      BY <1>2, <1>14 DEF Turn
    <3>2. c.turns # MaxTurns => c.turns + 1 \in 0..MaxTurns
      BY <1>2
    <3>3. Dug(c.tools) \in 0..MaxToolCalls
      BY <1>2 DEF Dug
    <3>4. PICK turns, tools : /\ turns = c.turns + 1 /\ tools = IF reply = "dig" THEN Dug(c.tools) ELSE c.tools
                              /\ tools \in 0..MaxToolCalls
      BY <1>2, <3>3
    <3>5. y = [c EXCEPT !.turns = turns, !.tools = tools]
      BY <2>2, <3>4
    <3>6. ASSUME c.turns # MaxTurns PROVE y \in Caller
      <4>1. turns \in 0..MaxTurns
        BY <3>2, <3>4, <3>6
      <4> QED
        BY <1>2, <3>4, <3>5, <4>1, DiggerType
    <3>7. y.pc = c.pc /\ y.person = c.person /\ y.request = c.request
      BY <1>2, <3>5 DEF Caller
    <3> QED
      BY <1>2, <3>1, <3>6, <3>7 DEF Well
  <2>5. \/ thread' = [thread EXCEPT ![t] = Idle]
        \/ thread' = [thread EXCEPT ![t] = x]
        \/ c.turns # MaxTurns /\ thread' = [thread EXCEPT ![t] = y]
    BY <1>2, <1>14, <2>1, <2>2 DEF TypeOK, Turn, Done, Concluded
  <2> QED
    BY <1>2, <1>3, <1>14, <2>3, <2>4, <2>5, TypesAfter DEF Turn
<1> QED
  BY <1>1, <1>4, <1>5, <1>6, <1>7, <1>8, <1>9, <1>10, <1>11, <1>12, <1>13, <1>14 DEF Work

LEMMA InitTypes ==
  ASSUME ReviewsAssumption, Init
  PROVE  TypeOK
BY IdleType, EmptySeq DEF Init, TypeOK, ReviewsAssumption, Session, Statuses

\* The people, the session and the threads keep their types: a decided or questioned person
\* is of the import, and a line is of a request.
THEOREM TypeCorrect ==
  ASSUME ReviewsAssumption
  PROVE  Init /\ [][Next]_vars => []TypeOK
<1>1. Init => TypeOK
  BY InitTypes
<1>2. TypeOK /\ [Next]_vars => TypeOK'
  BY TypesHold DEF TypeOK, vars
<1> QED
  BY <1>1, <1>2, PTL

-----------------------------------------------------------------------------
(* A review with nobody left is closed.                                    *)

\* whoever empties the queue is on the way to close the review, and whoever is about to
\* close it found the queue empty
Closing(t) == thread[t].pc \in {"queue", "decide", "confirm", "refresh", "complete"}
SomebodyCloses == Queue = {} => session.status = "reviewed" \/ \E t \in Threads : Closing(t)

LEMMA SomebodyClosesHolds ==
  ASSUME ReviewsAssumption, TypeOK, SomebodyCloses, Next
  PROVE  SomebodyCloses'
<1> USE DEF At
<1>1. session \in Session /\ session.status \in {"pending", "reviewed"} /\ thread \in [Threads -> Caller]
  BY DEF TypeOK, Session
<1>2. PICK t \in Threads :
        \/ Work(t) \/ Start(t) \/ Message(t)
        \/ \E p \in People : Take(t, p) \/ \E d \in Decisions : Resolve(t, p, d)
  BY DEF Next
<1>3. \A u \in Threads : u # t => thread'[u] = thread[u]
  BY <1>1, <1>2
  DEF Work, ReadQueue, RecordDecision, RecordConfirmation, RefreshStatus, Complete, Hear, RecordAnswer, Turn,
      Start, Message, Take, Resolve, Goto, Done, Investigate, Concluded
\* a step that leaves the people alone, and never takes a closing thread off its way
<1>4. ASSUME UNCHANGED people, session'.status = session.status, Closing(t) => Closing(t)'
      PROVE  SomebodyCloses'
  BY <1>3, <1>4 DEF SomebodyCloses, Queue, Closing
<1>5. CASE Start(t) \/ Message(t)
  <2>1. requests' \in 1..MaxRequests
    BY <1>5 DEF TypeOK, ReviewsAssumption, Start, Message, Arrives
  <2>2. session'.status = session.status
    BY <1>1, <1>5, <2>1, StartType, MessageType DEF Start, Message
  <2> QED
    BY <1>4, <1>5, <2>2 DEF Start, Message, Closing
<1>6. CASE \E p \in People : Take(t, p)
  BY <1>4, <1>6 DEF Take, Arrives, Closing
<1>7. CASE \E p \in People, d \in Decisions : Resolve(t, p, d)
  <2>1. CASE UNCHANGED <<people, thread>>
    BY <1>4, <1>7, <2>1 DEF Resolve, Closing
  <2>2. CASE ~UNCHANGED <<people, thread>>
    <3>1. thread'[t].pc = "queue"
      BY <1>1, <1>7, <2>2, IdleType DEF Resolve, Caller
    <3> QED
      BY <3>1 DEF SomebodyCloses, Closing
  <2> QED
    BY <2>1, <2>2
<1>8. CASE ReadQueue(t)
  <2>1. Closing(t)'
    BY <1>1, <1>8 DEF ReadQueue, Closing, Caller
  <2> QED
    BY <1>4, <1>8, <2>1 DEF ReadQueue
<1>9. CASE RecordDecision(t)
  <2>1. Closing(t)'
    BY <1>1, <1>9, IdleType DEF RecordDecision, Closing, Caller
  <2>2. session'.status = session.status
    BY <1>1, <1>9, Before, DecisionType DEF RecordDecision
  <2> QED
    BY <1>4, <1>9, <2>1, <2>2 DEF RecordDecision
<1>10. CASE RecordConfirmation(t)
  <2>1. Closing(t)'
    BY <1>1, <1>10, IdleType DEF RecordConfirmation, Closing, Caller
  <2>2. session'.status = session.status
    BY <1>1, <1>10, Before, MessageType DEF RecordConfirmation
  <2> QED
    BY <1>4, <1>10, <2>1, <2>2 DEF RecordConfirmation
<1>11. CASE RefreshStatus(t)
  <2>1. CASE Queue # {} \/ session.status # "pending"
    BY <1>1, <1>11, <2>1 DEF RefreshStatus, SomebodyCloses, Queue
  <2>2. CASE Queue = {} /\ session.status = "pending"
    <3>1. Closing(t)'
      BY <1>1, <1>11, <2>2 DEF RefreshStatus, Goto, Closing, Caller
    <3> QED
      BY <1>4, <1>11, <3>1 DEF RefreshStatus
  <2> QED
    BY <2>1, <2>2
<1>12. CASE Complete(t)
  BY <1>1, <1>12 DEF Complete, SomebodyCloses, Session
<1>13. CASE Hear(t) \/ RecordAnswer(t)
  <2>1. session'.status = session.status
    BY <1>1, <1>13, Before, MessageType DEF Hear, RecordAnswer
  <2> QED
    BY <1>4, <1>13, <2>1 DEF Hear, RecordAnswer, Closing
<1>14. CASE \E reply \in Replies : Turn(t, reply)
  BY <1>4, <1>14 DEF Turn, Closing
<1> QED
  BY <1>2, <1>5, <1>6, <1>7, <1>8, <1>9, <1>10, <1>11, <1>12, <1>13, <1>14 DEF Work

\* When the requests have been served, a review with nobody left to decide is closed
\* (Archive.refresh_import_status), in whatever order the last decisions were made: of two
\* reviewers who each find the queue not yet empty, one comes back to it afterwards.  An
\* import that proposes nobody is never decided about, and stays as it was opened.
THEOREM ReviewIsClosed ==
  ASSUME ReviewsAssumption, People # {}
  PROVE  Init /\ [][Next]_vars => []ReviewCloses
<1> DEFINE RInv == TypeOK /\ SomebodyCloses
<1>1. Init => RInv
  <2>1. Init => SomebodyCloses
    BY DEF Init, SomebodyCloses, Queue
  <2> QED
    BY <2>1, InitTypes
<1>2. RInv /\ [Next]_vars => RInv'
  <2>1. RInv /\ UNCHANGED vars => RInv'
    BY DEF TypeOK, SomebodyCloses, Closing, Queue, vars
  <2> QED
    BY <2>1, TypesHold, SomebodyClosesHolds
<1>3. RInv => ReviewCloses
  BY DEF SomebodyCloses, Closing, ReviewCloses, At
<1> QED
  BY <1>1, <1>2, <1>3, PTL

-----------------------------------------------------------------------------
(* The transcript.                                                         *)

\* two sessions with the same transcript, and one with a line more at its end
Unsaid(s, r) == Places(r) = Places(s) /\ \A p \in Places(s) : LineAt(r, p) = LineAt(s, p)
Said(s, r, place, line) ==
    /\ place \notin Places(s) /\ Places(r) = Places(s) \cup {place} /\ LineAt(r, place) = line
    /\ \A p \in Places(s) : LineAt(r, p) = LineAt(s, p) /\ Earlier(p, place)

LEMMA PlacesDef ==
  ASSUME NEW s \in Session, NEW p
  PROVE  p \in Places(s) <=> \E i \in 1..Len(s.attempts) : \E j \in 1..Len(s.attempts[i].messages) : p = <<i, j>>
<1>1. s.attempts \in Seq(Attempt) /\ DOMAIN s.attempts = 1..Len(s.attempts)
  BY DEF Session
<1>2. \A i \in 1..Len(s.attempts) : DOMAIN s.attempts[i].messages = 1..Len(s.attempts[i].messages)
  BY <1>1, ElementOfSeq DEF Attempt
<1> QED
  BY <1>1, <1>2 DEF Places

LEMMA PlaceIn ==
  ASSUME NEW s \in Session, NEW i \in 1..Len(s.attempts), NEW j \in 1..Len(s.attempts[i].messages)
  PROVE  <<i, j>> \in Places(s)
BY PlacesDef

LEMMA PlaceOut ==
  ASSUME NEW s \in Session, NEW p \in Places(s)
  PROVE  \E i, j : /\ i \in 1..Len(s.attempts) /\ j \in 1..Len(s.attempts[i].messages)
                   /\ p = <<i, j>>
BY PlacesDef

\* an attempt is opened, a decision noted or the review closed: nothing is said
LEMMA StartUnsaid ==
  ASSUME NEW s \in Session
  PROVE  Unsaid(s, StartAttempt(s))
<1>1. CASE StartAttempt(s) = s
  BY <1>1 DEF Unsaid
<1>2. CASE StartAttempt(s) # s
  <2> DEFINE r == StartAttempt(s)
             n == Len(s.attempts)
  <2>1. r = [s EXCEPT !.attempts = Append(s.attempts, Fresh)]
    BY <1>2 DEF StartAttempt
  <2>2. s.attempts \in Seq(Attempt) /\ n \in Nat
    BY DEF Session
  <2>3. r.attempts = Append(s.attempts, Fresh)
    BY <2>1 DEF Session
  <2>4. /\ Len(r.attempts) = n + 1 /\ r.attempts[n + 1] = Fresh
        /\ \A i \in 1..n : r.attempts[i] = s.attempts[i]
    BY <2>2, <2>3, FreshType, AppendProperties
  <2>5. Len(Fresh.messages) = 0
    BY EmptySeq DEF Fresh
  <2>6. \A p : p \in Places(r) <=> p \in Places(s)
    <3>1. r \in Session
      BY StartType
    <3> HIDE DEF r
    <3>2. ASSUME NEW p PROVE p \in Places(r) <=> p \in Places(s)
      <4>1. ASSUME NEW i \in 1..(n + 1), NEW j \in 1..Len(r.attempts[i].messages)
            PROVE  i \in 1..n /\ j \in 1..Len(s.attempts[i].messages)
        BY <2>2, <2>4, <2>5
      <4>2. ASSUME p \in Places(r) PROVE p \in Places(s)
        <5>1. PICK i, j : i \in 1..(n + 1) /\ j \in 1..Len(r.attempts[i].messages) /\ p = <<i, j>>
          BY <2>4, <3>1, <4>2, PlaceOut
        <5> QED
          BY <4>1, <5>1, PlaceIn
      <4>3. ASSUME NEW i \in 1..n, NEW j \in 1..Len(s.attempts[i].messages)
            PROVE  i \in 1..(n + 1) /\ j \in 1..Len(r.attempts[i].messages)
        BY <2>2, <2>4
      <4>4. ASSUME p \in Places(s) PROVE p \in Places(r)
        <5>1. PICK i, j : i \in 1..n /\ j \in 1..Len(s.attempts[i].messages) /\ p = <<i, j>>
          BY <4>4, PlaceOut
        <5> QED
          BY <2>4, <3>1, <4>3, <5>1, PlaceIn
      <4> QED
        BY <4>2, <4>4
    <3> QED
      BY <3>2
  <2>7. ASSUME NEW p \in Places(s) PROVE LineAt(r, p) = LineAt(s, p)
    BY <2>4, PlacesDef DEF LineAt
  <2> QED
    BY <2>6, <2>7 DEF Unsaid
<1> QED
  BY <1>1, <1>2

LEMMA DecisionUnsaid ==
  ASSUME NEW s \in Session, NEW p \in People, NEW last \in BOOLEAN
  PROVE  Unsaid(s, AddDecision(s, p, last))
<1> DEFINE r == AddDecision(s, p, last)
           all == Attempts(s)
           k == Len(all)
<1>1. all \in Seq(Attempt) /\ k \in 1..Len(all)
  BY AttemptsType
<1>2. PICK a : a = [all[k] EXCEPT !.decisions = Append(@, [person |-> p, last |-> last])]
  OBVIOUS
<1>3. r.attempts = [all EXCEPT ![k] = a]
  BY <1>2 DEF AddDecision, Session
<1>4. a.messages = all[k].messages
  BY <1>1, <1>2, ElementOfSeq DEF Attempt
<1>5. /\ Len(r.attempts) = Len(all) /\ \A i \in 1..Len(all) : r.attempts[i].messages = all[i].messages
  BY <1>1, <1>3, <1>4, ExceptSeq
<1>6. r \in Session
  BY DecisionType
<1> HIDE DEF r
<1>7. CASE s.attempts # <<>>
  <2>1. all = s.attempts
    BY <1>7 DEF Attempts
  <2>2. ASSUME NEW q PROVE q \in Places(r) <=> q \in Places(s)
    <3>1. ASSUME q \in Places(r) PROVE q \in Places(s)
      <4>1. PICK i, j : i \in 1..Len(r.attempts) /\ j \in 1..Len(r.attempts[i].messages) /\ q = <<i, j>>
        BY <1>6, <3>1, PlaceOut
      <4>2. i \in 1..Len(s.attempts) /\ j \in 1..Len(s.attempts[i].messages)
        BY <1>5, <2>1, <4>1
      <4> QED
        BY <4>1, <4>2, PlaceIn
    <3>2. ASSUME q \in Places(s) PROVE q \in Places(r)
      <4>1. PICK i, j : i \in 1..Len(s.attempts) /\ j \in 1..Len(s.attempts[i].messages) /\ q = <<i, j>>
        BY <3>2, PlaceOut
      <4>2. i \in 1..Len(r.attempts) /\ j \in 1..Len(r.attempts[i].messages)
        BY <1>5, <2>1, <4>1
      <4> QED
        BY <1>6, <4>1, <4>2, PlaceIn
    <3> QED
      BY <3>1, <3>2
  <2>3. ASSUME NEW q \in Places(s) PROVE LineAt(r, q) = LineAt(s, q)
    BY <1>5, <2>1, PlacesDef DEF LineAt
  <2> QED
    BY <2>2, <2>3 DEF Unsaid, r
<1>8. CASE s.attempts = <<>>
  <2>1. all = <<Fresh>> /\ Len(s.attempts) = 0 /\ Len(all) = 1
    BY <1>8, FreshType DEF Attempts
  <2>2. all[1].messages = <<>>
    BY <2>1 DEF Fresh
  <2>3. \A i \in 1..Len(r.attempts) : Len(r.attempts[i].messages) = 0
    BY <1>5, <2>1, <2>2
  <2>4. Places(s) = {}
    BY <2>1, PlacesDef
  <2>5. Places(r) = {}
    BY <1>6, <2>3, PlacesDef
  <2> QED
    BY <2>4, <2>5 DEF Unsaid, r
<1> QED
  BY <1>7, <1>8

\* a message is a line more, after all the others
LEMMA MessageSaid ==
  ASSUME NEW s \in Session, NEW role \in {"user", "assistant"}, NEW n \in 1..MaxRequests
  PROVE  \E place : Said(s, AddMessage(s, role, n), place, <<role, n>>)
<1> DEFINE r == AddMessage(s, role, n)
           all == Attempts(s)
           k == Len(all)
           line == <<role, n>>
           m == Len(all[k].messages)
<1>1. all \in Seq(Attempt) /\ k \in 1..Len(all) /\ k \in Nat
  BY AttemptsType
<1>2. PICK a : a = [all[k] EXCEPT !.messages = Append(@, line)]
  OBVIOUS
<1>3. r.attempts = [all EXCEPT ![k] = a]
  BY <1>2 DEF AddMessage, Session
<1>4. all[k].messages \in Seq(Lines) /\ line \in Lines /\ m \in Nat
  <2>1. all[k] \in Attempt
    BY <1>1, ElementOfSeq
  <2>2. all[k].messages \in Seq(Lines)
    BY <2>1 DEF Attempt
  <2> QED
    BY <2>2 DEF Lines
<1>5. a.messages = Append(all[k].messages, line)
  BY <1>1, <1>2, ElementOfSeq DEF Attempt
<1>6. /\ Len(a.messages) = m + 1 /\ a.messages[m + 1] = line
      /\ \A j \in 1..m : a.messages[j] = all[k].messages[j]
  BY <1>4, <1>5, AppendProperties
<1>7. /\ Len(r.attempts) = k /\ r.attempts[k] = a
      /\ \A i \in 1..k : i # k => r.attempts[i] = all[i]
  BY <1>1, <1>3, ExceptSeq
<1>8. r \in Session
  BY MessageType
<1>9. ASSUME NEW i \in 1..k, NEW j \in 1..Len(all[i].messages)
      PROVE  <<i, j>> \in Places(s)
  <2>1. CASE s.attempts # <<>>
    BY <2>1, PlaceIn DEF Attempts
  <2>2. CASE s.attempts = <<>>
    BY <2>2, FreshType DEF Attempts, Fresh
  <2> QED
    BY <2>1, <2>2
<1>10. ASSUME NEW q \in Places(s)
       PROVE  /\ \E i, j : i \in 1..k /\ j \in 1..Len(all[i].messages) /\ q = <<i, j>>
              /\ LineAt(s, q) = all[q[1]].messages[q[2]]
  <2>1. s.attempts # <<>>
    BY PlaceOut, EmptySeq
  <2> QED
    BY <2>1, PlaceOut DEF LineAt, Attempts
<1> HIDE DEF r, all, k, m
<1> DEFINE place == <<k, m + 1>>
<1>11. place \notin Places(s)
  <2>1. ASSUME NEW i \in 1..k, NEW j \in 1..Len(all[i].messages), place = <<i, j>>
        PROVE  FALSE
    BY <1>1, <1>4, <2>1 DEF m
  <2> QED
    BY <1>10, <2>1
<1>12. ASSUME NEW i \in 1..k, NEW j
       PROVE  j \in 1..Len(r.attempts[i].messages)
              <=> j \in 1..Len(all[i].messages) \/ (i = k /\ j = m + 1)
  <2>1. CASE i # k
    <3>1. r.attempts[i] = all[i]
      BY <1>7, <2>1
    <3> QED
      BY <2>1, <3>1
  <2>2. CASE i = k
    <3>1. Len(r.attempts[i].messages) = m + 1 /\ Len(all[i].messages) = m
      BY <1>6, <1>7, <2>2 DEF m
    <3>2. j \in 1..(m + 1) <=> j \in 1..m \/ j = m + 1
      BY <1>4
    <3> QED
      BY <2>2, <3>1, <3>2
  <2> QED
    BY <2>1, <2>2
<1>13. ASSUME NEW q PROVE q \in Places(r) <=> q \in Places(s) \/ q = place
  <2>1. ASSUME q \in Places(r) PROVE q \in Places(s) \/ q = place
    <3>1. PICK i, j : i \in 1..k /\ j \in 1..Len(r.attempts[i].messages) /\ q = <<i, j>>
      BY <1>7, <1>8, <2>1, PlaceOut
    <3>2. j \in 1..Len(all[i].messages) \/ (i = k /\ j = m + 1)
      BY <1>12, <3>1
    <3> QED
      BY <1>9, <3>1, <3>2
  <2>2. ASSUME q \in Places(s) PROVE q \in Places(r)
    <3>1. PICK i, j : i \in 1..k /\ j \in 1..Len(all[i].messages) /\ q = <<i, j>>
      BY <1>10, <2>2
    <3>2. i \in 1..Len(r.attempts) /\ j \in 1..Len(r.attempts[i].messages)
      BY <1>7, <1>12, <3>1
    <3> QED
      BY <1>8, <3>1, <3>2, PlaceIn
  <2>3. place \in Places(r)
    <3>1. k \in 1..Len(r.attempts) /\ m + 1 \in 1..Len(r.attempts[k].messages)
      BY <1>1, <1>7, <1>12
    <3> QED
      BY <1>8, <3>1, PlaceIn
  <2> QED
    BY <2>1, <2>2, <2>3
<1>14. LineAt(r, place) = line
  BY <1>6, <1>7 DEF LineAt
<1>15. ASSUME NEW q \in Places(s) PROVE LineAt(r, q) = LineAt(s, q) /\ Earlier(q, place)
  <2>1. PICK i, j : i \in 1..k /\ j \in 1..Len(all[i].messages) /\ q = <<i, j>>
    BY <1>10
  <2>2. LineAt(s, q) = all[i].messages[j] /\ LineAt(r, q) = r.attempts[i].messages[j]
    BY <1>10, <2>1 DEF LineAt
  <2>3. i = k => j \in 1..m
    BY <2>1 DEF m
  <2>4. r.attempts[i].messages[j] = all[i].messages[j]
    BY <1>6, <1>7, <2>1, <2>3
  <2>5. Earlier(q, place)
    BY <1>1, <1>4, <2>1, <2>3 DEF Earlier
  <2> QED
    BY <2>2, <2>4, <2>5
<1>16. Places(r) = Places(s) \cup {place}
  BY <1>13
<1>17. Said(s, r, place, line)
  BY <1>11, <1>14, <1>15, <1>16 DEF Said
<1> QED
  BY <1>17 DEF r

LEMMA UnsaidSpoken ==
  ASSUME NEW s, NEW r, Unsaid(s, r), NEW role, NEW n
  PROVE  Spoken(r, role, n) = Spoken(s, role, n)
BY DEF Unsaid, Spoken

LEMMA SaidSpoken ==
  ASSUME NEW s, NEW r, NEW place, NEW line, Said(s, r, place, line), NEW role, NEW n
  PROVE  Spoken(r, role, n) = Spoken(s, role, n) \cup (IF line = <<role, n>> THEN {place} ELSE {})
BY DEF Said, Spoken

-----------------------------------------------------------------------------
(* A reviewer's line is kept.                                              *)

\* a request that still records under its number, and what the transcript holds of it
Busy(c) == c.pc \notin {"idle", "refresh", "complete"}
Told(c, s) ==
    /\ c.pc = "hear" => Spoken(s, "user", c.request) = {}
    /\ c.pc \in {"ask", "answer"} => \E place : Spoken(s, "user", c.request) = {place}
    /\ c.pc \in {"hear", "ask", "answer"} => <<"user", c.request>> \notin Range(c.history)

\* the numbers of the requests in hand differ, and no line has one that is yet to be given
OneEach ==
    /\ \A t \in Threads : Busy(thread[t]) => thread[t].request <= requests
    /\ \A t, u \in Threads : Busy(thread[t]) /\ Busy(thread[u]) /\ thread[t].request = thread[u].request => t = u
Unheard == \A n \in Nat : n > requests => Spoken(session, "user", n) = {}
AllTold == \A t \in Threads : Told(thread[t], session)
AnswersStand(s, A) ==
    \A n \in A : \E a \in Spoken(s, "user", n), b \in Spoken(s, "assistant", n) : Earlier(a, b)

WInv == TypeOK /\ OneEach /\ Unheard /\ AllTold /\ AnswersStand(session, answered)

LEMMA AnswersStay ==
  ASSUME NEW s, NEW r, NEW A, AnswersStand(s, A),
         \A n : Spoken(s, "user", n) \subseteq Spoken(r, "user", n),
         \A n : Spoken(s, "assistant", n) \subseteq Spoken(r, "assistant", n)
  PROVE  AnswersStand(r, A)
BY DEF AnswersStand

\* a step of one thread that adds no reviewer's line
LEMMA KeptStep ==
  ASSUME WInv, NEW t \in Threads, NEW c,
         thread' = [thread EXCEPT ![t] = c],
         requests' \in Nat, requests' >= requests,
         \A n : Spoken(session', "user", n) = Spoken(session, "user", n),
         Told(c, session), c.request \in Nat,
         Busy(c) => \/ Busy(thread[t]) /\ c.request = thread[t].request
                    \/ requests < c.request /\ c.request <= requests'
  PROVE  OneEach' /\ Unheard' /\ AllTold'
<1>1. /\ thread'[t] = c /\ \A u \in Threads : u # t => thread'[u] = thread[u]
      /\ requests \in Nat /\ \A u \in Threads : thread[u].request \in Nat
  BY Before DEF WInv, TypeOK
<1>2. OneEach'
  <2>1. \A u \in Threads : Busy(thread[u]) => thread[u].request <= requests
    BY DEF WInv, OneEach
  <2>2. ASSUME NEW u \in Threads, Busy(thread'[u]) PROVE thread'[u].request <= requests'
    BY <1>1, <2>1, <2>2
  <2>3. ASSUME NEW u \in Threads, u # t, Busy(c), Busy(thread[u]) PROVE c.request # thread[u].request
    BY <1>1, <2>1, <2>3 DEF WInv, OneEach
  <2>4. ASSUME NEW u \in Threads, NEW v \in Threads, Busy(thread'[u]), Busy(thread'[v]),
               thread'[u].request = thread'[v].request
        PROVE  u = v
    <3>1. CASE u # t /\ v # t
      BY <1>1, <2>4, <3>1 DEF WInv, OneEach
    <3>2. CASE u = t \/ v = t
      BY <1>1, <2>3, <2>4, <3>2
    <3> QED
      BY <3>1, <3>2
  <2> QED
    BY <2>2, <2>4 DEF OneEach, Busy
<1>3. Unheard'
  BY <1>1 DEF WInv, Unheard
<1>4. AllTold'
  <2>1. ASSUME NEW u \in Threads PROVE Told(thread'[u], session')
    BY <1>1 DEF WInv, AllTold, Told
  <2> QED
    BY <2>1 DEF AllTold, Told
<1> QED
  BY <1>2, <1>3, <1>4

LEMMA CurrentSpoken ==
  ASSUME session \in Session, NEW n, <<"user", n>> \in Range(CurrentMessages)
  PROVE  Spoken(session, "user", n) # {}
<1> DEFINE all == session.attempts
           k == Len(all)
<1>1. all \in Seq(Attempt) /\ all # <<>>
  BY EmptySeq DEF CurrentMessages, Range, Session
<1>2. k \in 1..Len(all) /\ CurrentMessages = all[k].messages
  BY <1>1, EmptySeq DEF CurrentMessages, Last
<1>3. all[k].messages \in Seq(Lines)
  <2>1. all[k] \in Attempt
    BY <1>1, <1>2, ElementOfSeq
  <2> QED
    BY <2>1 DEF Attempt
<1>4. PICK j \in 1..Len(all[k].messages) : all[k].messages[j] = <<"user", n>>
  BY <1>2, <1>3 DEF Range
<1>5. <<k, j>> \in Places(session) /\ LineAt(session, <<k, j>>) = <<"user", n>>
  BY <1>2, <1>4, PlaceIn DEF LineAt
<1> QED
  BY <1>5 DEF Spoken

LEMMA WordsHold ==
  ASSUME ReviewsAssumption, WInv, Next
  PROVE  WInv'
<1> USE DEF At
<1> DEFINE Kept == OneEach' /\ Unheard' /\ AllTold' /\ AnswersStand(session', answered')
<1>1. TypeOK' /\ TypeOK
  BY TypesHold DEF WInv
<1>2. PICK t \in Threads :
        \/ Work(t) \/ Start(t) \/ Message(t)
        \/ \E p \in People : Take(t, p) \/ \E d \in Decisions : Resolve(t, p, d)
  BY DEF Next
<1>3. PICK c : /\ c = thread[t] /\ c \in Caller /\ c.request \in Nat
               /\ c.pc \notin {"idle", "refresh", "complete"} => c.request \in 1..MaxRequests
               /\ c.pc = "decide" => c.person \in People
               /\ c.last \in BOOLEAN
  BY <1>1, Before
<1>4. /\ thread \in [Threads -> Caller] /\ session \in Session
      /\ requests \in Nat /\ requests' \in Nat /\ requests' \in 0..MaxRequests /\ MaxRequests \in Nat
      /\ Told(c, session) /\ AnswersStand(session, answered)
  BY <1>1, <1>3 DEF TypeOK, ReviewsAssumption, WInv, AllTold
<1>5. Idle.request = 0 /\ ~Busy(Idle) /\ Told(Idle, session)
  BY DEF Idle, Busy, Told
\* nothing is said, or the app says something: what became of the reviewers' lines
<1>6. ASSUME NEW r, Unsaid(session, r)
      PROVE  /\ \A n : Spoken(r, "user", n) = Spoken(session, "user", n)
             /\ AnswersStand(r, answered)
  BY <1>4, <1>6, UnsaidSpoken, AnswersStay
<1>7. ASSUME NEW m \in 1..MaxRequests
      PROVE  /\ \A n : Spoken(AddMessage(session, "assistant", m), "user", n) = Spoken(session, "user", n)
             /\ AnswersStand(AddMessage(session, "assistant", m), answered)
  <2> DEFINE said == AddMessage(session, "assistant", m)
  <2>1. PICK place : Said(session, said, place, <<"assistant", m>>)
    BY <1>4, MessageSaid
  <2> HIDE DEF said
  <2>2. /\ \A n : Spoken(said, "user", n) = Spoken(session, "user", n)
        /\ \A n : Spoken(session, "assistant", n) \subseteq Spoken(said, "assistant", n)
    <3>1. ASSUME NEW role, NEW n
          PROVE  Spoken(said, role, n) = Spoken(session, role, n)
                                         \cup (IF <<"assistant", m>> = <<role, n>> THEN {place} ELSE {})
      BY <2>1, SaidSpoken
    <3> QED
      BY <3>1
  <2> QED
    BY <1>4, <2>2, AnswersStay DEF said
<1>8. Unsaid(session, session)
  BY DEF Unsaid
\* the other fields of the session are not looked at
<1>9. ASSUME Start(t) \/ Message(t) PROVE Kept
  <2>1. requests' \in 1..MaxRequests /\ requests' >= requests
    BY <1>4, <1>9 DEF Start, Message, Arrives
  <2>2. /\ \A n : Spoken(session', "user", n) = Spoken(session, "user", n)
        /\ AnswersStand(session', answered)
    BY <1>4, <1>6, <1>7, <1>9, <2>1, StartUnsaid DEF Start, Message
  <2>3. thread' = [thread EXCEPT ![t] = c] /\ answered' = answered
    BY <1>3, <1>4, <1>9 DEF Start, Message
  <2> QED
    BY <1>1, <1>3, <1>4, <2>1, <2>2, <2>3, KeptStep DEF WInv
<1>10. ASSUME NEW p \in People, Take(t, p) PROVE Kept
  <2>1. requests' = requests + 1 /\ UNCHANGED <<session, answered>>
    BY <1>10 DEF Take, Arrives
  <2>2. PICK x : /\ x = [Idle EXCEPT !.pc = "hear", !.request = requests', !.person = p, !.history = CurrentMessages]
                 /\ thread' = [thread EXCEPT ![t] = x]
    BY <1>10 DEF Take
  <2>3. x.pc = "hear" /\ x.request = requests' /\ x.history = CurrentMessages
    BY <2>2 DEF Idle
  <2>4. Spoken(session, "user", requests') = {}
    BY <1>4, <2>1 DEF WInv, Unheard
  <2>5. Told(x, session)
    BY <1>4, <2>3, <2>4, CurrentSpoken DEF Told
  <2>6. requests' \in Nat /\ requests' >= requests
    BY <1>4, <2>1
  <2>7. /\ \A n : Spoken(session', "user", n) = Spoken(session, "user", n)
         /\ AnswersStand(session', answered')
    BY <1>4, <2>1
  <2>8. OneEach' /\ Unheard' /\ AllTold'
    <3>1. requests < x.request /\ x.request <= requests' /\ x.request \in Nat
      BY <1>4, <2>1, <2>3
    <3> QED
      BY <2>2, <2>5, <2>6, <2>7, <3>1, KeptStep
  <2> QED
    BY <2>7, <2>8
<1>11. ASSUME NEW p \in People, NEW d \in Decisions, Resolve(t, p, d) PROVE Kept
  <2>1. requests' = requests + 1 /\ UNCHANGED <<session, answered>>
    BY <1>11 DEF Resolve, Arrives
  <2>2. PICK x : x = [Idle EXCEPT !.pc = "queue", !.request = requests', !.person = p]
    OBVIOUS
  <2>3. x.pc = "queue" /\ x.request = requests'
    BY <2>2 DEF Idle
  <2>4. Told(x, session)
    BY <2>3 DEF Told
  <2>5. thread' = [thread EXCEPT ![t] = x] \/ thread' = [thread EXCEPT ![t] = c]
    BY <1>3, <1>4, <1>11, <2>2 DEF Resolve
  <2>6. CASE thread' = [thread EXCEPT ![t] = x]
    <3>1. requests' \in Nat /\ requests' >= requests /\ x.request \in Nat
      BY <1>4, <2>1, <2>3
    <3>2. \A n : Spoken(session', "user", n) = Spoken(session, "user", n)
      BY <2>1
    <3>3. requests < x.request /\ x.request <= requests'
      BY <1>4, <2>1, <2>3
    <3>4. OneEach' /\ Unheard' /\ AllTold'
      BY <2>4, <2>6, <3>1, <3>2, <3>3, KeptStep
    <3>5. AnswersStand(session', answered')
      BY <1>4, <2>1
    <3> QED
      BY <3>4, <3>5
  <2>7. CASE thread' = [thread EXCEPT ![t] = c]
    <3>1. requests' \in Nat /\ requests' >= requests
      BY <1>4, <2>1
    <3>2. /\ \A n : Spoken(session', "user", n) = Spoken(session, "user", n)
          /\ AnswersStand(session', answered')
      BY <1>4, <2>1
    <3>3. Told(c, session)
      BY <1>4
    <3>4. OneEach' /\ Unheard' /\ AllTold'
      BY <1>3, <2>7, <3>1, <3>2, <3>3, KeptStep
    <3> QED
      BY <3>2, <3>4
  <2> QED
    BY <2>5, <2>6, <2>7
<1>12. ASSUME ReadQueue(t) PROVE Kept
  <2>1. PICK x : x = [c EXCEPT !.pc = "decide", !.last = (Queue = {})]
    OBVIOUS
  <2>2. x.pc = "decide" /\ x.request = c.request /\ Busy(c)
    BY <1>3, <1>12, <2>1 DEF ReadQueue, Caller, Busy
  <2>3. Told(x, session)
    BY <2>2 DEF Told
  <2>4. thread' = [thread EXCEPT ![t] = x] /\ UNCHANGED <<session, requests, answered>>
    BY <1>3, <1>4, <1>12, <2>1 DEF ReadQueue
  <2>5. requests' \in Nat /\ requests' >= requests
    BY <1>4, <2>4
  <2>6. /\ \A n : Spoken(session', "user", n) = Spoken(session, "user", n)
         /\ AnswersStand(session', answered')
    BY <1>4, <2>4
  <2>7. OneEach' /\ Unheard' /\ AllTold'
    BY <1>3, <2>2, <2>3, <2>4, <2>5, <2>6, KeptStep
  <2> QED
    BY <2>6, <2>7
<1>13. ASSUME RecordDecision(t) PROVE Kept
  <2>1. PICK x : x = [Idle EXCEPT !.pc = "confirm", !.request = c.request]
    OBVIOUS
  <2>2. x.pc = "confirm" /\ x.request = c.request /\ Busy(c) /\ c.pc = "decide"
    BY <1>3, <1>13, <2>1 DEF RecordDecision, Idle, Busy
  <2>3. Told(x, session)
    BY <2>2 DEF Told
  <2>4. thread' = [thread EXCEPT ![t] = x] /\ UNCHANGED <<requests, answered>>
    BY <1>3, <1>13, <2>1 DEF RecordDecision
  <2>5. Unsaid(session, session')
    BY <1>3, <1>4, <1>13, <2>2, DecisionUnsaid DEF RecordDecision
  <2>6. requests' \in Nat /\ requests' >= requests
    BY <1>4, <2>4
  <2>7. /\ \A n : Spoken(session', "user", n) = Spoken(session, "user", n)
         /\ AnswersStand(session', answered')
    BY <1>6, <2>4, <2>5
  <2>8. OneEach' /\ Unheard' /\ AllTold'
    BY <1>3, <2>2, <2>3, <2>4, <2>6, <2>7, KeptStep
  <2> QED
    BY <2>7, <2>8
<1>14. ASSUME RecordConfirmation(t) PROVE Kept
  <2>1. PICK x : x = [Idle EXCEPT !.pc = "refresh"]
    OBVIOUS
  <2>2. x.pc = "refresh" /\ x.request = 0
    BY <2>1 DEF Idle
  <2>3. Told(x, session) /\ ~Busy(x)
    BY <2>2 DEF Told, Busy
  <2>4. /\ thread' = [thread EXCEPT ![t] = x] /\ UNCHANGED <<requests, answered>>
        /\ session' = AddMessage(session, "assistant", c.request) /\ c.request \in 1..MaxRequests
    BY <1>3, <1>14, <2>1 DEF RecordConfirmation
  <2>5. requests' \in Nat /\ requests' >= requests
    BY <1>4, <2>4
  <2>6. /\ \A n : Spoken(session', "user", n) = Spoken(session, "user", n)
         /\ AnswersStand(session', answered')
    BY <1>7, <2>4
  <2>7. OneEach' /\ Unheard' /\ AllTold'
    <3>1. thread' = [thread EXCEPT ![t] = x] /\ x.request \in Nat
      BY <2>2, <2>4
    <3> QED
      BY <2>3, <2>5, <2>6, <3>1, KeptStep
  <2> QED
    BY <2>6, <2>7
<1>15. ASSUME RefreshStatus(t) PROVE Kept
  <2>1. PICK x : x = [c EXCEPT !.pc = "complete"]
    OBVIOUS
  <2>2. x.pc = "complete" /\ x.request = c.request
    BY <1>3, <2>1 DEF Caller
  <2>3. Told(x, session) /\ ~Busy(x)
    BY <2>2 DEF Told, Busy
  <2>4. /\ thread' = [thread EXCEPT ![t] = x] \/ thread' = [thread EXCEPT ![t] = Idle]
        /\ UNCHANGED <<session, requests, answered>>
    BY <1>3, <1>4, <1>15, <2>1 DEF RefreshStatus, Goto, Done
  <2>5. requests' \in Nat /\ requests' >= requests
    BY <1>4, <2>4
  <2>6. /\ \A n : Spoken(session', "user", n) = Spoken(session, "user", n)
         /\ AnswersStand(session', answered')
    BY <1>4, <2>4
  <2>7. OneEach' /\ Unheard' /\ AllTold'
    BY <1>3, <1>5, <2>2, <2>3, <2>4, <2>5, <2>6, KeptStep
  <2> QED
    BY <2>6, <2>7
<1>16. ASSUME Complete(t) PROVE Kept
  <2>1. session'.attempts = session.attempts
    BY <1>4, <1>16 DEF Complete, Session
  <2>2. Unsaid(session, session')
    BY <2>1 DEF Unsaid, Places, LineAt
  <2>3. thread' = [thread EXCEPT ![t] = Idle] /\ UNCHANGED <<requests, answered>>
    BY <1>16 DEF Complete, Done
  <2>4. requests' \in Nat /\ requests' >= requests
    BY <1>4, <2>3
  <2>5. /\ \A n : Spoken(session', "user", n) = Spoken(session, "user", n)
         /\ AnswersStand(session', answered')
    BY <1>6, <2>2, <2>3
  <2>6. OneEach' /\ Unheard' /\ AllTold'
    <3>1. thread' = [thread EXCEPT ![t] = Idle] /\ Idle.request \in Nat
      BY <1>5, <2>3
    <3> QED
      BY <1>5, <2>4, <2>5, <3>1, KeptStep
  <2> QED
    BY <2>5, <2>6
<1>17. ASSUME RecordAnswer(t) PROVE Kept
  <2>1. /\ thread' = [thread EXCEPT ![t] = Idle] /\ UNCHANGED requests
        /\ session' = AddMessage(session, "assistant", c.request) /\ c.request \in 1..MaxRequests
        /\ answered' = answered \cup {c.request} /\ c.pc = "answer"
    BY <1>3, <1>17 DEF RecordAnswer, Done
  <2>2. PICK place : Said(session, session', place, <<"assistant", c.request>>)
    BY <1>4, <2>1, MessageSaid
  <2>3. PICK a : Spoken(session, "user", c.request) = {a}
    BY <1>4, <2>1 DEF Told
  <2>4. /\ a \in Spoken(session', "user", c.request) /\ place \in Spoken(session', "assistant", c.request)
        /\ Earlier(a, place)
    BY <1>7, <2>1, <2>2, <2>3, SaidSpoken DEF Said, Spoken
  <2>5. AnswersStand(session', answered')
    BY <1>7, <2>1, <2>4 DEF AnswersStand
  <2>6. requests' \in Nat /\ requests' >= requests
    BY <1>4, <2>1
  <2>7. /\ \A n : Spoken(session', "user", n) = Spoken(session, "user", n)
         /\ AnswersStand(session', answered')
    BY <1>7, <2>1, <2>5
  <2>8. OneEach' /\ Unheard' /\ AllTold'
    <3>1. thread' = [thread EXCEPT ![t] = Idle] /\ Idle.request \in Nat
      BY <1>5, <2>1
    <3> QED
      BY <1>5, <2>6, <2>7, <3>1, KeptStep
  <2> QED
    BY <2>7, <2>8
<1>18. ASSUME NEW reply \in Replies, Turn(t, reply) PROVE Kept
  <2>1. PICK x : x = [c EXCEPT !.pc = "answer", !.turns = 0, !.tools = 0]
    OBVIOUS
  <2>2. PICK y : y = [c EXCEPT !.turns = @ + 1, !.tools = IF reply = "dig" THEN Dug(@) ELSE @]
    OBVIOUS
  <2>3. /\ c.pc = "ask" /\ x.pc = "answer" /\ y.pc = "ask" /\ Busy(c)
        /\ x.request = c.request /\ y.request = c.request
        /\ x.history = c.history /\ y.history = c.history
    BY <1>3, <1>18, <2>1, <2>2 DEF Turn, Caller, Busy
  <2>4. Told(x, session) /\ Told(y, session)
    BY <1>4, <2>3 DEF Told
  <2>5. /\ \/ thread' = [thread EXCEPT ![t] = Idle]
           \/ thread' = [thread EXCEPT ![t] = x]
           \/ thread' = [thread EXCEPT ![t] = y]
        /\ UNCHANGED <<session, requests, answered>>
    BY <1>3, <1>4, <1>18, <2>1, <2>2 DEF Turn, Done, Concluded
  <2>6. requests' \in Nat /\ requests' >= requests
    BY <1>4, <2>5
  <2>7. /\ \A n : Spoken(session', "user", n) = Spoken(session, "user", n)
         /\ AnswersStand(session', answered')
    BY <1>4, <2>5
  <2>8. OneEach' /\ Unheard' /\ AllTold'
    <3>1. Idle.request \in Nat /\ x.request \in Nat /\ y.request \in Nat /\ Busy(thread[t])
          /\ x.request = thread[t].request /\ y.request = thread[t].request
      BY <1>3, <1>5, <2>3
    <3>2. CASE thread' = [thread EXCEPT ![t] = Idle]
      BY <1>5, <2>6, <2>7, <3>1, <3>2, KeptStep
    <3>3. CASE thread' = [thread EXCEPT ![t] = x]
      BY <2>4, <2>6, <2>7, <3>1, <3>3, KeptStep
    <3>4. CASE thread' = [thread EXCEPT ![t] = y]
      BY <2>4, <2>6, <2>7, <3>1, <3>4, KeptStep
    <3> QED
      BY <2>5, <3>2, <3>3, <3>4
  <2> QED
    BY <2>7, <2>8
<1>19. ASSUME Hear(t) PROVE Kept
  <2>1. PICK x : x = [c EXCEPT !.pc = "ask", !.turns = 0, !.tools = 0]
    OBVIOUS
  <2>2. /\ c.pc = "hear" /\ x.pc = "ask" /\ x.request = c.request /\ x.history = c.history
        /\ Busy(c) /\ c.request \in 1..MaxRequests
    BY <1>3, <1>19, <2>1 DEF Hear, Caller, Busy
  <2>3. /\ thread' = [thread EXCEPT ![t] = x] /\ UNCHANGED <<requests, answered>>
        /\ session' = AddMessage(session, "user", c.request)
    BY <1>3, <1>4, <1>19, <2>1 DEF Hear, Investigate
  <2>4. PICK place : Said(session, session', place, <<"user", c.request>>)
    BY <1>4, <2>2, <2>3, MessageSaid
  <2>5. /\ Spoken(session', "user", c.request) = {place}
        /\ \A n : n # c.request => Spoken(session', "user", n) = Spoken(session, "user", n)
        /\ \A n : Spoken(session', "assistant", n) = Spoken(session, "assistant", n)
    <3>1. Spoken(session, "user", c.request) = {}
      BY <1>4, <2>2 DEF Told
    <3>2. ASSUME NEW role, NEW n
          PROVE  Spoken(session', role, n) = Spoken(session, role, n)
                                             \cup (IF <<"user", c.request>> = <<role, n>> THEN {place} ELSE {})
      BY <2>4, SaidSpoken
    <3>3. Spoken(session', "user", c.request) = {place}
      BY <3>1, <3>2
    <3>4. ASSUME NEW n, n # c.request PROVE Spoken(session', "user", n) = Spoken(session, "user", n)
      <4>1. <<"user", c.request>> # <<"user", n>>
        BY <3>4
      <4>2. Spoken(session', "user", n) = Spoken(session, "user", n) \cup {}
        BY <3>2, <4>1
      <4> QED
        BY <4>2
    <3>5. ASSUME NEW n PROVE Spoken(session', "assistant", n) = Spoken(session, "assistant", n)
      <4>1. <<"user", c.request>> # <<"assistant", n>>
        OBVIOUS
      <4>2. Spoken(session', "assistant", n) = Spoken(session, "assistant", n) \cup {}
        BY <3>2, <4>1
      <4> QED
        BY <4>2
    <3> QED
      BY <3>3, <3>4, <3>5
  <2>6. thread'[t] = x /\ \A u \in Threads : u # t => thread'[u] = thread[u]
    BY <1>4, <2>3
  <2>7. OneEach'
    <3>1. \A u \in Threads : Busy(thread'[u]) <=> Busy(thread[u])
      BY <1>3, <2>2, <2>6 DEF Busy
    <3>2. \A u \in Threads : thread'[u].request = thread[u].request
      BY <1>3, <2>2, <2>6
    <3> QED
      BY <2>3, <3>1, <3>2 DEF WInv, OneEach, Busy
  <2>8. Unheard'
    <3>1. c.request <= requests
      BY <1>3, <2>2 DEF WInv, OneEach
    <3>2. \A n \in Nat : n > requests => n # c.request
      BY <1>3, <1>4, <3>1
    <3> QED
      BY <2>3, <2>5, <3>2 DEF WInv, Unheard
  <2>9. AllTold'
    <3>1. ASSUME NEW u \in Threads, u # t PROVE Told(thread'[u], session')
      <4>1. Busy(thread[u]) => thread[u].request # c.request
        BY <1>3, <2>2, <3>1 DEF WInv, OneEach
      <4>2. Told(thread[u], session)
        BY DEF WInv, AllTold
      <4> QED
        BY <2>5, <2>6, <3>1, <4>1, <4>2 DEF Told, Busy
    <3>2. Told(x, session')
      BY <1>4, <2>2, <2>5 DEF Told
    <3> QED
      BY <2>6, <3>1, <3>2 DEF AllTold, Told
  <2>10. AnswersStand(session', answered')
    <3>1. \A role, n : Spoken(session, role, n) \subseteq Spoken(session', role, n)
      BY <2>4, SaidSpoken
    <3> QED
      BY <1>4, <2>3, <3>1, AnswersStay
  <2> QED
    BY <2>7, <2>8, <2>9, <2>10
<1>20. Kept
  BY <1>2, <1>9, <1>10, <1>11, <1>12, <1>13, <1>14, <1>15, <1>16, <1>17, <1>18, <1>19 DEF Work
<1> QED
  BY <1>1, <1>20 DEF WInv, AnswersStand

\* A reviewer's line is in the transcript once, from before the model is asked, the model is
\* given what was said before it, and the answer stands after it (review_text), whatever
\* other requests write to the session in between and however the model answers.
THEOREM LinesKept ==
  ASSUME ReviewsAssumption
  PROVE  Init /\ [][Next]_vars => []WordsKept
<1>1. Init => WInv
  <2>1. ASSUME Init PROVE OneEach /\ Unheard /\ AllTold /\ AnswersStand(session, answered)
    <3>1. Places(session) = {}
      BY <2>1 DEF Init, Places
    <3>2. \A role, n : Spoken(session, role, n) = {}
      BY <3>1 DEF Spoken
    <3> QED
      BY <2>1, <3>2 DEF Init, OneEach, Busy, Unheard, AllTold, Told, AnswersStand, Idle
  <2> QED
    BY <2>1, InitTypes DEF WInv
<1>2. WInv /\ [Next]_vars => WInv'
  <2>1. WInv /\ UNCHANGED vars => WInv'
    <3>1. ASSUME WInv, UNCHANGED vars
          PROVE  /\ TypeOK' /\ OneEach' /\ Unheard' /\ AllTold' /\ AnswersStand(session', answered')
      BY <3>1 DEF WInv, TypeOK, OneEach, Busy, Unheard, AllTold, Told, vars
    <3> QED
      BY <3>1 DEF WInv, AnswersStand
  <2> QED
    BY <2>1, WordsHold
<1>3. WInv => WordsKept
  <2>1. ASSUME WInv, NEW t \in Threads, At(t, "ask") \/ At(t, "answer")
        PROVE  /\ \E place \in Places(session) : Spoken(session, "user", thread[t].request) = {place}
               /\ <<"user", thread[t].request>> \notin Range(thread[t].history)
    BY <2>1 DEF WInv, AllTold, Told, At, Spoken
  <2> QED
    BY <2>1 DEF WInv, AnswersStand, WordsKept
<1> QED
  BY <1>1, <1>2, <1>3, PTL

-----------------------------------------------------------------------------

(* The modules instantiated here are given the operators of the library by  *)
(* names of their own, which mean the same.                                *)

LEMMA SetsAreSets ==
  ASSUME NEW S
  PROVE  /\ Pr!IsFiniteSet(S) <=> IsFiniteSet(S)
         /\ Tl!IsFiniteSet(S) <=> IsFiniteSet(S)
         /\ Pr!Cardinality(S) = Cardinality(S)
         /\ Tl!Cardinality(S) = Cardinality(S)
         /\ Tl!Range(S) = Range(S)
<1>1. (Pr!IsFiniteSet(S) <=> IsFiniteSet(S)) /\ (Tl!IsFiniteSet(S) <=> IsFiniteSet(S))
  BY DEF IsFiniteSet, Pr!IsFiniteSet, Tl!IsFiniteSet
<1>2. Pr!Cardinality(S) = Cardinality(S) /\ Tl!Cardinality(S) = Cardinality(S)
  BY DEF Cardinality, Pr!Cardinality, Tl!Cardinality
<1>3. Tl!Range(S) = Range(S)
  BY DEF Range, Tl!Range
<1> QED
  BY <1>1, <1>2, <1>3

LEMMA LeastOf ==
  ASSUME NEW S \in SUBSET Nat, S # {}
  PROVE  /\ Min(S) \in S /\ \A x \in S : Min(S) <= x
         /\ Pr!Min(S) = Min(S) /\ Tl!Min(S) = Min(S)
<1>1. PICK m \in S : \A y \in S : ~(<<y, m>> \in OpToRel(<, Nat))
  BY NatLessThanWellFounded, WFMin
<1>2. \A y \in S : m <= y
  <2> SUFFICES ASSUME NEW y \in S, ~(m <= y) PROVE FALSE
    OBVIOUS
  <2>1. <<y, m>> \in Nat \X Nat /\ y < m
    OBVIOUS
  <2>2. <<y, m>> \in OpToRel(<, Nat)
    BY <2>1 DEF OpToRel
  <2> QED
    BY <1>1, <2>2
<1> QED
  BY <1>2 DEF Min, Pr!Min, Tl!Min

LEMMA GreatestOf ==
  ASSUME NEW n \in Nat, NEW S \in SUBSET (1..n), S # {}
  PROVE  Max(S) \in S /\ Pr!Max(S) = Max(S) /\ Tl!Max(S) = Max(S)
<1> DEFINE T == {n - x : x \in S}
<1>1. \A x \in S : x \in Nat /\ x <= n
  OBVIOUS
<1>2. T \subseteq Nat /\ T # {}
  <2>1. \A x \in S : n - x \in Nat
    BY <1>1
  <2> QED
    BY <2>1
<1>3. PICK t \in T : \A u \in T : t <= u
  BY <1>2, LeastOf
<1>4. PICK m \in S : t = n - m
  OBVIOUS
<1>5. \A x \in S : m >= x
  <2> SUFFICES ASSUME NEW x \in S PROVE m >= x
    OBVIOUS
  <2>1. n - x \in T
    OBVIOUS
  <2>2. n - m <= n - x
    BY <1>3, <1>4, <2>1
  <2> QED
    BY <1>1, <2>2
<1> QED
  BY <1>5 DEF Max, Pr!Max, Tl!Max

-----------------------------------------------------------------------------
(* The reading of a page.                                                  *)

\* a transcript that the contract of some band or row let through
Contracted(s) == s \in Pr!Segment /\ Pr!ValidSegment(s, Pr!Cardinality(Pr!Rows))

ReadingInv ==
    /\ Pr!TypeOK
    /\ got \in Seq(Pr!Segment) /\ \A i \in DOMAIN got : Contracted(got[i])
    /\ alone \in [DOMAIN alone -> Strings]
    /\ phase = "bands" => left \subseteq DOMAIN Bands /\ left # {} /\ DOMAIN alone = {}
    /\ phase = "alone" => left \cup DOMAIN alone = Pr!SecondLook(got)
    /\ phase \in {"doubts", "doubts again", "done"} =>
         DOMAIN alone = Pr!SecondLook(got) /\ refused = ~Pr!FromAnswer(Pr!PageAnswer, Pr!Rows)

-----------------------------------------------------------------------------
LEMMA BodyType ==
  ASSUME Pr!BandsAssumption, NEW rows \in Seq(Int), NEW text \in Strings
  PROVE  [rows |-> rows, kind |-> "body", text |-> text, after |-> 0] \in Pr!Segment
<1>1. "body" \in Strings
  BY DEF Pr!BandsAssumption, Pr!Kinds
<1> QED
  BY <1>1 DEF Pr!Segment

LEMMA RowsAre ==
  ASSUME Pr!BandsAssumption
  PROVE  /\ Pr!Cardinality(Pr!Rows) \in Nat \ {0} /\ Pr!Rows = 1..Pr!Cardinality(Pr!Rows)
         /\ Pr!Max(Pr!Rows) = Pr!Cardinality(Pr!Rows) /\ Pr!Min(Pr!Rows) \in Pr!Rows /\ Pr!Rows \subseteq Nat
<1>1. Pr!Cardinality(Pr!Rows) \in Nat /\ Pr!Rows = 1..Pr!Cardinality(Pr!Rows) /\ Pr!Rows # {}
  BY FS_CardinalityType, SetsAreSets DEF Pr!BandsAssumption
<1> DEFINE c == Pr!Cardinality(Pr!Rows)
<1>2. c \in Pr!Rows /\ c # 0 /\ \A x \in Pr!Rows : c >= x /\ x \in Nat
  BY <1>1
<1> HIDE DEF c
<1>3. Pr!Max(Pr!Rows) = c
  <2>1. \A x \in Pr!Rows : (\A y \in Pr!Rows : x >= y) => x = c
    BY <1>2
  <2> QED
    BY <1>2, <2>1 DEF Pr!Max
<1>4. Pr!Min(Pr!Rows) \in Pr!Rows
  BY <1>1, <1>2, LeastOf
<1> QED
  BY <1>1, <1>2, <1>3, <1>4 DEF c

LEMMA Apart == \A x, y \in Nat : x # y => x < y \/ y < x
OBVIOUS

\* the highest row of a band, or of a row shown alone, is a row of the page
LEMMA HighestOf ==
  ASSUME Pr!BandsAssumption, NEW S \in SUBSET Pr!Rows, S # {}
  PROVE  Pr!Max(S) \in Pr!Rows
<1>1. Pr!Cardinality(Pr!Rows) \in Nat /\ S \in SUBSET (1..Pr!Cardinality(Pr!Rows))
  BY RowsAre
<1> QED
  BY <1>1, GreatestOf

\* what the contract of some rows lets through names rows of the page
LEMMA AnswerContracted ==
  ASSUME Pr!BandsAssumption, NEW answer \in Answers, NEW wanted \in SUBSET Pr!Rows, wanted # {},
         Pr!FromAnswer(answer, wanted)
  PROVE  answer \in Seq(Pr!Segment) /\ \A i \in DOMAIN answer : Contracted(answer[i])
<1>1. answer \in Seq(Pr!Segment) /\ \A i \in DOMAIN answer : answer[i] \in Pr!Segment
  <2>1. answer \in Seq(Pr!Segment)
    BY DEF Pr!FromAnswer, Pr!BandsAssumption
  <2> QED
    BY <2>1, ElementOfSeq
<1>2. \A i \in DOMAIN answer : Pr!ValidSegment(answer[i], Pr!Max(wanted))
  BY DEF Pr!FromAnswer
<1>3. Pr!Max(wanted) \in Int /\ Pr!Max(wanted) <= Pr!Cardinality(Pr!Rows) /\ Pr!Cardinality(Pr!Rows) \in Nat
  BY HighestOf, RowsAre
<1>4. \A s \in Pr!Segment : Pr!ValidSegment(s, Pr!Max(wanted)) => Pr!ValidSegment(s, Pr!Cardinality(Pr!Rows))
  <2> SUFFICES ASSUME NEW s \in Pr!Segment, Pr!ValidSegment(s, Pr!Max(wanted))
               PROVE  Pr!ValidSegment(s, Pr!Cardinality(Pr!Rows))
    OBVIOUS
  <2>1. s.after \in Int /\ s.rows \in Seq(Int)
    BY DEF Pr!Segment
  <2>2. \A n \in Int : Pr!Within(n, Pr!Max(wanted)) => Pr!Within(n, Pr!Cardinality(Pr!Rows))
    BY <1>3 DEF Pr!Within
  <2>3. \A i \in DOMAIN s.rows : s.rows[i] \in Int
    BY <2>1, ElementOfSeq
  <2> QED
    BY <2>1, <2>2, <2>3 DEF Pr!ValidSegment
<1> QED
  BY <1>1, <1>2, <1>4 DEF Contracted

-----------------------------------------------------------------------------
\* the segment a row is read from
LEMMA OfRowContracted ==
  ASSUME Pr!BandsAssumption, NEW row \in Pr!Rows, NEW ts \in Seq(Pr!Segment), \A i \in DOMAIN ts : Contracted(ts[i])
  PROVE  /\ Pr!OfRow(ts, row) \in Pr!Segment
         /\ Pr!OfRow(ts, row).kind \in Pr!Kinds
         /\ IF Pr!OfRow(ts, row).kind = "injection" THEN Pr!Within(Pr!OfRow(ts, row).after, Pr!Cardinality(Pr!Rows))
                                                 ELSE Pr!OfRow(ts, row).after = 0
<1> DEFINE covering == {i \in DOMAIN ts : Pr!Covers(ts[i], row)}
<1>1. CASE covering = {}
  <2>1. Pr!OfRow(ts, row) = Pr!Unread
    BY <1>1 DEF Pr!OfRow
  <2>2. <<>> \in Seq(Int)
    OBVIOUS
  <2>3. Pr!OfRow(ts, row) = [rows |-> <<>>, kind |-> "body", text |-> "", after |-> 0]
    BY <2>1 DEF Pr!Unread
  <2>4. Pr!OfRow(ts, row) \in Pr!Segment
    <3>1. "" \in Strings
      BY DEF Pr!BandsAssumption
    <3> QED
      BY <2>2, <2>3, <3>1, BodyType
  <2>5. Pr!OfRow(ts, row).kind = "body" /\ Pr!OfRow(ts, row).after = 0
    <3>1. Pr!Unread.kind = "body" /\ Pr!Unread.after = 0
      BY DEF Pr!Unread
    <3> QED
      BY <2>1, <3>1
  <2>6. "body" \in Pr!Kinds /\ "body" # "injection"
    BY DEF Pr!Kinds
  <2> QED
    BY <2>4, <2>5, <2>6
<1>2. CASE covering # {}
  <2>1. covering \in SUBSET Nat
    OBVIOUS
  <2>2. Pr!Min(covering) \in DOMAIN ts
    BY <1>2, <2>1, LeastOf
  <2>3. Pr!OfRow(ts, row) = ts[Pr!Min(covering)]
    BY <1>2 DEF Pr!OfRow
  <2> QED
    BY <2>2, <2>3 DEF Contracted, Pr!ValidSegment
<1> QED
  BY <1>1, <1>2

\* what the page's answer says of a row
LEMMA PageAnswerIs ==
  ASSUME Pr!BandsAssumption, ReadingInv, NEW row \in Pr!Rows
  PROVE  /\ Pr!PageAnswer[row] \in Pr!Segment
         /\ Pr!PageAnswer[row].rows = <<row>>
         /\ Pr!PageAnswer[row].text = IF row \in DOMAIN alone THEN alone[row] ELSE Pr!TextOf(got, row)
         /\ Pr!ValidSegment(Pr!PageAnswer[row], Pr!Cardinality(Pr!Rows))
<1> DEFINE s == Pr!OfRow(got, row)
           n == Pr!Cardinality(Pr!Rows)
<1>1. n \in Nat /\ row \in 1..n /\ <<row>> \in Seq(Int)
  BY RowsAre
<1>2. \A r : r.rows = <<row>> /\ r.kind \in Pr!Kinds
                /\ (IF r.kind = "injection" THEN Pr!Within(r.after, n) ELSE r.after = 0) => Pr!ValidSegment(r, n)
  BY <1>1 DEF Pr!ValidSegment, Pr!Within, Pr!IsInjective
<1>3. CASE row \in DOMAIN alone
  <2>1. Pr!PageAnswer[row] = [Pr!Unread EXCEPT !.rows = <<row>>, !.text = alone[row]]
    BY <1>3 DEF Pr!PageAnswer
  <2>2. Pr!PageAnswer[row] = [rows |-> <<row>>, kind |-> "body", text |-> alone[row], after |-> 0]
    BY <2>1 DEF Pr!Unread
  <2>3. alone[row] \in Strings
    BY <1>3 DEF ReadingInv
  <2>4. Pr!PageAnswer[row] \in Pr!Segment
    BY <1>1, <2>2, <2>3, BodyType
  <2> QED
    BY <1>2, <1>3, <2>2, <2>4 DEF Pr!Kinds
<1>4. CASE row \notin DOMAIN alone
  <2>1. Pr!PageAnswer[row] = [s EXCEPT !.rows = <<row>>]
    BY <1>4 DEF Pr!PageAnswer
  <2>2. /\ s \in Pr!Segment /\ s.kind \in Pr!Kinds
        /\ IF s.kind = "injection" THEN Pr!Within(s.after, n) ELSE s.after = 0
    BY OfRowContracted DEF ReadingInv
  <2> HIDE DEF s, n
  <2>3. /\ Pr!PageAnswer[row] \in Pr!Segment
        /\ Pr!PageAnswer[row].rows = <<row>> /\ Pr!PageAnswer[row].text = s.text
        /\ Pr!PageAnswer[row].kind = s.kind /\ Pr!PageAnswer[row].after = s.after
    BY <1>1, <2>1, <2>2 DEF Pr!Segment
  <2>4. Pr!ValidSegment(Pr!PageAnswer[row], n)
    BY <1>2, <2>2, <2>3
  <2> QED
    BY <1>4, <2>3, <2>4 DEF Pr!TextOf, s, n
<1> QED
  BY <1>3, <1>4

\* the page's answer breaks the contract only by a long line that stands twice
LEMMA RefusedForRepeats ==
  ASSUME Pr!BandsAssumption, ReadingInv
  PROVE  Pr!FromAnswer(Pr!PageAnswer, Pr!Rows) <=> ~Pr!Repeats(Pr!PageAnswer)
<1>1. DOMAIN Pr!PageAnswer = Pr!Rows /\ Pr!Rows = 1..Pr!Cardinality(Pr!Rows) /\ Pr!Cardinality(Pr!Rows) \in Nat
      /\ Pr!Max(Pr!Rows) = Pr!Cardinality(Pr!Rows)
  BY RowsAre DEF Pr!PageAnswer
<1>2. \A row \in Pr!Rows : /\ Pr!PageAnswer[row].rows = <<row>>
                           /\ Pr!ValidSegment(Pr!PageAnswer[row], Pr!Cardinality(Pr!Rows))
  BY PageAnswerIs
<1>3. Pr!PageAnswer # NotJson
  <2>1. Pr!PageAnswer \in [1..Pr!Cardinality(Pr!Rows) -> Pr!Segment]
    BY <1>1, PageAnswerIs DEF Pr!PageAnswer
  <2>2. Pr!PageAnswer \in Seq(Pr!Segment)
    BY <1>1, <2>1
  <2> QED
    BY <2>2 DEF Pr!BandsAssumption
<1>4. \A row \in Pr!Rows : Pr!Range(Pr!PageAnswer[row].rows) = {row}
  BY <1>2 DEF Pr!Range
<1>5. \A row \in Pr!Rows : Pr!Covers(Pr!PageAnswer[row], row)
  BY <1>4 DEF Pr!Covers
<1>6. \A a, b \in Pr!Rows : a # b => Pr!Range(Pr!PageAnswer[a].rows) \cap Pr!Range(Pr!PageAnswer[b].rows) = {}
  BY <1>4
<1> QED
  BY <1>1, <1>2, <1>3, <1>5, <1>6 DEF Pr!FromAnswer

LEMMA Shown ==
  ASSUME Pr!BandsAssumption, ReadingInv
  PROVE  Pr!DoubtShownAlone
<1> SUFFICES ASSUME phase \in {"doubts", "doubts again", "done"} PROVE Pr!DoubtShownAlone
  BY DEF Pr!DoubtShownAlone
<1>1. DOMAIN alone = Pr!SecondLook(got) /\ refused = Pr!Repeats(Pr!PageAnswer)
  <2>1. DOMAIN alone = Pr!SecondLook(got) /\ refused = ~Pr!FromAnswer(Pr!PageAnswer, Pr!Rows)
    BY DEF ReadingInv
  <2>2. refused \in BOOLEAN /\ Pr!Repeats(Pr!PageAnswer) \in BOOLEAN
    BY DEF ReadingInv, Pr!TypeOK, Pr!Repeats
  <2> QED
    BY <2>1, <2>2, RefusedForRepeats
<1>2. \A row \in Pr!Rows : row \notin DOMAIN alone => Pr!PageAnswer[row].text = Pr!TextOf(got, row)
  BY PageAnswerIs
<1>3. ASSUME NEW row \in Pr!Rows, Pr!PageAnswer[row].text = "", row \notin DOMAIN alone
      PROVE  FALSE
  BY <1>1, <1>2, <1>3 DEF Pr!SecondLook, Pr!Blank
<1>4. DOMAIN Pr!PageAnswer = Pr!Rows /\ Pr!Rows \subseteq Nat
  <2>1. DOMAIN Pr!PageAnswer = Pr!Rows
    BY DEF Pr!PageAnswer
  <2> QED
    BY <2>1, RowsAre
<1>5. ASSUME NEW a \in Pr!Rows, NEW b \in Pr!Rows, a # b, Pr!PageAnswer[a].text = Pr!PageAnswer[b].text,
             Pr!PageAnswer[a].text \in LongLines
      PROVE  a \in DOMAIN alone \/ b \in DOMAIN alone
  <2> SUFFICES ASSUME a \notin DOMAIN alone, b \notin DOMAIN alone PROVE FALSE
    OBVIOUS
  <2>1. Pr!TextOf(got, a) = Pr!TextOf(got, b) /\ Pr!TextOf(got, a) \in LongLines
    BY <1>2, <1>5
  <2>2. a < b \/ b < a
    <3>1. a \in Nat /\ b \in Nat
      BY <1>4
    <3> QED
      BY <1>5, <3>1, Apart
  <2>3. a \in Pr!Doubled(got) \/ b \in Pr!Doubled(got)
    BY <2>1, <2>2 DEF Pr!Doubled
  <2> QED
    BY <1>1, <2>3 DEF Pr!SecondLook
<1>6. Pr!Repeats(Pr!PageAnswer) <=> \E a, b \in Pr!Rows : /\ a # b /\ a \in DOMAIN alone
                                                  /\ Pr!PageAnswer[a].text = Pr!PageAnswer[b].text
                                                  /\ Pr!PageAnswer[a].text \in LongLines
  BY <1>4, <1>5 DEF Pr!Repeats
<1> QED
  BY <1>1, <1>3, <1>6 DEF Pr!DoubtShownAlone

-----------------------------------------------------------------------------
\* the bands
LEMMA BandsAre ==
  ASSUME Pr!BandsAssumption
  PROVE  /\ DOMAIN Bands \subseteq Nat /\ DOMAIN Bands # {}
         /\ \A band \in DOMAIN Bands : Bands[band] \in SUBSET Pr!Rows /\ Bands[band] # {}
<1>1. DOMAIN Bands \subseteq Nat /\ \A band \in DOMAIN Bands : Bands[band] \in SUBSET Pr!Rows
  <2>1. Bands \in Seq(SUBSET Pr!Rows)
    BY DEF Pr!BandsAssumption
  <2> HIDE DEF Pr!Rows
  <2> QED
    BY <2>1
<1>2. \A band \in DOMAIN Bands : Bands[band] # {}
  BY DEF Pr!BandsAssumption, Pr!Range
<1>3. DOMAIN Bands # {}
  BY DEF Pr!BandsAssumption, Pr!Range, Pr!Rows
<1> QED
  BY <1>1, <1>2, <1>3

LEMMA InitReads ==
  ASSUME Pr!BandsAssumption, Pr!Init
  PROVE  ReadingInv
<1>1. DOMAIN Bands # {}
  BY BandsAre
<1>2. <<>> \in Seq(Pr!Segment) /\ DOMAIN <<>> = {}
  OBVIOUS
<1>3. alone \in [DOMAIN alone -> Strings] /\ DOMAIN alone = {}
  BY DEF Pr!Init
<1> QED
  BY <1>1, <1>2, <1>3 DEF Pr!Init, ReadingInv, Pr!TypeOK

LEMMA ReadBandReads ==
  ASSUME Pr!BandsAssumption, ReadingInv, NEW answer \in Answers, Pr!ReadBand(answer)
  PROVE  ReadingInv'
<1> DEFINE band == Pr!Min(left)
           read == IF Pr!FromAnswer(answer, Bands[band]) THEN got \o answer ELSE got
<1>1. phase = "bands" /\ left \subseteq DOMAIN Bands /\ left # {} /\ DOMAIN alone = {} /\ got' = read
      /\ alone' = alone /\ refused' = refused /\ doubts' = doubts
  BY DEF Pr!ReadBand, ReadingInv
<1>2. band \in left
  BY <1>1, BandsAre, LeastOf
<1>3. read \in Seq(Pr!Segment) /\ \A i \in DOMAIN read : Contracted(read[i])
  <2>1. got \in Seq(Pr!Segment) /\ \A i \in DOMAIN got : Contracted(got[i])
    BY DEF ReadingInv
  <2>2. CASE Pr!FromAnswer(answer, Bands[band])
    <3>1. answer \in Seq(Pr!Segment) /\ \A i \in DOMAIN answer : Contracted(answer[i])
      BY <1>1, <1>2, <2>2, AnswerContracted, BandsAre
    <3>2. read = got \o answer
      BY <2>2
    <3>3. got \o answer \in Seq(Pr!Segment) /\ Len(got \o answer) = Len(got) + Len(answer)
          /\ \A i \in 1..(Len(got) + Len(answer)) :
               (got \o answer)[i] = IF i <= Len(got) THEN got[i] ELSE answer[i - Len(got)]
      BY <2>1, <3>1, ConcatProperties
    <3>4. \A i \in 1..(Len(got) + Len(answer)) : i <= Len(got) => i \in DOMAIN got
      BY <2>1
    <3>5. \A i \in 1..(Len(got) + Len(answer)) : ~(i <= Len(got)) => i - Len(got) \in DOMAIN answer
      BY <2>1, <3>1
    <3>6. DOMAIN read = 1..(Len(got) + Len(answer))
      BY <3>2, <3>3
    <3> QED
      BY <2>1, <3>1, <3>2, <3>3, <3>4, <3>5, <3>6
  <2> QED
    BY <2>1, <2>2
<1> HIDE DEF band, read
<1>4. IF left = {band} THEN phase' = "alone" /\ left' = Pr!SecondLook(read)
                       ELSE phase' = "bands" /\ left' = left \ {band}
  BY DEF Pr!ReadBand, band, read
<1>5. Pr!SecondLook(read) \subseteq Pr!Rows
  BY DEF Pr!SecondLook, Pr!Blank, Pr!Doubled
<1>6. Pr!TypeOK'
  BY <1>1, <1>4, <1>5 DEF ReadingInv, Pr!TypeOK
<1>7. got' \in Seq(Pr!Segment) /\ \A i \in DOMAIN got' : Contracted(got'[i])
  BY <1>1, <1>3
<1>8. alone' \in [DOMAIN alone' -> Strings] /\ DOMAIN alone' = {}
  BY <1>1 DEF ReadingInv
<1>9. phase' = "bands" => left' \subseteq DOMAIN Bands /\ left' # {}
  BY <1>1, <1>2, <1>4
<1>10. phase' = "alone" => left' \cup DOMAIN alone' = Pr!SecondLook(got')
  BY <1>1, <1>4, <1>8
<1>11. phase' \notin {"doubts", "doubts again", "done"}
  BY <1>4
<1> QED
  BY <1>6, <1>7, <1>8, <1>9, <1>10, <1>11 DEF ReadingInv, Contracted

LEMMA ReadAloneReads ==
  ASSUME Pr!BandsAssumption, ReadingInv, NEW answer \in Answers, Pr!ReadAlone(answer)
  PROVE  ReadingInv'
<1> DEFINE row == Pr!Min(left)
<1>1. /\ phase = "alone" /\ left # {} /\ left \cup DOMAIN alone = Pr!SecondLook(got)
      /\ got' = got /\ refused' = refused /\ doubts' = doubts /\ alone \in [DOMAIN alone -> Strings]
  BY DEF Pr!ReadAlone, ReadingInv
<1>2. left \subseteq Pr!Rows /\ DOMAIN alone \subseteq Pr!Rows
  BY <1>1 DEF Pr!SecondLook, Pr!Blank, Pr!Doubled
<1>3. row \in left
  BY <1>1, <1>2, RowsAre, LeastOf
<1>4. CASE Pr!FromAnswer(answer, {row})
  <2>1. answer[1].text \in Strings
    <3>1. answer \in Seq(Pr!Segment) /\ \E i \in DOMAIN answer : Pr!Covers(answer[i], row)
      BY <1>2, <1>3, <1>4, AnswerContracted DEF Pr!FromAnswer
    <3>2. 1 \in DOMAIN answer
      BY <3>1
    <3>3. answer[1] \in Pr!Segment
      BY <3>1, <3>2
    <3> QED
      BY <3>3 DEF Pr!Segment
  <2>2. /\ alone' = [r \in DOMAIN alone \cup {row} |-> IF r = row THEN answer[1].text ELSE alone[r]]
        /\ phase' = "alone" /\ left' = left \ {row}
    BY <1>4 DEF Pr!ReadAlone
  <2>3. DOMAIN alone' = DOMAIN alone \cup {row} /\ alone' \in [DOMAIN alone' -> Strings]
    BY <1>1, <2>1, <2>2
  <2>4. left' \cup DOMAIN alone' = Pr!SecondLook(got')
    BY <1>1, <1>3, <2>2, <2>3
  <2>5. Pr!TypeOK'
    BY <1>1, <1>2, <1>3, <2>2, <2>3 DEF ReadingInv, Pr!TypeOK
  <2> QED
    BY <1>1, <2>2, <2>3, <2>4, <2>5 DEF ReadingInv, Contracted
<1>5. CASE ~Pr!FromAnswer(answer, {row})
  <2>1. phase' = "failed" /\ alone' = alone /\ left' = left
    BY <1>5 DEF Pr!ReadAlone
  <2>2. Pr!TypeOK'
    BY <1>1, <2>1 DEF ReadingInv, Pr!TypeOK
  <2> QED
    BY <1>1, <2>1, <2>2 DEF ReadingInv, Contracted
<1> QED
  BY <1>4, <1>5

LEMMA RestReads ==
  ASSUME Pr!BandsAssumption, ReadingInv,
         Pr!CallFails \/ Pr!Judge \/ Pr!NoDoubts \/ UNCHANGED Pr!vars \/ \E named \in {{}, {Pr!Min(Pr!Rows)}} : Pr!Doubt(named)
  PROVE  ReadingInv'
<1>1. left' = left /\ got' = got /\ alone' = alone
  BY DEF Pr!CallFails, Pr!Judge, Pr!NoDoubts, Pr!Doubt, Pr!vars
<1>2. Pr!PageAnswer' = Pr!PageAnswer
  BY <1>1 DEF Pr!PageAnswer
<1>3. /\ DOMAIN alone' = DOMAIN alone /\ Pr!SecondLook(got') = Pr!SecondLook(got)
      /\ Pr!FromAnswer(Pr!PageAnswer', Pr!Rows) = Pr!FromAnswer(Pr!PageAnswer, Pr!Rows)
  BY <1>1, <1>2
<1>4. doubts' \subseteq Pr!Rows
  BY RowsAre DEF Pr!CallFails, Pr!Judge, Pr!NoDoubts, Pr!Doubt, Pr!vars, ReadingInv, Pr!TypeOK
<1>5. CASE Pr!Judge
  <2>1. phase' = "doubts" /\ refused' = ~Pr!FromAnswer(Pr!PageAnswer, Pr!Rows) /\ DOMAIN alone = Pr!SecondLook(got)
    BY <1>5 DEF Pr!Judge, ReadingInv
  <2>2. refused' \in BOOLEAN
    BY <2>1 DEF Pr!FromAnswer
  <2>3. Pr!TypeOK'
    BY <1>1, <1>4, <2>1, <2>2 DEF ReadingInv, Pr!TypeOK
  <2> QED
    BY <1>1, <1>3, <2>1, <2>3 DEF ReadingInv, Contracted
<1>6. CASE ~Pr!Judge
  <2>1. /\ refused' = refused
        /\ \/ phase' = phase
           \/ phase' = "failed"
           \/ /\ phase \in {"doubts", "doubts again"} /\ phase' \in {"doubts again", "done"}
    BY <1>6 DEF Pr!CallFails, Pr!NoDoubts, Pr!Doubt, Pr!vars
  <2>2. Pr!TypeOK'
    BY <1>1, <1>4, <2>1 DEF ReadingInv, Pr!TypeOK
  <2> QED
    BY <1>1, <1>3, <2>1, <2>2 DEF ReadingInv, Contracted
<1> QED
  BY <1>5, <1>6

LEMMA ReadingInductive ==
  ASSUME Pr!BandsAssumption
  PROVE  Pr!Init /\ [][Pr!Next]_Pr!vars => []ReadingInv
<1>1. Pr!Init => ReadingInv
  BY InitReads
<1>2. ReadingInv /\ [Pr!Next]_Pr!vars => ReadingInv'
  BY ReadBandReads, ReadAloneReads, RestReads DEF Pr!Next
<1> QED
  BY <1>1, <1>2, PTL

\* The rows still to be read, those read alone and the doubts are rows of the page, whatever the
\* model answers (transcripts.py).
THEOREM ReadingTypeCorrect ==
  ASSUME Pr!BandsAssumption
  PROVE  Pr!Init /\ [][Pr!Next]_Pr!vars => []Pr!TypeOK
<1>1. ReadingInv => Pr!TypeOK
  BY DEF ReadingInv
<1> QED
  BY <1>1, ReadingInductive, PTL

\* No row of a page that was read is believed on the bands' word where there is reason to doubt
\* it: it was read again alone, or the page says so (transcripts.py).
THEOREM DoubtIsShown ==
  ASSUME Pr!BandsAssumption
  PROVE  Pr!Init /\ [][Pr!Next]_Pr!vars => []Pr!DoubtShownAlone
<1>1. ReadingInv => Pr!DoubtShownAlone
  BY Shown
<1> QED
  BY <1>1, ReadingInductive, PTL

-----------------------------------------------------------------------------
(* The telling of a story.                                                 *)

\* a fact and a question as the narrator is left with them
KeptKinds == {"age", "dob", "event_date", "dropped"}
KeptFact(f) == IF f.kind = "age" THEN f \in Tl!Told({"age"}, 1..(Tl!MaxAge - 1))
                                 ELSE f \in Tl!Told({"dob", "event_date", "dropped"}, Tl!Date \cup {None})
KeptQuestion(q) == /\ q \in Tl!AQuestion(SUBSET (Int \cup {None}))
                   /\ Tl!IsFiniteSet(q.suggestions) /\ Tl!Cardinality(q.suggestions) <= Tl!MaxSuggestions
KeptFacts(fs) == fs \in Seq(Tl!Range(fs)) /\ \A i \in DOMAIN fs : KeptFact(fs[i])
Sound(a) ==
    /\ a = [extractions |-> a.extractions, facts |-> a.facts, questions |-> a.questions]
    /\ a.extractions \in Seq(Tl!Extraction)
    /\ KeptFacts(a.facts)
    /\ a.questions \in Seq(Tl!Range(a.questions)) /\ Len(a.questions) <= Tl!MaxQuestions
    /\ \A i \in DOMAIN a.questions : KeptQuestion(a.questions[i])

TellingInv ==
    /\ narrator \in Narrators /\ pc \in Tl!Places /\ attempt \in 0..(Tl!MaxAttempts - 1) /\ clean \in BOOLEAN
    /\ next \in 1..(Tl!MaxQuestions + 1)
    /\ Sound(draft) /\ KeptFacts(facts)
    /\ IF pc = "saved" THEN date \in Tl!Date ELSE date = None
    /\ pc = "review" => attempt < Tl!MaxAttempts - 1
    /\ Tl!OnlyGroundedIsOffered /\ Tl!DatedOrAsked
    /\ clean => Tl!Accepted

-----------------------------------------------------------------------------
(* What the account is read as.                                            *)

LEMMA DateType ==
  ASSUME NEW phrase \in Tl!Phrase \cup {None}, NEW claimed
  PROVE  Tl!AssertedDate(phrase, claimed) \in Tl!Date \cup {None}
<1>1. CASE Tl!Parsed(phrase)
  <2>1. phrase.year \in Int
    BY <1>1 DEF Tl!Parsed, Tl!Phrase
  <2>2. Tl!Demoted(phrase, claimed) \in {"exact", "month", "year", "approx"}
    BY DEF Tl!Demoted
  <2> QED
    BY <1>1, <2>1, <2>2 DEF Tl!AssertedDate, Tl!Date
<1>2. CASE ~Tl!Parsed(phrase)
  BY <1>2 DEF Tl!AssertedDate
<1> QED
  BY <1>1, <1>2

LEMMA FactType ==
  ASSUME NEW raw, Tl!StatedFact(raw)
  PROVE  KeptFact(Tl!Fact(raw))
<1>1. CASE raw.kind # "age"
  <2>1. raw \in Tl!Told({"dob", "event_date"}, Tl!Phrase \cup {None})
    BY <1>1 DEF Tl!StatedFact
  <2>2. PICK v \in Tl!Date \cup {None} : v = Tl!AssertedDate(raw.value, raw.claimed)
    BY <2>1, DateType DEF Tl!Told
  <2>3. Tl!Fact(raw) = [raw EXCEPT !.value = v]
    BY <1>1, <2>2 DEF Tl!Fact
  <2>4. Tl!Fact(raw) \in Tl!Told({"dob", "event_date"}, Tl!Date \cup {None})
    BY <2>1, <2>2, <2>3 DEF Tl!Told
  <2>5. Tl!Fact(raw).kind # "age" /\ Tl!Fact(raw) \in Tl!Told({"dob", "event_date", "dropped"}, Tl!Date \cup {None})
    BY <2>4 DEF Tl!Told
  <2> QED
    BY <2>5 DEF KeptFact
<1>2. CASE raw.kind = "age" /\ Tl!PlausibleAge(raw.value)
  <2>1. raw \in Tl!Told({"age"}, Int) /\ Tl!Fact(raw) = raw
    BY <1>2 DEF Tl!StatedFact, Tl!Fact
  <2>2. raw.value \in 1..(Tl!MaxAge - 1)
    BY <1>2, <2>1 DEF Tl!Told, Tl!PlausibleAge, Tl!MaxAge
  <2>3. raw \in Tl!Told({"age"}, 1..(Tl!MaxAge - 1))
    BY <2>1, <2>2 DEF Tl!Told
  <2> QED
    BY <1>2, <2>1, <2>3 DEF KeptFact
<1>3. CASE raw.kind = "age" /\ ~Tl!PlausibleAge(raw.value)
  <2>1. raw \in Tl!Told({"age"}, Int) /\ Tl!Fact(raw) = [raw EXCEPT !.kind = "dropped", !.value = None]
    BY <1>3 DEF Tl!StatedFact, Tl!Fact
  <2>2. Tl!Fact(raw) \in Tl!Told({"dob", "event_date", "dropped"}, Tl!Date \cup {None}) /\ Tl!Fact(raw).kind # "age"
    BY <2>1 DEF Tl!Told
  <2> QED
    BY <2>2 DEF KeptFact
<1> QED
  BY <1>1, <1>2, <1>3

LEMMA AtMostIs ==
  ASSUME NEW S, NEW s \in Seq(S), NEW n \in Nat
  PROVE  Tl!AtMost(s, n) \in Seq(S) /\ Len(Tl!AtMost(s, n)) <= n
<1> DEFINE m == Tl!Min({n, Len(s)})
<1>1. Len(s) \in Nat
  OBVIOUS
<1>2. m \in Nat /\ m <= n /\ m <= Len(s)
  BY <1>1, LeastOf
<1> HIDE DEF m
<1>3. \A i \in 1..m : s[i] \in S
  BY <1>2
<1>4. SubSeq(s, 1, m) \in Seq(S) /\ Len(SubSeq(s, 1, m)) = IF 1 <= m THEN m - 1 + 1 ELSE 0
  BY <1>2, <1>3, SubSeqProperties
<1>5. Len(SubSeq(s, 1, m)) <= n
  BY <1>2, <1>4
<1>6. Tl!AtMost(s, n) = SubSeq(s, 1, m)
  BY DEF Tl!AtMost, m
<1> QED
  BY <1>4, <1>5, <1>6

LEMMA RangeIs ==
  ASSUME NEW S, NEW s \in Seq(S)
  PROVE  Tl!Range(s) \in SUBSET S /\ Tl!IsFiniteSet(Tl!Range(s)) /\ Tl!Cardinality(Tl!Range(s)) <= Len(s)
<1>1. s \in Surjection(1..Len(s), Tl!Range(s))
  BY DEF Surjection, Tl!Range
<1>2. Tl!IsFiniteSet(1..Len(s)) /\ Tl!Cardinality(1..Len(s)) = Len(s)
  <2>1. Len(s) \in Nat
    OBVIOUS
  <2>2. /\ Tl!IsFiniteSet(1..Len(s)) 
        /\ Tl!Cardinality(1..Len(s)) = IF 1 > Len(s) THEN 0 ELSE Len(s) - 1 + 1
    BY <2>1, FS_Interval, SetsAreSets
  <2> QED
    BY <2>1, <2>2
<1>3. Tl!Range(s) \in SUBSET S
  BY DEF Tl!Range
<1> QED
  BY <1>1, <1>2, <1>3, FS_Surjection, SetsAreSets

LEMMA QuestionType ==
  ASSUME NEW raw \in Tl!AQuestion(Seq(Int \cup {None}))
  PROVE  KeptQuestion(Tl!Question(raw))
<1> DEFINE few == Tl!AtMost(raw.suggestions, Tl!MaxSuggestions)
<1>1. raw.suggestions \in Seq(Int \cup {None})
  BY DEF Tl!AQuestion
<1>2. few \in Seq(Int \cup {None}) /\ Len(few) <= Tl!MaxSuggestions /\ Tl!MaxSuggestions \in Nat /\ Len(few) \in Nat
  BY <1>1, AtMostIs DEF Tl!MaxSuggestions
<1>3. /\ Tl!Range(few) \in SUBSET (Int \cup {None}) /\ Tl!IsFiniteSet(Tl!Range(few))
      /\ Tl!Cardinality(Tl!Range(few)) <= Tl!MaxSuggestions
  <2>1. Tl!Range(few) \in SUBSET (Int \cup {None}) /\ Tl!IsFiniteSet(Tl!Range(few)) /\ Tl!Cardinality(Tl!Range(few)) <= Len(few)
    BY <1>2, RangeIs
  <2>2. Tl!Cardinality(Tl!Range(few)) \in Nat
    BY <2>1, FS_CardinalityType, SetsAreSets
  <2> QED
    BY <1>2, <2>1, <2>2
<1>4. PICK d, R : /\ d = (IF raw.type = "date" THEN raw.dateKind ELSE None) /\ R = Tl!Range(few)
                  /\ Tl!Question(raw) = [raw EXCEPT !.dateKind = d, !.suggestions = R]
  BY DEF Tl!Question
<1> HIDE DEF few
<1>5. d \in Words \cup {None}
  BY <1>4 DEF Tl!AQuestion
<1>6. Tl!Question(raw) \in Tl!AQuestion(SUBSET (Int \cup {None})) /\ Tl!Question(raw).suggestions = R
  BY <1>3, <1>4, <1>5 DEF Tl!AQuestion
<1> QED
  BY <1>3, <1>4, <1>6 DEF KeptQuestion

LEMMA AssembledIsSound ==
  ASSUME Tl!TellingAssumption, NEW content \in Contents, NEW asks \in Asks
  PROVE  Sound(Tl!Assembled(content, asks))
<1> DEFINE a == Tl!Assembled(content, asks)
           few == Tl!AtMost(asks, Tl!MaxQuestions)
<1>1. /\ content.extractions \in Seq(Tl!Extraction) /\ content.facts \in Seq(Tl!Range(content.facts))
      /\ \A i \in DOMAIN content.facts : Tl!StatedFact(content.facts[i])
  BY DEF Tl!TellingAssumption, Tl!Range
<1>2. asks \in Seq(Tl!AQuestion(Seq(Int \cup {None})))
  BY DEF Tl!TellingAssumption
<1>3. KeptFacts(Tl!FactsFrom(content.facts))
  <2>1. PICK n \in Nat : DOMAIN content.facts = 1..n
    BY <1>1
  <2>2. DOMAIN Tl!FactsFrom(content.facts) = 1..n
        /\ \A i \in 1..n : Tl!FactsFrom(content.facts)[i] = Tl!Fact(content.facts[i])
    BY <2>1 DEF Tl!FactsFrom
  <2>3. \A i \in 1..n : KeptFact(Tl!FactsFrom(content.facts)[i])
    BY <1>1, <2>1, <2>2, FactType
  <2>4. Tl!FactsFrom(content.facts) \in [1..n -> Tl!Range(Tl!FactsFrom(content.facts))]
    BY <2>1 DEF Tl!FactsFrom, Tl!Range
  <2> QED
    BY <2>2, <2>3, <2>4 DEF KeptFacts
<1>4. /\ Tl!QuestionsFrom(asks) \in Seq(Tl!Range(Tl!QuestionsFrom(asks)))
      /\ Len(Tl!QuestionsFrom(asks)) <= Tl!MaxQuestions
      /\ \A i \in DOMAIN Tl!QuestionsFrom(asks) : KeptQuestion(Tl!QuestionsFrom(asks)[i])
  <2>1. few \in Seq(Tl!AQuestion(Seq(Int \cup {None}))) /\ Len(few) <= Tl!MaxQuestions
    BY <1>2, AtMostIs DEF Tl!MaxQuestions
  <2>2. PICK n \in Nat : DOMAIN few = 1..n /\ n <= Tl!MaxQuestions /\ \A i \in 1..n : few[i] \in Tl!AQuestion(Seq(Int \cup {None}))
    BY <2>1
  <2> HIDE DEF few
  <2>3. Tl!QuestionsFrom(asks) = [i \in 1..n |-> Tl!Question(few[i])]
    BY <2>2 DEF Tl!QuestionsFrom, few
  <2>4. Tl!QuestionsFrom(asks) \in [1..n -> Tl!Range(Tl!QuestionsFrom(asks))]
    BY <2>3 DEF Tl!Range
  <2>5. Tl!QuestionsFrom(asks) \in Seq(Tl!Range(Tl!QuestionsFrom(asks))) /\ Len(Tl!QuestionsFrom(asks)) = n
    BY <2>2, <2>3, <2>4
  <2> QED
    BY <2>2, <2>3, <2>5, QuestionType
<1>5. a = [extractions |-> content.extractions, facts |-> Tl!FactsFrom(content.facts), questions |-> Tl!QuestionsFrom(asks)]
  BY DEF Tl!Assembled
<1> HIDE DEF a
<1> QED
  BY <1>1, <1>3, <1>4, <1>5 DEF Sound, a

-----------------------------------------------------------------------------
(* The guards and the rules.                                               *)

LEMMA PlausibleType ==
  ASSUME NEW q, KeptQuestion(q), NEW birth
  PROVE  /\ KeptQuestion(Tl!Plausible(q, birth))
         /\ Tl!AsksForTheEvent(Tl!Plausible(q, birth)) <=> Tl!AsksForTheEvent(q)
         /\ Tl!AsksForTheEvent(q) => \A s \in Tl!Plausible(q, birth).suggestions : s # None => s >= birth
<1>1. /\ q \in Tl!AQuestion(SUBSET (Int \cup {None})) /\ Tl!IsFiniteSet(q.suggestions)
      /\ Tl!Cardinality(q.suggestions) <= Tl!MaxSuggestions
  BY DEF KeptQuestion
<1>2. CASE q.type # "date" \/ Tl!AsksForBirth(q)
  BY <1>2 DEF Tl!Plausible, Tl!AsksForBirth, Tl!AsksForTheEvent
<1>3. CASE ~(q.type # "date" \/ Tl!AsksForBirth(q))
  <2>1. PICK R : /\ R = {s \in q.suggestions : s = None \/ s >= birth}
                 /\ Tl!Plausible(q, birth) = [q EXCEPT !.suggestions = R]
    BY <1>3 DEF Tl!Plausible
  <2>2. R \in SUBSET q.suggestions /\ \A s \in R : s # None => s >= birth
    BY <2>1
  <2>3. R \in SUBSET (Int \cup {None})
    BY <1>1, <2>2 DEF Tl!AQuestion
  <2>4. Tl!IsFiniteSet(R) /\ Tl!Cardinality(R) <= Tl!MaxSuggestions
    <3>1. Tl!IsFiniteSet(R) /\ Tl!Cardinality(R) <= Tl!Cardinality(q.suggestions)
      BY <1>1, <2>2, FS_Subset, SetsAreSets
    <3>2. Tl!Cardinality(R) \in Nat /\ Tl!Cardinality(q.suggestions) \in Nat /\ Tl!MaxSuggestions \in Nat
      BY <1>1, <3>1, FS_CardinalityType, SetsAreSets DEF Tl!MaxSuggestions
    <3> QED
      BY <1>1, <3>1, <3>2
  <2>5. /\ Tl!Plausible(q, birth) \in Tl!AQuestion(SUBSET (Int \cup {None})) /\ Tl!Plausible(q, birth).suggestions = R
        /\ Tl!Plausible(q, birth).type = q.type /\ Tl!Plausible(q, birth).dateKind = q.dateKind
    BY <1>1, <2>1, <2>3 DEF Tl!AQuestion
  <2> QED
    BY <2>2, <2>4, <2>5 DEF KeptQuestion, Tl!AsksForTheEvent
<1> QED
  BY <1>2, <1>3

\* what the guards leave of an assessment
LEMMA GuardedIs ==
  ASSUME NEW a, Sound(a)
  PROVE  /\ Sound(Tl!Guarded(a)) /\ Tl!Guarded(a).facts = a.facts
         /\ (\E q \in Tl!Asked(a) : Tl!AsksForTheEvent(q)) => \E q \in Tl!Asked(Tl!Guarded(a)) : Tl!AsksForTheEvent(q)
         /\ \A ex \in Tl!Range(Tl!Guarded(a).extractions) :
              ex.match => ~Tl!IsKinship(ex) /\ (ex.kind = "theme" \/ ex.name \in NamesSpoken)
         /\ Tl!NarratorBirth(a) # None =>
              \A q \in Tl!Asked(Tl!Guarded(a)) : Tl!AsksForTheEvent(q) =>
                \A s \in q.suggestions : s # None => s >= Tl!NarratorBirth(a)
<1>1. PICK E, F, Q, birth : /\ E = a.extractions /\ F = a.facts /\ Q = a.questions /\ birth = Tl!NarratorBirth(a)
                            /\ a = [extractions |-> E, facts |-> F, questions |-> Q]
  BY DEF Sound
<1>2. /\ E \in Seq(Tl!Extraction) /\ KeptFacts(F) /\ Q \in Seq(Tl!Range(Q)) /\ Len(Q) <= Tl!MaxQuestions
      /\ \A i \in DOMAIN Q : KeptQuestion(Q[i])
  BY <1>1 DEF Sound
<1>3. PICK m \in Nat, n \in Nat : DOMAIN E = 1..m /\ DOMAIN Q = 1..n /\ n = Len(Q) /\ n <= Tl!MaxQuestions
  BY <1>2
<1>4. PICK P : P = IF birth = None THEN Q ELSE [i \in DOMAIN Q |-> Tl!Plausible(Q[i], birth)]
  OBVIOUS
<1>5. Tl!FilterSuggestions(a) = [extractions |-> E, facts |-> F, questions |-> P]
  <2>1. CASE birth = None
    BY <1>1, <1>4, <2>1 DEF Tl!FilterSuggestions
  <2>2. CASE birth # None
    BY <1>1, <1>4, <2>2 DEF Tl!FilterSuggestions
  <2> QED
    BY <2>1, <2>2
<1>6. PICK X : X = [i \in DOMAIN E |-> IF Tl!IsKinship(E[i]) \/ Tl!Ungrounded(E[i]) THEN Tl!Unmatched(E[i]) ELSE E[i]]
  OBVIOUS
<1>7. Tl!Guarded(a) = [extractions |-> X, facts |-> F, questions |-> P]
  BY <1>5, <1>6 DEF Tl!Guarded, Tl!StripMatches
<1>8. Tl!Guarded(a).extractions = X /\ Tl!Guarded(a).facts = F /\ Tl!Guarded(a).questions = P
  BY <1>7
<1>9. \A i \in 1..m : X[i] \in Tl!Extraction
                      /\ (X[i].match => ~Tl!IsKinship(X[i]) /\ (X[i].kind = "theme" \/ X[i].name \in NamesSpoken))
  <2> SUFFICES ASSUME NEW i \in 1..m
               PROVE  X[i] \in Tl!Extraction
                      /\ (X[i].match => ~Tl!IsKinship(X[i]) /\ (X[i].kind = "theme" \/ X[i].name \in NamesSpoken))
    OBVIOUS
  <2>1. E[i] \in Tl!Extraction
    BY <1>2, <1>3
  <2>2. X[i] = IF Tl!IsKinship(E[i]) \/ Tl!Ungrounded(E[i]) THEN Tl!Unmatched(E[i]) ELSE E[i]
    BY <1>3, <1>6
  <2>3. CASE Tl!IsKinship(E[i]) \/ Tl!Ungrounded(E[i])
    <3>1. X[i] = [E[i] EXCEPT !.match = FALSE]
      BY <2>2, <2>3 DEF Tl!Unmatched
    <3>2. X[i] \in Tl!Extraction /\ ~X[i].match
      BY <2>1, <3>1 DEF Tl!Extraction
    <3> QED
      BY <3>2
  <2>4. CASE ~(Tl!IsKinship(E[i]) \/ Tl!Ungrounded(E[i]))
    BY <2>1, <2>2, <2>4 DEF Tl!Ungrounded
  <2> QED
    BY <2>3, <2>4
<1>10. X \in Seq(Tl!Extraction) /\ DOMAIN X = 1..m
  <2>1. X \in [1..m -> Tl!Extraction]
    BY <1>3, <1>6, <1>9
  <2> QED
    BY <2>1
<1>11. P \in Seq(Tl!Range(P)) /\ Len(P) = n /\ DOMAIN P = 1..n /\ \A i \in 1..n : KeptQuestion(P[i])
  <2>1. CASE birth = None
    BY <1>2, <1>3, <1>4, <2>1
  <2>2. CASE birth # None
    <3>1. P = [i \in 1..n |-> Tl!Plausible(Q[i], birth)]
      BY <1>3, <1>4, <2>2
    <3>2. P \in [1..n -> Tl!Range(P)]
      BY <3>1 DEF Tl!Range
    <3>3. P \in Seq(Tl!Range(P)) /\ Len(P) = n
      BY <3>1, <3>2
    <3>4. \A i \in 1..n : KeptQuestion(P[i])
      BY <1>2, <1>3, <3>1, PlausibleType
    <3> QED
      BY <3>1, <3>3, <3>4
  <2> QED
    BY <2>1, <2>2
<1>12. \A i \in 1..n : Tl!AsksForTheEvent(P[i]) <=> Tl!AsksForTheEvent(Q[i])
  <2>1. CASE birth = None
    BY <1>4, <2>1
  <2>2. CASE birth # None
    <3>1. P = [i \in 1..n |-> Tl!Plausible(Q[i], birth)]
      BY <1>3, <1>4, <2>2
    <3> QED
      BY <1>2, <1>3, <3>1, PlausibleType
  <2> QED
    BY <2>1, <2>2
<1>13. birth # None => \A i \in 1..n : Tl!AsksForTheEvent(P[i]) => \A s \in P[i].suggestions : s # None => s >= birth
  <2> SUFFICES ASSUME birth # None
               PROVE  \A i \in 1..n : Tl!AsksForTheEvent(P[i]) => \A s \in P[i].suggestions : s # None => s >= birth
    OBVIOUS
  <2>1. P = [i \in 1..n |-> Tl!Plausible(Q[i], birth)]
    BY <1>3, <1>4
  <2> QED
    BY <1>2, <1>3, <1>12, <2>1, PlausibleType
<1>14. Sound(Tl!Guarded(a))
  BY <1>2, <1>3, <1>7, <1>8, <1>10, <1>11 DEF Sound
<1>15. (\E q \in Tl!Asked(a) : Tl!AsksForTheEvent(q)) => \E q \in Tl!Asked(Tl!Guarded(a)) : Tl!AsksForTheEvent(q)
  BY <1>1, <1>3, <1>8, <1>11, <1>12 DEF Tl!Asked, Tl!Range
<1>16. \A ex \in Tl!Range(Tl!Guarded(a).extractions) : \E i \in 1..m : ex = X[i]
  BY <1>8, <1>10 DEF Tl!Range
<1>17. \A q \in Tl!Asked(Tl!Guarded(a)) : \E i \in 1..n : q = P[i]
  BY <1>8, <1>11 DEF Tl!Asked, Tl!Range
<1>18. \A ex \in Tl!Range(Tl!Guarded(a).extractions) :
              ex.match => ~Tl!IsKinship(ex) /\ (ex.kind = "theme" \/ ex.name \in NamesSpoken)
  BY <1>9, <1>16
<1>19. Tl!NarratorBirth(a) # None =>
              \A q \in Tl!Asked(Tl!Guarded(a)) : Tl!AsksForTheEvent(q) =>
                \A s \in q.suggestions : s # None => s >= Tl!NarratorBirth(a)
  BY <1>1, <1>13, <1>17
<1>20. Tl!Guarded(a).facts = a.facts
  BY <1>1, <1>8
<1> QED
  BY <1>14, <1>15, <1>18, <1>19, <1>20

\* an assessment without violations dates the story or asks when it happened
LEMMA ReviewedIsDated ==
  ASSUME NEW a, ~Tl!Violated(a)
  PROVE  \/ Tl!Derivable(a.facts)
         \/ \E q \in Tl!Asked(a) : Tl!AsksForTheEvent(q)
         \/ narrator.birth # None /\ Tl!Ages(a.facts) # {}
<1>1. ~Tl!EventDateRules(a)
  BY DEF Tl!Violated
<1>2. CASE Tl!Dated(a.facts, "event_date") # {}
  BY <1>2 DEF Tl!Derivable
<1>3. CASE Tl!Dated(a.facts, "event_date") = {}
  <2>1. (Tl!Ages(a.facts) # {} /\ Tl!BirthKnown(a)) \/ ~Tl!MissingEventDate(a)
    BY <1>1, <1>3 DEF Tl!EventDateRules
  <2> QED
    BY <2>1 DEF Tl!MissingEventDate, Tl!BirthKnown, Tl!Derivable
<1> QED
  BY <1>2, <1>3

\* what is shown of a guarded assessment, whose narrator is born when the assessment says
LEMMA GuardedIsGrounded ==
  ASSUME NEW a, Sound(a), narrator' = narrator, draft' = Tl!Guarded(a)
  PROVE  Tl!OnlyGroundedIsOffered'
<1>1. Tl!NarratorBirth(draft)' = Tl!NarratorBirth(a)
  <2>1. draft'.facts = a.facts
    BY GuardedIs
  <2> QED
    BY <2>1 DEF Tl!NarratorBirth
<1>2. /\ \A ex \in Tl!Range(draft'.extractions) :
              ex.match => ~Tl!IsKinship(ex) /\ (ex.kind = "theme" \/ ex.name \in NamesSpoken)
      /\ Tl!NarratorBirth(a) # None =>
              \A q \in Tl!Asked(draft') : Tl!AsksForTheEvent(q) =>
                \A s \in q.suggestions : s # None => s >= Tl!NarratorBirth(a)
  BY GuardedIs
<1> QED
  BY <1>1, <1>2 DEF Tl!OnlyGroundedIsOffered

\* a step that leaves the assessment alone leaves what is said of it
LEMMA GroundedStays ==
  ASSUME Tl!OnlyGroundedIsOffered, Tl!DatedOrAsked, Tl!Accepted, UNCHANGED <<narrator, draft, clean>>
  PROVE  Tl!OnlyGroundedIsOffered' /\ Tl!DatedOrAsked'
<1>1. Tl!NarratorBirth(draft)' = Tl!NarratorBirth(draft)
  BY DEF Tl!NarratorBirth
<1> QED
  BY <1>1 DEF Tl!OnlyGroundedIsOffered, Tl!DatedOrAsked

-----------------------------------------------------------------------------
(* The narrator's answers, and the story's date.                           *)

LEMMA AppendedType ==
  ASSUME Tl!TellingAssumption, NEW fs, KeptFacts(fs), NEW text \in DOMAIN Wordings, NEW kind \in {"dob", "event_date"}
  PROVE  KeptFacts(Append(fs, [kind |-> kind, whose |-> "nobody", text |-> text, value |-> None, claimed |-> None,
                               saysToday |-> FALSE]))
<1> DEFINE f == [kind |-> kind, whose |-> "nobody", text |-> text, value |-> None, claimed |-> None, saysToday |-> FALSE]
           gs == Append(fs, f)
<1>1. KeptFact(f)
  <2>1. text \in Words
    BY DEF Tl!TellingAssumption
  <2>2. f \in Tl!Told({"dob", "event_date", "dropped"}, Tl!Date \cup {None}) /\ f.kind # "age"
    BY <2>1 DEF Tl!Told
  <2> QED
    BY <2>2 DEF KeptFact
<1>2. PICK n \in Nat : DOMAIN fs = 1..n /\ Len(fs) = n
  BY DEF KeptFacts
<1> HIDE DEF f
<1>3. DOMAIN gs = 1..(n + 1) /\ \A i \in 1..(n + 1) : gs[i] = IF i = n + 1 THEN f ELSE fs[i]
  BY <1>2 DEF KeptFacts
<1>4. \A i \in 1..(n + 1) : KeptFact(gs[i])
  <2>1. \A i \in 1..(n + 1) : i # n + 1 => i \in 1..n
    BY <1>2
  <2> QED
    BY <1>1, <1>2, <1>3, <2>1 DEF KeptFacts
<1>5. gs \in Seq(Tl!Range(gs))
  <2>1. gs \in [1..(n + 1) -> Tl!Range(gs)]
    <3>1. gs \in Seq(Tl!Range(fs) \cup {f})
      BY DEF KeptFacts
    <3>2. \A i \in 1..(n + 1) : gs[i] \in Tl!Range(gs)
      BY <1>3 DEF Tl!Range
    <3> HIDE DEF gs
    <3> QED
      BY <1>3, <3>1, <3>2
  <2> HIDE DEF gs
  <2> QED
    BY <1>2, <2>1
<1> QED
  BY <1>3, <1>4, <1>5 DEF KeptFacts, f

LEMMA MergedType ==
  ASSUME Tl!TellingAssumption, NEW fs, KeptFacts(fs), NEW answers \in {<<>>, Wordings}
  PROVE  KeptFacts(Tl!Merge(fs, answers))
<1>1. PICK n \in Nat : DOMAIN fs = 1..n
  BY DEF KeptFacts
<1> DEFINE gs == Tl!Merge(fs, answers)
<1>2. DOMAIN gs = 1..n /\ \A i \in 1..n : gs[i] = IF Tl!Pending(fs[i]) /\ Tl!AnswerFor(answers, fs[i].text) # None
                                         THEN [fs[i] EXCEPT !.value = Tl!AnswerFor(answers, fs[i].text)] ELSE fs[i]
  BY <1>1 DEF Tl!Merge
<1>3. \A text : Tl!AnswerFor(answers, text) \in Tl!Date \cup {None}
  <2> SUFFICES ASSUME NEW text PROVE Tl!AnswerFor(answers, text) \in Tl!Date \cup {None}
    OBVIOUS
  <2>1. text \in DOMAIN answers => answers[text] \in Tl!Phrase \cup {None}
    BY DEF Tl!TellingAssumption
  <2> QED
    BY <2>1, DateType DEF Tl!AnswerFor
<1>4. ASSUME NEW i \in 1..n PROVE KeptFact(gs[i])
  <2>1. KeptFact(fs[i])
    BY <1>1 DEF KeptFacts
  <2>2. CASE Tl!Pending(fs[i]) /\ Tl!AnswerFor(answers, fs[i].text) # None
    <3>1. fs[i].kind # "age" /\ fs[i] \in Tl!Told({"dob", "event_date", "dropped"}, Tl!Date \cup {None})
      BY <2>1, <2>2 DEF Tl!Pending, KeptFact
    <3>2. PICK v \in Tl!Date \cup {None} : v = Tl!AnswerFor(answers, fs[i].text)
      BY <1>3
    <3>3. gs[i] = [fs[i] EXCEPT !.value = v]
      BY <1>2, <2>2, <3>2
    <3>4. gs[i] \in Tl!Told({"dob", "event_date", "dropped"}, Tl!Date \cup {None}) /\ gs[i].kind # "age"
      BY <3>1, <3>3 DEF Tl!Told
    <3> QED
      BY <3>4 DEF KeptFact
  <2>3. CASE ~(Tl!Pending(fs[i]) /\ Tl!AnswerFor(answers, fs[i].text) # None)
    BY <1>2, <2>1, <2>3
  <2> QED
    BY <2>2, <2>3
<1>5. gs \in Seq(Tl!Range(gs))
  <2>1. gs \in [1..n -> Tl!Range(gs)]
    BY <1>1 DEF Tl!Merge, Tl!Range
  <2> HIDE DEF gs
  <2> QED
    BY <2>1
<1> QED
  BY <1>2, <1>4, <1>5 DEF KeptFacts

LEMMA DerivedType ==
  ASSUME NEW fs, KeptFacts(fs), Tl!Derivable(fs)
  PROVE  Tl!DeriveEventYear(fs) \in Tl!Date
<1>1. PICK n \in Nat : DOMAIN fs = 1..n
  BY DEF KeptFacts
<1>2. ASSUME NEW kind \in {"dob", "event_date"}, Tl!DatedAt(fs, kind) # {}
      PROVE  fs[Tl!Max(Tl!DatedAt(fs, kind))].value \in Tl!Date
  <2>1. Tl!DatedAt(fs, kind) \in SUBSET (1..n)
    BY <1>1 DEF Tl!DatedAt
  <2>2. Tl!Max(Tl!DatedAt(fs, kind)) \in Tl!DatedAt(fs, kind)
    BY <1>2, <2>1, GreatestOf
  <2>3. PICK i \in DOMAIN fs : i = Tl!Max(Tl!DatedAt(fs, kind)) /\ fs[i].kind = kind /\ fs[i].value # None
    BY <2>2 DEF Tl!DatedAt
  <2>4. fs[i] \in Tl!Told({"dob", "event_date", "dropped"}, Tl!Date \cup {None})
    BY <2>3 DEF KeptFacts, KeptFact
  <2>5. fs[i].value \in Tl!Date \cup {None}
    BY <2>4 DEF Tl!Told
  <2> QED
    BY <2>3, <2>5
<1>3. \A kind : Tl!Dated(fs, kind) # {} => Tl!DatedAt(fs, kind) # {}
  BY DEF Tl!Dated, Tl!Of, Tl!DatedAt
<1>4. CASE Tl!DatedAt(fs, "event_date") # {}
  BY <1>2, <1>4 DEF Tl!DeriveEventYear
<1>5. CASE Tl!DatedAt(fs, "event_date") = {}
  <2>1. Tl!DatedAt(fs, "dob") # {} /\ Tl!Ages(fs) # {}
    BY <1>3, <1>5 DEF Tl!Derivable
  <2>2. fs[Tl!Max(Tl!DatedAt(fs, "dob"))].value.year \in Int
    BY <1>2, <2>1 DEF Tl!Date
  <2>3. Tl!Ages(fs) \in SUBSET (1..(Tl!MaxAge - 1))
    <3> SUFFICES ASSUME NEW i \in DOMAIN fs, fs[i].kind = "age" PROVE fs[i].value \in 1..(Tl!MaxAge - 1)
      BY DEF Tl!Ages, Tl!Of
    <3>1. fs[i] \in Tl!Told({"age"}, 1..(Tl!MaxAge - 1))
      BY DEF KeptFacts, KeptFact
    <3> QED
      BY <3>1 DEF Tl!Told
  <2>4. Tl!Max(Tl!Ages(fs)) \in Int
    <3>1. Tl!MaxAge - 1 \in Nat
      BY DEF Tl!MaxAge
    <3>2. Tl!Max(Tl!Ages(fs)) \in 1..(Tl!MaxAge - 1)
      BY <2>1, <2>3, <3>1, GreatestOf
    <3> QED
      BY <3>1, <3>2
  <2>5. Tl!DeriveEventYear(fs) =
          [year |-> fs[Tl!Max(Tl!DatedAt(fs, "dob"))].value.year + Tl!Max(Tl!Ages(fs)), precision |-> "approx"]
    BY <1>5 DEF Tl!DeriveEventYear
  <2>6. fs[Tl!Max(Tl!DatedAt(fs, "dob"))].value.year + Tl!Max(Tl!Ages(fs)) \in Int
    BY <2>2, <2>4
  <2> QED
    BY <2>5, <2>6 DEF Tl!Date
<1> QED
  BY <1>4, <1>5

-----------------------------------------------------------------------------
(* The steps.                                                              *)

LEMMA InitTells ==
  ASSUME Tl!TellingAssumption, Tl!Init
  PROVE  TellingInv
<1>1. <<>> \in Seq({}) /\ <<>> \in Seq(Tl!Extraction) /\ DOMAIN <<>> = {} /\ Len(<<>>) = 0
  OBVIOUS
<1>2. Tl!Range(<<>>) = {}
  BY <1>1 DEF Tl!Range
<1>3. KeptFacts(<<>>)
  BY <1>1, <1>2 DEF KeptFacts
<1>4. Sound(Tl!Nothing)
  <2>1. Tl!Nothing.extractions = <<>> /\ Tl!Nothing.facts = <<>> /\ Tl!Nothing.questions = <<>>
    BY DEF Tl!Nothing
  <2> QED
    BY <1>1, <1>2, <1>3, <2>1 DEF Sound, Tl!MaxQuestions, Tl!Nothing
<1>5. Sound(draft) /\ KeptFacts(facts) /\ narrator \in Narrators /\ date = None /\ ~clean
  BY <1>3, <1>4 DEF Tl!Init
<1>6. pc = "assess" /\ attempt = 0 /\ next = 1
  BY DEF Tl!Init
<1>7. pc \in Tl!Places /\ attempt \in 0..(Tl!MaxAttempts - 1) /\ next \in 1..(Tl!MaxQuestions + 1) /\ ~Tl!Accepted
  BY <1>6 DEF Tl!Places, Tl!MaxAttempts, Tl!MaxQuestions, Tl!Accepted
<1>8. clean \in BOOLEAN
  BY DEF Tl!Init
<1> QED
  BY <1>5, <1>6, <1>7, <1>8 DEF TellingInv, Tl!OnlyGroundedIsOffered, Tl!DatedOrAsked

LEMMA AssessTells ==
  ASSUME Tl!TellingAssumption, TellingInv, Tl!Assess
  PROVE  TellingInv'
<1>1. PICK content \in Contents, asks \in Asks :
        LET a == Tl!Assembled(content, asks) IN
        IF attempt = Tl!MaxAttempts - 1
        THEN draft' = Tl!Guarded(a) /\ facts' = draft'.facts /\ pc' = "narrator"
        ELSE draft' = a /\ facts' = facts /\ pc' = "review"
  BY DEF Tl!Assess
<1>2. PICK a : a = Tl!Assembled(content, asks) /\ Sound(a)
  BY AssembledIsSound
<1>3. /\ pc = "assess" /\ ~clean /\ date = None
      /\ UNCHANGED <<narrator, attempt, clean, next, date>>
  BY DEF Tl!Assess, TellingInv, Tl!Accepted
<1>4. Sound(draft') /\ KeptFacts(facts')
  BY <1>1, <1>2, GuardedIs DEF TellingInv, Sound
<1>5. pc' \in {"narrator", "review"} /\ (pc' = "review" => attempt' < Tl!MaxAttempts - 1)
  BY <1>1, <1>3 DEF TellingInv, Tl!MaxAttempts
<1>6. Tl!OnlyGroundedIsOffered'
  <2>1. CASE attempt = Tl!MaxAttempts - 1
    BY <1>1, <1>2, <1>3, <2>1, GuardedIsGrounded
  <2>2. CASE attempt # Tl!MaxAttempts - 1
    BY <1>1, <2>2 DEF Tl!OnlyGroundedIsOffered, Tl!Accepted
  <2> QED
    BY <2>1, <2>2
<1>7. Tl!DatedOrAsked'
  BY <1>3 DEF Tl!DatedOrAsked
<1> QED
  BY <1>3, <1>4, <1>5, <1>6, <1>7 DEF TellingInv, Tl!Places

LEMMA ReviewTells ==
  ASSUME Tl!TellingAssumption, TellingInv, Tl!Review
  PROVE  TellingInv'
<1>1. /\ pc = "review" /\ ~clean /\ date = None /\ attempt < Tl!MaxAttempts - 1 /\ Sound(draft)
      /\ UNCHANGED <<narrator, next, date>>
  BY DEF Tl!Review, TellingInv, Tl!Accepted
<1>2. \/ /\ pc' = "assess" /\ attempt' = attempt + 1
         /\ UNCHANGED <<narrator, draft, clean, facts>>
      \/ /\ ~Tl!Violated(draft) /\ draft' = Tl!Guarded(draft) /\ facts' = draft'.facts /\ clean' = TRUE
         /\ pc' = "narrator" /\ UNCHANGED attempt
  BY DEF Tl!Review
<1>3. CASE pc' = "assess" /\ attempt' = attempt + 1 /\ UNCHANGED <<narrator, draft, clean, facts>>
  BY <1>1, <1>3 DEF TellingInv, Tl!Places, Tl!MaxAttempts, Tl!OnlyGroundedIsOffered, Tl!DatedOrAsked, Tl!Accepted
<1>4. CASE /\ ~Tl!Violated(draft) /\ draft' = Tl!Guarded(draft) /\ facts' = draft'.facts /\ clean' = TRUE
           /\ pc' = "narrator" /\ UNCHANGED attempt
  <2>1. Sound(draft') /\ KeptFacts(facts') /\ draft'.facts = draft.facts
    BY <1>1, <1>4, GuardedIs DEF Sound
  <2>2. Tl!OnlyGroundedIsOffered'
    BY <1>1, <1>4, GuardedIsGrounded
  <2>3. Tl!DatedOrAsked'
    <3>1. \/ Tl!Derivable(draft.facts)
          \/ \E q \in Tl!Asked(draft) : Tl!AsksForTheEvent(q)
          \/ narrator.birth # None /\ Tl!Ages(draft.facts) # {}
      BY <1>4, ReviewedIsDated
    <3>2. (\E q \in Tl!Asked(draft) : Tl!AsksForTheEvent(q)) => \E q \in Tl!Asked(draft') : Tl!AsksForTheEvent(q)
      BY <1>1, <1>4, GuardedIs
    <3> QED
      BY <1>1, <2>1, <3>1, <3>2 DEF Tl!DatedOrAsked
  <2> QED
    BY <1>1, <1>4, <2>1, <2>2, <2>3 DEF TellingInv, Tl!Places, Tl!Accepted
<1> QED
  BY <1>2, <1>3, <1>4

LEMMA NarratorTells ==
  ASSUME Tl!TellingAssumption, TellingInv, Tl!AnswerQuestion \/ Tl!SkipQuestion
  PROVE  TellingInv'
<1>1. /\ pc = "narrator" /\ next <= Len(draft.questions) /\ next' = next + 1
      /\ UNCHANGED <<narrator, pc, attempt, draft, clean, date>>
  BY DEF Tl!AnswerQuestion, Tl!SkipQuestion
<1>2. KeptFacts(facts')
  <2>1. CASE Tl!AnswerQuestion
    <3>1. PICK text \in DOMAIN Wordings :
            facts' = IF draft.questions[next].type # "date" THEN facts
                     ELSE Append(facts, [kind |-> IF draft.questions[next].dateKind = "dob" THEN "dob" ELSE "event_date",
                                         whose |-> "nobody", text |-> text, value |-> None, claimed |-> None,
                                         saysToday |-> FALSE])
      BY <2>1 DEF Tl!AnswerQuestion
    <3>2. PICK kind \in {"dob", "event_date"} :
            kind = IF draft.questions[next].dateKind = "dob" THEN "dob" ELSE "event_date"
      OBVIOUS
    <3>3. KeptFacts(facts)
      BY DEF TellingInv
    <3> QED
      BY <3>1, <3>2, <3>3, AppendedType
  <2>2. CASE Tl!SkipQuestion
    BY <2>2 DEF Tl!SkipQuestion, TellingInv
  <2> QED
    BY <2>1, <2>2
<1>3. next' \in 1..(Tl!MaxQuestions + 1)
  <2>1. next \in Nat /\ next >= 1 /\ Len(draft.questions) <= Tl!MaxQuestions /\ Len(draft.questions) \in Nat
    BY DEF TellingInv, Sound, Tl!MaxQuestions
  <2> QED
    BY <1>1, <2>1 DEF Tl!MaxQuestions
<1>4. Tl!OnlyGroundedIsOffered' /\ Tl!DatedOrAsked'
  BY <1>1, GroundedStays DEF TellingInv, Tl!Accepted
<1> QED
  BY <1>1, <1>2, <1>3, <1>4 DEF TellingInv, Tl!Accepted

LEMMA SaveTells ==
  ASSUME Tl!TellingAssumption, TellingInv, Tl!Resolve \/ Tl!Save
  PROVE  TellingInv'
<1>1. /\ pc \in {"narrator", "save"} /\ pc' \in {"save", "saved", "refused"}
      /\ UNCHANGED <<narrator, attempt, draft, clean, next>>
  BY DEF Tl!Resolve, Tl!Save
<1>2. KeptFacts(facts')
  BY MergedType DEF Tl!Resolve, Tl!Save, TellingInv
<1>3. IF pc' = "saved" THEN date' \in Tl!Date ELSE date' = None
  BY DerivedType DEF Tl!Resolve, Tl!Save, TellingInv
<1>4. Tl!OnlyGroundedIsOffered' /\ Tl!DatedOrAsked'
  BY <1>1, GroundedStays DEF TellingInv, Tl!Accepted
<1> QED
  BY <1>1, <1>2, <1>3, <1>4 DEF TellingInv, Tl!Places, Tl!Accepted

LEMMA TellingInductive ==
  ASSUME Tl!TellingAssumption
  PROVE  Tl!Init /\ [][Tl!Next]_Tl!vars => []TellingInv
<1>1. Tl!Init => TellingInv
  BY InitTells
<1>2. TellingInv /\ [Tl!Next]_Tl!vars => TellingInv'
  <2>1. TellingInv /\ UNCHANGED Tl!vars => TellingInv'
    BY DEF Tl!vars, TellingInv, Tl!OnlyGroundedIsOffered, Tl!DatedOrAsked, Tl!Accepted, Tl!NarratorBirth
  <2>2. TellingInv /\ Tl!AssessFails => TellingInv'
    BY DEF Tl!AssessFails, TellingInv, Tl!Places, Tl!OnlyGroundedIsOffered, Tl!DatedOrAsked, Tl!Accepted
  <2> QED
    BY <2>1, <2>2, AssessTells, ReviewTells, NarratorTells, SaveTells DEF Tl!Next
<1> QED
  BY <1>1, <1>2, PTL

\* What the narrator is shown, the facts kept and the date saved stay in their types, whatever
\* the model reads out of the account and the narrator answers (memory.py).
THEOREM TellingTypeCorrect ==
  ASSUME Tl!TellingAssumption
  PROVE  Tl!Init /\ [][Tl!Next]_Tl!vars => []Tl!TypeOK
<1>1. TellingInv => Tl!TypeOK
  <2> SUFFICES ASSUME TellingInv PROVE Tl!TypeOK
    OBVIOUS
  <2>1. \A q \in Tl!Asked(draft) : Tl!Cardinality(q.suggestions) <= Tl!MaxSuggestions
    BY DEF TellingInv, Sound, Tl!Asked, Tl!Range, KeptQuestion
  <2>2. \A f \in Tl!Range(facts) : f.kind # "age" => f.value = None \/ f.value \in Tl!Date
    <3> SUFFICES ASSUME NEW i \in DOMAIN facts, facts[i].kind # "age"
                 PROVE  facts[i].value = None \/ facts[i].value \in Tl!Date
      BY DEF Tl!Range
    <3>1. facts[i] \in Tl!Told({"dob", "event_date", "dropped"}, Tl!Date \cup {None})
      BY DEF TellingInv, KeptFacts, KeptFact
    <3> QED
      BY <3>1 DEF Tl!Told
  <2>3. Len(draft.questions) <= Tl!MaxQuestions
    BY DEF TellingInv, Sound
  <2>4. (date = None \/ date \in Tl!Date) /\ (date # None <=> pc = "saved")
    BY DEF TellingInv, Tl!TellingAssumption
  <2>5. /\ narrator \in Narrators /\ pc \in Tl!Places /\ attempt \in 0..(Tl!MaxAttempts - 1) /\ clean \in BOOLEAN
        /\ next \in 1..(Tl!MaxQuestions + 1)
    BY DEF TellingInv
  <2> QED
    BY <2>1, <2>2, <2>3, <2>4, <2>5 DEF Tl!TypeOK
<1> QED
  BY <1>1, TellingInductive, PTL

\* The narrator is shown only what the account carries, and is asked for a date when it says
\* none (memory.py's guards), however often the model is asked to try again.
THEOREM OfferedIsGrounded ==
  ASSUME Tl!TellingAssumption
  PROVE  Tl!Init /\ [][Tl!Next]_Tl!vars => [](Tl!OnlyGroundedIsOffered /\ Tl!DatedOrAsked)
<1>1. TellingInv => Tl!OnlyGroundedIsOffered /\ Tl!DatedOrAsked
  BY DEF TellingInv
<1> QED
  BY <1>1, TellingInductive, PTL

\* No answer to a question changes a date that the account itself states (memory.py).
THEOREM StatedDatesStay ==
  ASSUME Tl!TellingAssumption
  PROVE  Tl!Init /\ [][Tl!Next]_Tl!vars => Tl!StatedDatesKept
<1>1. [Tl!Next]_Tl!vars =>
        [\A i \in DOMAIN facts : pc = "narrator" /\ pc' = "save" /\ facts[i].value # None => facts'[i] = facts[i]]_Tl!vars
  <2> SUFFICES ASSUME Tl!Next, NEW i \in DOMAIN facts, pc = "narrator", pc' = "save", facts[i].value # None
               PROVE  facts'[i] = facts[i]
    OBVIOUS
  <2>1. PICK answers \in {<<>>, Wordings} :
          facts' = IF \E j \in DOMAIN facts : Tl!Pending(facts[j]) THEN Tl!Merge(facts, answers) ELSE facts
    BY DEF Tl!Next, Tl!Assess, Tl!AssessFails, Tl!Review, Tl!AnswerQuestion, Tl!SkipQuestion, Tl!Resolve, Tl!Save
  <2>2. ~Tl!Pending(facts[i])
    BY DEF Tl!Pending
  <2> QED
    BY <2>1, <2>2 DEF Tl!Merge
<1> QED
  BY <1>1, PTL DEF Tl!StatedDatesKept

-----------------------------------------------------------------------------
(* One call of a model.                                                    *)

\* the requests that did not end the call: one for each retry, for the parameters that were
\* dropped, and for the fresh sample; a vision call has but the second
Spent == retry + (IF thinking = "absent" THEN 1 ELSE 0) + (IF burned THEN 1 ELSE 0)
CallInv ==
    /\ client \in {"chat", "vision"} /\ thinking \in {"on", "off", "absent"} /\ budget \in BOOLEAN
    /\ retry \in 0..MaxRetries /\ burned \in BOOLEAN /\ calls \in Nat /\ outcome \in Mc!Outcomes
    /\ budget => thinking = "on"
    /\ client = "vision" => thinking # "on" /\ retry = 0 /\ ~burned
    /\ calls <= IF outcome = "calling" THEN Spent ELSE Spent + 1

\* The loop never starts its count over, whatever pair of faults the provider answers with
\* (ai_client.py): a chat call sends at most three requests more than it may retry, a vision
\* call two.
THEOREM CallsAreFew ==
  ASSUME Mc!ModelCallAssumption
  PROVE  Mc!Init /\ [][Mc!Next]_Mc!vars => []Mc!TypeOK
<1>1. Mc!Init => CallInv
  <2> SUFFICES ASSUME Mc!Init PROVE CallInv
    OBVIOUS
  <2>1. /\ retry = 0 /\ burned = FALSE /\ calls = 0 /\ outcome = "calling"
        /\ thinking \in {"on", "off"} /\ retry \in 0..MaxRetries
    <3>1. 0 \in 0..MaxRetries
      BY DEF Mc!ModelCallAssumption
    <3> QED
      BY <3>1 DEF Mc!Init
  <2>2. calls <= Spent
    BY <2>1 DEF Spent
  <2>3. client = "vision" => thinking # "on" /\ retry = 0 /\ ~burned
    BY <2>1 DEF Mc!Init
  <2>4. /\ client \in {"chat", "vision"} /\ budget \in BOOLEAN /\ (budget => thinking = "on")
        /\ thinking \in {"on", "off", "absent"} /\ burned \in BOOLEAN /\ outcome \in Mc!Outcomes
    BY <2>1 DEF Mc!Init, Mc!Outcomes
  <2>5. calls \in Nat
    BY <2>1
  <2> QED
    BY <2>1, <2>2, <2>3, <2>4, <2>5 DEF CallInv
<1>2. CallInv /\ [Mc!Next]_Mc!vars => CallInv'
  <2>1. CallInv /\ UNCHANGED Mc!vars => CallInv'
    BY DEF Mc!vars, CallInv, Spent
  <2>2. CallInv /\ Mc!Unavailable => CallInv'
    BY DEF Mc!Unavailable, Mc!Sends, Mc!BackOff, Mc!Ends, Mc!Again, CallInv, Spent, Mc!Outcomes, Mc!ModelCallAssumption
  <2>3. ASSUME CallInv, Mc!Rejected PROVE CallInv'
    <3>1. calls' = calls + 1 /\ outcome = "calling" /\ UNCHANGED <<client, retry, burned>>
      BY <2>3 DEF Mc!Rejected, Mc!Sends, Mc!Ends, Mc!Again
    <3>2. CASE thinking # "absent" \/ budget
      <4>1. thinking # "absent" /\ thinking' = "absent" /\ ~budget' /\ budget' \in BOOLEAN /\ outcome' = "calling"
        BY <2>3, <3>1, <3>2 DEF Mc!Rejected, Mc!Again, CallInv
      <4>2. Spent' = Spent + 1
        BY <2>3, <3>1, <4>1 DEF Spent, CallInv
      <4>3. Spent \in Nat
        BY <2>3 DEF Spent, CallInv
      <4> QED
        BY <2>3, <3>1, <4>1, <4>2, <4>3 DEF CallInv
    <3>3. CASE ~(thinking # "absent" \/ budget)
      <4>1. outcome' = "error" /\ UNCHANGED <<thinking, budget>>
        BY <2>3, <3>3 DEF Mc!Rejected, Mc!Ends
      <4> QED
        BY <2>3, <3>1, <4>1 DEF CallInv, Spent, Mc!Outcomes
    <3> QED
      BY <3>2, <3>3
  <2>4. CallInv /\ (Mc!Refused \/ Mc!Unreachable \/ Mc!Answered) => CallInv'
    BY DEF Mc!Refused, Mc!Unreachable, Mc!Answered, Mc!Sends, Mc!Ends, CallInv, Spent, Mc!Outcomes
  <2>5. ASSUME CallInv, Mc!Empty PROVE CallInv'
    <3>1. calls' = calls + 1 /\ outcome = "calling" /\ UNCHANGED <<client, thinking, budget>>
      BY <2>5 DEF Mc!Empty, Mc!Sends, Mc!BackOff, Mc!Ends, Mc!Again
    <3>2. \/ outcome' \in {"error", "reasoning"} /\ UNCHANGED <<retry, burned>>
          \/ client # "vision" /\ ~burned /\ burned' = TRUE /\ UNCHANGED <<outcome, retry>>
          \/ client # "vision" /\ retry < MaxRetries /\ retry' = retry + 1 /\ UNCHANGED <<outcome, burned>>
      BY <2>5, <3>1 DEF Mc!Empty, Mc!Burns, Mc!BackOff, Mc!Ends, Mc!Again, CallInv, Mc!ModelCallAssumption
    <3>3. CASE outcome' \in {"error", "reasoning"} /\ UNCHANGED <<retry, burned>>
      BY <2>5, <3>1, <3>3 DEF CallInv, Spent, Mc!Outcomes
    <3>4. CASE client # "vision" /\ ~burned /\ burned' = TRUE /\ UNCHANGED <<outcome, retry>>
      <4>1. Spent' = Spent + 1 /\ Spent \in Nat
        BY <2>5, <3>1, <3>4 DEF CallInv, Spent
      <4> QED
        BY <2>5, <3>1, <3>4, <4>1 DEF CallInv
    <3>5. CASE client # "vision" /\ retry < MaxRetries /\ retry' = retry + 1 /\ UNCHANGED <<outcome, burned>>
      <4>1. Spent' = Spent + 1 /\ Spent \in Nat /\ retry' \in 0..MaxRetries
        BY <2>5, <3>1, <3>5 DEF CallInv, Spent, Mc!ModelCallAssumption
      <4> QED
        BY <2>5, <3>1, <3>5, <4>1 DEF CallInv
    <3> QED
      BY <3>2, <3>3, <3>4, <3>5
  <2> QED
    BY <2>1, <2>2, <2>3, <2>4, <2>5 DEF Mc!Next
<1>3. CallInv => Mc!TypeOK
  BY DEF CallInv, Spent, Mc!TypeOK, Mc!MostCalls, Mc!ModelCallAssumption
<1> QED
  BY <1>1, <1>2, <1>3, PTL
=============================================================================
