------------------------------ MODULE Reviews ----------------------------
(* The review of a document import (pipeline/api/server.py, tools/review.py, *)
(* the import sessions of tools/archive.py and tools/records.py): reviewers' *)
(* requests decide the proposed people one by one and talk to a model that   *)
(* digs in the archive.  Each write of a table is atomic; a request makes    *)
(* several, and other requests run in between.                               *)
EXTENDS Naturals, Sequences, FiniteSets, SequencesExt

CONSTANTS
    Threads,
    People,        \* the people the import proposes
    MaxTurns,      \* the answers of the model one line of the reviewer may take
    MaxToolCalls,  \* the digs among them
    MaxRequests,   \* bound on the requests
    None

\* what the constants are (assumed where the module is instantiated)
ReviewsAssumption == {MaxTurns, MaxToolCalls, MaxRequests} \subseteq Nat

VARIABLES
    people,   \* person |-> the status of the record in the people table, or "gone"
    session,  \* the import session: its status, the resume point, one attempt for each walk
    thread,   \* thread |-> the request it works on
    requests, \* how many requests there were
    answered  \* the request of a reviewer's line |-> the line that answered it

vars == <<people, session, thread, requests, answered>>

Statuses == {"proposed", "confirmed", "estimated", "gone"}
Decisions == {"attested", "estimated", "pending", "delete"}
Steps == {"idle", "queue", "decide", "confirm", "refresh", "complete", "hear", "ask", "answer"}
Idle == [pc |-> "idle", request |-> 0, person |-> None, last |-> FALSE,
         history |-> <<>>, turns |-> 0, tools |-> 0]
Fresh == [messages |-> <<>>, decisions |-> <<>>]

Lines == {"user", "assistant"} \X (1..MaxRequests)
Decided == [person : People, last : BOOLEAN]
Attempt == [messages : Seq(Lines), decisions : Seq(Decided)]
Session == [status : {"pending", "reviewed"}, current : People \cup {None}, attempts : Seq(Attempt)]
Caller == [pc : Steps, request : 0..MaxRequests, person : People \cup {None}, last : BOOLEAN,
           history : Seq(Lines), turns : 0..MaxTurns, tools : 0..MaxToolCalls]

\* Statuses and steps are of their vocabularies, what a request decides or asks about is a
\* person, and a line is of a request.
TypeOK ==
    /\ people \in [People -> Statuses]
    /\ session \in Session
    /\ requests \in 0..MaxRequests /\ answered \subseteq 1..MaxRequests
    /\ thread \in [Threads -> Caller]
    /\ \A t \in Threads : /\ thread[t].pc \in {"queue", "decide", "hear", "ask", "answer"} => thread[t].person \in People
                          /\ thread[t].pc \notin {"idle", "refresh", "complete"} => thread[t].request > 0

Init ==
    /\ people = [p \in People |-> "proposed"]
    /\ session = [status |-> "pending", current |-> None, attempts |-> <<>>]
    /\ thread = [t \in Threads |-> Idle]
    /\ requests = 0 /\ answered = {}

At(t, pc) == thread[t].pc = pc
Goto(t, pc) == thread' = [thread EXCEPT ![t].pc = pc]
Done(t) == thread' = [thread EXCEPT ![t] = Idle]
Arrives(t) == At(t, "idle") /\ requests < MaxRequests /\ requests' = requests + 1

-----------------------------------------------------------------------------
\* the session

\* an attempt is finished once it holds messages and a last decision
Finished(attempt) == attempt.messages # <<>> /\ \E i \in DOMAIN attempt.decisions : attempt.decisions[i].last
Attempts(s) == IF s.attempts = <<>> THEN <<Fresh>> ELSE s.attempts
CurrentMessages == IF session.attempts = <<>> THEN <<>> ELSE Last(session.attempts).messages

StartAttempt(s) ==
    IF s.attempts = <<>> \/ Finished(Last(s.attempts))
    THEN [s EXCEPT !.attempts = Append(@, Fresh)] ELSE s
AddMessage(s, role, n) ==
    [s EXCEPT !.attempts = [Attempts(s) EXCEPT ![Len(Attempts(s))].messages = Append(@, <<role, n>>)]]
AddDecision(s, p, last) ==
    [s EXCEPT !.attempts = [Attempts(s) EXCEPT ![Len(Attempts(s))].decisions = Append(@, [person |-> p, last |-> last])],
              !.current = IF last THEN None ELSE p]

\* POST start, and POST message: the app's own opening line
Start(t) ==
    /\ Arrives(t) /\ session' = StartAttempt(session)
    /\ UNCHANGED <<people, thread, answered>>
Message(t) ==
    /\ Arrives(t) /\ session' = AddMessage(session, "assistant", requests')
    /\ UNCHANGED <<people, thread, answered>>

-----------------------------------------------------------------------------
\* POST decide

Queue == {p \in People : people[p] = "proposed"}

\* an id the table does not hold is answered with nothing, and the walk goes on;
\* a guess without a basis is refused
Resolved(p, decision) ==
    IF people[p] = "gone" \/ decision = "pending" THEN people
    ELSE
    CASE decision = "delete" -> [people EXCEPT ![p] = "gone"]
      [] decision = "estimated" -> [people EXCEPT ![p] = "estimated"]
      [] decision = "attested" -> [people EXCEPT ![p] = "confirmed"]
Resolve(t, p, decision) ==
    /\ Arrives(t)
    /\ \/ decision = "estimated" /\ people[p] # "gone" /\ UNCHANGED <<people, thread>>  \* no basis
       \/ /\ people' = Resolved(p, decision)
          /\ thread' = [thread EXCEPT ![t] = [Idle EXCEPT !.pc = "queue", !.request = requests', !.person = p]]
    /\ UNCHANGED <<session, answered>>

ReadQueue(t) ==
    /\ At(t, "queue")
    /\ thread' = [thread EXCEPT ![t].pc = "decide", ![t].last = Queue = {}]
    /\ UNCHANGED <<people, session, requests, answered>>
RecordDecision(t) ==
    /\ At(t, "decide")
    /\ session' = AddDecision(session, thread[t].person, thread[t].last)
    /\ thread' = [thread EXCEPT ![t] = [Idle EXCEPT !.pc = "confirm", !.request = thread[t].request]]
    /\ UNCHANGED <<people, requests, answered>>
RecordConfirmation(t) ==
    /\ At(t, "confirm")
    /\ session' = AddMessage(session, "assistant", thread[t].request)
    /\ thread' = [thread EXCEPT ![t] = [Idle EXCEPT !.pc = "refresh"]]
    /\ UNCHANGED <<people, requests, answered>>

\* refresh_import_status: the people are read first, the imports changed after
RefreshByResumePoint(t) ==  \* variant: the cleared resume point tells that nothing is left
    /\ At(t, "refresh")
    /\ IF session.current # None \/ session.status # "pending" THEN Done(t) ELSE Goto(t, "complete")
    /\ UNCHANGED <<people, session, requests, answered>>
RefreshStatus(t) ==
    /\ At(t, "refresh")
    /\ IF Queue # {} \/ session.status # "pending" THEN Done(t) ELSE Goto(t, "complete")
    /\ UNCHANGED <<people, session, requests, answered>>
Complete(t) ==
    /\ At(t, "complete")
    /\ session' = [session EXCEPT !.status = "reviewed"]
    /\ Done(t)
    /\ UNCHANGED <<people, requests, answered>>

-----------------------------------------------------------------------------
\* POST text: what was said so far is read, the reviewer's line recorded, the model asked

Take(t, p) ==
    /\ Arrives(t) /\ people[p] # "gone"
    /\ thread' = [thread EXCEPT ![t] = [Idle EXCEPT !.pc = "hear", !.request = requests', !.person = p,
                                                   !.history = CurrentMessages]]
    /\ UNCHANGED <<people, session, answered>>
\* the model is given the claim, what the archive attests and what was said, with the line last
Investigate(t) == thread' = [thread EXCEPT ![t].pc = "ask", ![t].turns = 0, ![t].tools = 0]

HearLater(t) ==  \* variant: the line is recorded with its answer
    /\ At(t, "hear") /\ Investigate(t) /\ UNCHANGED <<people, session, requests, answered>>
Hear(t) ==
    /\ At(t, "hear")
    /\ session' = AddMessage(session, "user", thread[t].request)
    /\ Investigate(t)
    /\ UNCHANGED <<people, requests, answered>>

\* one answer of the model: an error or no JSON ends the request; a dig is counted, and
\* refused past its budget; a complete verdict ends the investigation, anything else goes back
Dug(tools) == IF tools < MaxToolCalls THEN tools + 1 ELSE tools
Concluded(t) == thread' = [thread EXCEPT ![t].pc = "answer", ![t].turns = 0, ![t].tools = 0]
Replies == {"error", "dig", "verdict", "incomplete"}
Turn(t, reply) ==
    /\ At(t, "ask")
    /\ IF reply = "error" \/ thread[t].turns = MaxTurns THEN Done(t)
       ELSE IF reply = "verdict" THEN Concluded(t)
       ELSE thread' = [thread EXCEPT ![t].turns = @ + 1, ![t].tools = IF reply = "dig" THEN Dug(@) ELSE @]
    /\ UNCHANGED <<people, session, requests, answered>>

\* a contradiction, a steer back or the findings: one line, recorded as the family sees it
RecordAnswer(t) ==
    /\ At(t, "answer")
    /\ session' = AddMessage(session, "assistant", thread[t].request)
    /\ answered' = answered \cup {thread[t].request}
    /\ Done(t)
    /\ UNCHANGED <<people, requests>>

-----------------------------------------------------------------------------
Work(t) ==
    \/ ReadQueue(t) \/ RecordDecision(t) \/ RecordConfirmation(t) \/ RefreshStatus(t) \/ Complete(t)
    \/ Hear(t) \/ RecordAnswer(t)
    \/ \E reply \in Replies : Turn(t, reply)
Next == \E t \in Threads :
    \/ Work(t) \/ Start(t) \/ Message(t)
    \/ \E p \in People : Take(t, p) \/ \E d \in Decisions : Resolve(t, p, d)

Spec == Init /\ [][Next]_vars /\ \A t \in Threads : WF_vars(Work(t))

-----------------------------------------------------------------------------
\* the places of the transcript, attempt after attempt, and where a line stands in it
Places(s) == UNION {{<<i, j>> : j \in DOMAIN s.attempts[i].messages} : i \in DOMAIN s.attempts}
LineAt(s, place) == s.attempts[place[1]].messages[place[2]]
Earlier(a, b) == a[1] < b[1] \/ (a[1] = b[1] /\ a[2] < b[2])
Spoken(s, role, n) == {place \in Places(s) : LineAt(s, place) = <<role, n>>}

\* A reviewer's line stands in the transcript once, from before the model is
\* asked and whether or not it answers; the model is given what was said before
\* the line, never the line itself; and the answer stands after it.
WordsKept ==
    /\ \A t \in Threads : At(t, "ask") \/ At(t, "answer") =>
        /\ \E place \in Places(session) : Spoken(session, "user", thread[t].request) = {place}
        /\ <<"user", thread[t].request>> \notin Range(thread[t].history)
    /\ \A n \in answered : \E a \in Spoken(session, "user", n), b \in Spoken(session, "assistant", n) : Earlier(a, b)

\* When the requests have been served, a review with nobody left to decide is
\* closed, in whatever order two reviewers' last decisions were made.
ReviewCloses ==
    (\A t \in Threads : At(t, "idle")) /\ Queue = {} => session.status = "reviewed"

=============================================================================
