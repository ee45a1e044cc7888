---------------------------- MODULE ModelCall ----------------------------
(* One call of a model: the chat client with its retries                    *)
(* (pipeline/model/ai_client.py) and the vision client, which has none but  *)
(* the one for a rejected parameter (pipeline/model/vlm.py).        *)
(* The provider answers as it likes.                                        *)
EXTENDS Naturals

CONSTANTS
    MaxRetries,  \* the chat client's max_retries
    MaxCalls     \* bound on the requests of one call, above what it may send

\* what the constants are (assumed where the module is instantiated)
ModelCallAssumption == MaxRetries \in Nat /\ MaxCalls \in Nat

VARIABLES
    client,    \* "chat" or "vision"
    thinking,  \* the payload's parameter: "on", "off", or "absent"
    budget,    \* does the payload carry a reasoning budget
    attempt,   \* the backoff's attempts
    burned,    \* was the fresh sample taken
    calls,     \* the requests sent
    outcome    \* what the call came to: "calling" until it ends

vars == <<client, thinking, budget, attempt, burned, calls, outcome>>

Outcomes == {"calling", "content", "reasoning", "error", "raised"}
Finishes == {"stop", "error", "length", "other"}

\* the most requests of a call: the retries, the one without the parameters that were rejected and the fresh sample
MostCalls == IF client = "chat" THEN MaxRetries + 3 ELSE 2

\* The payload and the counters stay in their types: no pair of provider faults makes
\* the loop start its count over, and a vision call sends at most two requests.
TypeOK ==
    /\ client \in {"chat", "vision"} /\ thinking \in {"on", "off", "absent"} /\ budget \in BOOLEAN
    /\ attempt \in 0..MaxRetries /\ burned \in BOOLEAN /\ calls \in 0..MostCalls /\ outcome \in Outcomes

\* a vision call never thinks; a chat call thinks when asked, and only then may have a budget
Init ==
    /\ client \in {"chat", "vision"} /\ thinking \in {"on", "off"} /\ budget \in BOOLEAN
    /\ (client = "vision" => thinking = "off") /\ (budget => thinking = "on")
    /\ attempt = 0 /\ burned = FALSE /\ calls = 0 /\ outcome = "calling"

Sends == outcome = "calling" /\ calls < MaxCalls /\ calls' = calls + 1
Ends(how) == outcome' = how /\ UNCHANGED <<client, thinking, budget, attempt, burned>>
Again == outcome' = outcome /\ UNCHANGED client

\* sleep and try again, or give up
BackOff ==
    IF attempt >= MaxRetries THEN Ends("error")
    ELSE attempt' = attempt + 1 /\ Again /\ UNCHANGED <<thinking, budget, burned>>

\* HTTP 429, 500, 502, 503, 529
Unavailable == Sends /\ IF client = "chat" THEN BackOff ELSE Ends("error")

\* HTTP 400 or 422: the parameters are dropped, once
Rejected ==
    /\ Sends
    /\ IF thinking # "absent" \/ budget
       THEN thinking' = "absent" /\ budget' = FALSE /\ Again /\ UNCHANGED <<attempt, burned>>
       ELSE Ends("error")

\* any other status, or a body of the wrong shape
Refused == Sends /\ Ends("error")

\* no answer from the network: the vision client's own error, the chat client lets it through
Unreachable == Sends /\ Ends(IF client = "vision" THEN "error" ELSE "raised")

Answered == Sends /\ Ends("content")

\* content without a word in it
BurnsAlways(finish) == thinking = "on" /\ finish = "length"  \* variant: the sample is taken afresh each time
Burns(finish) == thinking = "on" /\ finish = "length" /\ ~burned
Recovers(finish, isAnswer) == thinking = "on" /\ finish \in {"stop", "error"} /\ isAnswer
Empty ==
    /\ Sends
    /\ IF client = "vision" THEN Ends("error")
       ELSE \E finish \in Finishes, isAnswer \in BOOLEAN :
            IF Burns(finish) THEN burned' = TRUE /\ Again /\ UNCHANGED <<thinking, budget, attempt>>
            ELSE IF Recovers(finish, isAnswer) THEN Ends("reasoning")
            ELSE BackOff

Next == Unavailable \/ Rejected \/ Refused \/ Unreachable \/ Answered \/ Empty

Spec == Init /\ [][Next]_vars /\ WF_vars(Next)

=============================================================================
