------------------------------ MODULE SignIn -----------------------------
(* Signing in (pipeline/api/auth.py): a browser logs in through Google's    *)
(* redirect, a phone through the device grant it polls.  What is pending    *)
(* lives in dictionaries the request threads share without a lock.          *)
EXTENDS Naturals, FiniteSets, FiniteSetsExt

CONSTANTS
    Threads,
    States,       \* the state tokens that may be minted
    MaxEntries,   \* the logins that may be pending
    LoginAge, GrantAge, Grace,  \* how long a login, a grant, a minted session counts
    MaxClock,     \* bound on the time
    None

\* what the constants are (assumed where the module is instantiated)
SignInAssumption ==
    {MaxEntries, LoginAge, GrantAge, Grace, MaxClock} \subseteq Nat

VARIABLES
    now,
    oauth_states,     \* token |-> when its login started, or None
    device_grants,    \* token |-> when its grant started, or None
    recent_sessions,  \* token |-> when its session was minted, or None
    google,           \* Google's side of a device grant: waiting, approved, denied, its code used
    thread,
    used,             \* the tokens ever minted
    exchanged,        \* token |-> how often its login's code was exchanged
    failures          \* the polls that began with a session to reissue and failed

vars == <<now, oauth_states, device_grants, recent_sessions, google, thread, used, exchanged, failures>>

Times == 0..MaxClock
Pending == [States -> Times \cup {None}]
Codes == {"none", "waiting", "approved", "denied", "used"}
Steps == {"idle", "store", "exchange", "ask", "verify"}
Idle == [pc |-> "idle", token |-> None, minted |-> FALSE]
Caller == [pc : Steps, token : States \cup {None}, minted : BOOLEAN]

\* Every dictionary holds times of known tokens, and a thread at work has a token.
TypeOK ==
    /\ now \in Times
    /\ oauth_states \in Pending /\ device_grants \in Pending /\ recent_sessions \in Pending
    /\ google \in [States -> Codes] /\ used \subseteq States
    /\ exchanged \in [States -> Nat] /\ failures \in Nat
    /\ thread \in [Threads -> Caller]
    /\ \A t \in Threads : thread[t].pc = "idle" \/ thread[t].token \in used

Init ==
    /\ now = 0 /\ used = {} /\ failures = 0
    /\ oauth_states = [s \in States |-> None]
    /\ device_grants = oauth_states /\ recent_sessions = oauth_states
    /\ google = [s \in States |-> "none"]
    /\ thread = [t \in Threads |-> Idle]
    /\ exchanged = [s \in States |-> 0]

Held(dict) == {s \in States : dict[s] # None}
Without(dict, s) == [dict EXCEPT ![s] = None]
At(t, pc) == thread[t].pc = pc
Goto(t, pc, s) == thread' = [thread EXCEPT ![t].pc = pc, ![t].token = s]
Done(t) == thread' = [thread EXCEPT ![t] = Idle]

-----------------------------------------------------------------------------
\* the browser's login

IsStale(started) == started + LoginAge < now
Swept == [s \in States |-> IF oauth_states[s] # None /\ IsStale(oauth_states[s]) THEN None ELSE oauth_states[s]]

\* GET login: the stale logins are swept, and the rest counted, before the new one is stored
Login(t, s) ==
    /\ At(t, "idle") /\ s \notin used
    /\ oauth_states' = Swept
    /\ IF Cardinality(Held(Swept)) >= MaxEntries
       THEN UNCHANGED <<thread, used>>
       ELSE Goto(t, "store", s) /\ used' = used \cup {s}
    /\ UNCHANGED <<now, device_grants, recent_sessions, google, exchanged, failures>>
LoginStore(t) ==
    /\ At(t, "store")
    /\ oauth_states' = [oauth_states EXCEPT ![thread[t].token] = now]
    /\ Done(t)
    /\ UNCHANGED <<now, device_grants, recent_sessions, google, used, exchanged, failures>>

\* GET callback: the login is taken out before its code is exchanged, stale or not
CallbackKept(t, s) ==  \* variant: the login is only looked up
    /\ At(t, "idle") /\ s \in used /\ oauth_states[s] # None
    /\ Goto(t, "exchange", s)
    /\ UNCHANGED <<now, oauth_states, device_grants, recent_sessions, google, used, exchanged, failures>>
Callback(t, s) ==
    /\ At(t, "idle") /\ s \in used /\ oauth_states[s] # None
    /\ oauth_states' = Without(oauth_states, s)
    /\ Goto(t, "exchange", s)
    /\ UNCHANGED <<now, device_grants, recent_sessions, google, used, exchanged, failures>>
ExchangeCode(t) ==
    /\ At(t, "exchange")
    /\ exchanged' = [exchanged EXCEPT ![thread[t].token] = @ + 1]
    /\ Done(t)
    /\ UNCHANGED <<now, oauth_states, device_grants, recent_sessions, google, used, failures>>

-----------------------------------------------------------------------------
\* the device grant

StartDeviceGrant(t, s) ==
    /\ At(t, "idle") /\ s \notin used /\ used' = used \cup {s}
    /\ device_grants' = [device_grants EXCEPT ![s] = now]
    /\ google' = [google EXCEPT ![s] = "waiting"]
    /\ UNCHANGED <<now, oauth_states, recent_sessions, thread, exchanged, failures>>

WithinGrace(s) == recent_sessions[s] # None /\ now < recent_sessions[s] + Grace
IsExpired(s) == device_grants[s] + GrantAge < now

\* a poll answers; a failure counts when there was a session to reissue as it began
Answer(t, ok) ==
    /\ failures' = IF thread[t].minted /\ ~ok THEN failures + 1 ELSE failures
    /\ Done(t)

\* POST poll: no grant, an expired one, or one to ask Google about
Poll(t, s) ==
    /\ At(t, "idle") /\ s \in used
    /\ IF device_grants[s] = None
       THEN UNCHANGED <<device_grants, thread, failures>>
       ELSE IF IsExpired(s)
       THEN /\ device_grants' = Without(device_grants, s)
            /\ failures' = IF WithinGrace(s) THEN failures + 1 ELSE failures
            /\ UNCHANGED thread
       ELSE /\ thread' = [thread EXCEPT ![t] = [pc |-> "ask", token |-> s, minted |-> WithinGrace(s)]]
            /\ UNCHANGED <<device_grants, failures>>
    /\ UNCHANGED <<now, oauth_states, recent_sessions, google, used, exchanged>>

\* Google's answer without a token: pending, slow down, a lapsed code, an approval
\* that carries none, or no answer at all; a denial and any other error end the grant
GrantError(t) ==
    LET s == thread[t].token IN
    /\ At(t, "ask")
    /\ \/ google[s] = "waiting" /\ device_grants' = device_grants /\ Answer(t, TRUE)
       \/ google[s] \in {"denied", "used"} /\ device_grants' = Without(device_grants, s) /\ Answer(t, FALSE)
       \/ device_grants' = device_grants /\ Answer(t, FALSE)
    /\ UNCHANGED <<now, oauth_states, recent_sessions, google, used, exchanged>>

CompleteKept(t) ==  \* variant: the grant is not taken out
    LET s == thread[t].token IN
    /\ At(t, "ask") /\ google[s] = "approved"
    /\ google' = [google EXCEPT ![s] = "used"]
    /\ Goto(t, "verify", s)
    /\ UNCHANGED <<now, oauth_states, device_grants, recent_sessions, used, exchanged, failures>>
CompleteGrant(t) ==
    LET s == thread[t].token IN
    /\ At(t, "ask") /\ google[s] = "approved"
    /\ google' = [google EXCEPT ![s] = "used"]
    /\ device_grants' = Without(device_grants, s)
    /\ Goto(t, "verify", s)
    /\ UNCHANGED <<now, oauth_states, recent_sessions, used, exchanged, failures>>

\* the id token verifies, or it does not
Mint(t) ==
    LET s == thread[t].token IN
    /\ At(t, "verify")
    /\ \/ recent_sessions' = [recent_sessions EXCEPT ![s] = now] /\ Answer(t, TRUE)
       \/ recent_sessions' = recent_sessions /\ Answer(t, FALSE)
    /\ UNCHANGED <<now, oauth_states, device_grants, google, used, exchanged>>

-----------------------------------------------------------------------------
\* at Google the owner approves or denies; time passes; the server restarts and forgets

Decide(s) ==
    /\ google[s] = "waiting" /\ \E to \in {"approved", "denied"} : google' = [google EXCEPT ![s] = to]
    /\ UNCHANGED <<now, oauth_states, device_grants, recent_sessions, thread, used, exchanged, failures>>
Tick ==
    /\ now < MaxClock /\ now' = now + 1
    /\ UNCHANGED <<oauth_states, device_grants, recent_sessions, google, thread, used, exchanged, failures>>
Restart ==
    /\ Held(oauth_states) \cup Held(device_grants) \cup Held(recent_sessions) # {}
    /\ oauth_states' = [s \in States |-> None]
    /\ device_grants' = oauth_states' /\ recent_sessions' = oauth_states'
    /\ thread' = [t \in Threads |-> Idle]
    /\ UNCHANGED <<now, google, used, exchanged, failures>>

Next ==
    \/ Tick \/ Restart
    \/ \E s \in States : Decide(s)
    \/ \E t \in Threads :
        \/ LoginStore(t) \/ ExchangeCode(t) \/ GrantError(t) \/ CompleteGrant(t) \/ Mint(t)
        \/ \E s \in States : Login(t, s) \/ Callback(t, s) \/ StartDeviceGrant(t, s) \/ Poll(t, s)

Spec == Init /\ [][Next]_vars

-----------------------------------------------------------------------------
\* A login's code is exchanged at most once, however often and by however
\* many threads its callback is requested.
CodeExchangedOnce == \A s \in States : exchanged[s] <= 1

\* A poll that begins while there is a session to reissue - the answer that
\* brought it was lost - does not fail, whatever the other threads do.
LostAnswerIsReissued == failures = 0

=============================================================================
