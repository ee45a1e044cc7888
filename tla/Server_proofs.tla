---------------------------- MODULE Server_proofs ----------------------------
(***************************************************************************)
(* Proofs about what the threads of the server share, for any threads.     *)
(* SignIn, for any tokens, ages and clock: the type invariant, that a      *)
(* login's code is exchanged at most once, and that no poll fails that     *)
(* began while there was a session to reissue.  Story, for any tales,      *)
(* people and bounds: the type invariant, that the patched index is the    *)
(* rebuilt one, and where its links lead.                                  *)
(***************************************************************************)
EXTENDS SignIn, FiniteSetTheorems, SequenceTheorems, WellFoundedInduction, TLAPS

CONSTANTS Names, Kin, Table, Tales, Authors, MaxStories, MaxNamesakes, MaxStoryRequests
VARIABLES items, table, proposals, index, cast, teller, patched, failed, asked

St == INSTANCE Story WITH Narrators <- Authors, MaxRequests <- MaxStoryRequests, thread <- teller

-----------------------------------------------------------------------------
(* The inductive invariant.                                                *)

\* a token that was never minted is nowhere
Unminted ==
    \A s \in States : s \notin used =>
        /\ oauth_states[s] = None /\ device_grants[s] = None /\ recent_sessions[s] = None
        /\ exchanged[s] = 0

\* one request carries a login from one step to the next: nobody else does, nobody finds it
\* in the dictionary meanwhile, and its code has not been exchanged
Carries(t) == thread[t].pc \in {"store", "exchange"}
CarriedAlone ==
    /\ \A t, u \in Threads : Carries(t) /\ Carries(u) /\ thread[t].token = thread[u].token => t = u
    /\ \A t \in Threads : Carries(t) => oauth_states[thread[t].token] = None /\ exchanged[thread[t].token] = 0
    /\ \A s \in States : oauth_states[s] # None => exchanged[s] = 0

\* where a session was minted, or is about to be, the grant is gone: a poll that still
\* finds its grant has no session to reissue
GrantGone ==
    /\ \A s \in States : recent_sessions[s] # None => device_grants[s] = None
    /\ \A t \in Threads : At(t, "verify") => device_grants[thread[t].token] = None
    /\ \A t \in Threads : ~thread[t].minted

LInv == TypeOK /\ Unminted /\ CarriedAlone /\ CodeExchangedOnce
GInv == TypeOK /\ Unminted /\ GrantGone /\ LostAnswerIsReissued

-----------------------------------------------------------------------------
(* The type invariant.                                                     *)

LEMMA IdleType == Idle \in Caller /\ Idle.pc = "idle" /\ ~Idle.minted
BY DEF Idle, Caller, Steps

LEMMA InitTypes ==
  ASSUME SignInAssumption, Init
  PROVE  TypeOK
BY IdleType DEF SignInAssumption, Init, TypeOK, Times, Pending, Codes

LEMMA TypesHold ==
  ASSUME SignInAssumption, TypeOK, [Next]_vars
  PROVE  TypeOK'
<1> USE DEF TypeOK, At, Done, Goto, Without
<1>1. now \in Nat /\ MaxClock \in Nat
  BY DEF SignInAssumption, Times
<1>2. CASE Tick
  <2>1. now' \in Times
    BY <1>1, <1>2 DEF Tick, Times
  <2> QED
    BY <1>2, <2>1 DEF Tick, Pending
<1>3. CASE Restart
  BY <1>3, IdleType DEF Restart, Pending
<1>4. ASSUME NEW s \in States, Decide(s) PROVE TypeOK'
  BY <1>4 DEF Decide, Codes
<1>5. ASSUME NEW t \in Threads, LoginStore(t) PROVE TypeOK'
  BY <1>5, IdleType DEF LoginStore, Pending, Caller
<1>6. ASSUME NEW t \in Threads, ExchangeCode(t) PROVE TypeOK'
  BY <1>6, IdleType DEF ExchangeCode, Caller
<1>7. ASSUME NEW t \in Threads, GrantError(t) PROVE TypeOK'
  BY <1>7, IdleType DEF GrantError, Answer, Pending, Caller
<1>8. ASSUME NEW t \in Threads, CompleteGrant(t) PROVE TypeOK'
  <2>1. PICK s \in States : s = thread[t].token /\ s \in used
    BY <1>8 DEF CompleteGrant, Caller
  <2>2. /\ device_grants' \in Pending /\ google' \in [States -> Codes]
        /\ UNCHANGED <<now, oauth_states, recent_sessions, used, exchanged, failures>>
    BY <1>8, <2>1 DEF CompleteGrant, Pending, Codes
  <2>3. thread' \in [Threads -> Caller] /\ thread'[t].token = s
    BY <1>8, <2>1 DEF CompleteGrant, Caller, Steps
  <2> QED
    BY <1>8, <2>1, <2>2, <2>3 DEF CompleteGrant
<1>9. ASSUME NEW t \in Threads, Mint(t) PROVE TypeOK'
  <2>1. thread[t].token \in States
    BY <1>9 DEF Mint, Caller
  <2>2. /\ failures' \in Nat /\ thread' = [thread EXCEPT ![t] = Idle]
        /\ recent_sessions' \in Pending
    BY <1>9, <2>1 DEF Mint, Answer, Pending
  <2> QED
    BY <1>9, <2>2, IdleType DEF Mint
<1>10. ASSUME NEW t \in Threads, NEW s \in States, Login(t, s) PROVE TypeOK'
  <2>1. Swept \in Pending
    BY DEF Swept, Pending
  <2> QED
    BY <1>10, <2>1 DEF Login, Caller, Steps
<1>11. ASSUME NEW t \in Threads, NEW s \in States, Callback(t, s) PROVE TypeOK'
  BY <1>11 DEF Callback, Pending, Caller, Steps
<1>12. ASSUME NEW t \in Threads, NEW s \in States, StartDeviceGrant(t, s) PROVE TypeOK'
  BY <1>12 DEF StartDeviceGrant, Pending, Codes
<1>13. ASSUME NEW t \in Threads, NEW s \in States, Poll(t, s) PROVE TypeOK'
  <2>1. WithinGrace(s) \in BOOLEAN
    BY DEF WithinGrace
  <2> QED
    BY <1>13, <2>1 DEF Poll, Pending, Caller, Steps
<1>14. CASE UNCHANGED vars
  BY <1>14 DEF vars
<1> QED
  BY <1>2, <1>3, <1>4, <1>5, <1>6, <1>7, <1>8, <1>9, <1>10, <1>11, <1>12, <1>13, <1>14 DEF Next

\* The dictionaries hold times of known tokens, and a thread at work has a token.
THEOREM TypeCorrect ==
  ASSUME SignInAssumption
  PROVE  Init /\ [][Next]_vars => []TypeOK
<1>1. Init => TypeOK
  BY InitTypes
<1>2. TypeOK /\ [Next]_vars => TypeOK'
  BY TypesHold
<1> QED
  BY <1>1, <1>2, PTL

-----------------------------------------------------------------------------
(* A login's code is exchanged at most once.                               *)

LEMMA InitLogin ==
  ASSUME SignInAssumption, Init
  PROVE  LInv
BY InitTypes, IdleType DEF Init, LInv, Unminted, CarriedAlone, Carries, CodeExchangedOnce

LEMMA Before ==
  ASSUME TypeOK, NEW t \in Threads
  PROVE  /\ thread \in [Threads -> Caller] /\ thread[t] \in Caller
         /\ thread[t].pc \in Steps /\ thread[t].token \in States \cup {None} /\ thread[t].minted \in BOOLEAN
         /\ ~At(t, "idle") => thread[t].token \in States /\ thread[t].token \in used
BY DEF TypeOK, Caller, At

LEMMA UnmintedHolds ==
  ASSUME TypeOK, Unminted, Next
  PROVE  Unminted'
<1> USE DEF TypeOK, Unminted, Pending, Without
<1>1. CASE Tick
  BY <1>1 DEF Tick
<1>2. CASE Restart
  BY <1>2 DEF Restart
<1>3. ASSUME NEW s \in States, Decide(s) PROVE Unminted'
  BY <1>3 DEF Decide
<1>4. ASSUME NEW t \in Threads, LoginStore(t) PROVE Unminted'
  BY <1>4, Before DEF LoginStore, At
<1>5. ASSUME NEW t \in Threads, ExchangeCode(t) PROVE Unminted'
  BY <1>5, Before DEF ExchangeCode, At
<1>6. ASSUME NEW t \in Threads, GrantError(t) PROVE Unminted'
  BY <1>6, Before DEF GrantError, At
<1>7. ASSUME NEW t \in Threads, CompleteGrant(t) PROVE Unminted'
  BY <1>7, Before DEF CompleteGrant, At
<1>8. ASSUME NEW t \in Threads, Mint(t) PROVE Unminted'
  BY <1>8, Before DEF Mint, At
<1>9. ASSUME NEW t \in Threads, NEW s \in States, Login(t, s) PROVE Unminted'
  BY <1>9 DEF Login, Swept
<1>10. ASSUME NEW t \in Threads, NEW s \in States, Callback(t, s) PROVE Unminted'
  BY <1>10 DEF Callback
<1>11. ASSUME NEW t \in Threads, NEW s \in States, StartDeviceGrant(t, s) PROVE Unminted'
  BY <1>11 DEF StartDeviceGrant
<1>12. ASSUME NEW t \in Threads, NEW s \in States, Poll(t, s) PROVE Unminted'
  BY <1>12 DEF Poll
<1> QED
  BY <1>1, <1>2, <1>3, <1>4, <1>5, <1>6, <1>7, <1>8, <1>9, <1>10, <1>11, <1>12 DEF Next

\* a step that leaves the exchanges alone, stores no login and makes nobody carry one
LEMMA LoginUntouched ==
  ASSUME CarriedAlone, CodeExchangedOnce, UNCHANGED exchanged,
         \A s \in States : oauth_states'[s] \in {oauth_states[s], None},
         \A t \in Threads : Carries(t)' => Carries(t) /\ thread'[t].token = thread[t].token,
         \A t \in Threads : Carries(t) => thread[t].token \in States
  PROVE  CarriedAlone' /\ CodeExchangedOnce'
BY DEF CarriedAlone, CodeExchangedOnce

LEMMA LoginHolds ==
  ASSUME SignInAssumption, LInv, Next
  PROVE  LInv'
<1> DEFINE Kept == CarriedAlone' /\ CodeExchangedOnce'
<1>1. TypeOK' /\ Unminted'
  BY TypesHold, UnmintedHolds DEF LInv
<1>0. \A t \in Threads : Carries(t) => thread[t].token \in States
  BY Before DEF LInv, Carries, At
<1>2. ASSUME Tick \/ \E s \in States : Decide(s) PROVE Kept
  BY <1>0, <1>2, LoginUntouched DEF LInv, Tick, Decide, Carries
<1>3. ASSUME Restart PROVE Kept
  BY <1>0, <1>3, LoginUntouched, IdleType DEF LInv, Restart, Carries
<1>4. ASSUME NEW t \in Threads, GrantError(t) \/ CompleteGrant(t) \/ Mint(t) PROVE Kept
  <2>1. UNCHANGED <<oauth_states, exchanged>>
    BY <1>4 DEF GrantError, CompleteGrant, Mint
  <2>2. \/ thread' = [thread EXCEPT ![t] = Idle]
        \/ thread' = [thread EXCEPT ![t].pc = "verify", ![t].token = thread[t].token]
    BY <1>4 DEF GrantError, CompleteGrant, Mint, Answer, Done, Goto
  <2>3. thread'[t].pc \in {"idle", "verify"} /\ \A u \in Threads : u # t => thread'[u] = thread[u]
    BY <2>2, Before, IdleType DEF LInv, Caller
  <2> QED
    BY <1>0, <2>1, <2>3, LoginUntouched DEF LInv, Carries
<1>5. ASSUME NEW t \in Threads, NEW s \in States, StartDeviceGrant(t, s) PROVE Kept
  BY <1>0, <1>5, LoginUntouched DEF LInv, StartDeviceGrant, Carries
<1>6. ASSUME NEW t \in Threads, NEW s \in States, Poll(t, s) PROVE Kept
  BY <1>0, <1>6, LoginUntouched, Before DEF LInv, Poll, Carries
<1>7. ASSUME NEW t \in Threads, LoginStore(t) PROVE Kept
  <2>1. PICK s \in States : s = thread[t].token /\ At(t, "store") /\ Carries(t)
    BY <1>7, Before DEF LInv, LoginStore, At, Carries
  <2>2. /\ exchanged[s] = 0 /\ UNCHANGED exchanged
        /\ \A u \in Threads : Carries(u) /\ u # t => thread[u].token # s
    BY <1>7, <2>1 DEF LInv, CarriedAlone, LoginStore
  <2>3. \A u \in Threads : Carries(u)' => u # t /\ Carries(u) /\ thread'[u] = thread[u]
    BY <1>7, Before, IdleType DEF LInv, LoginStore, Done, Carries
  <2>4. \A r \in States : r # s => oauth_states'[r] = oauth_states[r]
    BY <1>7, <2>1 DEF LInv, TypeOK, Pending, LoginStore
  <2>5. \A u \in Threads : Carries(u)' => thread[u].token \in States \ {s}
    BY <2>2, <2>3, Before DEF LInv, Carries, At
  <2> QED
    BY <2>2, <2>3, <2>4, <2>5 DEF LInv, CarriedAlone, CodeExchangedOnce
<1>8. ASSUME NEW t \in Threads, ExchangeCode(t) PROVE Kept
  <2>1. PICK s \in States : s = thread[t].token /\ Carries(t)
    BY <1>8, Before DEF LInv, ExchangeCode, At, Carries
  <2>2. /\ oauth_states[s] = None /\ UNCHANGED oauth_states
        /\ exchanged[s] = 0 /\ exchanged' = [exchanged EXCEPT ![s] = @ + 1]
        /\ \A u \in Threads : Carries(u) /\ u # t => thread[u].token # s
    BY <1>8, <2>1 DEF LInv, CarriedAlone, ExchangeCode
  <2>3. \A u \in Threads : Carries(u)' => u # t /\ Carries(u) /\ thread'[u] = thread[u]
    BY <1>8, Before, IdleType DEF LInv, ExchangeCode, Done, Carries
  <2>4. exchanged'[s] = 1 /\ \A r \in States : r # s => exchanged'[r] = exchanged[r]
    BY <2>2 DEF LInv, TypeOK
  <2>5. \A u \in Threads : Carries(u)' => thread[u].token \in States \ {s}
    BY <2>2, <2>3, Before DEF LInv, Carries, At
  <2> QED
    BY <2>2, <2>3, <2>4, <2>5 DEF LInv, CarriedAlone, CodeExchangedOnce
<1>9. ASSUME NEW t \in Threads, NEW s \in States, Login(t, s) \/ Callback(t, s) PROVE Kept
  <2>1. UNCHANGED exchanged /\ \A r \in States : oauth_states'[r] \in {oauth_states[r], None}
    BY <1>9 DEF LInv, TypeOK, Pending, Login, Callback, Swept, Without
  <2>2. CASE UNCHANGED thread
    BY <1>0, <2>1, <2>2, LoginUntouched DEF LInv, Carries
  <2>3. CASE thread' # thread
    <3>1. /\ oauth_states'[s] = None /\ exchanged[s] = 0
          /\ \A u \in Threads : Carries(u) => thread[u].token # s
      BY <1>9, <2>3, Before
      DEF LInv, Unminted, TypeOK, Pending, CarriedAlone, Login, Callback, Without, Swept, Carries, At
    <3>2. /\ thread'[t].token = s /\ ~Carries(t)
          /\ \A u \in Threads : u # t => thread'[u] = thread[u]
      BY <1>9, <2>3, Before DEF LInv, Login, Callback, Goto, Carries, At, Caller
    <3> QED
      BY <1>0, <2>1, <3>1, <3>2 DEF LInv, CarriedAlone, CodeExchangedOnce, Carries
  <2> QED
    BY <2>2, <2>3
<1> QED
  BY <1>1, <1>2, <1>3, <1>4, <1>5, <1>6, <1>7, <1>8, <1>9 DEF Next, LInv

\* A login's code is exchanged at most once (auth.py, the state token is taken out of the
\* dictionary before the exchange), by however many threads its callback is requested.
THEOREM ExchangedOnce ==
  ASSUME SignInAssumption
  PROVE  Init /\ [][Next]_vars => []CodeExchangedOnce
<1>1. Init => LInv
  BY InitLogin
<1>2. LInv /\ [Next]_vars => LInv'
  <2>1. LInv /\ UNCHANGED vars => LInv'
    BY DEF vars, LInv, TypeOK, Unminted, CarriedAlone, Carries, CodeExchangedOnce
  <2> QED
    BY <2>1, LoginHolds
<1>3. LInv => CodeExchangedOnce
  BY DEF LInv
<1> QED
  BY <1>1, <1>2, <1>3, PTL

-----------------------------------------------------------------------------
(* No poll fails that began with a session to reissue.                     *)

\* a step that fails no such poll, mints no session and starts no grant
LEMMA GrantUntouched ==
  ASSUME GrantGone, LostAnswerIsReissued, UNCHANGED <<recent_sessions, failures>>,
         \A s \in States : device_grants'[s] \in {device_grants[s], None},
         \A t \in Threads : /\ ~thread'[t].minted
                            /\ At(t, "verify")' => At(t, "verify") /\ thread'[t].token = thread[t].token,
         \A t \in Threads : At(t, "verify") => thread[t].token \in States
  PROVE  GrantGone' /\ LostAnswerIsReissued'
BY DEF GrantGone, LostAnswerIsReissued

LEMMA GrantHolds ==
  ASSUME SignInAssumption, GInv, Next
  PROVE  GInv'
<1> DEFINE Kept == GrantGone' /\ LostAnswerIsReissued'
<1>1. TypeOK' /\ Unminted'
  BY TypesHold, UnmintedHolds DEF GInv
<1>0. \A t \in Threads : ~thread[t].minted /\ (At(t, "verify") => thread[t].token \in States)
  BY Before DEF GInv, GrantGone, At
<1>2. ASSUME Tick \/ \E s \in States : Decide(s) PROVE Kept
  BY <1>0, <1>2, GrantUntouched DEF GInv, Tick, Decide, At
<1>3. ASSUME Restart PROVE Kept
  BY <1>3, IdleType DEF GInv, Restart, GrantGone, LostAnswerIsReissued, At
<1>4. ASSUME NEW t \in Threads, LoginStore(t) \/ ExchangeCode(t) \/ GrantError(t) PROVE Kept
  <2>1. thread' = [thread EXCEPT ![t] = Idle] /\ UNCHANGED <<recent_sessions, failures>>
    BY <1>0, <1>4 DEF LoginStore, ExchangeCode, GrantError, Answer, Done
  <2>2. \A s \in States : device_grants'[s] \in {device_grants[s], None}
    BY <1>4 DEF GInv, TypeOK, Pending, LoginStore, ExchangeCode, GrantError, Without
  <2> QED
    BY <1>0, <2>1, <2>2, Before, IdleType, GrantUntouched DEF GInv, At
<1>5. ASSUME NEW t \in Threads, CompleteGrant(t) PROVE Kept
  <2>1. PICK s \in States : s = thread[t].token
    BY <1>5, Before DEF GInv, CompleteGrant, At
  <2>2. /\ device_grants'[s] = None
        /\ \A r \in States : device_grants'[r] \in {device_grants[r], None}
        /\ UNCHANGED <<recent_sessions, failures>>
    BY <1>5, <2>1 DEF GInv, TypeOK, Pending, CompleteGrant, Without
  <2>3. /\ thread'[t].token = s /\ ~thread'[t].minted
        /\ \A u \in Threads : u # t => thread'[u] = thread[u]
    BY <1>0, <1>5, <2>1, Before DEF GInv, CompleteGrant, Goto, Caller
  <2> QED
    BY <1>0, <2>2, <2>3 DEF GInv, GrantGone, LostAnswerIsReissued, At
<1>6. ASSUME NEW t \in Threads, Mint(t) PROVE Kept
  <2>1. PICK s \in States : s = thread[t].token /\ device_grants[s] = None
    BY <1>6, Before DEF GInv, GrantGone, Mint, At
  <2>2. /\ \A r \in States : r # s => recent_sessions'[r] = recent_sessions[r]
        /\ UNCHANGED <<device_grants, failures>>
    BY <1>0, <1>6, <2>1 DEF GInv, TypeOK, Pending, Mint, Answer
  <2>3. \A u \in Threads : thread'[u] = IF u = t THEN Idle ELSE thread[u]
    BY <1>6, Before DEF GInv, Mint, Answer, Done
  <2> QED
    BY <1>0, <2>1, <2>2, <2>3, IdleType DEF GInv, GrantGone, LostAnswerIsReissued, At
<1>7. ASSUME NEW t \in Threads, NEW s \in States, Login(t, s) \/ Callback(t, s) PROVE Kept
  <2>1. UNCHANGED <<device_grants, recent_sessions, failures>>
    BY <1>7 DEF Login, Callback
  <2>2. \A u \in Threads : ~thread'[u].minted /\ (At(u, "verify")' => thread'[u] = thread[u])
    BY <1>0, <1>7, Before DEF GInv, Login, Callback, Goto, Caller, At
  <2> QED
    BY <1>0, <2>1, <2>2, GrantUntouched DEF GInv, At
<1>8. ASSUME NEW t \in Threads, NEW s \in States, StartDeviceGrant(t, s) PROVE Kept
  <2>1. /\ recent_sessions[s] = None /\ UNCHANGED <<recent_sessions, thread, failures>>
        /\ \A r \in States : r # s => device_grants'[r] = device_grants[r]
    BY <1>8 DEF GInv, Unminted, TypeOK, Pending, StartDeviceGrant
  <2>2. \A u \in Threads : At(u, "verify") => thread[u].token \in States \ {s}
    BY <1>0, <1>8, Before DEF GInv, StartDeviceGrant, At
  <2> QED
    BY <1>0, <2>1, <2>2 DEF GInv, GrantGone, LostAnswerIsReissued, At
<1>9. ASSUME NEW t \in Threads, NEW s \in States, Poll(t, s) PROVE Kept
  <2>1. device_grants[s] # None => ~WithinGrace(s)
    BY DEF GInv, GrantGone, WithinGrace
  <2>2. /\ UNCHANGED <<recent_sessions, failures>>
        /\ \A r \in States : device_grants'[r] \in {device_grants[r], None}
    BY <1>9, <2>1 DEF GInv, TypeOK, Pending, Poll, Without
  <2>3. \A u \in Threads : ~thread'[u].minted /\ (At(u, "verify")' => thread'[u] = thread[u])
    BY <1>0, <1>9, <2>1, Before DEF GInv, Poll, At
  <2> QED
    BY <1>0, <2>2, <2>3, GrantUntouched DEF GInv, At
<1> QED
  BY <1>1, <1>2, <1>3, <1>4, <1>5, <1>6, <1>7, <1>8, <1>9 DEF Next, GInv

\* A poll whose session was minted already, and lost on its way, is answered with it: while
\* there is a session to reissue there is no grant that could fail (auth.py, the poll).
THEOREM LostAnswerReissued ==
  ASSUME SignInAssumption
  PROVE  Init /\ [][Next]_vars => []LostAnswerIsReissued
<1>1. Init => GInv
  BY InitTypes, IdleType DEF Init, GInv, Unminted, GrantGone, LostAnswerIsReissued, At
<1>2. GInv /\ [Next]_vars => GInv'
  <2>1. GInv /\ UNCHANGED vars => GInv'
    BY DEF vars, GInv, TypeOK, Unminted, GrantGone, LostAnswerIsReissued, At
  <2> QED
    BY <2>1, GrantHolds
<1>3. GInv => LostAnswerIsReissued
  BY DEF GInv
<1> QED
  BY <1>1, <1>2, <1>3, PTL

-----------------------------------------------------------------------------
(* The least of some numbers.                                              *)

LEMMA LeastNat ==
  ASSUME NEW N \in SUBSET Nat, N # {}
  PROVE  \E n \in N : \A m \in N : n <= m
<1>1. PICK n \in N : \A y \in N : ~(<<y, n>> \in OpToRel(<, Nat))
  BY NatLessThanWellFounded, WFMin
<1>2. \A y \in N : n <= y
  <2> SUFFICES ASSUME NEW y \in N, ~(n <= y) PROVE FALSE
    OBVIOUS
  <2>1. <<y, n>> \in Nat \X Nat /\ y < n
    OBVIOUS
  <2>2. <<y, n>> \in OpToRel(<, Nat)
    BY <2>1 DEF OpToRel
  <2> QED
    BY <1>1, <2>2
<1> QED
  BY <1>2
-----------------------------------------------------------------------------
(* The saving of a story.                                                  *)

StepsOf == {"idle", "save", "propose", "patch", "cast", "merge", "resolve", "replace", "replace cast"}
Teller == [pc : StepsOf, task : St!Tasks, story : St!Stories \cup {None}, item : St!Item \cup {None},
           new : SUBSET St!Persons, filed : SUBSET St!Persons, index : St!Shelf \cup {None}, cast : St!Cast \cup {None},
           alone : BOOLEAN]
\* what a request holds at the step it is at, with these proposals filed
Holds(c, filed) ==
    /\ c.pc = "idle" => c = St!Idle
    /\ c.pc \in {"save", "propose", "patch"} =>
         c.story \in St!Stories /\ c.item \in St!Item /\ (c.task = "delete" <=> c.item.status = "deleted")
    /\ c.pc \in {"patch", "resolve", "replace"} => c.index \in St!Shelf
    /\ c.pc \in {"merge", "replace", "replace cast"} => c.cast \in St!Cast
    /\ c.pc \notin {"save", "propose"} => c.new \subseteq c.filed
    /\ c.filed \subseteq filed
Requests == teller \in [Threads -> Teller] /\ \A t \in Threads : Holds(teller[t], proposals)
StoryInv ==
    /\ items \in St!Shelf /\ index \in St!Shelf
    /\ table \in St!Cast /\ cast \in St!Cast
    /\ proposals \subseteq St!Persons
    /\ patched \in BOOLEAN /\ failed \in BOOLEAN /\ asked \in 0..MaxStoryRequests
    /\ Requests

\* an operation of a tale's links leaves links that are served or minted
Grounded(built, people) ==
    /\ built \in [links : SUBSET St!Persons, new : SUBSET St!Persons, full : BOOLEAN]
    /\ built.links \subseteq St!In(people) \cup built.new

LEMMA FirstOf ==
  ASSUME MaxNamesakes \in Nat, NEW S \in SUBSET St!Persons, S # {}
  PROVE  St!First(S) \in S
<1> DEFINE N == {p.n : p \in S}
<1>1. N \in SUBSET Nat /\ N # {}
  BY DEF St!Persons
<1>2. PICK n \in N : \A m \in N : n <= m
  BY <1>1, LeastNat
<1>3. PICK p \in S : p.n = n
  OBVIOUS
<1>4. \A q \in S : p.n <= q.n
  BY <1>2, <1>3
<1> QED
  BY <1>4 DEF St!First

LEMMA MintedIs ==
  ASSUME St!StoryAssumption, NEW people, NEW built, Grounded(built, people), NEW taken, NEW name, NEW linked \in BOOLEAN
  PROVE  Grounded(St!Minted(built, taken, name, linked), people)
<1> DEFINE free == St!Unused(taken \cup built.new, name)
<1>1. CASE free = {}
  <2>1. St!Minted(built, taken, name, linked) = [built EXCEPT !.full = TRUE]
    BY <1>1 DEF St!Minted
  <2> QED
    BY <2>1 DEF Grounded
<1>2. CASE free # {}
  <2>1. PICK p \in St!Persons : p = St!First(free)
    <3>1. free \in SUBSET St!Persons
      BY DEF St!Unused
    <3> QED
      BY <1>2, <3>1, FirstOf DEF St!StoryAssumption
  <2>2. St!Minted(built, taken, name, linked) =
          [built EXCEPT !.new = built.new \cup {p}, !.links = IF linked THEN built.links \cup {p} ELSE built.links]
    BY <1>2, <2>1 DEF St!Minted
  <2> HIDE DEF free
  <2>3. PICK links \in SUBSET St!Persons : links = IF linked THEN built.links \cup {p} ELSE built.links
    BY DEF Grounded
  <2>4. links \subseteq St!In(people) \cup built.new \cup {p}
    BY <2>3 DEF Grounded
  <2>5. St!Minted(built, taken, name, linked) = [built EXCEPT !.new = built.new \cup {p}, !.links = links]
    BY <2>2, <2>3
  <2>6. PICK new \in SUBSET St!Persons : new = built.new \cup {p}
    BY DEF Grounded
  <2>7. [built EXCEPT !.new = new, !.links = links]
          \in [links : SUBSET St!Persons, new : SUBSET St!Persons, full : BOOLEAN]
    BY DEF Grounded
  <2>8. [built EXCEPT !.new = new, !.links = links].links = links /\ [built EXCEPT !.new = new, !.links = links].new = new
    BY DEF Grounded
  <2> QED
    BY <2>4, <2>5, <2>6, <2>7, <2>8 DEF Grounded
<1> QED
  BY <1>1, <1>2

LEMMA LinkedIs ==
  ASSUME St!StoryAssumption, NEW people \in St!Cast, NEW built, Grounded(built, people), NEW taken, NEW mention
  PROVE  Grounded(St!Linked(built, people, taken, mention), people)
<1> DEFINE reuse == St!Reusable(people, mention.name)
<1>1. reuse \subseteq St!In(people) /\ St!In(people) \subseteq St!Persons
  BY DEF St!Reusable, St!Named, St!In
<1>2. CASE mention.match # None /\ mention.match \in St!In(people)
  <2>1. St!Linked(built, people, taken, mention) = [built EXCEPT !.links = built.links \cup {mention.match}]
    BY <1>2 DEF St!Linked
  <2> QED
    BY <1>1, <1>2, <2>1 DEF Grounded
<1>3. CASE ~(mention.match # None /\ mention.match \in St!In(people)) /\ reuse # {}
  <2>1. PICK p \in St!In(people) : p = St!First(reuse)
    <3>1. reuse \in SUBSET St!Persons
      BY <1>1
    <3> QED
      BY <1>1, <1>3, <3>1, FirstOf DEF St!StoryAssumption
  <2>2. St!Linked(built, people, taken, mention) = [built EXCEPT !.links = built.links \cup {p}]
    BY <1>3, <2>1 DEF St!Linked
  <2> HIDE DEF reuse
  <2> QED
    BY <1>1, <2>2 DEF Grounded
<1>4. CASE ~(mention.match # None /\ mention.match \in St!In(people)) /\ reuse = {}
  <2>1. St!Linked(built, people, taken, mention) = St!Minted(built, taken, mention.name, TRUE)
    BY <1>4 DEF St!Linked
  <2> QED
    BY <2>1, MintedIs
<1> QED
  BY <1>2, <1>3, <1>4

LEMMA BuiltIs ==
  ASSUME St!StoryAssumption, NEW people \in St!Cast, NEW taken, NEW tale \in Tales, NEW who
  PROVE  Grounded(St!BuiltStory(people, taken, tale, who), people)
<1> DEFINE len == Len(tale)
           Made(f, n) == /\ f = [i \in 0..n |-> f[i]] /\ f[0] = St!Nothing
                         /\ \A i \in 1..n : f[i] = St!Linked(f[i - 1], people, taken, tale[i])
           Body(f) == [i \in 0..len |-> IF i = 0 THEN St!Nothing ELSE St!Linked(f[i - 1], people, taken, tale[i])]
<1>1. len \in Nat
  BY LenProperties DEF St!StoryAssumption
<1>2. \A n \in Nat : \E f : Made(f, n)
  <2> DEFINE Missing == {n \in Nat : ~\E f : Made(f, n)}
  <2> SUFFICES ASSUME Missing # {} PROVE FALSE
    OBVIOUS
  <2>1. PICK n \in Missing : \A m \in Missing : n <= m
    BY LeastNat
  <2>2. n # 0
    <3> DEFINE f == [i \in 0..0 |-> St!Nothing]
    <3>1. Made(f, 0)
      OBVIOUS
    <3> QED
      BY <2>1, <3>1
  <2>3. n - 1 \in Nat /\ n - 1 \notin Missing
    BY <2>1, <2>2
  <2>4. PICK g : Made(g, n - 1)
    BY <2>3
  <2> DEFINE x == St!Linked(g[n - 1], people, taken, tale[n])
             f == [i \in 0..n |-> IF i = n THEN x ELSE g[i]]
  <2>5. Made(f, n)
    <3>1. f[0] = St!Nothing
      BY <2>1, <2>2, <2>4
    <3>2. ASSUME NEW i \in 1..n PROVE f[i] = St!Linked(f[i - 1], people, taken, tale[i])
      <4>1. i \in 0..n /\ i - 1 \in 0..n /\ i - 1 # n /\ f[i - 1] = g[i - 1]
        BY <2>1, <2>2
      <4>2. CASE i = n
        BY <4>1, <4>2
      <4>3. CASE i # n
        <5>1. i \in 1..(n - 1) /\ f[i] = g[i]
          BY <2>1, <4>1, <4>3
        <5> QED
          BY <2>4, <4>1, <5>1
      <4> QED
        BY <4>2, <4>3
    <3>3. f = [i \in 0..n |-> f[i]]
      OBVIOUS
    <3> QED
      BY <3>1, <3>2, <3>3
  <2> QED
    BY <2>1, <2>5
<1> HIDE DEF Made
<1>3. PICK f : Made(f, len)
  BY <1>1, <1>2
<1>4. f = Body(f)
  BY <1>1, <1>3 DEF Made
<1> DEFINE after == CHOOSE g : g = Body(g)
<1>5. after = Body(after)
  BY <1>4
<1> HIDE DEF after
<1>6. \A i \in 0..len : Grounded(after[i], people)
  <2> DEFINE Bad == {i \in 0..len : ~Grounded(after[i], people)}
  <2> SUFFICES ASSUME Bad # {} PROVE FALSE
    OBVIOUS
  <2>1. Bad \in SUBSET Nat
    BY <1>1
  <2>2. PICK i \in Bad : \A m \in Bad : i <= m
    BY <2>1, LeastNat
  <2>3. i # 0
    <3>1. Grounded(St!Nothing, people)
      BY DEF Grounded, St!Nothing
    <3> QED
      BY <1>1, <1>5, <2>2, <3>1
  <2>4. i - 1 \in 0..len /\ i - 1 \notin Bad
    BY <1>1, <2>2, <2>3
  <2>5. after[i] = St!Linked(after[i - 1], people, taken, tale[i])
    BY <1>1, <1>5, <2>2, <2>3
  <2> QED
    BY <2>2, <2>4, <2>5, LinkedIs
<1>7. Grounded(after[len], people)
  BY <1>1, <1>6
<1>8. St!BuiltStory(people, taken, tale, who) =
        IF St!Named(people, who) # {} THEN after[len] ELSE St!Minted(after[len], taken, who, FALSE)
  BY DEF St!BuiltStory, after
<1> QED
  BY <1>7, <1>8, MintedIs

-----------------------------------------------------------------------------
LEMMA IdleHolds == St!Idle \in Teller /\ St!Idle.pc = "idle" /\ \A filed : Holds(St!Idle, filed)
BY DEF St!Idle, Teller, StepsOf, St!Tasks, Holds

LEMMA HoldsOn ==
  ASSUME NEW c, NEW filed, NEW more, Holds(c, filed), filed \subseteq more
  PROVE  Holds(c, more)
BY DEF Holds

\* a request moves on, and the others stay
LEMMA Moved ==
  ASSUME Requests, NEW t \in Threads, NEW c \in Teller, Holds(c, proposals'), proposals \subseteq proposals',
         teller' = [teller EXCEPT ![t] = c]
  PROVE  Requests'
<1>1. teller' \in [Threads -> Teller]
  BY DEF Requests
<1>2. ASSUME NEW u \in Threads PROVE Holds(teller'[u], proposals')
  <2>1. CASE u = t
    BY <2>1 DEF Requests
  <2>2. CASE u # t
    <3>1. teller'[u] = teller[u] /\ Holds(teller[u], proposals)
      BY <2>2 DEF Requests
    <3> QED
      BY <3>1, HoldsOn
  <2> QED
    BY <2>1, <2>2
<1>3. Requests' <=> teller' \in [Threads -> Teller] /\ \A u \in Threads : Holds(teller'[u], proposals')
  BY DEF Requests, Holds
<1> QED
  BY <1>1, <1>2, <1>3

\* a request begins, beside others or alone
Alike(c, d) == /\ d.pc = c.pc /\ d.task = c.task /\ d.story = c.story /\ d.item = c.item
               /\ d.new = c.new /\ d.filed = c.filed /\ d.index = c.index /\ d.cast = c.cast
Marked(c, d) == \/ c.pc = "idle" /\ d = c
                \/ c.pc # "idle" /\ d = [c EXCEPT !.alone = FALSE]
LEMMA BegunBy ==
  ASSUME St!StoryAssumption, StoryInv, NEW t \in Threads, NEW r \in Teller, Holds(r, proposals), r.pc # "idle",
         St!Begin(t, r), UNCHANGED proposals
  PROVE  /\ Requests' /\ asked' \in 0..MaxStoryRequests
         /\ Alike(r, teller'[t])
         /\ teller'[t].alone => \A u \in Threads : u # t => teller[u].pc = "idle"
         /\ \A u \in Threads : u # t => Alike(teller[u], teller'[u]) /\ (teller[u].pc # "idle" => ~teller'[u].alone)
<1>1. asked' \in 0..MaxStoryRequests
  BY DEF StoryInv, St!Begin, St!StoryAssumption
<1>2. PICK a \in BOOLEAN : a = (St!Others(t) = {})
  OBVIOUS
<1>3. a => \A u \in Threads : u # t => teller[u].pc = "idle"
  BY <1>2 DEF St!Others, St!At
<1>4. PICK s : s = [r EXCEPT !.alone = a]
  OBVIOUS
<1>5. s \in Teller /\ Holds(s, proposals)
  BY <1>4 DEF Teller, Holds
<1>6. DOMAIN teller' = Threads /\ teller'[t] = s
  BY <1>2, <1>4 DEF St!Begin
<1>7. ASSUME NEW u \in Threads, u # t PROVE Marked(teller[u], teller'[u])
  <2>1. teller'[u] = IF St!At(u, "idle") THEN St!Idle ELSE [teller[u] EXCEPT !.alone = FALSE]
    BY <1>7 DEF St!Begin
  <2>2. teller[u].pc = "idle" => teller[u] = St!Idle
    BY DEF StoryInv, Requests, Holds
  <2> QED
    BY <2>1, <2>2 DEF Marked, St!At
<1>8. ASSUME NEW u \in Threads PROVE teller'[u] \in Teller /\ Holds(teller'[u], proposals)
  <2>1. CASE u = t
    BY <1>5, <1>6, <2>1
  <2>2. CASE u # t
    <3>1. teller[u] \in Teller /\ Holds(teller[u], proposals)
      BY DEF StoryInv, Requests
    <3>2. ASSUME NEW d, d = [teller[u] EXCEPT !.alone = FALSE], teller[u].pc # "idle"
          PROVE  d \in Teller /\ Holds(d, proposals)
      BY <3>1, <3>2 DEF Teller, Holds
    <3> QED
      BY <1>7, <2>2, <3>1, <3>2 DEF Marked
  <2> QED
    BY <2>1, <2>2
<1>9. teller' \in [Threads -> Teller]
  <2>1. teller' = [u \in Threads |-> teller'[u]]
    BY DEF St!Begin
  <2> QED
    BY <1>8, <2>1
<1>10. Requests' <=> teller' \in [Threads -> Teller] /\ \A u \in Threads : Holds(teller'[u], proposals')
  BY DEF Requests, Holds
<1>11. Alike(r, s) /\ (s.alone => a)
  BY <1>4 DEF Alike, Teller
<1>12. ASSUME NEW u \in Threads, u # t
       PROVE  Alike(teller[u], teller'[u]) /\ (teller[u].pc # "idle" => ~teller'[u].alone)
  <2>1. teller[u] \in Teller
    BY DEF StoryInv, Requests
  <2> QED
    BY <1>7, <1>12, <2>1 DEF Marked, Alike, Teller
<1> QED
  BY <1>1, <1>3, <1>6, <1>8, <1>9, <1>10, <1>11, <1>12

LEMMA ShelfType ==
  ASSUME NEW shelf \in St!Shelf, NEW s \in St!Stories, NEW x \in St!Item \cup {None}
  PROVE  [shelf EXCEPT ![s] = x] \in St!Shelf
BY DEF St!Shelf

LEMMA LiveType == ASSUME NEW shelf \in St!Shelf PROVE St!Live(shelf) \in St!Shelf
BY DEF St!Shelf, St!Live

LEMMA PublishedType ==
  ASSUME NEW people \in St!Cast, NEW proposed PROVE St!Published(people, proposed) \in St!Cast
BY DEF St!Cast, St!Published, St!Standing

\* what a request has done at each step, as the next request it is
LEMMA StepTypes ==
  ASSUME St!StoryAssumption, StoryInv, NEW t \in Threads, St!Step(t)
  PROVE  StoryInv'
<1>1. PICK c : c = teller[t]
  OBVIOUS
<1>2. c \in Teller /\ Holds(c, proposals) /\ teller \in [Threads -> Teller] /\ Requests
  BY <1>1 DEF StoryInv, Requests
<1>3. CASE St!SaveItem(t)
  <2>1. PICK d : d = [c EXCEPT !.pc = "propose"]
    OBVIOUS
  <2>2. c.pc = "save" /\ teller' = [teller EXCEPT ![t] = d] /\ items' = [items EXCEPT ![c.story] = c.item]
        /\ UNCHANGED <<table, proposals, index, cast, patched, failed, asked>>
    BY <1>1, <1>2, <1>3, <2>1 DEF St!SaveItem, St!At
  <2>3. d \in Teller /\ Holds(d, proposals)
    BY <1>2, <2>1, <2>2 DEF Teller, StepsOf, Holds
  <2>4. items' \in St!Shelf
    BY <1>2, <2>2, ShelfType DEF StoryInv, Holds
  <2> QED
    BY <1>2, <2>2, <2>3, <2>4, Moved DEF StoryInv
<1>4. CASE \E p \in St!Persons : St!Propose(t, p)
  <2>1. PICK p \in St!Persons : St!Propose(t, p)
    BY <1>4
  <2>2. PICK d : d = IF p \in proposals THEN St!Idle ELSE [c EXCEPT !.filed = c.filed \cup {p}]
    OBVIOUS
  <2>3. c.pc = "propose" /\ teller' = [teller EXCEPT ![t] = d] /\ proposals' = proposals \cup {p}
        /\ UNCHANGED <<items, table, index, cast, asked>>
    <3>1. c.pc = "propose" /\ proposals' = proposals \cup {p} /\ UNCHANGED <<items, table, index, cast, asked>>
      BY <1>1, <2>1 DEF St!Propose, St!At
    <3>2. teller' = [teller EXCEPT ![t] = IF p \in proposals THEN St!Idle ELSE [c EXCEPT !.filed = @ \cup {p}]]
      BY <1>1, <2>1 DEF St!Propose
    <3> QED
      BY <2>2, <3>1, <3>2
  <2>4. PICK filed \in SUBSET St!Persons : filed = c.filed \cup {p}
    BY <1>2 DEF Teller
  <2>5. d \in Teller /\ Holds(d, proposals')
    <3>1. CASE p \in proposals
      BY <2>2, <3>1, IdleHolds
    <3>2. CASE p \notin proposals
      <4>1. d = [c EXCEPT !.filed = filed]
        BY <2>2, <2>4, <3>2
      <4> QED
        BY <1>2, <2>3, <2>4, <4>1 DEF Teller, Holds
    <3> QED
      BY <3>1, <3>2
  <2>6. patched' \in BOOLEAN /\ failed' \in BOOLEAN
    BY <2>1 DEF St!Propose
  <2>7. Requests' /\ proposals' \subseteq St!Persons
    BY <1>2, <2>3, <2>5, Moved DEF StoryInv
  <2> QED
    BY <2>3, <2>6, <2>7 DEF StoryInv
<1>5. CASE St!ReadIndex(t)
  <2>1. PICK d : d = [c EXCEPT !.pc = "patch", !.index = index]
    OBVIOUS
  <2>2. c.pc = "propose" /\ c.new = c.filed /\ teller' = [teller EXCEPT ![t] = d]
        /\ UNCHANGED <<items, table, proposals, index, cast, patched, failed, asked>>
    BY <1>1, <1>2, <1>5, <2>1 DEF St!ReadIndex, St!At
  <2>3. d \in Teller /\ Holds(d, proposals)
    BY <1>2, <2>1, <2>2 DEF Teller, StepsOf, Holds, StoryInv
  <2> QED
    BY <1>2, <2>2, <2>3, Moved DEF StoryInv
<1>6. CASE St!PatchIndex(t)
  <2>1. PICK d : d = IF c.new = {} THEN St!Idle ELSE [c EXCEPT !.pc = "cast"]
    OBVIOUS
  <2>2. PICK x : x = IF c.task = "delete" THEN None ELSE c.item
    OBVIOUS
  <2>3. c.pc = "patch" /\ teller' = [teller EXCEPT ![t] = d] /\ index' = [c.index EXCEPT ![c.story] = x]
        /\ UNCHANGED <<items, table, proposals, cast, failed, asked>> /\ patched' \in BOOLEAN
    BY <1>1, <1>2, <1>6, <2>1, <2>2 DEF St!PatchIndex, St!At
  <2>4. d \in Teller /\ Holds(d, proposals)
    <3>1. CASE c.new = {}
      BY <2>1, <3>1, IdleHolds
    <3>2. CASE c.new # {}
      BY <1>2, <2>1, <2>3, <3>2 DEF Teller, StepsOf, Holds
    <3> QED
      BY <3>1, <3>2
  <2>5. index' \in St!Shelf
    <3>1. c.index \in St!Shelf /\ c.story \in St!Stories /\ x \in St!Item \cup {None}
      BY <1>2, <2>2, <2>3 DEF Holds
    <3> QED
      BY <2>3, <3>1, ShelfType
  <2> QED
    BY <1>2, <2>3, <2>4, <2>5, Moved DEF StoryInv
<1>7. CASE St!ReadCast(t)
  <2>1. PICK d : d = [c EXCEPT !.pc = "merge", !.cast = cast]
    OBVIOUS
  <2>2. c.pc = "cast" /\ teller' = [teller EXCEPT ![t] = d]
        /\ UNCHANGED <<items, table, proposals, index, cast, patched, failed, asked>>
    BY <1>1, <1>2, <1>7, <2>1 DEF St!ReadCast, St!At
  <2>3. d \in Teller /\ Holds(d, proposals)
    BY <1>2, <2>1, <2>2 DEF Teller, StepsOf, Holds, StoryInv
  <2> QED
    BY <1>2, <2>2, <2>3, Moved DEF StoryInv
<1>8. CASE St!MergeCast(t)
  <2>1. c.pc = "merge" /\ teller' = [teller EXCEPT ![t] = St!Idle]
        /\ cast' = [p \in St!Persons |-> IF p \in c.new /\ c.cast[p] = "absent" THEN "proposed" ELSE c.cast[p]]
        /\ UNCHANGED <<items, table, proposals, index, patched, failed, asked>>
    BY <1>1, <1>2, <1>8 DEF St!MergeCast, St!At
  <2>2. cast' \in St!Cast
    <3>1. c.cast \in St!Cast
      BY <1>2, <2>1 DEF Holds
    <3> QED
      BY <2>1, <3>1 DEF St!Cast, St!Standing
  <2> QED
    BY <1>2, <2>1, <2>2, IdleHolds, Moved DEF StoryInv
<1>9. CASE St!Resolve(t)
  <2>1. PICK people \in St!Cast : people = St!Published(table, proposals)
    BY PublishedType DEF StoryInv
  <2>2. PICK d : d = IF St!LinksResolve(c.index, people) THEN [c EXCEPT !.pc = "replace", !.cast = people] ELSE St!Idle
    OBVIOUS
  <2>3. c.pc = "resolve" /\ teller' = [teller EXCEPT ![t] = d]
        /\ UNCHANGED <<items, table, proposals, index, cast, patched, failed, asked>>
    BY <1>1, <1>2, <1>9, <2>1, <2>2 DEF St!Resolve, St!At
  <2>4. d \in Teller /\ Holds(d, proposals)
    <3>1. CASE St!LinksResolve(c.index, people)
      BY <1>2, <2>2, <2>3, <3>1 DEF Teller, StepsOf, Holds
    <3>2. CASE ~St!LinksResolve(c.index, people)
      BY <2>2, <3>2, IdleHolds
    <3> QED
      BY <3>1, <3>2
  <2> QED
    BY <1>2, <2>3, <2>4, Moved DEF StoryInv
<1>10. CASE St!ReplaceIndex(t)
  <2>1. PICK d : d = [c EXCEPT !.pc = "replace cast"]
    OBVIOUS
  <2>2. c.pc = "replace" /\ teller' = [teller EXCEPT ![t] = d] /\ index' = c.index /\ patched' \in BOOLEAN
        /\ UNCHANGED <<items, table, proposals, cast, failed, asked>>
    BY <1>1, <1>2, <1>10, <2>1 DEF St!ReplaceIndex, St!At
  <2>3. d \in Teller /\ Holds(d, proposals) /\ index' \in St!Shelf
    BY <1>2, <2>1, <2>2 DEF Teller, StepsOf, Holds
  <2> QED
    BY <1>2, <2>2, <2>3, Moved DEF StoryInv
<1>11. CASE St!ReplaceCast(t)
  <2>1. c.pc = "replace cast" /\ teller' = [teller EXCEPT ![t] = St!Idle] /\ cast' = c.cast
        /\ UNCHANGED <<items, table, proposals, index, patched, failed, asked>>
    BY <1>1, <1>2, <1>11 DEF St!ReplaceCast, St!At
  <2>2. cast' \in St!Cast
    BY <1>2, <2>1 DEF Holds
  <2> QED
    BY <1>2, <2>1, <2>2, IdleHolds, Moved DEF StoryInv
<1> QED
  BY <1>3, <1>4, <1>5, <1>6, <1>7, <1>8, <1>9, <1>10, <1>11 DEF St!Step

\* what a request begins with: its item and the people it will add, or what a publish read
Begins(r) ==
    /\ r \in Teller /\ Holds(r, {}) /\ r.pc \in {"save", "resolve"} /\ r.filed = {}
    /\ r.pc = "resolve" => r.index = St!Live(items) /\ r.new = {}
    /\ r.pc = "save" /\ r.item.status # "deleted" => r.item.links \subseteq St!In(cast) \cup r.new
    /\ r.pc = "save" /\ r.item.status = "deleted" =>
         r.new = {} /\ \E s \in St!Stories : items[s] # None /\ r.item.links = items[s].links
Requested(t) == \/ \E tale \in Tales, who \in Authors :
                     St!Retell(t, tale, who) \/ \E status \in {"draft", "catalogued"} : St!TellNew(t, tale, who, status)
                \/ \E s \in St!Stories : St!Delete(t, s)
                \/ St!Publish(t)
LEMMA AskedFor ==
  ASSUME St!StoryAssumption, StoryInv, NEW t \in Threads, Requested(t)
  PROVE  /\ \E r : Begins(r) /\ St!Begin(t, r)
         /\ teller[t].pc = "idle" /\ UNCHANGED <<items, table, proposals, index, cast, patched, failed>>
<1>1. ASSUME NEW tale \in Tales, NEW who, NEW s \in St!Stories, NEW status \in {"draft", "catalogued"},
             St!Tell(t, tale, who, s, status)
      PROVE  /\ \E r : Begins(r) /\ St!Begin(t, r)
             /\ teller[t].pc = "idle" /\ UNCHANGED <<items, table, proposals, index, cast, patched, failed>>
  <2>1. PICK built : built = St!BuiltStory(cast, St!In(cast) \cup proposals, tale, who)
    OBVIOUS
  <2>2. Grounded(built, cast)
    BY <2>1, BuiltIs DEF StoryInv
  <2>3. PICK r : r = [St!Idle EXCEPT !.pc = "save", !.task = "save", !.story = s, !.new = built.new,
                                  !.item = [status |-> status, links |-> built.links]]
    OBVIOUS
  <2>4. St!Begin(t, r) /\ teller[t].pc = "idle"
    BY <1>1, <2>1, <2>3 DEF St!Tell, St!At
  <2>5. PICK links \in SUBSET St!Persons : links = built.links
    BY <2>2 DEF Grounded
  <2>6. PICK new \in SUBSET St!Persons : new = built.new
    BY <2>2 DEF Grounded
  <2>7. PICK item \in St!Item : item = [status |-> status, links |-> links]
    BY DEF St!Item
  <2>8. r = [pc |-> "save", task |-> "save", story |-> s, item |-> item, new |-> new, filed |-> {},
             index |-> None, cast |-> None, alone |-> TRUE]
    BY <2>3, <2>5, <2>6, <2>7 DEF St!Idle
  <2>9. r \in Teller
    BY <2>8 DEF Teller, StepsOf, St!Tasks
  <2>10. Holds(r, {})
    BY <2>7, <2>8 DEF Holds
  <2>11. links \subseteq St!In(cast) \cup new
    BY <2>2, <2>5, <2>6 DEF Grounded
  <2>12. Begins(r)
    BY <2>7, <2>8, <2>9, <2>10, <2>11 DEF Begins
  <2> QED
    BY <1>1, <2>4, <2>12 DEF St!Tell
<1>2. ASSUME NEW s \in St!Stories, St!Delete(t, s)
      PROVE  /\ \E r : Begins(r) /\ St!Begin(t, r)
             /\ teller[t].pc = "idle" /\ UNCHANGED <<items, table, proposals, index, cast, patched, failed>>
  <2>1. PICK r : r = [St!Idle EXCEPT !.pc = "save", !.task = "delete", !.story = s,
                                  !.item = [items[s] EXCEPT !.status = "deleted"]]
    OBVIOUS
  <2>2. St!Begin(t, r) /\ teller[t].pc = "idle" /\ items[s] # None
    BY <1>2, <2>1 DEF St!Delete, St!At
  <2>3. PICK old \in St!Item : old = items[s]
    BY <2>2 DEF StoryInv, St!Shelf
  <2>4. PICK item \in St!Item : /\ item = [items[s] EXCEPT !.status = "deleted"]
                            /\ item.status = "deleted" /\ item.links = items[s].links
    <3>1. [old EXCEPT !.status = "deleted"] \in St!Item
      BY DEF St!Item
    <3>2. [old EXCEPT !.status = "deleted"].status = "deleted" /\ [old EXCEPT !.status = "deleted"].links = old.links
      BY DEF St!Item
    <3> QED
      BY <2>3, <3>1, <3>2
  <2>5. r = [pc |-> "save", task |-> "delete", story |-> s, item |-> item, new |-> {}, filed |-> {},
             index |-> None, cast |-> None, alone |-> TRUE]
    BY <2>1, <2>4 DEF St!Idle
  <2>6. r \in Teller
    BY <2>5 DEF Teller, StepsOf, St!Tasks
  <2>7. Holds(r, {})
    BY <2>4, <2>5 DEF Holds
  <2>8. Begins(r)
    BY <2>2, <2>4, <2>5, <2>6, <2>7 DEF Begins
  <2> QED
    BY <1>2, <2>2, <2>8 DEF St!Delete
<1>3. ASSUME St!Publish(t)
      PROVE  /\ \E r : Begins(r) /\ St!Begin(t, r)
             /\ teller[t].pc = "idle" /\ UNCHANGED <<items, table, proposals, index, cast, patched, failed>>
  <2>1. PICK shelf \in St!Shelf : shelf = St!Live(items)
    BY LiveType DEF StoryInv
  <2>2. PICK r : r = [St!Idle EXCEPT !.pc = "resolve", !.index = shelf]
    OBVIOUS
  <2>3. /\ r \in Teller /\ Holds(r, {})
        /\ r.pc = "resolve" /\ r.filed = {} /\ r.new = {} /\ r.index = shelf
    BY <2>2 DEF St!Idle, Teller, StepsOf, St!Tasks, Holds
  <2>4. Begins(r)
    BY <2>1, <2>3 DEF Begins
  <2>5. St!Begin(t, r) /\ teller[t].pc = "idle"
    BY <1>3, <2>1, <2>2 DEF St!Publish, St!At
  <2> QED
    BY <1>3, <2>4, <2>5 DEF St!Publish
<1>4. ASSUME NEW tale \in Tales, NEW who, St!Retell(t, tale, who)
      PROVE  \E s \in St!Stories : St!Tell(t, tale, who, s, "catalogued")
  BY <1>4 DEF St!Retell
<1>5. ASSUME NEW tale \in Tales, NEW who, NEW status, St!TellNew(t, tale, who, status)
      PROVE  \E s \in St!Stories : St!Tell(t, tale, who, s, status)
  BY <1>5 DEF St!TellNew, St!NextStory, St!Unheld
<1>6. CASE \E tale \in Tales, who \in Authors :
             St!Retell(t, tale, who) \/ \E status \in {"draft", "catalogued"} : St!TellNew(t, tale, who, status)
  <2>1. PICK tale \in Tales, who \in Authors :
             St!Retell(t, tale, who) \/ \E status \in {"draft", "catalogued"} : St!TellNew(t, tale, who, status)
    BY <1>6
  <2>2. PICK s \in St!Stories, status \in {"draft", "catalogued"} : St!Tell(t, tale, who, s, status)
    BY <1>4, <1>5, <2>1
  <2> QED
    BY <1>1, <2>2
<1> QED
  BY <1>2, <1>3, <1>6 DEF Requested

LEMMA StoryInitHolds == St!StoryAssumption /\ St!Init => StoryInv
<1> SUFFICES ASSUME St!StoryAssumption, St!Init PROVE StoryInv
  OBVIOUS
<1>1. items \in St!Shelf /\ index \in St!Shelf
  BY DEF St!Init, St!Shelf
<1>2. table \in St!Cast /\ cast \in St!Cast
  BY DEF St!Init, St!Cast, St!Standing
<1>3. Requests
  BY IdleHolds DEF St!Init, Requests
<1>4. asked \in 0..MaxStoryRequests /\ proposals \subseteq St!Persons
  BY DEF St!Init, St!StoryAssumption
<1> QED
  BY <1>1, <1>2, <1>3, <1>4 DEF St!Init, StoryInv

LEMMA StoryTypesHold ==
  ASSUME St!StoryAssumption
  PROVE  StoryInv /\ [St!Next]_St!vars => StoryInv'
<1> SUFFICES ASSUME StoryInv, [St!Next]_St!vars PROVE StoryInv'
  OBVIOUS
<1>1. ASSUME NEW t \in Threads, Requested(t) PROVE StoryInv'
  <2>1. PICK r : Begins(r) /\ St!Begin(t, r)
    BY <1>1, AskedFor
  <2>2. /\ r \in Teller /\ Holds(r, proposals) /\ r.pc # "idle"
        /\ UNCHANGED <<items, table, proposals, index, cast, patched, failed>>
    BY <1>1, <2>1, AskedFor, HoldsOn DEF Begins
  <2>3. Requests' /\ asked' \in 0..MaxStoryRequests
    BY <2>1, <2>2, BegunBy
  <2> QED
    BY <2>2, <2>3 DEF StoryInv
<1>2. ASSUME NEW p \in St!Persons, St!Remove(p) PROVE StoryInv'
  <2>1. table' \in St!Cast
    BY <1>2 DEF St!Remove, StoryInv, St!Cast, St!Standing
  <2>2. Requests'
    BY <1>2 DEF St!Remove, StoryInv, Requests, Holds
  <2> QED
    BY <1>2, <2>1, <2>2 DEF St!Remove, StoryInv
<1>3. ASSUME St!Die PROVE StoryInv'
  <2>1. Requests'
    BY <1>3, IdleHolds DEF St!Die, Requests
  <2> QED
    BY <1>3, <2>1 DEF St!Die, StoryInv
<1>4. ASSUME UNCHANGED St!vars PROVE StoryInv'
  <2>1. Requests'
    BY <1>4 DEF St!vars, StoryInv, Requests, Holds
  <2> QED
    BY <1>4, <2>1 DEF St!vars, StoryInv
<1> QED
  BY <1>1, <1>2, <1>3, <1>4, StepTypes DEF St!Next, Requested

\* The archive, the projection and what every request holds keep their types, whatever a tale
\* names and however requests overlap or are cut short.
THEOREM StoryTypeCorrect ==
  ASSUME St!StoryAssumption
  PROVE  St!Init /\ [][St!Next]_St!vars => []St!TypeOK
<1>1. StoryInv => St!TypeOK
  BY DEF StoryInv, Requests, Teller, St!TypeOK
<1> QED
  BY <1>1, StoryInitHolds, StoryTypesHold, PTL

-----------------------------------------------------------------------------
(* The index as it is patched, and as it is rebuilt.                       *)

Dirty(c) == c.pc \in {"propose", "patch"}
\* a request that runs alone has read what is there, and a save of its has patched into the
\* index what it saved
Current(c, served, saved, overlapped) ==
    c.alone =>
      /\ Dirty(c) /\ ~overlapped =>
           [served EXCEPT ![c.story] = IF c.task = "delete" THEN None ELSE c.item] = St!Live(saved)
      /\ c.pc = "patch" => c.index = served
      /\ c.pc \in {"resolve", "replace"} => c.index = St!Live(saved)
OneAlone == \A t, u \in Threads : t # u /\ teller[t].pc # "idle" /\ teller[u].pc # "idle" => ~teller[t].alone
Settled == ~patched /\ (\A t \in Threads : ~Dirty(teller[t])) => index = St!Live(items)
Rebuilt ==
    /\ StoryInv /\ OneAlone /\ Settled
    /\ \A t \in Threads : Current(teller[t], index, items, patched)

\* nothing is claimed of requests that run beside another
LEMMA BesideCurrent ==
  ASSUME OneAlone, NEW t \in Threads, teller[t].pc # "idle", NEW u \in Threads, u # t,
         NEW served, NEW saved, NEW overlapped
  PROVE  Current(teller[u], served, saved, overlapped)
BY DEF OneAlone, Current, Dirty

LEMMA OneAloneStep ==
  ASSUME StoryInv, OneAlone, NEW t \in Threads, teller[t].pc # "idle", NEW d, teller' = [teller EXCEPT ![t] = d],
         d.pc = "idle" \/ (d.alone => teller[t].alone)
  PROVE  OneAlone' /\ teller'[t] = d /\ \A u \in Threads : u # t => teller'[u] = teller[u]
<1>1. teller'[t] = d /\ \A u \in Threads : u # t => teller'[u] = teller[u]
  BY DEF StoryInv, Requests
<1> QED
  BY <1>1 DEF OneAlone

\* a step of one request, whatever it does to the items and the index
LEMMA OthersCurrent ==
  ASSUME Rebuilt, StoryInv', NEW t \in Threads, teller[t].pc # "idle", NEW d, teller' = [teller EXCEPT ![t] = d],
         d.pc = "idle" \/ (d.alone => teller[t].alone),
         Current(d, index', items', patched'), Settled'
  PROVE  Rebuilt'
<1>1. OneAlone' /\ teller'[t] = d /\ \A u \in Threads : u # t => teller'[u] = teller[u]
  BY OneAloneStep DEF Rebuilt
<1>2. ASSUME NEW u \in Threads PROVE Current(teller'[u], index', items', patched')
  <2>1. CASE u = t
    BY <1>1, <2>1
  <2>2. CASE u # t
    BY <1>1, <2>2, BesideCurrent DEF Rebuilt
  <2> QED
    BY <2>1, <2>2
<1>3. Rebuilt' <=> /\ StoryInv' /\ OneAlone' /\ Settled'
                   /\ \A u \in Threads : Current(teller'[u], index', items', patched')
  BY DEF Rebuilt, Current, Dirty, St!Live
<1> QED
  BY <1>1, <1>2, <1>3

LEMMA SavedIsLive ==
  ASSUME NEW shelf \in St!Shelf, NEW s \in St!Stories, NEW x \in St!Item
  PROVE  St!Live([shelf EXCEPT ![s] = x]) = [St!Live(shelf) EXCEPT ![s] = IF x.status = "deleted" THEN None ELSE x]
<1>1. [shelf EXCEPT ![s] = x] = [r \in St!Stories |-> IF r = s THEN x ELSE shelf[r]]
  BY DEF St!Shelf
<1> QED
  BY <1>1 DEF St!Live

LEMMA RebuiltStep ==
  ASSUME St!StoryAssumption, Rebuilt, NEW t \in Threads, St!Step(t)
  PROVE  Rebuilt'
<1>1. PICK c : c = teller[t]
  OBVIOUS
<1>2. /\ c \in Teller /\ Holds(c, proposals) /\ teller \in [Threads -> Teller]
      /\ Current(c, index, items, patched) /\ StoryInv /\ OneAlone /\ Settled
  BY <1>1 DEF Rebuilt, StoryInv, Requests
<1>3. StoryInv'
  BY <1>2, StepTypes
\* requests that leave nothing dirty
<1>4. ASSUME NEW d, teller' = [teller EXCEPT ![t] = d], Dirty(c) => Dirty(d), UNCHANGED <<items, index, patched>>
      PROVE  Settled'
  <2>1. \A u \in Threads : Dirty(teller[u]) => Dirty(teller'[u])
    BY <1>1, <1>2, <1>4
  <2>2. CASE \E u \in Threads : Dirty(teller[u])
    BY <2>1, <2>2 DEF Settled, Dirty
  <2>3. CASE \A u \in Threads : ~Dirty(teller[u])
    BY <1>2, <1>4, <2>3 DEF Settled, St!Live
  <2> QED
    BY <2>2, <2>3
<1>5. CASE St!SaveItem(t)
  <2>1. PICK d : d = [c EXCEPT !.pc = "propose"]
    OBVIOUS
  <2>2. c.pc = "save" /\ teller' = [teller EXCEPT ![t] = d] /\ items' = [items EXCEPT ![c.story] = c.item]
        /\ UNCHANGED <<index, patched>>
    BY <1>1, <1>2, <1>5, <2>1 DEF St!SaveItem, St!At
  <2>3. d.pc = "propose" /\ d.alone = c.alone /\ d.story = c.story /\ d.item = c.item /\ d.task = c.task
    BY <1>2, <2>1 DEF Teller
  <2>4. Settled'
    <3>1. teller'[t] = d
      BY <1>2, <2>2
    <3> QED
      BY <2>3, <3>1 DEF Settled, Dirty
  <2>5. Current(d, index', items', patched')
    <3>1. SUFFICES ASSUME c.alone, ~patched
                   PROVE  [index EXCEPT ![c.story] = IF c.task = "delete" THEN None ELSE c.item] = St!Live(items')
      BY <2>2, <2>3 DEF Current
    <3>2. \A u \in Threads : ~Dirty(teller[u])
      BY <1>1, <1>2, <2>2, <3>1 DEF OneAlone, Dirty
    <3>3. index = St!Live(items)
      BY <1>2, <3>1, <3>2 DEF Settled
    <3>4. c.story \in St!Stories /\ c.item \in St!Item /\ (c.task = "delete" <=> c.item.status = "deleted")
      BY <1>2, <2>2 DEF Holds
    <3>5. St!Live(items') = [St!Live(items) EXCEPT ![c.story] = IF c.item.status = "deleted" THEN None ELSE c.item]
      <4>1. items \in St!Shelf
        BY <1>2 DEF StoryInv
      <4>2. St!Live([items EXCEPT ![c.story] = c.item])
              = [St!Live(items) EXCEPT ![c.story] = IF c.item.status = "deleted" THEN None ELSE c.item]
        BY <3>4, <4>1, SavedIsLive
      <4> QED
        BY <2>2, <4>2
    <3> QED
      BY <3>3, <3>4, <3>5
  <2> QED
    BY <1>1, <1>3, <2>2, <2>3, <2>4, <2>5, OthersCurrent
<1>6. CASE \E p \in St!Persons : St!Propose(t, p)
  <2>1. PICK p \in St!Persons : St!Propose(t, p)
    BY <1>6
  <2>2. c.pc = "propose" /\ UNCHANGED <<items, index>>
    BY <1>1, <2>1 DEF St!Propose, St!At
  <2>3. CASE p \in proposals
    <3>1. teller' = [teller EXCEPT ![t] = St!Idle] /\ patched' = TRUE
      BY <2>1, <2>3 DEF St!Propose
    <3>2. Settled' /\ St!Idle.pc = "idle"
      BY <3>1, IdleHolds DEF Settled
    <3>3. Current(St!Idle, index', items', patched')
      BY <3>2 DEF Current, Dirty
    <3> QED
      BY <1>1, <1>3, <2>2, <3>1, <3>2, <3>3, OthersCurrent
  <2>4. CASE p \notin proposals
    <3>1. PICK d : d = [c EXCEPT !.filed = c.filed \cup {p}]
      OBVIOUS
    <3>2. teller' = [teller EXCEPT ![t] = d] /\ patched' = patched
      BY <1>1, <1>2, <2>1, <2>4, <3>1 DEF St!Propose, StoryInv
    <3>3. d.pc = "propose" /\ d.alone = c.alone /\ d.story = c.story /\ d.item = c.item /\ d.task = c.task
      BY <1>2, <2>2, <3>1 DEF Teller
    <3>4. Settled'
      BY <1>4, <2>2, <3>2, <3>3 DEF Dirty
    <3>5. Current(d, index', items', patched')
      BY <1>2, <2>2, <3>2, <3>3 DEF Current, Dirty
    <3> QED
      BY <1>1, <1>3, <2>2, <3>2, <3>3, <3>4, <3>5, OthersCurrent
  <2> QED
    BY <2>3, <2>4
<1>7. CASE St!ReadIndex(t)
  <2>1. PICK d : d = [c EXCEPT !.pc = "patch", !.index = index]
    OBVIOUS
  <2>2. c.pc = "propose" /\ teller' = [teller EXCEPT ![t] = d] /\ UNCHANGED <<items, index, patched>>
    BY <1>1, <1>2, <1>7, <2>1 DEF St!ReadIndex, St!At
  <2>3. d.pc = "patch" /\ d.alone = c.alone /\ d.story = c.story /\ d.item = c.item /\ d.task = c.task
        /\ d.index = index
    BY <1>2, <2>1 DEF Teller
  <2>4. Settled'
    BY <1>4, <2>2, <2>3 DEF Dirty
  <2>5. Current(d, index', items', patched')
    BY <1>2, <2>2, <2>3 DEF Current, Dirty
  <2> QED
    BY <1>1, <1>3, <2>2, <2>3, <2>4, <2>5, OthersCurrent
<1>8. CASE St!PatchIndex(t)
  <2>1. PICK d : d = IF c.new = {} THEN St!Idle ELSE [c EXCEPT !.pc = "cast"]
    OBVIOUS
  <2>2. /\ c.pc = "patch" /\ teller' = [teller EXCEPT ![t] = d]
        /\ index' = [c.index EXCEPT ![c.story] = IF c.task = "delete" THEN None ELSE c.item]
        /\ items' = items /\ patched' = (patched \/ ~c.alone)
    BY <1>1, <1>2, <1>8, <2>1 DEF St!PatchIndex, St!At
  <2>3. d.pc \in {"idle", "cast"} /\ (d.pc = "idle" \/ d.alone = c.alone)
    BY <1>2, <2>1, IdleHolds DEF Teller
  <2>4. Settled'
    <3>1. SUFFICES ASSUME ~patched, c.alone PROVE index' = St!Live(items)
      BY <2>2 DEF Settled, St!Live
    <3> QED
      BY <1>2, <2>2, <3>1 DEF Current, Dirty
  <2>5. Current(d, index', items', patched')
    BY <2>3 DEF Current, Dirty
  <2> QED
    BY <1>1, <1>3, <2>2, <2>3, <2>4, <2>5, OthersCurrent
<1>9. CASE St!ReadCast(t)
  <2>1. PICK d : d = [c EXCEPT !.pc = "merge", !.cast = cast]
    OBVIOUS
  <2>2. c.pc = "cast" /\ teller' = [teller EXCEPT ![t] = d] /\ UNCHANGED <<items, index, patched>>
    BY <1>1, <1>2, <1>9, <2>1 DEF St!ReadCast, St!At
  <2>3. d.pc = "merge" /\ d.alone = c.alone
    BY <1>2, <2>1 DEF Teller
  <2>4. Settled'
    BY <1>4, <2>2 DEF Dirty
  <2>5. Current(d, index', items', patched')
    BY <2>3 DEF Current, Dirty
  <2> QED
    BY <1>1, <1>3, <2>2, <2>3, <2>4, <2>5, OthersCurrent
<1>10. CASE St!MergeCast(t) \/ St!ReplaceCast(t)
  <2>1. /\ c.pc \in {"merge", "replace cast"} /\ teller' = [teller EXCEPT ![t] = St!Idle]
        /\ UNCHANGED <<items, index, patched>>
    BY <1>1, <1>10 DEF St!MergeCast, St!ReplaceCast, St!At
  <2>2. Settled' /\ St!Idle.pc = "idle"
    BY <1>4, <2>1, IdleHolds DEF Dirty
  <2>3. Current(St!Idle, index', items', patched')
    BY <2>2 DEF Current, Dirty
  <2> QED
    BY <1>1, <1>3, <2>1, <2>2, <2>3, OthersCurrent
<1>11. CASE St!Resolve(t)
  <2>1. PICK people : people = St!Published(table, proposals)
    OBVIOUS
  <2>2. PICK d : d = IF St!LinksResolve(c.index, people) THEN [c EXCEPT !.pc = "replace", !.cast = people] ELSE St!Idle
    OBVIOUS
  <2>3. c.pc = "resolve" /\ teller' = [teller EXCEPT ![t] = d] /\ UNCHANGED <<items, index, patched>>
    BY <1>1, <1>2, <1>11, <2>1, <2>2 DEF St!Resolve, St!At
  <2>4. \/ d.pc = "idle"
        \/ d.pc = "replace" /\ d.alone = c.alone /\ d.index = c.index
    BY <1>2, <2>2, IdleHolds DEF Teller
  <2>5. Settled'
    BY <1>4, <2>3 DEF Dirty
  <2>6. Current(d, index', items', patched')
    BY <1>2, <2>3, <2>4 DEF Current, Dirty
  <2> QED
    BY <1>1, <1>3, <2>3, <2>4, <2>5, <2>6, OthersCurrent
<1>12. CASE St!ReplaceIndex(t)
  <2>1. PICK d : d = [c EXCEPT !.pc = "replace cast"]
    OBVIOUS
  <2>2. c.pc = "replace" /\ teller' = [teller EXCEPT ![t] = d] /\ index' = c.index /\ patched' = ~c.alone
        /\ items' = items
    BY <1>1, <1>2, <1>12, <2>1 DEF St!ReplaceIndex, St!At
  <2>3. d.pc = "replace cast" /\ d.alone = c.alone
    BY <1>2, <2>1 DEF Teller
  <2>4. Settled'
    <3>1. SUFFICES ASSUME c.alone PROVE index' = St!Live(items)
      BY <2>2 DEF Settled, St!Live
    <3> QED
      BY <1>2, <2>2, <3>1 DEF Current
  <2>5. Current(d, index', items', patched')
    BY <2>3 DEF Current, Dirty
  <2> QED
    BY <1>1, <1>3, <2>2, <2>3, <2>4, <2>5, OthersCurrent
<1> QED
  BY <1>5, <1>6, <1>7, <1>8, <1>9, <1>10, <1>11, <1>12 DEF St!Step

LEMMA RebuiltInvariant ==
  ASSUME St!StoryAssumption
  PROVE  St!Init /\ [][St!Next]_St!vars => []Rebuilt
<1>1. ASSUME St!Init PROVE Rebuilt
  <2>1. \A t \in Threads : teller[t].pc = "idle"
    BY <1>1, IdleHolds DEF St!Init
  <2>2. OneAlone /\ \A t \in Threads : Current(teller[t], index, items, patched)
    BY <2>1 DEF OneAlone, Current, Dirty
  <2>3. index = St!Live(items)
    BY <1>1 DEF St!Init, St!Live
  <2> QED
    BY <1>1, <2>2, <2>3, StoryInitHolds DEF Rebuilt, Settled
<1>2. ASSUME Rebuilt, NEW t \in Threads, Requested(t) PROVE Rebuilt'
  <2>1. PICK r : Begins(r) /\ St!Begin(t, r)
    BY <1>2, AskedFor DEF Rebuilt
  <2>2. /\ r \in Teller /\ Holds(r, proposals) /\ r.pc \in {"save", "resolve"} /\ teller[t].pc = "idle"
        /\ UNCHANGED <<items, table, proposals, index, cast, patched, failed>>
        /\ (r.pc = "resolve" => r.index = St!Live(items))
    BY <1>2, <2>1, AskedFor, HoldsOn DEF Begins, Rebuilt
  <2>3. StoryInv'
    <3>1. Requests' /\ asked' \in 0..MaxStoryRequests
      BY <1>2, <2>1, <2>2, BegunBy DEF Rebuilt
    <3> QED
      BY <1>2, <2>2, <3>1 DEF StoryInv, Rebuilt
  <2>4. teller'[t].alone => \A u \in Threads : u # t => teller[u].pc = "idle"
    BY <1>2, <2>1, <2>2, BegunBy DEF Rebuilt
  <2>5. teller'[t].pc = r.pc /\ teller'[t].index = r.index
    BY <1>2, <2>1, <2>2, BegunBy DEF Rebuilt, Alike
  <2>6. ASSUME NEW u \in Threads, u # t
        PROVE  teller'[u].pc = teller[u].pc /\ (teller[u].pc # "idle" => ~teller'[u].alone)
    BY <1>2, <2>1, <2>2, <2>6, BegunBy DEF Rebuilt, Alike
  <2>7. OneAlone'
    <3>1. ASSUME NEW u \in Threads, NEW v \in Threads, u # v, teller'[u].pc # "idle", teller'[v].pc # "idle"
          PROVE  ~teller'[u].alone
      <4>1. CASE u = t
        <5>1. teller[v].pc # "idle"
          BY <2>6, <3>1, <4>1
        <5> QED
          BY <2>4, <3>1, <4>1, <5>1
      <4>2. CASE u # t
        BY <2>6, <3>1, <4>2
      <4> QED
        BY <4>1, <4>2
    <3> QED
      BY <3>1 DEF OneAlone
  <2>8. Settled'
    <3>1. \A u \in Threads : Dirty(teller'[u]) <=> Dirty(teller[u])
      BY <2>2, <2>5, <2>6 DEF Dirty
    <3>2. (\A u \in Threads : ~Dirty(teller'[u])) <=> (\A u \in Threads : ~Dirty(teller[u]))
      BY <3>1
    <3>3. Settled
      BY <1>2 DEF Rebuilt
    <3> QED
      BY <2>2, <3>2, <3>3 DEF Settled, Dirty, St!Live
  <2>9. ASSUME NEW u \in Threads PROVE Current(teller'[u], index', items', patched')
    <3>1. CASE u = t
      BY <2>2, <2>5, <3>1 DEF Current, Dirty
    <3>2. CASE u # t
      BY <2>6, <3>2 DEF Current, Dirty
    <3> QED
      BY <3>1, <3>2
  <2>10. Rebuilt' <=> /\ StoryInv' /\ OneAlone' /\ Settled'
                      /\ \A u \in Threads : Current(teller'[u], index', items', patched')
    BY DEF Rebuilt, Current, Dirty, St!Live
  <2> QED
    BY <2>3, <2>7, <2>8, <2>9, <2>10
<1>3. ASSUME Rebuilt, NEW p \in St!Persons, St!Remove(p) PROVE Rebuilt'
  <2>1. UNCHANGED <<items, index, teller, patched>>
    BY <1>3 DEF St!Remove
  <2>2. StoryInv'
    BY <1>3, StoryTypesHold DEF Rebuilt, St!Next
  <2> QED
    BY <1>3, <2>1, <2>2 DEF Rebuilt, OneAlone, Settled, Current, Dirty, St!Live
<1>4. ASSUME Rebuilt, St!Die PROVE Rebuilt'
  <2>1. StoryInv'
    BY <1>4, StoryTypesHold DEF Rebuilt, St!Next
  <2>2. \A t \in Threads : teller'[t].pc = "idle"
    BY <1>4, IdleHolds DEF St!Die
  <2>3. patched'
    BY <1>4 DEF St!Die
  <2> QED
    BY <2>1, <2>2, <2>3 DEF Rebuilt, OneAlone, Settled, Current, Dirty
<1>5. ASSUME Rebuilt, UNCHANGED St!vars PROVE Rebuilt'
  <2>1. StoryInv'
    BY <1>5, StoryTypesHold DEF Rebuilt
  <2> QED
    BY <1>5, <2>1 DEF St!vars, Rebuilt, OneAlone, Settled, Current, Dirty, St!Live
<1>6. Rebuilt /\ [St!Next]_St!vars => Rebuilt'
  BY <1>2, <1>3, <1>4, <1>5, RebuiltStep DEF St!Next, Requested
<1> QED
  BY <1>1, <1>6, PTL

\* The index as the requests have patched it is the one a rebuild would serve (server.py,
\* projection.py), for any tales and threads, as long as no two requests overlapped and none
\* was cut short since the last whole publish.
THEOREM PatchedIsRebuilt ==
  ASSUME St!StoryAssumption
  PROVE  St!Init /\ [][St!Next]_St!vars => []St!PatchedAsRebuilt
<1>1. Rebuilt => St!PatchedAsRebuilt
  BY DEF Rebuilt, Settled, Dirty, St!PatchedAsRebuilt, St!Quiet, St!At
<1> QED
  BY <1>1, RebuiltInvariant, PTL

-----------------------------------------------------------------------------
(* The people that links name.                                             *)

\* a person who is in the table from the start, has been proposed, or is about to be
ToBeFiled(p) == \E t \in Threads : p \in teller[t].new \ teller[t].filed
Known(p) == failed \/ p \in Table \/ p \in proposals \/ ToBeFiled(p)
Knows(c) ==
    /\ c.pc \in {"save", "propose", "patch"} => \A p \in c.item.links : Known(p)
    /\ c.pc \in {"merge", "replace", "replace cast"} => \A p \in St!In(c.cast) : Known(p)
KnownInv ==
    /\ StoryInv
    /\ St!In(table) \subseteq Table
    /\ \A p \in St!In(cast) : Known(p)
    /\ \A s \in St!Stories : items[s] # None => \A p \in items[s].links : Known(p)
    /\ \A t \in Threads : Knows(teller[t])

\* a person once known stays so, and what is said of a request by its fields stays with them
LEMMA KnownInvPrimed ==
  ASSUME StoryInv', St!In(table') \subseteq Table, NEW t \in Threads, teller' \in [Threads -> Teller],
         \A p : Known(p) => Known(p)',
         \A p \in St!In(cast') : Known(p)', KnownInv,
         \A s \in St!Stories : items'[s] # None => items'[s] = items[s] \/ \A p \in items'[s].links : Known(p)',
         \A u \in Threads : u # t => Alike(teller[u], teller'[u]) \/ teller'[u] = teller[u],
         teller'[t].pc \in {"save", "propose", "patch"} => \A p \in teller'[t].item.links : Known(p)',
         teller'[t].pc \in {"merge", "replace", "replace cast"} => \A p \in St!In(teller'[t].cast) : Known(p)'
  PROVE  KnownInv'
<1>1. \A s \in St!Stories : items'[s] # None => \A p \in items'[s].links : Known(p)'
  BY DEF KnownInv
<1>2. ASSUME NEW u \in Threads PROVE Knows(teller[u])'
  <2>1. CASE u = t
    BY <2>1 DEF Knows, St!In
  <2>2. CASE u # t
    <3>1. Knows(teller[u])
      BY DEF KnownInv
    <3>2. teller'[u].pc = teller[u].pc /\ teller'[u].item = teller[u].item /\ teller'[u].cast = teller[u].cast
      BY <2>2 DEF Alike
    <3> QED
      BY <3>1, <3>2 DEF Knows, St!In
  <2> QED
    BY <2>1, <2>2
<1>3. KnownInv' <=> /\ StoryInv' /\ St!In(table') \subseteq Table
                    /\ \A p \in St!In(cast') : Known(p)'
                    /\ \A s \in St!Stories : items'[s] # None => \A p \in items'[s].links : Known(p)'
                    /\ \A u \in Threads : Knows(teller[u])'
  BY DEF KnownInv, St!In
<1> QED
  BY <1>1, <1>2, <1>3

LEMMA StepKnown ==
  ASSUME St!StoryAssumption, StoryInv, NEW t \in Threads, St!Step(t), NEW p, Known(p)
  PROVE  Known(p)'
<1>1. PICK c : c = teller[t]
  OBVIOUS
<1>2. c \in Teller /\ Holds(c, proposals) /\ teller \in [Threads -> Teller]
  BY <1>1 DEF StoryInv, Requests
<1>3. proposals \subseteq proposals' /\ (failed => failed')
  <2>1. ASSUME NEW q \in St!Persons, St!Propose(t, q) PROVE proposals \subseteq proposals' /\ (failed => failed')
    BY <2>1 DEF St!Propose
  <2>2. CASE ~\E q \in St!Persons : St!Propose(t, q)
    <3>1. proposals' = proposals /\ failed' = failed
      BY <2>2 DEF St!Step, St!SaveItem, St!ReadIndex, St!PatchIndex, St!ReadCast, St!MergeCast, St!Resolve,
                   St!ReplaceIndex, St!ReplaceCast
    <3> QED
      BY <3>1
  <2> QED
    BY <2>1, <2>2
<1>4. ASSUME ~failed', p \in c.new \ c.filed PROVE p \in proposals' \/ p \in teller'[t].new \ teller'[t].filed
  <2>1. c.pc \in {"save", "propose"}
    BY <1>2, <1>4 DEF Holds
  <2>2. CASE St!SaveItem(t)
    <3>1. teller' = [teller EXCEPT ![t] = [c EXCEPT !.pc = "propose"]]
      BY <1>1, <1>2, <2>2 DEF St!SaveItem
    <3> QED
      BY <1>2, <1>4, <3>1 DEF Teller
  <2>3. CASE \E q \in St!Persons : St!Propose(t, q)
    <3>1. PICK q \in St!Persons : St!Propose(t, q)
      BY <2>3
    <3>2. q \notin proposals /\ proposals' = proposals \cup {q}
      BY <1>4, <3>1 DEF St!Propose
    <3>3. teller' = [teller EXCEPT ![t] = [c EXCEPT !.filed = c.filed \cup {q}]]
      BY <1>1, <1>2, <3>1, <3>2 DEF St!Propose
    <3> QED
      BY <1>2, <1>4, <3>2, <3>3 DEF Teller
  <2>4. CASE St!ReadIndex(t)
    BY <1>1, <1>4, <2>4 DEF St!ReadIndex
  <2> QED
    BY <1>1, <2>1, <2>2, <2>3, <2>4 DEF St!Step, St!PatchIndex, St!ReadCast,
       St!MergeCast, St!Resolve, St!ReplaceIndex, St!ReplaceCast, St!At
<1>5. \A u \in Threads : u # t => teller'[u] = teller[u]
  BY <1>2 DEF St!Step, St!SaveItem, St!Propose, St!ReadIndex, St!PatchIndex, St!ReadCast, St!MergeCast, St!Resolve,
                 St!ReplaceIndex, St!ReplaceCast
<1>6. CASE ToBeFiled(p)
  <2>1. PICK u \in Threads : p \in teller[u].new \ teller[u].filed
    BY <1>6 DEF ToBeFiled
  <2>2. CASE u = t
    BY <1>1, <1>4, <2>1, <2>2 DEF Known, ToBeFiled
  <2>3. CASE u # t
    BY <1>5, <2>1, <2>3 DEF Known, ToBeFiled
  <2> QED
    BY <2>2, <2>3
<1> QED
  BY <1>3, <1>6 DEF Known, ToBeFiled

LEMMA AskKnown ==
  ASSUME St!StoryAssumption, StoryInv, NEW t \in Threads, Requested(t), NEW p, Known(p)
  PROVE  Known(p)'
<1>1. PICK r : Begins(r) /\ St!Begin(t, r)
  BY AskedFor
<1>2. /\ r \in Teller /\ Holds(r, proposals) /\ r.pc # "idle" /\ teller[t].pc = "idle"
      /\ UNCHANGED <<items, table, proposals, index, cast, patched, failed>>
  BY <1>1, AskedFor, HoldsOn DEF Begins
<1>3. \A u \in Threads : u # t => Alike(teller[u], teller'[u])
  BY <1>1, <1>2, BegunBy
<1>4. teller[t].new \subseteq teller[t].filed
  BY <1>2 DEF StoryInv, Requests, Holds
<1>5. CASE ToBeFiled(p)
  <2>1. PICK u \in Threads : p \in teller[u].new \ teller[u].filed
    BY <1>5 DEF ToBeFiled
  <2> QED
    BY <1>3, <1>4, <2>1 DEF Known, ToBeFiled, Alike
<1> QED
  BY <1>2, <1>5 DEF Known, ToBeFiled

LEMMA PublishedIn ==
  ASSUME NEW people \in St!Cast, NEW proposed
  PROVE  St!In(St!Published(people, proposed)) \subseteq St!In(people) \cup proposed
BY DEF St!In, St!Published, St!Cast

LEMMA KnownHolds ==
  ASSUME St!StoryAssumption, KnownInv, [St!Next]_St!vars
  PROVE  KnownInv'
<1>1. StoryInv'
  BY StoryTypesHold DEF KnownInv
<1>2. ASSUME NEW t \in Threads, St!Step(t) PROVE KnownInv'
  <2>1. PICK c : c = teller[t]
    OBVIOUS
  <2>2. c \in Teller /\ Holds(c, proposals) /\ teller \in [Threads -> Teller] /\ Knows(c) /\ StoryInv
    BY <2>1 DEF KnownInv, StoryInv, Requests
  <2>3. \A p : Known(p) => Known(p)'
    BY <1>2, <2>2, StepKnown
  <2>4. /\ \A u \in Threads : u # t => teller'[u] = teller[u]
        /\ teller' \in [Threads -> Teller] /\ table' = table
    BY <1>1, <1>2, <2>2 DEF St!Step, St!SaveItem, St!Propose, St!ReadIndex, St!PatchIndex, St!ReadCast, St!MergeCast, St!Resolve,
                           St!ReplaceIndex, St!ReplaceCast, StoryInv, Requests
  <2>5. \A p \in St!In(cast) : Known(p)'
    BY <2>3 DEF KnownInv
  <2>6. St!In(table') \subseteq Table
    BY <2>4 DEF KnownInv
  <2>7. CASE St!SaveItem(t)
    <3>1. PICK d : d = [c EXCEPT !.pc = "propose"]
      OBVIOUS
    <3>2. /\ c.pc = "save" /\ teller'[t] = d /\ items' = [items EXCEPT ![c.story] = c.item] /\ cast' = cast
          /\ d.pc = "propose" /\ d.item = c.item
      BY <2>1, <2>2, <2>7, <3>1 DEF St!SaveItem, St!At, Teller
    <3>3. \A p \in c.item.links : Known(p)'
      BY <2>2, <2>3, <3>2 DEF Knows
    <3>4. \A s \in St!Stories : items'[s] # None => items'[s] = items[s] \/ \A p \in items'[s].links : Known(p)'
      BY <2>2, <3>2, <3>3 DEF StoryInv, St!Shelf
    <3> QED
      BY <1>1, <2>3, <2>4, <2>5, <2>6, <3>2, <3>3, <3>4, KnownInvPrimed
  <2>8. CASE \E q \in St!Persons : St!Propose(t, q)
    <3>1. PICK q \in St!Persons : St!Propose(t, q)
      BY <2>8
    <3>2. c.pc = "propose" /\ UNCHANGED <<items, cast>>
      BY <2>1, <3>1 DEF St!Propose, St!At
    <3>3. teller'[t].pc = "idle" \/ (teller'[t].pc = "propose" /\ teller'[t].item = c.item)
      <4>1. CASE q \in proposals
        BY <2>2, <3>1, <4>1, IdleHolds DEF St!Propose
      <4>2. CASE q \notin proposals
        <5>1. teller' = [teller EXCEPT ![t] = [c EXCEPT !.filed = c.filed \cup {q}]]
          BY <2>1, <2>2, <3>1, <4>2 DEF St!Propose
        <5> QED
          BY <2>2, <3>2, <5>1 DEF Teller
      <4> QED
        BY <4>1, <4>2
    <3>4. \A p \in c.item.links : Known(p)'
      BY <2>2, <2>3, <3>2 DEF Knows
    <3> QED
      BY <1>1, <2>3, <2>4, <2>5, <2>6, <3>2, <3>3, <3>4, KnownInvPrimed
  <2>9. CASE St!ReadIndex(t)
    <3>1. PICK d : d = [c EXCEPT !.pc = "patch", !.index = index]
      OBVIOUS
    <3>2. c.pc = "propose" /\ teller'[t] = d /\ UNCHANGED <<items, cast>> /\ d.pc = "patch" /\ d.item = c.item
      BY <2>1, <2>2, <2>9, <3>1 DEF St!ReadIndex, St!At, Teller
    <3>3. \A p \in c.item.links : Known(p)'
      BY <2>2, <2>3, <3>2 DEF Knows
    <3> QED
      BY <1>1, <2>3, <2>4, <2>5, <2>6, <3>2, <3>3, KnownInvPrimed
  <2>10. CASE St!PatchIndex(t)
    <3>1. UNCHANGED <<items, cast>>
      BY <2>10 DEF St!PatchIndex
    <3>2. teller'[t].pc \in {"idle", "cast"}
      <4>1. teller'[t] = IF c.new = {} THEN St!Idle ELSE [c EXCEPT !.pc = "cast"]
        BY <2>1, <2>2, <2>10 DEF St!PatchIndex
      <4> QED
        BY <2>2, <4>1, IdleHolds DEF Teller
    <3> QED
      BY <1>1, <2>3, <2>4, <2>5, <2>6, <3>1, <3>2, KnownInvPrimed
  <2>11. CASE St!ReadCast(t)
    <3>1. PICK d : d = [c EXCEPT !.pc = "merge", !.cast = cast]
      OBVIOUS
    <3>2. teller'[t] = d /\ UNCHANGED <<items, cast>> /\ d.pc = "merge" /\ d.cast = cast
      BY <2>1, <2>2, <2>11, <3>1 DEF St!ReadCast, Teller
    <3> QED
      BY <1>1, <2>3, <2>4, <2>5, <2>6, <3>2, KnownInvPrimed
  <2>12. CASE St!MergeCast(t)
    <3>1. /\ c.pc = "merge" /\ teller'[t] = St!Idle /\ UNCHANGED <<items, proposals>>
          /\ cast' = [p \in St!Persons |-> IF p \in c.new /\ c.cast[p] = "absent" THEN "proposed" ELSE c.cast[p]]
      BY <2>1, <2>2, <2>12 DEF St!MergeCast, St!At
    <3>2. St!In(cast') \subseteq St!In(c.cast) \cup c.new
      BY <3>1 DEF St!In
    <3>3. c.new \subseteq proposals
      BY <2>2, <3>1 DEF Holds
    <3>4. \A p \in proposals : Known(p)'
      BY <3>1 DEF Known
    <3>5. \A p \in St!In(cast') : Known(p)'
      BY <2>2, <2>3, <3>1, <3>2, <3>3, <3>4 DEF Knows
    <3> QED
      BY <1>1, <2>3, <2>4, <2>6, <3>1, <3>5, IdleHolds, KnownInvPrimed
  <2>13. CASE St!Resolve(t)
    <3>1. PICK people : people = St!Published(table, proposals)
      OBVIOUS
    <3>2. UNCHANGED <<items, cast, proposals>>
      BY <2>13 DEF St!Resolve
    <3>3. teller'[t].pc = "idle" \/ (teller'[t].pc = "replace" /\ teller'[t].cast = people)
      <4>1. teller'[t] = IF St!LinksResolve(c.index, people) THEN [c EXCEPT !.pc = "replace", !.cast = people] ELSE St!Idle
        BY <2>1, <2>2, <2>13, <3>1 DEF St!Resolve
      <4> QED
        BY <2>2, <4>1, IdleHolds DEF Teller
    <3>4. \A p \in St!In(people) : Known(p)'
      <4>1. St!In(people) \subseteq Table \cup proposals
        BY <2>2, <3>1, PublishedIn DEF KnownInv, StoryInv
      <4> QED
        BY <3>2, <4>1 DEF Known
    <3> QED
      BY <1>1, <2>3, <2>4, <2>5, <2>6, <3>2, <3>3, <3>4, KnownInvPrimed
  <2>14. CASE St!ReplaceIndex(t)
    <3>1. PICK d : d = [c EXCEPT !.pc = "replace cast"]
      OBVIOUS
    <3>2. /\ c.pc = "replace" /\ teller'[t] = d /\ UNCHANGED <<items, cast>>
          /\ d.pc = "replace cast" /\ d.cast = c.cast
      BY <2>1, <2>2, <2>14, <3>1 DEF St!ReplaceIndex, St!At, Teller
    <3>3. \A p \in St!In(c.cast) : Known(p)'
      BY <2>2, <2>3, <3>2 DEF Knows
    <3> QED
      BY <1>1, <2>3, <2>4, <2>5, <2>6, <3>2, <3>3, KnownInvPrimed
  <2>15. CASE St!ReplaceCast(t)
    <3>1. c.pc = "replace cast" /\ teller'[t] = St!Idle /\ cast' = c.cast /\ items' = items
      BY <2>1, <2>2, <2>15 DEF St!ReplaceCast, St!At
    <3>2. \A p \in St!In(cast') : Known(p)'
      BY <2>2, <2>3, <3>1 DEF Knows
    <3> QED
      BY <1>1, <2>3, <2>4, <2>6, <3>1, <3>2, IdleHolds, KnownInvPrimed
  <2> QED
    BY <1>2, <2>7, <2>8, <2>9, <2>10, <2>11, <2>12, <2>13, <2>14, <2>15 DEF St!Step
<1>3. ASSUME NEW t \in Threads, Requested(t) PROVE KnownInv'
  <2>1. PICK r : Begins(r) /\ St!Begin(t, r)
    BY <1>3, AskedFor DEF KnownInv
  <2>2. /\ r \in Teller /\ Holds(r, proposals) /\ r.pc # "idle"
        /\ UNCHANGED <<items, table, proposals, index, cast, patched, failed>>
    BY <1>3, <2>1, AskedFor, HoldsOn DEF Begins, KnownInv
  <2>3. /\ Alike(r, teller'[t]) /\ teller' \in [Threads -> Teller]
        /\ \A u \in Threads : u # t => Alike(teller[u], teller'[u])
    BY <1>1, <2>1, <2>2, BegunBy DEF KnownInv, StoryInv, Requests
  <2>4. \A p : Known(p) => Known(p)'
    BY <1>3, AskKnown DEF KnownInv
  <2>5. \A p \in St!In(cast') : Known(p)'
    BY <2>2, <2>4 DEF KnownInv
  <2>6. \A p \in r.new : Known(p)'
    BY <2>1, <2>3 DEF Known, ToBeFiled, Alike, Begins
  <2>7. r.pc = "save" => \A p \in r.item.links : Known(p)'
    BY <2>1, <2>2, <2>4, <2>5, <2>6 DEF Begins, KnownInv
  <2>8. /\ teller'[t].pc \in {"save", "propose", "patch"} => \A p \in teller'[t].item.links : Known(p)'
        /\ teller'[t].pc \notin {"merge", "replace", "replace cast"}
    BY <2>1, <2>3, <2>7 DEF Begins, Alike
  <2> QED
    BY <1>1, <2>2, <2>3, <2>4, <2>5, <2>8, KnownInvPrimed DEF KnownInv
<1>4. ASSUME NEW q \in St!Persons, St!Remove(q) PROVE KnownInv'
  <2>1. UNCHANGED <<items, proposals, cast, teller, failed>>
    BY <1>4 DEF St!Remove
  <2>2. St!In(table') \subseteq Table
    BY <1>4 DEF St!Remove, St!In, KnownInv, StoryInv, St!Cast
  <2> QED
    BY <1>1, <2>1, <2>2 DEF KnownInv, Knows, Known, ToBeFiled, St!In
<1>5. ASSUME St!Die PROVE KnownInv'
  <2>1. failed' /\ UNCHANGED <<items, table, cast>> /\ \A t \in Threads : teller'[t] = St!Idle
    BY <1>5 DEF St!Die
  <2> QED
    BY <1>1, <2>1, IdleHolds DEF KnownInv, Knows, Known, St!In
<1>6. ASSUME UNCHANGED St!vars PROVE KnownInv'
  BY <1>1, <1>6 DEF St!vars, KnownInv, Knows, Known, ToBeFiled, St!In
<1> QED
  BY <1>2, <1>3, <1>4, <1>5, <1>6 DEF St!Next, Requested

\* a proposal is published, or somebody of its name is
LEMMA PublishedNamed ==
  ASSUME St!StoryAssumption, NEW people \in St!Cast, NEW proposed \in SUBSET St!Persons, NEW p \in proposed
  PROVE  \E q \in St!In(St!Published(people, proposed)) : q.name = p.name
<1> DEFINE fresh == {q \in proposed : q \notin St!In(people) /\ St!Named(people, q.name) = {}}
           alike == {q \in fresh : q.name = p.name}
           low == {q \in alike : q.n # 1}
           out == St!Published(people, proposed)
<1>1. \A q \in St!In(people) : q \in St!In(out)
  BY DEF St!In, St!Published, St!Cast
<1>2. CASE p \notin fresh
  BY <1>1, <1>2 DEF St!Named, St!In
<1>3. \A q \in St!Persons : q.n \in Nat /\ q.n >= 1
  BY DEF St!Persons, St!StoryAssumption
<1>4. ASSUME NEW q \in alike, \A r \in alike : ~St!ListedBefore(r, q) PROVE q \in St!In(out)
  <2>1. q \in St!Persons /\ q \in fresh /\ ~\E r \in fresh : r.name = q.name /\ St!ListedBefore(r, q)
    BY <1>4
  <2>2. out[q] = "proposed"
    BY <2>1 DEF St!Published
  <2> QED
    BY <2>1, <2>2 DEF St!In
<1>5. CASE p \in fresh /\ low = {}
  <2>1. p \in alike
    BY <1>5
  <2>2. \A r \in alike : ~St!ListedBefore(r, p)
    BY <1>5, <2>1 DEF St!ListedBefore
  <2> QED
    BY <1>4, <2>1, <2>2
<1>6. CASE p \in fresh /\ low # {}
  <2> DEFINE N == {q.n : q \in low}
  <2>1. N \in SUBSET Nat /\ N # {}
    BY <1>3, <1>6
  <2>2. PICK n \in N : \A m \in N : n <= m
    BY <2>1, LeastNat
  <2>3. PICK q \in low : q.n = n
    OBVIOUS
  <2>4. ASSUME NEW r \in alike PROVE ~St!ListedBefore(r, q)
    <3>1. r.n = 1 \/ (r.n # 1 /\ r \in low /\ q.n <= r.n)
      BY <2>2, <2>3
    <3>2. q \in St!Persons /\ r \in St!Persons /\ q.n # 1
      BY <2>3
    <3> QED
      BY <1>3, <3>1, <3>2 DEF St!ListedBefore
  <2>5. q \in St!In(out) /\ q.name = p.name
    BY <1>4, <2>3, <2>4
  <2> QED
    BY <2>5
<1> QED
  BY <1>2, <1>5, <1>6

LEMMA DanglingExplained ==
  ASSUME St!StoryAssumption, KnownInv
  PROVE  St!DanglingLinkExplained
<1> DEFINE people == St!In(St!Published(table, proposals))
<1> SUFFICES ASSUME NEW s \in St!Stories, items[s] # None, NEW p \in items[s].links \ people
             PROVE  \/ failed \/ p \in Table
                    \/ \E t \in Threads : p \in teller[t].new \ teller[t].filed
                    \/ \E q \in people : q.name = p.name
  BY DEF St!DanglingLinkExplained
<1>1. Known(p)
  BY DEF KnownInv
<1>2. CASE p \in proposals
  BY <1>2, PublishedNamed DEF KnownInv, StoryInv
<1> QED
  BY <1>1, <1>2 DEF Known, ToBeFiled

-----------------------------------------------------------------------------
(* What is served.                                                         *)

InCast(c) == c.pc \in {"cast", "merge", "replace cast"}
\* links of the stories served name people who are served, or about to be
Covers(shelf, people, more) ==
    \A s \in St!Stories : shelf[s] # None /\ shelf[s].status = "catalogued" => shelf[s].links \subseteq St!In(people) \cup more
\* what a request will leave of the people resolves what it has served or will serve
Serves(c, served, people, overlapped) ==
    /\ c.pc \in {"save", "propose", "patch"} /\ c.alone /\ c.item.status = "catalogued" =>
         c.item.links \subseteq St!In(people) \cup c.new
    /\ c.pc \in {"cast", "merge"} /\ ~overlapped => Covers(served, people, c.new)
    /\ c.pc = "merge" /\ ~overlapped => c.cast = people
    /\ c.pc = "replace" => Covers(c.index, c.cast, {})
    /\ c.pc = "replace cast" /\ ~overlapped => Covers(served, c.cast, {})
OneInCast == ~patched => \A t, u \in Threads : InCast(teller[t]) /\ InCast(teller[u]) => t = u
ServedWhole == ~patched /\ (\A t \in Threads : ~InCast(teller[t])) => Covers(index, cast, {})
ServedInv ==
    /\ Rebuilt /\ OneInCast /\ ServedWhole
    /\ \A t \in Threads : Serves(teller[t], index, cast, patched)

LEMMA CoversLinks ==
  ASSUME NEW shelf, NEW people PROVE St!LinksResolve(shelf, people) <=> Covers(shelf, people, {})
BY DEF St!LinksResolve, Covers

LEMMA CoversPatched ==
  ASSUME NEW shelf \in St!Shelf, NEW people, NEW more, NEW s \in St!Stories, NEW x,
         Covers(shelf, people, more),
         x # None /\ x.status = "catalogued" => x.links \subseteq St!In(people) \cup more
  PROVE  Covers([shelf EXCEPT ![s] = x], people, more)
<1>1. \A r \in St!Stories : [shelf EXCEPT ![s] = x][r] = IF r = s THEN x ELSE shelf[r]
  BY DEF St!Shelf
<1> QED
  BY <1>1 DEF Covers

LEMMA CoversMore ==
  ASSUME NEW shelf, NEW people, NEW more, Covers(shelf, people, {}) PROVE Covers(shelf, people, more)
BY DEF Covers

\* the primed forms, over the values they speak of
LEMMA ServedInvPrimed ==
  ServedInv' <=> /\ Rebuilt'
                 /\ ~patched' => \A t, u \in Threads : InCast(teller'[t]) /\ InCast(teller'[u]) => t = u
                 /\ ~patched' /\ (\A t \in Threads : ~InCast(teller'[t])) => Covers(index', cast', {})
                 /\ \A t \in Threads : Serves(teller'[t], index', cast', patched')
BY DEF ServedInv, OneInCast, ServedWhole, InCast, Covers, Serves, St!In

\* A step of one request: either it leaves what is served, and stays at the people or away from
\* them, or no other request is at the people and it leaves them resolved when it goes.
LEMMA OthersServe ==
  ASSUME ServedInv, Rebuilt', NEW t \in Threads, teller[t].pc # "idle", NEW d, teller' = [teller EXCEPT ![t] = d],
         d.pc = "idle" \/ (d.alone => teller[t].alone),
         Serves(d, index', cast', patched'),
         ~patched' =>
            \/ ~patched /\ UNCHANGED <<index, cast>> /\ (InCast(d) <=> InCast(teller[t]))
            \/ /\ \A u \in Threads : u # t => ~InCast(teller[u])
               /\ ~InCast(d) => Covers(index', cast', {})
  PROVE  ServedInv'
<1>1. teller'[t] = d /\ \A u \in Threads : u # t => teller'[u] = teller[u]
  BY OneAloneStep DEF ServedInv, Rebuilt
<1>2. ASSUME ~patched' PROVE \A v, u \in Threads : InCast(teller'[v]) /\ InCast(teller'[u]) => v = u
  BY <1>1, <1>2 DEF ServedInv, OneInCast
<1>3. ASSUME ~patched', \A u \in Threads : ~InCast(teller'[u]) PROVE Covers(index', cast', {})
  <2>1. ~InCast(d)
    BY <1>1, <1>3
  <2>2. CASE ~patched /\ UNCHANGED <<index, cast>> /\ (InCast(d) <=> InCast(teller[t]))
    <3>1. \A u \in Threads : ~InCast(teller[u])
      BY <1>1, <1>3, <2>1, <2>2
    <3> QED
      BY <2>2, <3>1 DEF ServedInv, ServedWhole
  <2> QED
    BY <1>3, <2>1, <2>2
<1>4. ASSUME NEW u \in Threads PROVE Serves(teller'[u], index', cast', patched')
  <2>1. CASE u = t
    BY <1>1, <2>1
  <2>2. CASE u # t
    <3>1. teller[u].pc = "idle" \/ ~teller[u].alone
      BY <2>2 DEF ServedInv, Rebuilt, OneAlone
    <3>2. Serves(teller[u], index, cast, patched)
      BY DEF ServedInv
    <3>3. ~patched' => ~InCast(teller[u]) \/ (~patched /\ UNCHANGED <<index, cast>>)
      BY <2>2
    <3>4. Serves(teller[u], index', cast', patched')
      BY <3>1, <3>2, <3>3 DEF Serves, InCast
    <3> QED
      BY <1>1, <2>2, <3>4
  <2> QED
    BY <2>1, <2>2
<1> QED
  BY <1>2, <1>3, <1>4, ServedInvPrimed

LEMMA ServedStep ==
  ASSUME St!StoryAssumption, ServedInv, NEW t \in Threads, St!Step(t)
  PROVE  ServedInv'
<1>1. PICK c : c = teller[t]
  OBVIOUS
<1>2. /\ c \in Teller /\ Holds(c, proposals) /\ teller \in [Threads -> Teller]
      /\ Current(c, index, items, patched) /\ StoryInv /\ OneAlone
      /\ Serves(c, index, cast, patched)
  BY <1>1 DEF ServedInv, Rebuilt, StoryInv, Requests
<1>3. Rebuilt'
  BY RebuiltStep DEF ServedInv
<1>4. ASSUME c.alone, c.pc # "idle" PROVE \A u \in Threads : u # t => ~InCast(teller[u])
  BY <1>1, <1>2, <1>4 DEF OneAlone, InCast
<1>5. ASSUME ~patched, InCast(c) PROVE \A u \in Threads : u # t => ~InCast(teller[u])
  BY <1>1, <1>5 DEF ServedInv, OneInCast
<1>6. \A p : Serves(St!Idle, index', cast', p)
  BY IdleHolds DEF Serves
<1>7. CASE St!SaveItem(t)
  <2>1. PICK d : d = [c EXCEPT !.pc = "propose"]
    OBVIOUS
  <2>2. c.pc = "save" /\ teller' = [teller EXCEPT ![t] = d] /\ UNCHANGED <<index, cast, patched>>
    BY <1>1, <1>2, <1>7, <2>1 DEF St!SaveItem, St!At
  <2>3. d.pc = "propose" /\ d.alone = c.alone /\ d.item = c.item /\ d.new = c.new
    BY <1>2, <2>1 DEF Teller
  <2>4. Serves(d, index', cast', patched') /\ ~InCast(d) /\ ~InCast(c)
    BY <1>2, <2>2, <2>3 DEF Serves, InCast
  <2> QED
    BY <1>1, <1>3, <2>2, <2>3, <2>4, OthersServe
<1>8. CASE \E p \in St!Persons : St!Propose(t, p)
  <2>1. PICK p \in St!Persons : St!Propose(t, p)
    BY <1>8
  <2>2. c.pc = "propose" /\ UNCHANGED <<index, cast>>
    BY <1>1, <2>1 DEF St!Propose, St!At
  <2>3. CASE p \in proposals
    <3>1. teller' = [teller EXCEPT ![t] = St!Idle] /\ patched'
      BY <2>1, <2>3 DEF St!Propose
    <3> QED
      BY <1>1, <1>3, <1>6, <2>2, <3>1, IdleHolds, OthersServe
  <2>4. CASE p \notin proposals
    <3>1. PICK d : d = [c EXCEPT !.filed = c.filed \cup {p}]
      OBVIOUS
    <3>2. teller' = [teller EXCEPT ![t] = d] /\ patched' = patched
      BY <1>1, <1>2, <2>1, <2>4, <3>1 DEF St!Propose, StoryInv
    <3>3. d.pc = "propose" /\ d.alone = c.alone /\ d.item = c.item /\ d.new = c.new
      BY <1>2, <2>2, <3>1 DEF Teller
    <3>4. Serves(d, index', cast', patched') /\ ~InCast(d) /\ ~InCast(c)
      BY <1>2, <2>2, <3>2, <3>3 DEF Serves, InCast
    <3> QED
      BY <1>1, <1>3, <2>2, <3>2, <3>3, <3>4, OthersServe
  <2> QED
    BY <2>3, <2>4
<1>9. CASE St!ReadIndex(t)
  <2>1. PICK d : d = [c EXCEPT !.pc = "patch", !.index = index]
    OBVIOUS
  <2>2. c.pc = "propose" /\ teller' = [teller EXCEPT ![t] = d] /\ UNCHANGED <<index, cast, patched>>
    BY <1>1, <1>2, <1>9, <2>1 DEF St!ReadIndex, St!At
  <2>3. d.pc = "patch" /\ d.alone = c.alone /\ d.item = c.item /\ d.new = c.new
    BY <1>2, <2>1 DEF Teller
  <2>4. Serves(d, index', cast', patched') /\ ~InCast(d) /\ ~InCast(c)
    BY <1>2, <2>2, <2>3 DEF Serves, InCast
  <2> QED
    BY <1>1, <1>3, <2>2, <2>3, <2>4, OthersServe
<1>10. CASE St!PatchIndex(t)
  <2>1. PICK d : d = IF c.new = {} THEN St!Idle ELSE [c EXCEPT !.pc = "cast"]
    OBVIOUS
  <2>2. PICK x : x = IF c.task = "delete" THEN None ELSE c.item
    OBVIOUS
  <2>3. /\ c.pc = "patch" /\ teller' = [teller EXCEPT ![t] = d] /\ index' = [c.index EXCEPT ![c.story] = x]
        /\ cast' = cast /\ patched' = (patched \/ ~c.alone)
    BY <1>1, <1>2, <1>10, <2>1, <2>2 DEF St!PatchIndex, St!At
  <2>4. \/ d.pc = "idle" /\ c.new = {}
        \/ d.pc = "cast" /\ d.alone = c.alone /\ d.new = c.new
    BY <1>2, <2>1, IdleHolds DEF Teller
  <2>5. ASSUME ~patched' PROVE Covers(index', cast', c.new)
    <3>1. ~patched /\ c.alone
      BY <2>3, <2>5
    <3>2. \A u \in Threads : ~InCast(teller[u])
      BY <1>1, <1>4, <2>3, <3>1 DEF InCast
    <3>3. Covers(index, cast, {}) /\ c.index = index
      BY <1>2, <2>3, <3>1, <3>2 DEF ServedInv, ServedWhole, Current
    <3>4. Covers(index, cast, c.new)
      BY <3>3, CoversMore
    <3>5. x # None /\ x.status = "catalogued" => x.links \subseteq St!In(cast) \cup c.new
      BY <1>2, <2>2, <2>3, <3>1 DEF Serves
    <3>6. index \in St!Shelf /\ c.story \in St!Stories
      BY <1>2, <2>3 DEF StoryInv, Holds
    <3>7. Covers([index EXCEPT ![c.story] = x], cast, c.new)
      BY <3>4, <3>5, <3>6, CoversPatched
    <3> QED
      BY <2>3, <3>3, <3>7
  <2>6. Serves(d, index', cast', patched')
    BY <2>4, <2>5 DEF Serves
  <2>7. ~patched' => \A u \in Threads : u # t => ~InCast(teller[u])
    BY <1>4, <2>3
  <2>8. ~patched' /\ ~InCast(d) => Covers(index', cast', {})
    BY <2>4, <2>5 DEF InCast
  <2> QED
    BY <1>1, <1>3, <2>3, <2>4, <2>6, <2>7, <2>8, OthersServe
<1>11. CASE St!ReadCast(t)
  <2>1. PICK d : d = [c EXCEPT !.pc = "merge", !.cast = cast]
    OBVIOUS
  <2>2. c.pc = "cast" /\ teller' = [teller EXCEPT ![t] = d] /\ UNCHANGED <<index, cast, patched>>
    BY <1>1, <1>2, <1>11, <2>1 DEF St!ReadCast, St!At
  <2>3. d.pc = "merge" /\ d.alone = c.alone /\ d.new = c.new /\ d.cast = cast
    BY <1>2, <2>1 DEF Teller
  <2>4. Serves(d, index', cast', patched') /\ InCast(d) /\ InCast(c)
    BY <1>2, <2>2, <2>3 DEF Serves, InCast
  <2> QED
    BY <1>1, <1>3, <2>2, <2>3, <2>4, OthersServe
<1>12. CASE St!MergeCast(t)
  <2>1. /\ c.pc = "merge" /\ teller' = [teller EXCEPT ![t] = St!Idle] /\ UNCHANGED <<index, patched>>
        /\ cast' = [p \in St!Persons |-> IF p \in c.new /\ c.cast[p] = "absent" THEN "proposed" ELSE c.cast[p]]
    BY <1>1, <1>2, <1>12 DEF St!MergeCast, St!At
  <2>2. St!In(c.cast) \cup c.new \subseteq St!In(cast')
    <3>1. c.new \subseteq St!Persons
      BY <1>2 DEF Teller
    <3> QED
      BY <2>1, <3>1 DEF St!In
  <2>3. ~patched' => Covers(index', cast', {})
    <3>1. ~patched => Covers(index, c.cast, c.new)
      BY <1>2, <2>1 DEF Serves
    <3> QED
      BY <2>1, <2>2, <3>1 DEF Covers
  <2>4. ~patched' => \A u \in Threads : u # t => ~InCast(teller[u])
    BY <1>5, <2>1 DEF InCast
  <2>5. Serves(St!Idle, index', cast', patched')
    BY <1>6
  <2> QED
    BY <1>1, <1>3, <2>1, <2>3, <2>4, <2>5, IdleHolds, OthersServe
<1>13. CASE St!Resolve(t)
  <2>1. PICK people : people = St!Published(table, proposals)
    OBVIOUS
  <2>2. PICK d : d = IF St!LinksResolve(c.index, people) THEN [c EXCEPT !.pc = "replace", !.cast = people] ELSE St!Idle
    OBVIOUS
  <2>3. c.pc = "resolve" /\ teller' = [teller EXCEPT ![t] = d] /\ UNCHANGED <<index, cast, patched>>
    BY <1>1, <1>2, <1>13, <2>1, <2>2 DEF St!Resolve, St!At
  <2>4. \/ d.pc = "idle"
        \/ d.pc = "replace" /\ d.alone = c.alone /\ Covers(d.index, d.cast, {})
    <3>1. CASE St!LinksResolve(c.index, people)
      <4>1. d.pc = "replace" /\ d.alone = c.alone /\ d.index = c.index /\ d.cast = people
        BY <1>2, <2>2, <3>1 DEF Teller
      <4> QED
        BY <3>1, <4>1, CoversLinks
    <3>2. CASE ~St!LinksResolve(c.index, people)
      BY <2>2, <3>2, IdleHolds
    <3> QED
      BY <3>1, <3>2
  <2>5. Serves(d, index', cast', patched') /\ ~InCast(d) /\ ~InCast(c)
    BY <2>3, <2>4 DEF Serves, InCast
  <2> QED
    BY <1>1, <1>3, <2>3, <2>4, <2>5, OthersServe
<1>14. CASE St!ReplaceIndex(t)
  <2>1. PICK d : d = [c EXCEPT !.pc = "replace cast"]
    OBVIOUS
  <2>2. /\ c.pc = "replace" /\ teller' = [teller EXCEPT ![t] = d] /\ index' = c.index /\ patched' = ~c.alone
        /\ cast' = cast
    BY <1>1, <1>2, <1>14, <2>1 DEF St!ReplaceIndex, St!At
  <2>3. d.pc = "replace cast" /\ d.alone = c.alone /\ d.cast = c.cast
    BY <1>2, <2>1 DEF Teller
  <2>4. Serves(d, index', cast', patched') /\ InCast(d)
    BY <1>2, <2>2, <2>3 DEF Serves, InCast
  <2>5. ~patched' => \A u \in Threads : u # t => ~InCast(teller[u])
    BY <1>4, <2>2
  <2> QED
    BY <1>1, <1>3, <2>2, <2>3, <2>4, <2>5, OthersServe
<1>15. CASE St!ReplaceCast(t)
  <2>1. /\ c.pc = "replace cast" /\ teller' = [teller EXCEPT ![t] = St!Idle] /\ UNCHANGED <<index, patched>>
        /\ cast' = c.cast
    BY <1>1, <1>2, <1>15 DEF St!ReplaceCast, St!At
  <2>2. ~patched' => Covers(index', cast', {})
    BY <1>2, <2>1 DEF Serves
  <2>3. ~patched' => \A u \in Threads : u # t => ~InCast(teller[u])
    BY <1>5, <2>1 DEF InCast
  <2>4. Serves(St!Idle, index', cast', patched')
    BY <1>6
  <2> QED
    BY <1>1, <1>3, <2>1, <2>2, <2>3, <2>4, IdleHolds, OthersServe
<1> QED
  BY <1>7, <1>8, <1>9, <1>10, <1>11, <1>12, <1>13, <1>14, <1>15 DEF St!Step

LEMMA ServedInvariant ==
  ASSUME St!StoryAssumption
  PROVE  St!Init /\ [][St!Next]_St!vars => []ServedInv
<1>1. ASSUME St!Init PROVE ServedInv
  <2>1. \A t \in Threads : teller[t].pc = "idle"
    BY <1>1, IdleHolds DEF St!Init
  <2>2. Covers(index, cast, {})
    BY <1>1 DEF St!Init, Covers
  <2>3. Rebuilt
    <3>1. OneAlone /\ \A t \in Threads : Current(teller[t], index, items, patched)
      BY <2>1 DEF OneAlone, Current, Dirty
    <3>2. index = St!Live(items)
      BY <1>1 DEF St!Init, St!Live
    <3> QED
      BY <1>1, <3>1, <3>2, StoryInitHolds DEF Rebuilt, Settled
  <2> QED
    BY <2>1, <2>2, <2>3 DEF ServedInv, OneInCast, ServedWhole, InCast, Serves
<1>2. ASSUME ServedInv, Rebuilt', NEW t \in Threads, Requested(t) PROVE ServedInv'
  <2>1. PICK r : Begins(r) /\ St!Begin(t, r)
    BY <1>2, AskedFor DEF ServedInv, Rebuilt
  <2>2. /\ r \in Teller /\ Holds(r, proposals) /\ r.pc \in {"save", "resolve"} /\ teller[t].pc = "idle"
        /\ UNCHANGED <<items, table, proposals, index, cast, patched, failed>>
    BY <1>2, <2>1, AskedFor, HoldsOn DEF Begins, ServedInv, Rebuilt
  <2>3. /\ Alike(r, teller'[t])
        /\ \A u \in Threads : u # t => Alike(teller[u], teller'[u]) /\ (teller[u].pc # "idle" => ~teller'[u].alone)
    BY <1>2, <2>1, <2>2, BegunBy DEF ServedInv, Rebuilt
  <2>4. \A u \in Threads : InCast(teller'[u]) <=> InCast(teller[u])
    BY <2>2, <2>3 DEF InCast, Alike
  <2>5. ASSUME ~patched' PROVE \A v, u \in Threads : InCast(teller'[v]) /\ InCast(teller'[u]) => v = u
    BY <1>2, <2>2, <2>4, <2>5 DEF ServedInv, OneInCast
  <2>6. ASSUME ~patched', \A u \in Threads : ~InCast(teller'[u]) PROVE Covers(index', cast', {})
    BY <1>2, <2>2, <2>4, <2>6 DEF ServedInv, ServedWhole
  <2>7. ASSUME NEW u \in Threads PROVE Serves(teller'[u], index', cast', patched')
    <3>1. CASE u = t
      <4>1. teller'[t].pc = r.pc /\ teller'[t].item = r.item /\ teller'[t].new = r.new
        BY <2>3 DEF Alike
      <4>2. r.pc = "save" /\ r.item.status = "catalogued" => r.item.links \subseteq St!In(cast) \cup r.new
        BY <2>1 DEF Begins
      <4> QED
        BY <2>2, <3>1, <4>1, <4>2 DEF Serves
    <3>2. CASE u # t
      <4>1. Serves(teller[u], index, cast, patched)
        BY <1>2 DEF ServedInv
      <4>2. Alike(teller[u], teller'[u]) /\ (teller[u].pc # "idle" => ~teller'[u].alone)
        BY <2>3, <3>2
      <4> QED
        BY <2>2, <4>1, <4>2 DEF Serves, Alike
    <3> QED
      BY <3>1, <3>2
  <2> QED
    BY <1>2, <2>5, <2>6, <2>7, ServedInvPrimed
<1>3. ASSUME ServedInv, Rebuilt', NEW p \in St!Persons, St!Remove(p) PROVE ServedInv'
  BY <1>3 DEF St!Remove, ServedInv, OneInCast, ServedWhole, InCast, Covers, Serves, St!In
<1>4. ASSUME ServedInv, Rebuilt', St!Die PROVE ServedInv'
  <2>1. patched' /\ \A t \in Threads : teller'[t].pc = "idle"
    BY <1>4, IdleHolds DEF St!Die
  <2> QED
    BY <1>4, <2>1, ServedInvPrimed DEF Serves
<1>5. ASSUME ServedInv, Rebuilt', UNCHANGED St!vars PROVE ServedInv'
  BY <1>5 DEF St!vars, ServedInv, OneInCast, ServedWhole, InCast, Covers, Serves, St!In
<1>6. ServedInv /\ Rebuilt' /\ [St!Next]_St!vars => ServedInv'
  BY <1>2, <1>3, <1>4, <1>5, ServedStep DEF St!Next, Requested
<1> QED
  BY <1>1, <1>6, RebuiltInvariant, PTL

\* What readers are served never has a dangling link, and one in the archive has its reason:
\* its person is being added, was to be by a request cut short, was taken out of the table, or
\* has a namesake published in their place (projection.py's ReferentialIntegrityError).
THEOREM LinksHold ==
  ASSUME St!StoryAssumption
  PROVE  St!Init /\ [][St!Next]_St!vars => [](St!ServedLinksResolve /\ St!DanglingLinkExplained)
<1>1. ServedInv => St!ServedLinksResolve
  BY CoversLinks DEF ServedInv, ServedWhole, InCast, St!ServedLinksResolve, St!Quiet, St!At
<1>2. ASSUME St!Init PROVE KnownInv
  <2>1. St!In(table) \subseteq Table /\ cast = table /\ \A s \in St!Stories : items[s] = None
    BY <1>2 DEF St!Init, St!In
  <2>2. \A t \in Threads : teller[t].pc = "idle"
    BY <1>2, IdleHolds DEF St!Init
  <2> QED
    BY <1>2, <2>1, <2>2, StoryInitHolds DEF KnownInv, Knows, Known
<1>3. KnownInv /\ [St!Next]_St!vars => KnownInv'
  BY KnownHolds
<1>4. KnownInv => St!DanglingLinkExplained
  BY DanglingExplained
<1> QED
  BY <1>1, <1>2, <1>3, <1>4, ServedInvariant, PTL
=============================================================================
