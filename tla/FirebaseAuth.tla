---------------------------- MODULE FirebaseAuth ----------------------------
(***************************************************************************)
(* FirebaseAuth 5.0.5 as the app uses it: e-mail sign-in and sign-up, each *)
(* in two requests to the server, the keychain that survives the process,  *)
(* the serial work queue on which the library's state changes, and the     *)
(* main queue on which its callbacks run.                                  *)
(*                                                                         *)
(* Every action below is one block of the work queue, except RunCallback,  *)
(* which is one block of the main queue, and Restart.                      *)
(***************************************************************************)
EXTENDS Naturals, Sequences

CONSTANTS Users, Calls, None

Kinds == {"signIn", "createUser"}
Phases == {"verifying", "retrieving"}
OpenCalls == [phase : Phases, kind : Kinds, email : Users]

ASSUME NoneAssumption ==
    /\ None \notin Users
    /\ None \notin OpenCalls
    /\ None \notin [kind : Kinds, email : Users]

VARIABLES
    accounts,     \* accounts that exist on the server
    currentUser,  \* FIRAuth's _currentUser, or None for nil
    keychain,     \* the archived user, or None
    call,         \* call[c]: the request in flight, or None
    mainQueue     \* completion blocks dispatched to the main queue

authVars == <<accounts, currentUser, keychain, call, mainQueue>>

Init ==
    /\ accounts = {}
    /\ currentUser = None
    /\ keychain = None
    /\ call = [c \in Calls |-> None]
    /\ mainQueue = <<>>

-----------------------------------------------------------------------------
(* Saving and replacing the current user. *)

\* saveUser either stores (or removes) the user or fails and leaves the
\* keychain as it was; the user is assigned only after it was saved.  nil in
\* place of nil is no change and is not saved.
Updated(new) ==
    IF new = None /\ currentUser = None
    THEN UNCHANGED <<currentUser, keychain>>
    ELSE keychain' = new /\ currentUser' = new

\* Slip: the user is assigned although it could not be saved.
UpdateForced(new) ==
    /\ ~(new = None /\ currentUser = None)
    /\ currentUser' = new
    /\ UNCHANGED keychain

UpdateRefused(new) ==
    /\ ~(new = None /\ currentUser = None)
    /\ UNCHANGED <<currentUser, keychain>>

\* The decorated callback of call c is dispatched to the main queue.
Complete(c, ok) ==
    /\ call' = [call EXCEPT ![c] = None]
    /\ mainQueue' = Append(mainQueue, [call |-> c, ok |-> ok])

InPhase(c, phase) == call[c] # None /\ call[c].phase = phase

-----------------------------------------------------------------------------
\* signInWithEmail:password:completion: and createUserWithEmail:...
Submit(c, kind, email) ==
    /\ call[c] = None
    /\ \A i \in DOMAIN mainQueue : mainQueue[i].call # c
    /\ call' = [call EXCEPT
          ![c] = [phase |-> "verifying", kind |-> kind, email |-> email]]
    /\ UNCHANGED <<accounts, currentUser, keychain, mainQueue>>

\* Slip: the request is recorded instead of its e-mail address.
VerifyRecordsRequest(c) ==
    /\ InPhase(c, "verifying")
    /\ accounts' = accounts \cup {call[c]}
    /\ call' = [call EXCEPT ![c].phase = "retrieving"]
    /\ UNCHANGED <<currentUser, keychain, mainQueue>>

\* The server accepts the password, or makes the account, and sends tokens.
VerifySucceeds(c) ==
    /\ InPhase(c, "verifying")
    /\ (call[c].kind = "signIn") <=> (call[c].email \in accounts)
    /\ accounts' = accounts \cup {call[c].email}
    /\ call' = [call EXCEPT ![c].phase = "retrieving"]
    /\ UNCHANGED <<currentUser, keychain, mainQueue>>

\* Slip: the user of a call is signed in before the server has answered.
VerifyFailsSignsIn(c) ==
    /\ InPhase(c, "verifying")
    /\ Updated(call[c].email)
    /\ Complete(c, FALSE)
    /\ UNCHANGED accounts

\* The first request fails: wrong password, e-mail in use, no network.  A
\* sign-up whose answer is lost on the way has made its account all the same.
VerifyFails(c) ==
    /\ InPhase(c, "verifying")
    /\ \/ UNCHANGED accounts
       \/ /\ call[c].kind = "createUser"
          /\ accounts' = accounts \cup {call[c].email}
    /\ Complete(c, FALSE)
    /\ UNCHANGED <<currentUser, keychain>>

\* getAccountInfo answers with the user, who is signed in if the keychain
\* can store the user.
RetrieveSucceeds(c) ==
    /\ InPhase(c, "retrieving")
    /\ \/ Updated(call[c].email) /\ Complete(c, TRUE)
       \/ UpdateRefused(call[c].email) /\ Complete(c, FALSE)
    /\ UNCHANGED accounts

\* getAccountInfo, or the token request before it, fails.  A sign-in passes
\* the error on.
RetrieveFails(c) ==
    /\ InPhase(c, "retrieving")
    /\ call[c].kind = "signIn"
    /\ Complete(c, FALSE)
    /\ UNCHANGED <<accounts, currentUser, keychain>>

\* A sign-up drops the error and reports a result whose user is nil, which
\* the decorated callback makes the current user.
RetrieveFailsUnnoticed(c) ==
    /\ InPhase(c, "retrieving")
    /\ call[c].kind = "createUser"
    /\ \/ Updated(None) /\ Complete(c, TRUE)
       \/ UpdateRefused(None) /\ Complete(c, FALSE)
    /\ UNCHANGED accounts

SignOut ==
    /\ \/ Updated(None)
       \/ UpdateRefused(None)
    /\ UNCHANGED <<accounts, call, mainQueue>>

RunCallback ==
    /\ mainQueue # <<>>
    /\ mainQueue' = Tail(mainQueue)
    /\ UNCHANGED <<accounts, currentUser, keychain, call>>

\* The process ends; the next one starts by loading the keychain's user on
\* the work queue, before any currentUser can be read.  A sign-up that was
\* on its way to the server may still make its account.
Restart ==
    /\ \E late \in SUBSET {call[c].email : c \in {d \in Calls :
                 InPhase(d, "verifying") /\ call[d].kind = "createUser"}} :
          accounts' = accounts \cup late
    /\ currentUser' \in {keychain, None}
    /\ call' = [c \in Calls |-> None]
    /\ mainQueue' = <<>>
    /\ UNCHANGED keychain

Next ==
    \/ \E c \in Calls, kind \in Kinds, email \in Users : Submit(c, kind, email)
    \/ \E c \in Calls : VerifySucceeds(c)
    \/ \E c \in Calls : VerifyFails(c)
    \/ \E c \in Calls : RetrieveSucceeds(c)
    \/ \E c \in Calls : RetrieveFails(c)
    \/ \E c \in Calls : RetrieveFailsUnnoticed(c)
    \/ SignOut
    \/ RunCallback
    \/ Restart

Verify(c) == VerifySucceeds(c) \/ VerifyFails(c)
Retrieve(c) == RetrieveSucceeds(c) \/ RetrieveFails(c) \/ RetrieveFailsUnnoticed(c)

\* Requests time out, so each of the two ends; the queues are drained.
Fairness ==
    /\ \A c \in Calls : WF_authVars(Verify(c)) /\ WF_authVars(Retrieve(c))
    /\ WF_authVars(RunCallback)

Spec == Init /\ [][Next]_authVars /\ Fairness

-----------------------------------------------------------------------------
\* The values the library's state ranges over.
AuthTypeOK ==
    /\ accounts \subseteq Users
    /\ currentUser \in Users \cup {None}
    /\ keychain \in Users \cup {None}
    /\ call \in [Calls -> OpenCalls \cup {None}]
    /\ mainQueue \in Seq([call : Calls, ok : BOOLEAN])

\* Nobody is signed in, or about to be, or stored for the next launch,
\* without an account on the server: no failed sign-up leaves a session.
AccountBeforeSession ==
    /\ currentUser # None => currentUser \in accounts
    /\ keychain # None => keychain \in accounts
    /\ \A c \in Calls : InPhase(c, "retrieving") => call[c].email \in accounts

\* FIRAuth.h documents createUser with "Creates and, on success, signs in a
\* user with the given email address and password": the step that queues a
\* success leaves the user of the call signed in.
SuccessSignsIn ==
    [][\A c \in Calls :
          (call[c] # None /\ mainQueue' = Append(mainQueue, [call |-> c, ok |-> TRUE]))
            => currentUser' = call[c].email]_authVars

\* For the app a request is open until its outcome is queued, whatever phase
\* it is in.
Opened(r) == IF r = None THEN None ELSE [kind |-> r.kind, email |-> r.email]

Seen == [c \in Calls |-> Opened(call[c])]

Promise == INSTANCE Session WITH
    user <- currentUser,
    saved <- keychain,
    calls <- Seen,
    replies <- mainQueue

\* The library implements the session it promises: its two requests, its
\* serial queue and its keychain look to the app like one step per outcome.
ImplementsSession == Promise!SessionSpec

\* Its steps alone, without what fairness makes of them.
ImplementsSteps == Promise!SessionSteps
=============================================================================
