------------------------------ MODULE Session ------------------------------
(***************************************************************************)
(* What FirebaseAuth promises to the app: the session it keeps in memory   *)
(* and in the keychain, the calls the app has made and that it has not     *)
(* decided yet, and the replies it has queued for the main thread.         *)
(*                                                                         *)
(* Module FirebaseAuth models how the library keeps the promise, and       *)
(* module LosTrouvee builds the app on top of it.                          *)
(***************************************************************************)
EXTENDS Naturals, Sequences

CONSTANTS
    Users,   \* e-mail addresses of accounts
    Calls,   \* slots for calls that have been made and not yet answered
    None     \* nil

Kinds == {"signIn", "createUser"}
Requests == [kind : Kinds, email : Users]

\* nil is neither a user nor a request.
ASSUME NoneAssumption == None \notin Users /\ None \notin Requests

VARIABLES
    user,    \* the signed-in user that currentUser returns, or None
    saved,   \* the user stored in the keychain, or None
    calls,   \* calls[c]: the request whose outcome is still open, or None
    replies  \* callbacks dispatched to the main queue and not run yet

sessionVars == <<user, saved, calls, replies>>

\* Slot c holds no call: nothing is open and no callback is under way.
Free(c) == /\ calls[c] = None
           /\ \A i \in DOMAIN replies : replies[i].call # c

SessionInit ==
    /\ user = None
    /\ saved = None
    /\ calls = [c \in Calls |-> None]
    /\ replies = <<>>

-----------------------------------------------------------------------------
(* Operations the app calls on the main thread. *)

SubmitCall(c, kind, email) ==
    /\ Free(c)
    /\ calls' = [calls EXCEPT ![c] = [kind |-> kind, email |-> email]]
    /\ UNCHANGED <<user, saved, replies>>

\* Slip: only the keychain forgets the user.
SignOutKeychain ==
    /\ saved' = None
    /\ UNCHANGED <<user, calls, replies>>

\* Signing out when nobody is signed in touches nothing.
SignOutUser ==
    /\ user' = None
    /\ saved' = IF user = None THEN saved ELSE None
    /\ UNCHANGED <<calls, replies>>

\* The keychain refuses to forget the user, who therefore stays signed in.
SignOutFails == user # None /\ UNCHANGED sessionVars

\* Slip: the last callback waits for another one.
DeliverReplyLate ==
    /\ Len(replies) > 1
    /\ replies' = Tail(replies)
    /\ UNCHANGED <<user, saved, calls>>

\* The main thread takes the oldest queued callback.
DeliverReply ==
    /\ replies # <<>>
    /\ replies' = Tail(replies)
    /\ UNCHANGED <<user, saved, calls>>

-----------------------------------------------------------------------------
(* Outcomes, decided on the library's own queue. *)

\* Slip: the request stays open when its callback is queued.
ReplyAgain(c, ok) ==
    /\ calls[c] # None
    /\ replies' = Append(replies, [call |-> c, ok |-> ok])
    /\ UNCHANGED calls

Reply(c, ok) ==
    /\ calls[c] # None
    /\ calls' = [calls EXCEPT ![c] = None]
    /\ replies' = Append(replies, [call |-> c, ok |-> ok])

\* Slip: the request is kept in place of its user.
SignInRequest(c) ==
    /\ Reply(c, TRUE)
    /\ user' = calls[c]
    /\ saved' = calls[c]

SignInCall(c) ==
    /\ Reply(c, TRUE)
    /\ user' = calls[c].email
    /\ saved' = calls[c].email

RejectCall(c) == Reply(c, FALSE) /\ UNCHANGED <<user, saved>>

\* createUser reports success although the new user could not be retrieved:
\* the session becomes that of nobody.
SignInNobody(c) ==
    /\ Reply(c, TRUE)
    /\ calls[c].kind = "createUser"
    /\ user' = None
    /\ saved' = IF user = None THEN saved ELSE None

DecideCall(c) == SignInCall(c) \/ RejectCall(c) \/ SignInNobody(c)

-----------------------------------------------------------------------------
\* The process ends and the app is launched again: the keychain's user is
\* signed in unless the keychain cannot be read.
RelaunchSession ==
    /\ user' \in {saved, None}
    /\ calls' = [c \in Calls |-> None]
    /\ replies' = <<>>
    /\ UNCHANGED saved

SessionNext ==
    \/ \E c \in Calls, kind \in Kinds, email \in Users : SubmitCall(c, kind, email)
    \/ \E c \in Calls : SignInCall(c)
    \/ \E c \in Calls : RejectCall(c)
    \/ \E c \in Calls : SignInNobody(c)
    \/ SignOutUser
    \/ SignOutFails
    \/ DeliverReply
    \/ RelaunchSession

\* Requests end, if only by a time-out, and the main queue is drained.
SessionFairness ==
    /\ \A c \in Calls : WF_sessionVars(DecideCall(c))
    /\ WF_sessionVars(DeliverReply)

SessionSteps == SessionInit /\ [][SessionNext]_sessionVars
SessionSpec == SessionSteps /\ SessionFairness

-----------------------------------------------------------------------------
\* The values of the session's state.
SessionTypeOK ==
    /\ user \in Users \cup {None}
    /\ saved \in Users \cup {None}
    /\ calls \in [Calls -> Requests \cup {None}]
    /\ replies \in Seq([call : Calls, ok : BOOLEAN])

\* Whoever is signed in is the user the keychain holds, so that a relaunch
\* never signs in somebody else (updateCurrentUser saves before it assigns).
SessionPersisted == user # None => saved = user

\* A call is open, or has exactly one callback queued, or is over: the
\* completion block of a sign-in is neither lost nor run twice.
OneReplyPerCall ==
    \A i \in DOMAIN replies :
        /\ calls[replies[i].call] = None
        /\ \A j \in DOMAIN replies : replies[i].call = replies[j].call => i = j

\* Every call the app makes is answered in the end, or lost with the process.
CallsAnswered == \A c \in Calls : calls[c] # None ~> Free(c)
=============================================================================
