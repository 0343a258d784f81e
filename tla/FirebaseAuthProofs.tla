------------------------- MODULE FirebaseAuthProofs -------------------------
(***************************************************************************)
(* For any users and any number of calls in flight: module FirebaseAuth    *)
(* keeps its types, never has a session without an account, and takes no   *)
(* step that module Session does not promise.                              *)
(***************************************************************************)
EXTENDS FirebaseAuth, SequenceTheorems, TLAPS

\* A request in flight has the fields of its type.
LEMMA InPhaseType ==
    ASSUME AuthTypeOK, NEW c \in Calls, call[c] # None
    PROVE  /\ call[c] \in OpenCalls
           /\ call[c].email \in Users
           /\ call[c].kind \in Kinds
           /\ call[c] = [phase |-> call[c].phase, kind |-> call[c].kind,
                         email |-> call[c].email]
BY DEF AuthTypeOK, OpenCalls

\* Completing a call keeps the types of the calls and of the queue.
LEMMA CompleteType ==
    ASSUME AuthTypeOK, NEW c \in Calls, NEW ok \in BOOLEAN, Complete(c, ok)
    PROVE  /\ call' \in [Calls -> OpenCalls \cup {None}]
           /\ mainQueue' \in Seq([call : Calls, ok : BOOLEAN])
BY DEF AuthTypeOK, Complete

\* The steps keep the state well typed.
LEMMA AuthTypeStep ==
    ASSUME AuthTypeOK, [Next]_authVars
    PROVE  AuthTypeOK'
<1>1. ASSUME NEW c \in Calls, NEW kind \in Kinds, NEW email \in Users,
             Submit(c, kind, email)
      PROVE  AuthTypeOK'
  BY <1>1 DEF AuthTypeOK, Submit, OpenCalls, Phases
<1>2. ASSUME NEW c \in Calls, VerifySucceeds(c)
      PROVE  AuthTypeOK'
  <2>1. call[c] # None
    BY <1>2 DEF VerifySucceeds, InPhase
  <2>2. [call[c] EXCEPT !.phase = "retrieving"] \in OpenCalls
    BY <2>1, InPhaseType DEF OpenCalls, Phases
  <2> QED
    BY <1>2, <2>1, <2>2, InPhaseType DEF VerifySucceeds, AuthTypeOK
<1>3. ASSUME NEW c \in Calls, VerifyFails(c)
      PROVE  AuthTypeOK'
  BY <1>3, InPhaseType, CompleteType DEF AuthTypeOK, VerifyFails, InPhase
<1>4. ASSUME NEW c \in Calls, RetrieveSucceeds(c)
      PROVE  AuthTypeOK'
  BY <1>4, InPhaseType, CompleteType
  DEF AuthTypeOK, RetrieveSucceeds, InPhase, Updated, UpdateRefused
<1>5. ASSUME NEW c \in Calls, RetrieveFails(c)
      PROVE  AuthTypeOK'
  BY <1>5, CompleteType DEF AuthTypeOK, RetrieveFails
<1>6. ASSUME NEW c \in Calls, RetrieveFailsUnnoticed(c)
      PROVE  AuthTypeOK'
  BY <1>6, CompleteType
  DEF AuthTypeOK, RetrieveFailsUnnoticed, Updated, UpdateRefused
<1>7. ASSUME RunCallback
      PROVE  AuthTypeOK'
  BY <1>7, HeadTailProperties DEF AuthTypeOK, RunCallback
<1>8. ASSUME Restart
      PROVE  AuthTypeOK'
  <2>1. \A c \in Calls : InPhase(c, "verifying") => call[c].email \in Users
    BY InPhaseType DEF InPhase
  <2> QED
    BY <1>8, <2>1 DEF AuthTypeOK, Restart
<1>9. CASE SignOut \/ UNCHANGED authVars
  BY <1>9 DEF AuthTypeOK, SignOut, Updated, UpdateRefused, authVars
<1> QED
  BY <1>1, <1>2, <1>3, <1>4, <1>5, <1>6, <1>7, <1>8, <1>9 DEF Next

\* Every reachable state of the library is well typed.
THEOREM AuthTypes == Spec => []AuthTypeOK
<1>1. Init => AuthTypeOK
  BY DEF Init, AuthTypeOK
<1> QED
  BY <1>1, AuthTypeStep, PTL DEF Spec

-----------------------------------------------------------------------------
\* A session, in memory or in the keychain, comes only from a call whose
\* account the server has confirmed.
LEMMA AccountStep ==
    ASSUME AuthTypeOK, AccountBeforeSession, [Next]_authVars
    PROVE  AccountBeforeSession'
<1>1. ASSUME NEW c \in Calls, NEW kind \in Kinds, NEW email \in Users,
             Submit(c, kind, email)
      PROVE  AccountBeforeSession'
  BY <1>1 DEF AuthTypeOK, AccountBeforeSession, Submit, InPhase
<1>2. ASSUME NEW c \in Calls, VerifySucceeds(c)
      PROVE  AccountBeforeSession'
  <2>1. call[c] # None
    BY <1>2 DEF VerifySucceeds, InPhase
  <2>2. \A d \in Calls : d # c => call'[d] = call[d]
    BY <1>2 DEF VerifySucceeds, AuthTypeOK
  <2>3. call'[c].email = call[c].email
    BY <1>2, <2>1, InPhaseType DEF VerifySucceeds, AuthTypeOK
  <2> QED
    BY <1>2, <2>2, <2>3 DEF VerifySucceeds, AccountBeforeSession, InPhase
<1>3. ASSUME NEW c \in Calls, VerifyFails(c) \/ RetrieveFails(c)
      PROVE  AccountBeforeSession'
  BY <1>3 DEF AuthTypeOK, AccountBeforeSession, VerifyFails, RetrieveFails,
              Complete, InPhase
<1>4. ASSUME NEW c \in Calls, RetrieveSucceeds(c) \/ RetrieveFailsUnnoticed(c)
      PROVE  AccountBeforeSession'
  BY <1>4 DEF AuthTypeOK, AccountBeforeSession, RetrieveSucceeds,
              RetrieveFailsUnnoticed, Updated, UpdateRefused, Complete, InPhase
<1>5. CASE SignOut
  BY <1>5 DEF AccountBeforeSession, SignOut, Updated, UpdateRefused, InPhase
<1>6. CASE Restart
  BY <1>6 DEF AccountBeforeSession, Restart, InPhase
<1>7. CASE RunCallback \/ UNCHANGED authVars
  BY <1>7 DEF AccountBeforeSession, RunCallback, InPhase, authVars
<1> QED
  BY <1>1, <1>2, <1>3, <1>4, <1>5, <1>6, <1>7 DEF Next

\* Nobody is signed in or stored without an account.
THEOREM SessionsHaveAccounts == Spec => []AccountBeforeSession
<1>1. Init => AccountBeforeSession
  BY DEF Init, AccountBeforeSession, InPhase
<1> QED
  BY <1>1, AuthTypes, AccountStep, PTL DEF Spec

-----------------------------------------------------------------------------
\* A request in flight is one that the app sees open.
LEMMA SeenRequest ==
    ASSUME AuthTypeOK, NEW c \in Calls, call[c] # None
    PROVE  /\ Seen[c] = [kind |-> call[c].kind, email |-> call[c].email]
           /\ Seen[c].kind = call[c].kind
           /\ Seen[c].email = call[c].email
           /\ Seen[c] # None
<1>1. [kind |-> call[c].kind, email |-> call[c].email] \in [kind : Kinds, email : Users]
  BY InPhaseType
<1> QED
  BY <1>1, NoneAssumption DEF Seen, Opened

\* The app sees the other calls as they were when one of them changes.
LEMMA SeenChange ==
    ASSUME AuthTypeOK, NEW c \in Calls,
           call' = [call EXCEPT ![c] = call'[c]]
    PROVE  Seen' = [Seen EXCEPT ![c] = Opened(call'[c])]
<1>1. \A d \in Calls : call'[d] = IF d = c THEN call'[c] ELSE call[d]
  BY DEF AuthTypeOK
<1>2. Seen' = [d \in Calls |-> Opened(call'[d])]
  BY DEF Seen, Opened
<1>3. \A d \in Calls : Opened(call'[d]) = IF d = c THEN Opened(call'[c]) ELSE Opened(call[d])
  BY <1>1 DEF Opened
<1> QED
  BY <1>2, <1>3 DEF Seen

\* A call that completes is, for the app, one that is answered.
LEMMA CompleteIsReply ==
    ASSUME AuthTypeOK, NEW c \in Calls, NEW ok \in BOOLEAN,
           call[c] # None, Complete(c, ok)
    PROVE  Promise!Reply(c, ok)
<1>1. call'[c] = None /\ call' = [call EXCEPT ![c] = call'[c]]
  BY DEF AuthTypeOK, Complete
<1>2. Opened(call'[c]) = None
  BY <1>1 DEF Opened
<1> QED
  BY <1>1, <1>2, SeenChange, SeenRequest DEF Complete, Promise!Reply

\* The initial state is one the promise allows.
LEMMA InitRefines == Init => Promise!SessionInit
BY DEF Init, Promise!SessionInit, Seen, Opened

\* A step of the library is a step of the promise, or the app cannot see it.
LEMMA StepRefines ==
    ASSUME AuthTypeOK, [Next]_authVars
    PROVE  [Promise!SessionNext]_Promise!sessionVars
<1>1. ASSUME NEW c \in Calls, NEW kind \in Kinds, NEW email \in Users,
             Submit(c, kind, email)
      PROVE  Promise!SubmitCall(c, kind, email)
  <2> DEFINE new == [phase |-> "verifying", kind |-> kind, email |-> email]
  <2>1. call'[c] = new /\ call' = [call EXCEPT ![c] = call'[c]]
    BY <1>1 DEF Submit, AuthTypeOK
  <2>2. new \in OpenCalls
    BY DEF OpenCalls, Phases
  <2>3. Opened(new) = [kind |-> kind, email |-> email]
    BY <2>2, NoneAssumption DEF Opened
  <2>4. Seen[c] = None
    BY <1>1 DEF Submit, Seen, Opened
  <2> HIDE DEF new
  <2> QED
    BY <1>1, <2>1, <2>3, <2>4, SeenChange
    DEF Submit, Promise!SubmitCall, Promise!Free
<1>2. ASSUME NEW c \in Calls, VerifySucceeds(c)
      PROVE  UNCHANGED Promise!sessionVars
  <2>1. call[c] # None
    BY <1>2 DEF VerifySucceeds, InPhase
  <2>2. /\ call' = [call EXCEPT ![c] = call'[c]]
        /\ call'[c].kind = call[c].kind
        /\ call'[c].email = call[c].email
        /\ call'[c] \in OpenCalls
    BY <1>2, <2>1, InPhaseType DEF VerifySucceeds, AuthTypeOK, OpenCalls, Phases
  <2>3. Opened(call'[c]) = Seen[c]
    BY <2>1, <2>2, SeenRequest, NoneAssumption DEF Opened
  <2>4. Seen' = Seen
    BY <2>2, <2>3, SeenChange DEF Seen
  <2> QED
    BY <1>2, <2>4 DEF VerifySucceeds, Promise!sessionVars
<1>3. ASSUME NEW c \in Calls, VerifyFails(c) \/ RetrieveFails(c)
      PROVE  Promise!RejectCall(c)
  BY <1>3, CompleteIsReply
  DEF VerifyFails, RetrieveFails, InPhase, Promise!RejectCall
<1>4. ASSUME NEW c \in Calls, RetrieveSucceeds(c)
      PROVE  Promise!SignInCall(c) \/ Promise!RejectCall(c)
  <2>1. call[c] # None /\ call[c].email # None
    BY <1>4, NoneAssumption, InPhaseType DEF RetrieveSucceeds, InPhase
  <2>2. CASE Updated(call[c].email) /\ Complete(c, TRUE)
    <3>1. Promise!Reply(c, TRUE)
      BY <2>1, <2>2, CompleteIsReply
    <3>2. Seen[c].email = call[c].email
      BY <2>1, SeenRequest
    <3> QED
      BY <2>1, <2>2, <3>1, <3>2 DEF Updated, Promise!SignInCall
  <2>3. CASE UpdateRefused(call[c].email) /\ Complete(c, FALSE)
    BY <2>1, <2>3, CompleteIsReply DEF UpdateRefused, Promise!RejectCall
  <2> QED
    BY <1>4, <2>2, <2>3 DEF RetrieveSucceeds
<1>5. ASSUME NEW c \in Calls, RetrieveFailsUnnoticed(c)
      PROVE  Promise!SignInNobody(c) \/ Promise!RejectCall(c)
  <2>1. call[c] # None /\ call[c].kind = "createUser"
    BY <1>5 DEF RetrieveFailsUnnoticed, InPhase
  <2>2. CASE Updated(None) /\ Complete(c, TRUE)
    <3>1. Promise!Reply(c, TRUE)
      BY <2>1, <2>2, CompleteIsReply
    <3>2. Seen[c].kind = "createUser"
      BY <2>1, SeenRequest
    <3> QED
      BY <2>2, <3>1, <3>2 DEF Updated, Promise!SignInNobody
  <2>3. CASE UpdateRefused(None) /\ Complete(c, FALSE)
    BY <2>1, <2>3, CompleteIsReply DEF UpdateRefused, Promise!RejectCall
  <2> QED
    BY <1>5, <2>2, <2>3 DEF RetrieveFailsUnnoticed
<1>6. CASE SignOut
  BY <1>6 DEF SignOut, Updated, UpdateRefused, Seen, Promise!SessionNext,
              Promise!SignOutUser, Promise!sessionVars
<1>7. CASE RunCallback
  BY <1>7 DEF RunCallback, Seen, Promise!SessionNext, Promise!DeliverReply
<1>8. CASE Restart
  BY <1>8 DEF Restart, Seen, Opened, Promise!SessionNext, Promise!RelaunchSession
<1>9. CASE UNCHANGED authVars
  BY <1>9 DEF authVars, Seen, Promise!sessionVars
<1> QED
  BY <1>1, <1>2, <1>3, <1>4, <1>5, <1>6, <1>7, <1>8, <1>9
  DEF Next, Promise!SessionNext, Kinds, Promise!Kinds

\* The library implements the steps of the session it promises the app.
THEOREM AuthImplementsSteps == Spec => ImplementsSteps
<1> QED
  BY InitRefines, StepRefines, AuthTypes, PTL
  DEF Spec, ImplementsSteps, Promise!SessionSteps
=============================================================================
