----------------------------- MODULE SyncSession -----------------------------
(***************************************************************************)
(* Realm ObjectStore's sync sessions of ONE user and ONE Realm path: the   *)
(* four-state SyncSession, its external references, the registry of        *)
(* SyncManager and the session lists of SyncUser, on several threads.      *)
(*                                                                         *)
(* Every mutex section of the session's own m_state_mutex is one action    *)
(* (nothing waits while it holds it).  SyncManager's m_session_mutex (mgr) *)
(* and SyncUser's m_mutex (usr) are explicit, because calls block on one   *)
(* while they hold the other.  A thread is the stack of the sections it    *)
(* still has to run: each frame is [do, s].                                *)
(*                                                                         *)
(* External: the sync client's own session (m_session), reduced to what it *)
(* was told (bind, commit, wait) and to when it answers; the binding, which*)
(* answers a request for a token or never does.                            *)
(***************************************************************************)
EXTENDS Integers, Sequences, FiniteSets

CONSTANTS Threads,      \* the app's threads
          Client,       \* the sync client's event loop thread
          Sessions,     \* the SyncSession objects that can be made
          Waits,        \* completion callbacks the app can register
          Policy,       \* "Immediately", "LiveIndefinitely", "AfterChangesUploaded"
          Errors,       \* the errors the server reports while calls do not overlap
          RacingErrors, \* the errors it reports while they do
          Overlaps,     \* whether calls may overlap: a set of Booleans
          MaxCalls,     \* bound: calls of get_session and log_out
          MaxRacing,    \* bound: the same, when calls overlap
          MaxCommits,   \* bound: local commits
          None

AllErrors == {"expired", "auth", "denied", "fatal", "info"}

ASSUME SyncSessionAssumption ==
    /\ Client \notin Threads
    /\ None \notin Sessions \cup Threads \cup {Client}
    /\ Policy \in {"Immediately", "LiveIndefinitely", "AfterChangesUploaded"}
    /\ Errors \cup RacingErrors \subseteq AllErrors
    /\ Overlaps \subseteq BOOLEAN
    /\ MaxCalls \in Nat /\ MaxRacing \in Nat /\ MaxCommits \in Nat

VARIABLES
    sess,      \* SyncSession objects
    made,      \* those constructed so far
    registry,  \* SyncManager::m_sessions at the path
    user,      \* SyncUser::m_state
    live,      \* SyncUser::m_sessions at the path (weak)
    waiting,   \* SyncUser::m_waiting_sessions at the path (weak)
    mgr,       \* who holds SyncManager::m_session_mutex
    usr,       \* who holds SyncUser::m_mutex
    stack,     \* what each thread still has to run
    realm,     \* the session each app thread holds an external reference to
    borrow,    \* the external reference a thread holds inside a call
    requests,  \* the session whose refresh handle is registered for the path
    answered,  \* how often each completion callback was called
    version,   \* latest version of the Realm file
    uploaded,  \* latest version the server has
    calls,     \* calls left
    overlap,   \* whether a call may start while another is running
    crashed    \* SyncManager dereferenced an entry that does not exist

vars == <<sess, made, registry, user, live, waiting, mgr, usr, stack, realm, borrow,
          requests, answered, version, uploaded, calls, overlap, crashed>>

users == <<user, live, waiting>>
locks == <<mgr, usr>>
refs  == <<realm, borrow>>
asks  == <<requests, answered>>
data  == <<version, uploaded>>
fixed == <<made, calls, overlap, crashed>>

Actors == Threads \cup {Client}
States == {"waiting", "active", "dying", "inactive"}

(* A session as constructed.  open: m_session exists.  bound:
   m_session_has_been_bound.  commit: m_deferred_commit_notification (0: none).
   told: the newest version m_session knows of.  queue:
   m_completion_wait_packages.  waits: callbacks handed to m_session.
   uploads: upload-completion callbacks of Dying, with their death count. *)
NewSession == [st |-> "inactive", open |-> FALSE, bound |-> FALSE, deferClose |-> FALSE,
               deaths |-> 0, commit |-> 0, told |-> 0, queue |-> {}, waits |-> {},
               uploads |-> {}]

Init ==
    /\ sess = [s \in Sessions |-> NewSession] /\ made = {}
    /\ registry = None /\ user = "Active" /\ live = None /\ waiting = None
    /\ mgr = None /\ usr = None
    /\ stack = [t \in Actors |-> << >>]
    /\ realm = [t \in Threads |-> None] /\ borrow = [t \in Actors |-> None]
    /\ requests = {} /\ answered = [w \in Waits |-> 0]
    /\ version = 0 /\ uploaded = 0 /\ crashed = FALSE
    /\ overlap \in Overlaps /\ calls = IF overlap THEN MaxRacing ELSE MaxCalls

-----------------------------------------------------------------------------
(* Entering a state (enter_state), as a function of the session record.  The
   aborted callbacks of a destroyed m_session may come at any time: version 0. *)

ToInactive(r) == [r EXCEPT !.st = "inactive", !.open = FALSE, !.queue = {},
                           !.uploads = {[u EXCEPT !.v = 0] : u \in @}]

ToWaiting(r) == [r EXCEPT !.st = "waiting", !.deferClose = FALSE]

ToDying(r) ==
    IF r.open THEN [r EXCEPT !.st = "dying", !.deaths = @ + 1,
                             !.uploads = @ \cup {[n |-> r.deaths + 1, v |-> r.told]}]
              ELSE ToInactive(r)

(* SyncSession::State::close *)
Closed(r) ==
    CASE r.st = "waiting" -> IF Policy = "Immediately" THEN ToInactive(r)
                                                       ELSE [r EXCEPT !.deferClose = TRUE]
      [] r.st = "active" /\ Policy = "Immediately" -> ToInactive(r)
      [] r.st = "active" /\ Policy = "AfterChangesUploaded" -> ToDying(r)
      [] OTHER -> r

(* State::revive_if_needed; only an inactive session needs a token. *)
RevivedStillClosing(r) ==
    CASE r.st = "dying" -> [r EXCEPT !.st = "active"]
      [] r.st = "inactive" -> ToWaiting(r)
      [] OTHER -> r
Revived(r) ==
    CASE r.st = "waiting" -> [r EXCEPT !.deferClose = FALSE]
      [] r.st = "dying" -> [r EXCEPT !.st = "active"]
      [] r.st = "inactive" -> ToWaiting(r)
      [] OTHER -> r

(* What m_session knows of after a token: one bound anew reads the file, one
   refreshed gets the deferred commit notification. *)
TellsNothingNew(r) == IF r.open /\ r.bound THEN r.told ELSE version
Tells(r) == IF ~(r.open /\ r.bound) THEN version
            ELSE IF r.commit > 0 THEN r.commit ELSE r.told

(* create_sync_session if there is none, bind or refresh it, hand over the
   queued callbacks and the deferred commit, go Active. *)
BoundWith(r, commit, waits, queue) ==
    [r EXCEPT !.st = "active", !.open = TRUE, !.bound = TRUE, !.told = Tells(r),
              !.commit = commit, !.waits = waits, !.queue = queue]
BoundKeepsQueue(r) == BoundWith(r, 0, r.waits \cup r.queue, r.queue)
BoundDropsQueue(r) == BoundWith(r, 0, r.waits, {})
BoundNoCommitIsMinusOne(r) == BoundWith(r, -1, r.waits \cup r.queue, {})
Bound(r) == BoundWith(r, 0, r.waits \cup r.queue, {})

(* State::refresh_access_token: only a waiting session changes; a close asked
   for meanwhile is done at once. *)
Refreshed(r) == IF r.st # "waiting" THEN r
                ELSE IF r.deferClose THEN Closed(Bound(r)) ELSE Bound(r)

(* State::log_out *)
LoggedOutDyingStays(r) == IF r.st \in {"inactive", "dying"} THEN r ELSE ToInactive(r)
LoggedOut(r) == IF r.st = "inactive" THEN r ELSE ToInactive(r)

(* State::nonsync_transact_notify: a dying or inactive session ignores it. *)
Notified(r, v) == CASE r.st = "waiting" -> [r EXCEPT !.commit = v]
                    [] r.st = "active" -> [r EXCEPT !.told = v]
                    [] OTHER -> r

-----------------------------------------------------------------------------
(* Threads. *)

Frame(do, s) == [do |-> do, s |-> s, ws |-> {}]
Idle(t) == stack[t] = << >>
Runs(t, do) == ~crashed /\ ~Idle(t) /\ Head(stack[t]).do = do
Top(t) == Head(stack[t]).s
MayStart(t) == ~crashed /\ Idle(t) /\ (~overlap => \A u \in Actors : Idle(u))

(* No external reference to s: m_external_reference has expired. *)
Expired(s) == /\ \A t \in Threads : realm[t] # s
              /\ \A t \in Actors : borrow[t] # s

(* Somebody still owns the object. *)
Alive(s) == \/ registry = s \/ ~Expired(s) \/ s \in requests
            \/ \E t \in Actors : \E i \in DOMAIN stack[t] : stack[t][i].s = s

(* s becomes r in t's section; when that enters Inactive, t then unregisters s
   and calls the queued callbacks with operation_aborted. *)
SectionEarly(t, s, r, rest) ==
    LET fell == r.st \in {"dying", "inactive"} /\ sess[s].st # r.st
        calling == [do |-> "cancel", s |-> s, ws |-> {}]
    IN /\ sess' = [sess EXCEPT ![s] = r]
       /\ stack' = [stack EXCEPT ![t] =
              IF fell THEN <<Frame("unregister", s), calling>> \o rest ELSE rest]
Section(t, s, r, rest) ==
    LET fell == r.st = "inactive" /\ sess[s].st # "inactive"
        calling == [do |-> "cancel", s |-> s, ws |-> sess[s].queue]
    IN /\ sess' = [sess EXCEPT ![s] = r]
       /\ stack' = [stack EXCEPT ![t] =
              IF fell THEN <<Frame("unregister", s), calling>> \o rest ELSE rest]

Push(t, frames) == stack' = [stack EXCEPT ![t] = frames \o Tail(@)]

(* SyncManager::get_session, up to the user's lock.  A new session gets its
   external reference before it is registered, an existing one after. *)
GetSession(t) ==
    /\ MayStart(t) /\ mgr = None /\ realm[t] = None /\ calls > 0
    /\ calls' = calls - 1 /\ mgr' = t
    /\ IF registry # None
       THEN /\ stack' = [stack EXCEPT ![t] = <<Frame("register", registry), Frame("external", registry)>>]
            /\ UNCHANGED <<made, registry, realm>>
       ELSE \E s \in Sessions \ made :
              /\ made' = made \cup {s} /\ registry' = s
              /\ realm' = [realm EXCEPT ![t] = s]
              /\ stack' = [stack EXCEPT ![t] = <<Frame("register", s), Frame("release", s)>>]
    /\ UNCHANGED <<sess, users, usr, borrow, asks, data, overlap, crashed>>

(* SyncUser::register_session: the lock is dropped before the revival. *)
Register(t) ==
    /\ Runs(t, "register") /\ usr = None
    /\ CASE user = "Active" -> live' = Top(t) /\ UNCHANGED waiting /\ Push(t, <<Frame("revive", Top(t))>>)
         [] user = "LoggedOut" -> waiting' = Top(t) /\ UNCHANGED live /\ Push(t, << >>)
         [] OTHER -> UNCHANGED <<live, waiting>> /\ Push(t, << >>)
    /\ UNCHANGED <<sess, fixed, registry, user, locks, refs, asks, data>>

(* SyncSession::revive_if_needed, and the binding's handler.  The binding keeps
   one refresh handle per path: registering one invalidates the one before
   (here, in TokenExpired and in Reconnect), so an older request is forgotten. *)
Revive(t) ==
    /\ Runs(t, "revive")
    /\ Section(t, Top(t), Revived(sess[Top(t)]), Tail(stack[t]))
    /\ requests' = IF sess[Top(t)].st = "inactive" THEN {Top(t)} ELSE requests
    /\ UNCHANGED <<fixed, registry, users, locks, refs, answered, data>>

(* SyncSession::external_reference at the end of get_session; the manager's
   lock is released with it. *)
TakeReference(t) ==
    /\ Runs(t, "external")
    /\ realm' = [realm EXCEPT ![t] = Top(t)] /\ mgr' = None /\ Push(t, << >>)
    /\ UNCHANGED <<sess, fixed, registry, users, usr, borrow, asks, data>>

(* The manager's lock goes out of scope. *)
Release(t) ==
    /\ Runs(t, "release")
    /\ mgr' = None /\ Push(t, << >>)
    /\ UNCHANGED <<sess, fixed, registry, users, usr, refs, asks, data>>

(* The last owner of the external reference lets go: the weak pointer has
   expired before ~ExternalReference runs. *)
LetGo(t) ==
    /\ MayStart(t) /\ realm[t] # None
    /\ realm' = [realm EXCEPT ![t] = None]
    /\ stack' = [stack EXCEPT ![t] =
          IF \E u \in Threads \ {t} : realm[u] = realm[t] THEN << >>
          ELSE IF \E u \in Actors : borrow[u] = realm[t] THEN << >>
          ELSE <<Frame("drop", realm[t])>>]
    /\ UNCHANGED <<sess, fixed, registry, users, locks, borrow, asks, data>>

(* SyncSession::did_drop_external_reference *)
DidDrop(t) ==
    /\ Runs(t, "drop")
    /\ Section(t, Top(t), IF Expired(Top(t)) THEN Closed(sess[Top(t)]) ELSE sess[Top(t)], Tail(stack[t]))
    /\ UNCHANGED <<fixed, registry, users, locks, refs, asks, data>>

(* SyncManager::unregister_session: looks the PATH up, so it can meet another
   session than the one that went inactive; it takes an external reference to
   see whether there is one, and lets it go under its own lock. *)
UnregisterAnyway(t) ==
    /\ Runs(t, "unregister") /\ mgr = None
    /\ registry' = None /\ crashed' = (registry = None) /\ Push(t, << >>)
    /\ UNCHANGED <<sess, made, users, locks, refs, asks, data, calls, overlap>>
Unregister(t) ==
    /\ Runs(t, "unregister") /\ mgr = None
    /\ IF registry # None /\ ~Expired(registry)
       THEN /\ borrow' = [borrow EXCEPT ![t] = registry] /\ mgr' = t
            /\ Push(t, <<Frame("giveback", registry)>>)
            /\ UNCHANGED <<registry, crashed>>
       ELSE /\ registry' = None /\ crashed' = (registry = None) /\ Push(t, << >>)
            /\ UNCHANGED <<borrow, mgr>>
    /\ UNCHANGED <<sess, made, users, usr, realm, asks, data, calls, overlap>>

GiveBack(t) ==
    /\ Runs(t, "giveback")
    /\ borrow' = [borrow EXCEPT ![t] = None]
    /\ LET s == Top(t)
           last == /\ \A u \in Threads : realm[u] # s
                   /\ \A u \in Actors \ {t} : borrow[u] # s
       IN Push(t, IF last THEN <<Frame("drop", s), Frame("release", s)>> ELSE <<Frame("release", s)>>)
    /\ UNCHANGED <<sess, fixed, registry, users, locks, realm, asks, data>>

(* The callbacks of an emptied queue are called, outside every session lock. *)
Cancel(t) ==
    /\ Runs(t, "cancel")
    /\ answered' = [w \in Waits |-> answered[w] + (IF w \in Head(stack[t]).ws THEN 1 ELSE 0)]
    /\ Push(t, << >>)
    /\ UNCHANGED <<sess, fixed, registry, users, locks, refs, requests, data>>

-----------------------------------------------------------------------------
(* The user. *)

(* SyncUser::log_out, its lock held until the session is quiet. *)
LogOut(t) ==
    /\ MayStart(t) /\ usr = None /\ user # "LoggedOut" /\ calls > 0
    /\ calls' = calls - 1 /\ user' = "LoggedOut" /\ usr' = t
    /\ IF live # None /\ Alive(live)
       THEN Section(t, live, LoggedOut(sess[live]), <<Frame("keep", live)>>)
       ELSE stack' = [stack EXCEPT ![t] = <<Frame("forget", None)>>] /\ UNCHANGED sess
    /\ UNCHANGED <<made, registry, live, waiting, mgr, refs, asks, data, overlap, crashed>>

LogOutEnds(t) ==
    /\ Runs(t, "keep") \/ Runs(t, "forget")
    /\ waiting' = IF Runs(t, "keep") THEN Top(t) ELSE waiting
    /\ live' = None /\ usr' = None /\ Push(t, << >>)
    /\ UNCHANGED <<sess, fixed, registry, user, mgr, refs, asks, data>>

(* SyncUser::update_refresh_token for a logged-out user: the session is revived
   after the lock was released. *)
LogIn(t) ==
    /\ MayStart(t) /\ usr = None /\ user = "LoggedOut"
    /\ user' = "Active" /\ waiting' = None
    /\ IF waiting # None /\ Alive(waiting)
       THEN live' = waiting /\ stack' = [stack EXCEPT ![t] = <<Frame("revive", waiting)>>]
       ELSE UNCHANGED <<live, stack>>
    /\ UNCHANGED <<sess, made, registry, locks, refs, asks, data, calls, overlap, crashed>>

-----------------------------------------------------------------------------
(* The holder of an open Realm. *)

(* A local write transaction: commit, then nonsync_transact_notify. *)
Commit(t) ==
    /\ MayStart(t) /\ realm[t] # None /\ version < MaxCommits
    /\ version' = version + 1
    /\ sess' = [sess EXCEPT ![realm[t]] = Notified(@, version')]
    /\ UNCHANGED <<fixed, registry, users, locks, stack, refs, asks, uploaded>>

(* State::wait_for_completion: kept until there is a token, or handed on. *)
WithWait(r, w) == IF r.st \in {"waiting", "inactive"} THEN [r EXCEPT !.queue = @ \cup {w}]
                                                      ELSE [r EXCEPT !.waits = @ \cup {w}]

(* wait_for_upload_completion / wait_for_download_completion *)
WaitForCompletion(t, w) ==
    /\ MayStart(t) /\ realm[t] # None /\ answered[w] = 0
    /\ \A s \in Sessions : w \notin sess[s].queue \cup sess[s].waits
    /\ \A u \in Actors : \A i \in DOMAIN stack[u] : w \notin stack[u][i].ws
    /\ sess' = [sess EXCEPT ![realm[t]] = WithWait(@, w)]
    /\ UNCHANGED <<fixed, registry, users, locks, stack, refs, asks, data>>

-----------------------------------------------------------------------------
(* The binding's answers. *)

BetweenCalls == ~crashed /\ (~overlap => \A u \in Actors : Idle(u))

Token(s) ==
    /\ BetweenCalls /\ s \in requests
    /\ requests' = requests \ {s}
    /\ sess' = [sess EXCEPT ![s] = Refreshed(@)]
    /\ UNCHANGED <<fixed, registry, users, locks, stack, refs, answered, data>>

TokenLost(s) ==
    /\ BetweenCalls /\ s \in requests
    /\ requests' = requests \ {s}
    /\ UNCHANGED <<sess, fixed, registry, users, locks, stack, refs, answered, data>>

(* SyncManager::reconnect: a session that waits asks for its token again. *)
Reconnect ==
    /\ BetweenCalls /\ mgr = None /\ registry # None /\ sess[registry].st = "waiting"
    /\ requests' = {registry}
    /\ UNCHANGED <<sess, fixed, registry, users, locks, stack, refs, answered, data>>

-----------------------------------------------------------------------------
(* The sync client's event loop. *)

(* The server takes what the bound session knows of. *)
Upload(s) ==
    /\ ~crashed /\ Alive(s) /\ sess[s].open /\ sess[s].bound /\ uploaded < sess[s].told
    /\ uploaded' = sess[s].told
    /\ UNCHANGED <<sess, fixed, registry, users, locks, stack, refs, asks, version>>

(* An upload-completion callback of Dying::enter_state. *)
UploadedAnyDeath(s, u) ==
    /\ MayStart(Client) /\ Alive(s) /\ u \in sess[s].uploads /\ u.v <= uploaded
    /\ LET r == [sess[s] EXCEPT !.uploads = @ \ {u}]
       IN Section(Client, s, IF r.st = "dying" THEN ToInactive(r) ELSE r, << >>)
    /\ UNCHANGED <<fixed, registry, users, locks, refs, asks, data>>
Uploaded(s, u) ==
    /\ MayStart(Client) /\ Alive(s) /\ u \in sess[s].uploads /\ u.v <= uploaded
    /\ LET r == [sess[s] EXCEPT !.uploads = @ \ {u}]
       IN Section(Client, s, IF r.st = "dying" /\ r.deaths = u.n THEN ToInactive(r) ELSE r, << >>)
    /\ UNCHANGED <<fixed, registry, users, locks, refs, asks, data>>

(* A completion callback the client was given. *)
Complete(s, w) ==
    /\ ~crashed /\ w \in sess[s].waits
    /\ answered' = [answered EXCEPT ![w] = @ + 1]
    /\ sess' = [sess EXCEPT ![s].waits = @ \ {w}]
    /\ UNCHANGED <<fixed, registry, users, locks, stack, refs, requests, data>>

(* SyncSession::handle_error, its first section: a dying session ends on a fatal
   error and swallows the others; the rest is left to the error's own section. *)
Error(s, e) ==
    /\ MayStart(Client) /\ Alive(s) /\ sess[s].open /\ e \in (IF overlap THEN RacingErrors ELSE Errors)
    /\ IF sess[s].st = "dying"
       THEN Section(Client, s, IF e \in {"auth", "denied", "fatal"} THEN ToInactive(sess[s]) ELSE sess[s], << >>)
       ELSE /\ stack' = [stack EXCEPT ![Client] = IF e = "info" THEN << >> ELSE <<Frame(e, s)>>]
            /\ UNCHANGED sess
    /\ UNCHANGED <<fixed, registry, users, locks, refs, asks, data>>

(* token_expired: State::access_token_expired *)
TokenExpired ==
    /\ Runs(Client, "expired")
    /\ LET s == Top(Client)
       IN /\ requests' = IF sess[s].st = "active" THEN {s} ELSE requests
          /\ Section(Client, s, IF sess[s].st = "active" THEN ToWaiting(sess[s]) ELSE sess[s], << >>)
    /\ UNCHANGED <<fixed, registry, users, locks, refs, answered, data>>

(* bad_authentication and every other fatal error: cancel_pending_waits; the
   former then invalidates the user. *)
CancelWaits ==
    /\ Runs(Client, "auth") \/ Runs(Client, "fatal")
    /\ LET s == Top(Client)
           then == IF Runs(Client, "auth") THEN <<Frame("invalidate", s)>> ELSE << >>
       IN /\ sess' = [sess EXCEPT ![s].queue = {}]
          /\ Push(Client, <<[do |-> "cancel", s |-> s, ws |-> sess[s].queue]>> \o then)
    /\ UNCHANGED <<fixed, registry, users, locks, refs, asks, data>>

(* SyncUser::invalidate *)
Invalidate ==
    /\ Runs(Client, "invalidate") /\ usr = None
    /\ user' = "Error" /\ Push(Client, << >>)
    /\ UNCHANGED <<sess, fixed, registry, live, waiting, locks, refs, asks, data>>

(* permission_denied and the client-reset errors: the file action is recorded,
   then a second section enters Inactive whatever the state has become (the
   assertion of advance_state is compiled out in the headers of this build). *)
Denied ==
    /\ Runs(Client, "denied")
    /\ LET s == Top(Client)
       IN /\ sess' = [sess EXCEPT ![s] = ToInactive(@)]
          /\ Push(Client, <<Frame("unregister", s), [do |-> "cancel", s |-> s, ws |-> sess[s].queue]>>)
    /\ UNCHANGED <<fixed, registry, users, locks, refs, asks, data>>

-----------------------------------------------------------------------------
AppStep(t) == \/ GetSession(t) \/ LetGo(t) \/ LogOut(t) \/ LogIn(t) \/ Commit(t)
              \/ \E w \in Waits : WaitForCompletion(t, w)

Continue(t) == \/ Register(t) \/ Revive(t) \/ TakeReference(t) \/ Release(t) \/ DidDrop(t)
               \/ Unregister(t) \/ GiveBack(t) \/ Cancel(t) \/ LogOutEnds(t)

ClientStep == \/ \E s \in Sessions : \/ Upload(s)
                                     \/ \E u \in sess[s].uploads : Uploaded(s, u)
                                     \/ \E w \in Waits : Complete(s, w)
              \/ TokenExpired \/ CancelWaits \/ Invalidate \/ Denied

Next == \/ \E t \in Threads : AppStep(t)
        \/ \E t \in Actors : Continue(t)
        \/ ClientStep
        \/ \E s \in Sessions : \/ Token(s) \/ TokenLost(s)
                               \/ \E e \in AllErrors : Error(s, e)
        \/ Reconnect

Spec == Init /\ [][Next]_vars

(* Threads keep running; the client uploads and answers; the binding answers a
   token request it is asked again and again; the network comes back. *)
Fairness == /\ \A t \in Actors : WF_vars(Continue(t))
            /\ WF_vars(ClientStep)
            /\ \A s \in Sessions : SF_vars(Token(s))
            /\ \A s \in Sessions : \A w \in Waits : WF_vars(Complete(s, w))
            /\ SF_vars(Reconnect)
FairSpec == Spec /\ Fairness
-----------------------------------------------------------------------------
(* Properties. *)

Frames == [do : {"register", "revive", "external", "release", "drop", "unregister", "giveback",
                 "cancel", "keep", "forget", "invalidate"} \cup AllErrors,
           s : Sessions \cup {None}, ws : SUBSET Waits]

(* Every variable has its type. *)
TypeOK ==
    /\ \A s \in Sessions :
          /\ sess[s].st \in States
          /\ {sess[s].open, sess[s].bound, sess[s].deferClose} \subseteq BOOLEAN
          /\ {sess[s].deaths, sess[s].commit, sess[s].told} \subseteq Nat
          /\ sess[s].queue \cup sess[s].waits \subseteq Waits
          /\ sess[s].uploads \subseteq [n : Nat, v : Nat]
    /\ made \subseteq Sessions /\ requests \subseteq Sessions
    /\ {registry, live, waiting} \subseteq Sessions \cup {None}
    /\ user \in {"Active", "LoggedOut", "Error"}
    /\ {mgr, usr} \subseteq Actors \cup {None}
    /\ \A t \in Actors : stack[t] \in Seq(Frames) /\ borrow[t] \in Sessions \cup {None}
    /\ realm \in [Threads -> Sessions \cup {None}]
    /\ answered \in [Waits -> Nat]
    /\ {version, uploaded, calls} \subseteq Nat /\ crashed \in BOOLEAN

Quiet == \A t \in Actors : Idle(t)

(* "We attempt to keep the SyncSession in an active state as long as it has an
   external reference": while the user is logged in and no call runs, the
   session of an open Realm is active or asks for its token, it does not die,
   after calls that did not overlap: get_session, closing the last Realm,
   log-out, log-in, tokens and errors in any order. *)
ReferenceKeepsOpenSerially ==
    ~overlap /\ Quiet /\ user = "Active" => \A t \in Threads : realm[t] # None =>
        sess[realm[t]].st \in {"waiting", "active"}

(* An active session's m_session has been told of the newest commit, whatever
   tokens expired and came back in between: nothing is left unsent until the
   next commit. *)
CommitsAnnounced ==
    ~overlap /\ Quiet =>
        \A s \in Sessions : Alive(s) /\ sess[s].st = "active" => sess[s].told = version

(* After the user logged out, every session that still exists is inactive: in
   whatever list the user kept it, and though it was dying. *)
LoggedOutQuiesces ==
    ~overlap /\ Quiet /\ user = "LoggedOut" =>
        \A s \in Sessions : Alive(s) => sess[s].st = "inactive"

(* The sync client never has two sessions open on the one Realm file. *)
OneOpenSession ==
    ~overlap => \A s, u \in Sessions :
        Alive(s) /\ sess[s].open /\ Alive(u) /\ sess[u].open => s = u

(* A completion callback is called at most once, though it moves between the
   session's queue, the sync client and the list of a session that ends, and
   though calls overlap. *)
AnsweredOnce == \A w \in Waits : answered[w] <= 1

(* With AfterChangesUploaded, a dying session that ends because an upload
   completed has uploaded every commit it was told of: the completion of an
   earlier death, before a revival, does not count. *)
UploadedBeforeEnd == [][
    \A s \in Sessions :
        /\ sess[s].st = "dying" /\ sess'[s].st = "inactive"
        /\ Cardinality(sess'[s].uploads) < Cardinality(sess[s].uploads)
        => sess[s].told <= uploaded]_vars

(* "If it returns true the completion handler will always be called at least
   once, except in the case where a logged-out session is never logged back
   in": a registered callback is called, or the user leaves the Active state. *)
Registered(w) == \E s \in Sessions : Alive(s) /\ w \in sess[s].queue \cup sess[s].waits
WaitsAnswered ==
    \A w \in Waits : Registered(w) /\ ~overlap ~> (answered[w] > 0 \/ user # "Active")
=============================================================================
