---------------------------- MODULE Notifications ----------------------------
(***************************************************************************)
(* Change notifications of Realm's ObjectStore for ONE Realm file: the     *)
(* coordinator's worker runs the notifiers in the background, the thread   *)
(* that owns the Realm (here: the main thread) delivers what they found,   *)
(* and other threads or processes commit to the same file.                 *)
(*                                                                         *)
(* Every commit changes every collection, so a set of changes is the set of*)
(* the versions it covers.  A critical section of m_notifier_mutex is one  *)
(* action, and so is the worker's work between two of them.                *)
(*                                                                         *)
(* External: the Realm file (versions, write lock, advancing a reader), the*)
(* signal that wakes the worker and the one that wakes the run loop (both  *)
(* coalesce), and the user's code: what it calls, also inside callbacks.   *)
(***************************************************************************)
EXTENDS Integers, Sequences, FiniteSets, SequencesExt

CONSTANTS Notifiers,   \* collections the main thread may observe
          Callbacks,   \* callbacks it may add, each once
          Scopes,      \* bounds: the notifiers and callbacks used, the versions of the file
          Uses,        \* uses of the interface that break its promises
          None

ASSUME NotificationsAssumption ==
    /\ Scopes \subseteq [ns : SUBSET Notifiers, cs : SUBSET Callbacks, top : Nat \ {0}]
    /\ Uses \subseteq {"observe late", "add during delivery", "write in callback",
                       "release on other thread"}
    /\ None \notin Callbacks \cup Notifiers

VARIABLES
    scope,      \* the bounds of this behaviour
    file,       \* latest version of the Realm file
    untold,     \* another writer has committed and not yet signalled it
    ver,        \* version the main thread reads
    writing,    \* the main thread is in a write transaction
    pc,         \* "idle", "wait", "deliver", "commit": where its call is
    target,     \* version package_and_wait waits for
    begun,      \* the wait is begin_transaction's, which holds the write lock
    pack,       \* the NotifierPackage: notifiers whose callbacks are still to be called
    cur,        \* notifier whose callbacks are being called
    inside,     \* callback whose code is running
    place,      \* "none", "new", "main", "gone": list of the coordinator
    alive,      \* notifiers that still have their Realm
    hasRun,     \* m_has_run
    nver,       \* m_sg_version
    rows,       \* version m_previous_rows is of
    changes,    \* m_changes
    cbs,        \* m_callbacks
    have,       \* m_have_callbacks
    idx,        \* m_callback_index, from 1; 0 is npos
    cnt,        \* m_callback_count
    skipVersion,\* m_notifier_skip_version; 0: none
    work,       \* where the worker is, and the locals of run_async_notifiers
    wake,       \* the worker has been signalled
    posted,     \* the main run loop has been signalled
    known,      \* version each callback was last called at (0: none, -1: not added)
    suppressed  \* versions each callback was not to be told of

vars == <<scope, file, untold, ver, writing, pc, target, begun, pack, cur, inside, place,
          alive, hasRun, nver, rows, changes, cbs, have, idx, cnt, skipVersion, work, wake,
          posted, known, suppressed>>

main == <<ver, writing, pc, target, begun, pack, cur, inside>>
list == <<place, alive>>
bg   == <<hasRun, nver, rows, changes>>
call == <<cbs, have, idx, cnt>>
told == <<known, suppressed>>

Init ==
    /\ scope \in Scopes
    /\ file = 1 /\ untold = FALSE /\ ver = 1 /\ writing = FALSE /\ pc = "idle"
    /\ target = 0 /\ begun = FALSE /\ pack = {} /\ cur = None /\ inside = None
    /\ place = [n \in Notifiers |-> "none"] /\ alive = Notifiers
    /\ hasRun = [n \in Notifiers |-> FALSE]
    /\ nver = [n \in Notifiers |-> 0] /\ rows = [n \in Notifiers |-> 0]
    /\ changes = [n \in Notifiers |-> {}]
    /\ cbs = [n \in Notifiers |-> << >>] /\ have = [n \in Notifiers |-> FALSE]
    /\ idx = [n \in Notifiers |-> 0] /\ cnt = [n \in Notifiers |-> 0]
    /\ skipVersion = 0
    /\ work = [at |-> "idle", version |-> 0, skip |-> 0, new |-> {}, old |-> {}]
    /\ wake = FALSE /\ posted = FALSE
    /\ known = [c \in Callbacks |-> -1] /\ suppressed = [c \in Callbacks |-> {}]

Listed == {n \in Notifiers : place[n] \in {"new", "main"}}
Mine == Listed \cap alive
Ready == {n \in Mine : hasRun[n]}

(* The main thread runs the user's code between calls and inside callbacks. *)
UserCode == pc = "idle" \/ inside # None
AtTop == pc = "idle" \/ (inside # None /\ "write in callback" \in Uses)

-----------------------------------------------------------------------------
(* The main thread: observing collections. *)

(* RealmCoordinator::register_notifier, for a new Results' notifier.  Names are
   interchangeable: notifiers and callbacks are used in a fixed order. *)
NextOf(unused) == CHOOSE x \in unused : TRUE

Register(n) ==
    /\ UserCode /\ ~writing
    /\ LET unused == {m \in scope.ns : place[m] = "none"} IN
       unused # {} /\ n = NextOf(unused)
    /\ place' = [place EXCEPT ![n] = "new"] /\ nver' = [nver EXCEPT ![n] = ver]
    /\ UNCHANGED <<scope, file, untold, main, alive, hasRun, rows, changes, call, skipVersion, work,
                   wake, posted, told>>

(* add_callback wakes the worker, which has the initial call to prepare. *)
WakesForFirst(n) == idx[n] = 0 /\ cbs[n] = << >>
Wakes(n) == idx[n] = 0

AddCallback(n, c) ==
    /\ UserCode /\ ~writing /\ n \in Mine
    /\ LET unused == {d \in scope.cs : known[d] = -1} IN
       unused # {} /\ c = NextOf(unused)
    /\ known' = [known EXCEPT ![c] = 0]
    /\ hasRun[n] /\ ~have[n] => "observe late" \in Uses
    /\ n \in pack => "add during delivery" \in Uses
    /\ cbs' = [cbs EXCEPT ![n] = Append(@, [id |-> c, acc |-> {}, todo |-> {},
                                            initial |-> FALSE, skip |-> FALSE])]
    /\ have' = [have EXCEPT ![n] = @ \/ idx[n] = 0] /\ wake' = (wake \/ Wakes(n))
    /\ UNCHANGED <<scope, file, untold, main, list, bg, idx, cnt, skipVersion, work, posted,
                   suppressed>>

(* remove_callback from inside a callback: the loop must not skip one. *)
IndexWithoutBefore(n, i) == IF idx[n] > i THEN idx[n] - 1 ELSE idx[n]
IndexWithout(n, i) == IF idx[n] >= i THEN idx[n] - 1 ELSE idx[n]

RemoveCallback(n, i) ==
    /\ UserCode /\ i \in DOMAIN cbs[n]
    /\ cbs' = [cbs EXCEPT ![n] = RemoveAt(@, i)]
    /\ idx' = [idx EXCEPT ![n] = IndexWithout(n, i)]
    /\ cnt' = [cnt EXCEPT ![n] = @ - 1]
    /\ have' = [have EXCEPT ![n] = Len(cbs[n]) > 1]
    /\ UNCHANGED <<scope, file, untold, main, list, bg, skipVersion, work, wake, posted, told>>

(* The collection is destroyed: CollectionNotifier::unregister. *)
Unregister(n) ==
    /\ UserCode \/ "release on other thread" \in Uses
    /\ n \in Mine
    /\ alive' = alive \ {n}
    /\ UNCHANGED <<scope, file, untold, main, place, bg, call, skipVersion, work, wake, posted, told>>

-----------------------------------------------------------------------------
(* Packaging what is ready and calling the callbacks. *)

(* package_for_delivery of the notifiers in P. *)
Package(P) ==
    /\ cbs' = [n \in Notifiers |-> IF n \notin P THEN cbs[n] ELSE
                 [i \in DOMAIN cbs[n] |-> [cbs[n][i] EXCEPT !.todo = cbs[n][i].acc,
                                                            !.acc = {}]]]
    /\ cnt' = [n \in Notifiers |-> IF n \in P THEN Len(cbs[n]) ELSE cnt[n]]
    /\ UNCHANGED <<have, idx>>

(* The Realm advances to v; the callbacks of P are called next. *)
Deliver(P, v) ==
    /\ ver' = v /\ pack' = P /\ pc' = IF P = {} THEN "idle" ELSE "deliver"
    /\ target' = 0 /\ begun' = FALSE /\ UNCHANGED <<cur, inside>>

VersionOf(P) == nver[CHOOSE n \in P : TRUE]

(* for_each_callback and after_advance; the loop ends after the callbacks that
   were there when n was packaged. *)
StartCallbacks(n) ==
    /\ pc = "deliver" /\ n \in pack /\ cur = None
    /\ cur' = n /\ idx' = [idx EXCEPT ![n] = 1]
    /\ UNCHANGED <<scope, file, untold, ver, writing, pc, target, begun, pack, inside, list, bg, cbs,
                   have, cnt, skipVersion, work, wake, posted, told>>

HasNothingFor(cb) == cb.initial /\ cb.todo = {}

Call(n) ==
    /\ cur = n /\ inside = None /\ idx[n] <= cnt[n]
    /\ LET cb == cbs[n][idx[n]] IN
       IF HasNothingFor(cb)
       THEN idx' = [idx EXCEPT ![n] = @ + 1] /\ UNCHANGED <<cbs, inside, known>>
       ELSE /\ cbs' = [cbs EXCEPT ![n][idx[n]].initial = TRUE, ![n][idx[n]].todo = {}]
            /\ inside' = cb.id /\ known' = [known EXCEPT ![cb.id] = ver]
            /\ UNCHANGED idx
    /\ UNCHANGED <<scope, file, untold, ver, writing, pc, target, begun, pack, cur, list, bg, have,
                   cnt, skipVersion, work, wake, posted, suppressed>>

Return(n) ==
    /\ cur = n /\ inside # None
    /\ inside' = None /\ idx' = [idx EXCEPT ![n] = @ + 1]
    /\ UNCHANGED <<scope, file, untold, ver, writing, pc, target, begun, pack, cur, list, bg, cbs,
                   have, cnt, skipVersion, work, wake, posted, told>>

EndCallbacks(n) ==
    /\ cur = n /\ inside = None /\ idx[n] > cnt[n]
    /\ cur' = None /\ idx' = [idx EXCEPT ![n] = 0]
    /\ pack' = pack \ {n} /\ pc' = IF pack = {n} THEN "idle" ELSE pc
    /\ UNCHANGED <<scope, file, untold, ver, writing, target, begun, inside, list, bg, cbs, have, cnt,
                   skipVersion, work, wake, posted, told>>

-----------------------------------------------------------------------------
(* The main thread's Realm: notify, refresh and write transactions. *)

(* Realm::notify does nothing in a write transaction. *)
NotifyInWrite ==
    /\ pc = "idle" /\ posted /\ writing
    /\ posted' = FALSE
    /\ UNCHANGED <<scope, file, untold, main, list, bg, call, skipVersion, work, wake, told>>

(* process_available_async: the Realm is up to date. *)
NotifyAvailable ==
    /\ pc = "idle" /\ posted /\ ~writing /\ file = ver
    /\ posted' = FALSE
    /\ LET P == {n \in Ready : nver[n] = ver} IN Package(P) /\ Deliver(P, ver)
    /\ UNCHANGED <<scope, file, untold, writing, list, bg, skipVersion, work, wake, told>>

(* advance_to_ready: to the version the notifiers are at, if it is not older;
   to the latest one, if there are none. *)
AdvanceWith(P) ==
    IF P = {} THEN Deliver(P, file)
    ELSE IF VersionOf(P) < ver THEN Deliver({}, ver)
    ELSE Deliver(P, VersionOf(P))

NotifyAdvance ==
    /\ pc = "idle" /\ posted /\ ~writing /\ file # ver
    /\ posted' = FALSE
    /\ Package(Ready) /\ AdvanceWith(Ready)
    /\ UNCHANGED <<scope, file, untold, writing, list, bg, skipVersion, work, wake, told>>

(* What package_and_wait waits for. *)
ReachedAfter(ns, v) == \A n \in ns : have[n] => hasRun[n] /\ nver[n] > v
ReachedAtOnce(ns, v) == TRUE
Reached(ns, v) == \A n \in ns : have[n] => hasRun[n] /\ nver[n] >= v

WaitFor(v) ==
    /\ pc' = "wait" /\ target' = v /\ pack' = Mine
    /\ wake' = (wake \/ ~Reached(Mine, v))
    /\ UNCHANGED <<ver, writing, cur, inside>>

(* Realm::refresh, with nothing to wait for if nothing is observed. *)
Refresh ==
    /\ pc = "idle" /\ ~writing
    /\ WaitFor(file) /\ UNCHANGED begun
    /\ UNCHANGED <<scope, file, untold, list, bg, call, skipVersion, work, posted, told>>

(* Realm::begin_transaction takes the write lock first.  Inside a callback it
   neither waits nor tells anything. *)
Begin ==
    /\ AtTop /\ ~writing /\ file < scope.top
    /\ IF inside = None
       THEN WaitFor(file) /\ begun' = TRUE
       ELSE /\ ver' = file /\ writing' = TRUE
            /\ UNCHANGED <<pc, target, begun, pack, cur, inside, wake>>
    /\ UNCHANGED <<scope, file, untold, list, bg, call, skipVersion, work, posted, told>>

(* The rest of package_and_wait, and the advance. *)
WaitEnds ==
    /\ pc = "wait" /\ Reached(pack, target)
    /\ LET P == pack \cap Ready IN
       /\ Package(P)
       /\ IF P = {} \/ VersionOf(P) < target THEN Deliver({}, file)
                                            ELSE Deliver(P, VersionOf(P))
    /\ writing' = begun
    /\ UNCHANGED <<scope, file, untold, list, bg, skipVersion, work, wake, posted, told>>

(* suppress_next_notification of the tokens in S; the commit follows. *)
Suppress(S) ==
    /\ pc = "idle" /\ writing /\ S # {}
    /\ S \subseteq {c \in Callbacks : \E n \in Mine : \E i \in DOMAIN cbs[n] : cbs[n][i].id = c}
    /\ cbs' = [n \in Notifiers |-> [i \in DOMAIN cbs[n] |->
                 [cbs[n][i] EXCEPT !.skip = @ \/ cbs[n][i].id \in S]]]
    /\ suppressed' = [c \in Callbacks |-> IF c \in S THEN suppressed[c] \cup {ver + 1}
                                                     ELSE suppressed[c]]
    /\ pc' = "commit"
    /\ UNCHANGED <<scope, file, untold, ver, writing, target, begun, pack, cur, inside, list, bg,
                   have, idx, cnt, skipVersion, work, wake, posted, known>>

(* RealmCoordinator::commit_write *)
SkipAfterCommitNext(v) ==
    IF \E n \in Mine : place[n] = "main" THEN v + 1 ELSE skipVersion
SkipAfterCommit(v) ==
    IF \E n \in Mine : place[n] = "main" THEN v ELSE skipVersion

Commit ==
    /\ writing /\ (AtTop \/ pc = "commit")
    /\ file' = file + 1 /\ ver' = file + 1 /\ writing' = FALSE
    /\ pc' = IF pc = "commit" THEN "idle" ELSE pc
    /\ skipVersion' = SkipAfterCommit(file + 1)
    /\ wake' = TRUE
    /\ UNCHANGED <<scope, untold, target, begun, pack, cur, inside, list, bg, call, work, posted,
                   told>>

(* Realm::cancel_transaction *)
Cancel ==
    /\ writing /\ AtTop
    /\ writing' = FALSE
    /\ UNCHANGED <<scope, file, untold, ver, pc, target, begun, pack, cur, inside, list, bg, call,
                   skipVersion, work, wake, posted, told>>

-----------------------------------------------------------------------------
(* Another thread or process writes to the file. *)

OtherCommits ==
    /\ ~untold /\ file < scope.top /\ ~writing /\ ~begun
    /\ file' = file + 1 /\ untold' = TRUE
    /\ UNCHANGED <<scope, main, list, bg, call, skipVersion, work, wake, posted, told>>

OtherSignals ==
    /\ untold /\ untold' = FALSE /\ wake' = TRUE
    /\ UNCHANGED <<scope, file, main, list, bg, call, skipVersion, work, posted, told>>

-----------------------------------------------------------------------------
(* The worker: RealmCoordinator::on_change. *)

(* clean_up_dead_notifiers: the skip version goes with the last notifier. *)
PlacesCleaned(p) == [n \in Notifiers |-> IF n \in alive \/ p[n] = "none" THEN p[n] ELSE "gone"]
SkipKept(p, q, v) == v
SkipCleaned(p, q, v) ==
    IF (\E n \in Notifiers : p[n] = "main") /\ (\A n \in Notifiers : q[n] # "main") THEN 0 ELSE v

(* The first critical section of run_async_notifiers: take the new notifiers
   and the skip version, choose the version to run at. *)
Take ==
    /\ work.at = "idle" /\ wake
    /\ wake' = FALSE
    /\ LET cleaned == PlacesCleaned(place)
           new == {n \in Notifiers : cleaned[n] = "new"}
           old == {n \in Notifiers : cleaned[n] = "main"}
           skip == SkipCleaned(place, cleaned, skipVersion) IN
       /\ place' = [n \in Notifiers |-> IF n \in new THEN "main" ELSE cleaned[n]]
       /\ IF new \cup old = {}
          THEN work' = [work EXCEPT !.at = "post"] /\ skipVersion' = skip
          ELSE /\ work' = [at |-> IF skip > 0 THEN "skip" ELSE "run", version |-> file,
                           skip |-> skip, new |-> new, old |-> old]
               /\ skipVersion' = 0
    /\ UNCHANGED <<scope, file, untold, main, alive, bg, call, posted, told>>

(* ResultsNotifier::run at version v: changes are found only for a notifier
   that has run and has callbacks. *)
Runs(n) == n \in alive
RunAt(ns, v) ==
    /\ rows' = [n \in Notifiers |-> IF n \in ns /\ Runs(n) THEN v ELSE rows[n]]
    /\ changes' = [n \in Notifiers |->
                     IF n \in ns /\ Runs(n) /\ hasRun[n] /\ have[n] THEN rows[n]+1 .. v
                     ELSE changes[n]]
    /\ UNCHANGED <<hasRun, nver>>

(* prepare_handover and add_changes, which ends what was suppressed. *)
AddChanges(cb, new) ==
    IF cb.skip THEN [cb EXCEPT !.skip = FALSE] ELSE [cb EXCEPT !.acc = @ \cup new]

HandOver(ns, v) ==
    /\ nver' = [n \in Notifiers |-> IF n \in ns THEN v ELSE nver[n]]
    /\ hasRun' = [n \in Notifiers |-> n \in ns \/ hasRun[n]]
    /\ changes' = [n \in Notifiers |-> IF n \in ns THEN {} ELSE changes[n]]
    /\ cbs' = [n \in Notifiers |-> IF n \notin ns THEN cbs[n] ELSE
                 [i \in DOMAIN cbs[n] |-> AddChanges(cbs[n][i], changes[n])]]
    /\ UNCHANGED <<rows, have, idx, cnt>>

RunToSkip ==
    /\ work.at = "skip" /\ RunAt(work.old, work.skip)
    /\ work' = [work EXCEPT !.at = "skipped"]
    /\ UNCHANGED <<scope, file, untold, main, list, call, skipVersion, wake, posted, told>>

HandOverSkip ==
    /\ work.at = "skipped" /\ HandOver(work.old, work.skip)
    /\ work' = [work EXCEPT !.at = "run"]
    /\ UNCHANGED <<scope, file, untold, main, list, skipVersion, wake, posted, told>>

NewAlone == IF work.new # {} THEN work.new ELSE work.old
Taken == work.new \cup work.old

RunAll ==
    /\ work.at = "run" /\ RunAt(Taken, work.version)
    /\ work' = [work EXCEPT !.at = "ran"]
    /\ UNCHANGED <<scope, file, untold, main, list, call, skipVersion, wake, posted, told>>

HandOverAll ==
    /\ work.at = "ran" /\ HandOver(Taken, work.version)
    /\ place' = PlacesCleaned(place)
    /\ skipVersion' = SkipCleaned(place, place', skipVersion)
    /\ work' = [at |-> "post", version |-> 0, skip |-> 0, new |-> {}, old |-> {}]
    /\ UNCHANGED <<scope, file, untold, main, alive, wake, posted, told>>

Post ==
    /\ work.at = "post" /\ posted' = TRUE
    /\ work' = [work EXCEPT !.at = "idle"]
    /\ UNCHANGED <<scope, file, untold, main, list, bg, call, skipVersion, wake, told>>

Worker == Take \/ RunToSkip \/ HandOverSkip \/ RunAll \/ HandOverAll \/ Post

-----------------------------------------------------------------------------
Notify == NotifyInWrite \/ NotifyAvailable \/ NotifyAdvance
Calls(n) == StartCallbacks(n) \/ Call(n) \/ Return(n) \/ EndCallbacks(n)
Observe(n) ==
    \/ Register(n)
    \/ Unregister(n)
    \/ \E c \in Callbacks : AddCallback(n, c)
    \/ \E i \in 1..Cardinality(Callbacks) : RemoveCallback(n, i)
Write == Begin \/ Commit \/ Cancel \/ \E S \in SUBSET Callbacks : Suppress(S)
Other == OtherCommits \/ OtherSignals

Next ==
    \/ \E n \in Notifiers : Observe(n) \/ Calls(n)
    \/ Notify \/ Refresh \/ WaitEnds \/ Write \/ Other \/ Worker

Spec == Init /\ [][Next]_vars

(* Threads run, a wait that is over returns, callbacks return and a write is
   ended; a writer that committed signals it; the main thread comes back to its
   run loop again and again, outside of writes. *)
MainContinues == WaitEnds \/ Commit \/ \E n \in Notifiers : Calls(n)

FairSpec ==
    /\ Spec
    /\ WF_vars(Worker \/ OtherSignals)
    /\ WF_vars(MainContinues)
    /\ SF_vars(NotifyAvailable \/ NotifyAdvance)

-----------------------------------------------------------------------------
TypeOK ==
    /\ scope \in Scopes /\ file \in 1..scope.top /\ ver \in 1..file /\ untold \in BOOLEAN /\ writing \in BOOLEAN
    /\ pc \in {"idle", "wait", "deliver", "commit"} /\ target \in 0..file
    /\ begun \in BOOLEAN /\ pack \subseteq Notifiers
    /\ cur \in Notifiers \cup {None} /\ inside \in Callbacks \cup {None}
    /\ place \in [Notifiers -> {"none", "new", "main", "gone"}] /\ alive \subseteq Notifiers
    /\ hasRun \in [Notifiers -> BOOLEAN] /\ have \in [Notifiers -> BOOLEAN]
    /\ nver \in [Notifiers -> 0..file] /\ rows \in [Notifiers -> 0..file]
    /\ changes \in [Notifiers -> SUBSET (1..file)]
    /\ \A n \in Notifiers : \A i \in DOMAIN cbs[n] :
         cbs[n][i] \in [id : Callbacks, acc : SUBSET (1..file), todo : SUBSET (1..file),
                        initial : BOOLEAN, skip : BOOLEAN]
    /\ idx \in [Notifiers -> 0..Cardinality(Callbacks) + 1]
    /\ cnt \in [Notifiers -> -Cardinality(Callbacks)..Cardinality(Callbacks)]
    /\ skipVersion \in 0..file
    /\ work.at \in {"idle", "skip", "skipped", "run", "ran", "post"}
    /\ wake \in BOOLEAN /\ posted \in BOOLEAN
    /\ known \in [Callbacks -> -1..file]
    /\ suppressed \in [Callbacks -> SUBSET (1..scope.top)]

(* Every call after the first tells exactly the changes from the version the
   callback last knew to the one the Realm is at; only changes it asked not to
   be told of may be missing.  A lost set, one delivered twice or one of a
   version the Realm is not at would break the user's copy of the list. *)
CallTellsAll ==
    [][\A c \in Callbacks : inside' = c /\ inside # c /\ known[c] > 0 =>
         LET cb == cbs[cur][idx[cur]] IN
         /\ cb.todo \subseteq known[c]+1 .. ver
         /\ (known[c]+1 .. ver) \ suppressed[c] \subseteq cb.todo]_vars

(* In a write transaction, once its notifications are out, every callback that
   was ever called knows of everything before it, so that the changes made in
   it can be left out of the next notification. *)
WriteStartsTold ==
    writing /\ pack = {} =>
        \A n \in Mine : \A i \in DOMAIN cbs[n] :
            cbs[n][i].initial => (known[cbs[n][i].id]+1 .. ver) \subseteq suppressed[cbs[n][i].id]

(* All notifiers that have run are at the same version: a package has one. *)
RunTogether ==
    \A m, n \in Ready : nver[m] = nver[n]

(* The code's assertions: the worker skips to a version it has, for notifiers
   it has, and the loop over the callbacks stays within them and with the one
   it calls, whatever is removed meanwhile. *)
SkipCanRun ==
    work.at \in {"skip", "skipped"} => work.old # {} /\ work.skip <= work.version
LoopStaysInside ==
    cur # None => /\ cnt[cur] <= Len(cbs[cur]) /\ idx[cur] <= cnt[cur] + 1
                  /\ \A i \in DOMAIN cbs[cur] : cbs[cur][i].id = inside => i = idx[cur]
AssertionsHold == SkipCanRun /\ LoopStaysInside

(* refresh and begin_transaction get what they wait for. *)
WaitsEnd == []<>(pc # "wait")

(* Once nobody writes any more, every callback still there has had its first
   call and knows of everything it did not ask to miss. *)
AllTold ==
    \A n \in Mine : \A i \in DOMAIN cbs[n] : LET c == cbs[n][i].id IN
        known[c] > 0 /\ (known[c]+1 .. file) \subseteq suppressed[c]
EverythingTold == <>[]AllTold
=============================================================================
