------------------------- MODULE NotificationsProofs -------------------------
(***************************************************************************)
(* The assertions of run_async_notifiers and for_each_callback hold,       *)
(* notifiers run together, a write starts when everything before it has    *)
(* been told, and each call tells all that is new and nothing else, for    *)
(* any collections, callbacks and versions.                                *)
(***************************************************************************)
EXTENDS Notifications, ListLemmas

(* What the worker's part of the state looks like.  A skip version is never
   newer than the file, and there is one only while there are notifiers. *)
SkipTypes ==
    /\ file \in Nat /\ skipVersion \in 0..file
    /\ place \in [Notifiers -> {"none", "new", "main", "gone"}]
    /\ work \in [at : {"idle", "skip", "skipped", "run", "ran", "post"}, version : Nat,
                 skip : Nat, new : SUBSET Notifiers, old : SUBSET Notifiers]
SkipHasNotifiers == skipVersion > 0 => \E n \in Notifiers : place[n] = "main"
SkipInv == SkipTypes /\ SkipHasNotifiers /\ SkipCanRun

\* Cleaning up leaves a skip version only if notifiers are left.
LEMMA CleanedSkip ==
    ASSUME SkipTypes, SkipHasNotifiers
    PROVE  LET q == PlacesCleaned(place)
               v == SkipCleaned(place, q, skipVersion)
           IN  /\ q \in [Notifiers -> {"none", "new", "main", "gone"}]
               /\ v \in 0..file
               /\ v > 0 => \E n \in Notifiers : q[n] = "main"
BY DEF SkipTypes, SkipHasNotifiers, PlacesCleaned, SkipCleaned

\* The main thread and the other writers keep the invariant of the worker.
LEMMA SkipStepOthers ==
    ASSUME SkipInv, [Next]_vars, ~Worker
    PROVE  SkipInv'
<1> USE DEF SkipInv, SkipTypes, SkipHasNotifiers, SkipCanRun
<1>1. ASSUME NEW n \in Notifiers, Register(n)
      PROVE  SkipInv'
  <2>1. place[n] = "none" /\ place' = [place EXCEPT ![n] = "new"]
    BY <1>1 DEF Register, NextOf
  <2>2. UNCHANGED <<file, skipVersion, work>>
    BY <1>1 DEF Register
  <2> QED
    BY <2>1, <2>2
<1>2. ASSUME NEW n \in Notifiers, NEW c \in Callbacks, AddCallback(n, c)
      PROVE  SkipInv'
  BY <1>2 DEF AddCallback, list
<1>3. ASSUME NEW n \in Notifiers, NEW i \in 1..Cardinality(Callbacks), RemoveCallback(n, i)
      PROVE  SkipInv'
  BY <1>3 DEF RemoveCallback, list
<1>4. ASSUME NEW n \in Notifiers, Unregister(n) \/ Calls(n)
      PROVE  SkipInv'
  BY <1>4 DEF Unregister, Calls, StartCallbacks, Call, Return, EndCallbacks, list
<1>5. CASE Notify \/ Refresh \/ WaitEnds
  BY <1>5 DEF Notify, NotifyInWrite, NotifyAvailable, NotifyAdvance, Refresh, WaitEnds, list
<1>6. CASE Begin \/ Cancel
  BY <1>6 DEF Begin, Cancel, list
<1>7. CASE Commit
  BY <1>7 DEF Commit, SkipAfterCommit, Mine, Listed, list
<1>8. ASSUME NEW S \in SUBSET Callbacks, Suppress(S)
      PROVE  SkipInv'
  BY <1>8 DEF Suppress, list
<1>9. CASE Other
  BY <1>9 DEF Other, OtherCommits, OtherSignals, list
<1>10. CASE UNCHANGED vars
  BY <1>10 DEF vars
<1> QED
  BY <1>1, <1>2, <1>3, <1>4, <1>5, <1>6, <1>7, <1>8, <1>9, <1>10 DEF Next, Observe, Write

\* The worker keeps it: what it takes to skip is there.
LEMMA SkipStepWorker ==
    ASSUME SkipInv, Worker
    PROVE  SkipInv'
<1> USE DEF SkipInv, SkipTypes, SkipHasNotifiers, SkipCanRun
<1>1. CASE Take
  <2> DEFINE q == PlacesCleaned(place)
             new == {n \in Notifiers : q[n] = "new"}
             old == {n \in Notifiers : q[n] = "main"}
             v == SkipCleaned(place, q, skipVersion)
  <2>1. /\ q \in [Notifiers -> {"none", "new", "main", "gone"}]
        /\ v \in 0..file
        /\ v > 0 => old # {}
    BY CleanedSkip
  <2>2. /\ place' = [n \in Notifiers |-> IF n \in new THEN "main" ELSE q[n]]
        /\ file' = file
        /\ IF new \cup old = {}
           THEN work' = [work EXCEPT !.at = "post"] /\ skipVersion' = v
           ELSE /\ work' = [at |-> IF v > 0 THEN "skip" ELSE "run", version |-> file,
                            skip |-> v, new |-> new, old |-> old]
                /\ skipVersion' = 0
    BY <1>1 DEF Take
  <2> HIDE DEF q, v
  <2> QED
    BY <2>1, <2>2
<1>2. CASE RunToSkip \/ HandOverSkip \/ RunAll \/ Post
  BY <1>2 DEF RunToSkip, HandOverSkip, RunAll, Post, list
<1>3. CASE HandOverAll
  BY <1>3, CleanedSkip DEF HandOverAll
<1> QED
  BY <1>1, <1>2, <1>3 DEF Worker

LEMMA SkipInit ==
    ASSUME Init
    PROVE  SkipInv
<1>1. /\ file = 1 /\ skipVersion = 0
      /\ place = [n \in Notifiers |-> "none"]
      /\ work = [at |-> "idle", version |-> 0, skip |-> 0, new |-> {}, old |-> {}]
  BY DEF Init
<1> QED
  BY <1>1 DEF SkipInv, SkipTypes, SkipHasNotifiers, SkipCanRun

(* The worker never skips to a version it does not have or without notifiers
   to run (realm_coordinator.cpp:708, :709). *)
THEOREM SkipsCanRun == Spec => []SkipCanRun
<1>1. Init => SkipInv
  BY SkipInit
<1>2. SkipInv /\ [Next]_vars => SkipInv'
  BY SkipStepOthers, SkipStepWorker
<1>3. SkipInv => SkipCanRun
  BY DEF SkipInv
<1> QED
  BY <1>1, <1>2, <1>3, PTL DEF Spec

-----------------------------------------------------------------------------
(* One version for all.  Only notifiers the worker has taken have run; while it
   works it has all of the main list, the new ones not having run yet; all those
   that have run are at one version, their Realms still there or not. *)
Working == work.at \in {"skip", "skipped", "run", "ran"}
TogetherTypes ==
    /\ place \in [Notifiers -> {"none", "new", "main", "gone"}]
    /\ hasRun \in [Notifiers -> BOOLEAN] /\ DOMAIN nver = Notifiers
    /\ \A n \in Notifiers : place[n] \in {"none", "new"} => ~hasRun[n]
WorkerHasAll ==
    Working => \A n \in Notifiers :
                 /\ place[n] = "main" => n \in work.new \cup work.old
                 /\ n \in work.new \cup work.old => place[n] \in {"main", "gone"}
                 /\ n \in work.new => n \notin work.old /\ ~hasRun[n]
SameVersion ==
    \A m, n \in Notifiers : place[m] = "main" /\ hasRun[m] /\ place[n] = "main" /\ hasRun[n] =>
                              nver[m] = nver[n]
TogetherInv == TogetherTypes /\ WorkerHasAll /\ SameVersion

\* The main thread and the other writers only register new notifiers.
LEMMA TogetherStepOthers ==
    ASSUME TogetherInv, [Next]_vars, ~Worker
    PROVE  TogetherInv'
<1> USE DEF TogetherInv, TogetherTypes, WorkerHasAll, SameVersion, Working
<1>1. ASSUME NEW n \in Notifiers, Register(n)
      PROVE  TogetherInv'
  <2>1. place[n] = "none" /\ place' = [place EXCEPT ![n] = "new"]
    BY <1>1 DEF Register, NextOf
  <2>2. nver' = [nver EXCEPT ![n] = ver] /\ UNCHANGED <<hasRun, work>>
    BY <1>1 DEF Register
  <2> QED
    BY <2>1, <2>2
<1>2. UNCHANGED <<place, hasRun, nver, work>> => TogetherInv'
  OBVIOUS
<1>3. ASSUME NEW n \in Notifiers, NEW c \in Callbacks, AddCallback(n, c)
      PROVE  UNCHANGED <<place, hasRun, nver, work>>
  BY <1>3 DEF AddCallback, list, bg
<1>4. ASSUME NEW n \in Notifiers, NEW i \in 1..Cardinality(Callbacks), RemoveCallback(n, i)
      PROVE  UNCHANGED <<place, hasRun, nver, work>>
  BY <1>4 DEF RemoveCallback, list, bg
<1>5. ASSUME NEW n \in Notifiers, Unregister(n) \/ Calls(n)
      PROVE  UNCHANGED <<place, hasRun, nver, work>>
  BY <1>5 DEF Unregister, Calls, StartCallbacks, Call, Return, EndCallbacks, list, bg
<1>6. CASE Notify \/ Refresh \/ WaitEnds \/ Write \/ Other \/ UNCHANGED vars
  <2>1. UNCHANGED <<place, hasRun, nver, work>>
    BY <1>6 DEF Notify, NotifyInWrite, NotifyAvailable, NotifyAdvance, Refresh, WaitEnds, Write,
                Begin, Commit, Cancel, Suppress, Other, OtherCommits, OtherSignals, list, bg, vars
  <2> QED
    BY <1>2, <2>1
<1> QED
  BY <1>1, <1>2, <1>3, <1>4, <1>5, <1>6 DEF Next, Observe

LEMMA TakeKeepsTogether ==
    ASSUME SkipTypes, TogetherInv,
           NEW q \in [Notifiers -> {"none", "new", "main", "gone"}],
           \A n \in Notifiers : q[n] = place[n] \/ q[n] = "gone",
           place' = [n \in Notifiers |-> IF q[n] = "new" THEN "main" ELSE q[n]],
           UNCHANGED <<hasRun, nver>>,
           \/ work'.at = "post"
           \/ /\ work'.new = {n \in Notifiers : q[n] = "new"}
              /\ work'.old = {n \in Notifiers : q[n] = "main"}
    PROVE  TogetherInv'
<1> USE DEF SkipTypes, TogetherInv, TogetherTypes, WorkerHasAll, SameVersion, Working
<1>1. \A n \in Notifiers : place'[n] = IF q[n] = "new" THEN "main" ELSE q[n]
  OBVIOUS
<1>2. \A n \in Notifiers : q[n] = "new" => place[n] = "new" /\ ~hasRun[n]
  OBVIOUS
<1>3. TogetherTypes'
  BY <1>1, <1>2
<1>4. WorkerHasAll'
  BY <1>1, <1>2
<1>5. SameVersion'
  BY <1>1, <1>2
<1> QED
  BY <1>3, <1>4, <1>5

\* The worker runs all that have run, first to the skip version, then with the new ones.
LEMMA TogetherStepWorker ==
    ASSUME SkipTypes, TogetherInv, Worker
    PROVE  TogetherInv'
<1> USE DEF SkipTypes, TogetherInv, TogetherTypes, WorkerHasAll, SameVersion, Working
<1>1. LET q == PlacesCleaned(place) IN
      /\ q \in [Notifiers -> {"none", "new", "main", "gone"}]
      /\ \A n \in Notifiers : q[n] = place[n] \/ q[n] = "gone"
  BY DEF PlacesCleaned
<1>2. CASE Take
  <2> DEFINE q == PlacesCleaned(place)
             new == {n \in Notifiers : q[n] = "new"}
             old == {n \in Notifiers : q[n] = "main"}
  <2>1. /\ place' = [n \in Notifiers |-> IF n \in new THEN "main" ELSE q[n]]
        /\ UNCHANGED <<hasRun, nver>>
        /\ \/ work' = [work EXCEPT !.at = "post"]
           \/ \E a, v, k : work' = [at |-> a, version |-> v, skip |-> k,
                                    new |-> new, old |-> old]
    BY <1>2 DEF Take, bg
  <2>2. work'.at = "post" \/ (work'.new = new /\ work'.old = old)
    <3> HIDE DEF new, old
    <3> QED
      BY <2>1
  <2> HIDE DEF q
  <2>3. place' = [n \in Notifiers |-> IF q[n] = "new" THEN "main" ELSE q[n]]
    BY <2>1
  <2> QED
    BY <1>1, <2>1, <2>2, <2>3, TakeKeepsTogether DEF q
<1>3. CASE RunToSkip \/ RunAll
  <2>1. /\ work' = [work EXCEPT !.at = "skipped"] \/ work' = [work EXCEPT !.at = "ran"]
        /\ Working /\ UNCHANGED <<place, hasRun, nver>>
    BY <1>3 DEF RunToSkip, RunAll, RunAt, list
  <2> QED
    BY <2>1
<1>4. CASE HandOverSkip
  <2>1. /\ work' = [work EXCEPT !.at = "run"] /\ Working /\ place' = place
        /\ hasRun' = [n \in Notifiers |-> n \in work.old \/ hasRun[n]]
        /\ nver' = [n \in Notifiers |-> IF n \in work.old THEN work.skip ELSE nver[n]]
    BY <1>4 DEF HandOverSkip, HandOver, list
  <2>2. work.old \cap work.new = {}
    BY <2>1
  <2> QED
    BY <2>1, <2>2
<1>5. CASE HandOverAll
  <2>1. /\ work'.at = "post" /\ Working /\ place' = PlacesCleaned(place)
        /\ hasRun' = [n \in Notifiers |-> n \in Taken \/ hasRun[n]]
        /\ nver' = [n \in Notifiers |-> IF n \in Taken THEN work.version ELSE nver[n]]
    BY <1>5 DEF HandOverAll, HandOver
  <2> QED
    BY <1>1, <2>1 DEF Taken
<1>6. CASE Post
  <2>1. work' = [work EXCEPT !.at = "idle"] /\ UNCHANGED <<place, hasRun, nver>>
    BY <1>6 DEF Post, list, bg
  <2> QED
    BY <2>1
<1> QED
  BY <1>2, <1>3, <1>4, <1>5, <1>6 DEF Worker

(* All notifiers that have run are at one version, so that a package has one
   (realm_coordinator.cpp:631-749): for any collections and versions, and whatever
   the user does with them. *)
THEOREM AllRunTogether == Spec => []RunTogether
<1>1. Init => SkipInv /\ TogetherInv
  <2> SUFFICES ASSUME Init PROVE TogetherInv
    BY SkipInit
  <2>1. /\ place = [n \in Notifiers |-> "none"] /\ hasRun = [n \in Notifiers |-> FALSE]
        /\ nver = [n \in Notifiers |-> 0]
        /\ work = [at |-> "idle", version |-> 0, skip |-> 0, new |-> {}, old |-> {}]
    BY DEF Init
  <2> QED
    BY <2>1 DEF TogetherInv, TogetherTypes, WorkerHasAll, SameVersion, Working
<1>2. SkipInv /\ TogetherInv /\ [Next]_vars => SkipInv' /\ TogetherInv'
  BY SkipStepOthers, SkipStepWorker, TogetherStepOthers, TogetherStepWorker DEF SkipInv
<1>3. TogetherInv => RunTogether
  BY DEF TogetherInv, TogetherTypes, SameVersion, RunTogether, Ready, Mine, Listed
<1> QED
  BY <1>1, <1>2, <1>3, PTL DEF Spec

-----------------------------------------------------------------------------
(* The loop over the callbacks.  Types of what it reads; the ids of callbacks
   are unique and used; while a package is delivered, the counts of its
   notifiers are those of their callbacks; inside a callback the index is its. *)
CallbackRecords == [id : Callbacks, acc : SUBSET Int, todo : SUBSET Int,
                    initial : BOOLEAN, skip : BOOLEAN]
VersionTypes ==
    /\ SkipTypes
    /\ ver \in Nat /\ nver \in [Notifiers -> Nat] /\ rows \in [Notifiers -> Nat]
    /\ changes \in [Notifiers -> SUBSET Int] /\ known \in [Callbacks -> Int]
CallbackTypes ==
    /\ cbs \in [Notifiers -> Seq(CallbackRecords)]
    /\ idx \in [Notifiers -> Int] /\ cnt \in [Notifiers -> Int]
    /\ pack \subseteq Notifiers
IdsUnique ==
    /\ \A m, n \in Notifiers : \A i \in 1..Len(cbs[m]), j \in 1..Len(cbs[n]) :
         cbs[m][i].id = cbs[n][j].id => m = n /\ i = j
    /\ \A n \in Notifiers : \A i \in 1..Len(cbs[n]) : known[cbs[n][i].id] >= 0
CountsFit == pc = "deliver" => \A n \in pack : cnt[n] = Len(cbs[n])
IndexFits ==
    /\ cur # None => pc = "deliver" /\ cur \in pack /\ idx[cur] \in 0..cnt[cur]+1
    /\ cur # None /\ inside = None => idx[cur] >= 1
    /\ inside # None =>
         /\ inside \in Callbacks /\ known[inside] >= 0 /\ cur # None
         /\ idx[cur] <= cnt[cur]
         /\ \A n \in Notifiers : \A i \in 1..Len(cbs[n]) :
              cbs[n][i].id = inside => n = cur /\ i = idx[cur]
(* No callback is added to a collection whose changes are being delivered. *)
NoAddDuringDelivery == "add during delivery" \notin Uses

LoopInv == VersionTypes /\ CallbackTypes /\ IdsUnique /\ CountsFit /\ IndexFits

\* The callbacks stay the same ones, in the same places.
IdsKept ==
    \A n \in Notifiers : /\ Len(cbs'[n]) = Len(cbs[n])
                         /\ \A i \in 1..Len(cbs[n]) : cbs'[n][i].id = cbs[n][i].id

LEMMA ListTypes ==
    ASSUME CallbackTypes, NEW n \in Notifiers
    PROVE  /\ cbs[n] \in Seq(CallbackRecords) /\ Len(cbs[n]) \in Nat
           /\ DOMAIN cbs[n] = 1..Len(cbs[n])
           /\ \A i \in 1..Len(cbs[n]) : cbs[n][i] \in CallbackRecords /\ cbs[n][i].id \in Callbacks
           /\ idx[n] \in Int /\ cnt[n] \in Int
<1>1. cbs[n] \in Seq(CallbackRecords) /\ idx[n] \in Int /\ cnt[n] \in Int
  BY DEF CallbackTypes
<1>2. \A r \in CallbackRecords : r.id \in Callbacks
  BY DEF CallbackRecords
<1>3. \A i \in 1..Len(cbs[n]) : cbs[n][i] \in CallbackRecords
  BY <1>1
<1> QED
  BY <1>1, <1>2, <1>3, LenProperties

\* Changing the fields of callbacks, not their ids, keeps the sequences.
LEMMA MappedCallbacks ==
    ASSUME CallbackTypes,
           NEW f, f = [n \in Notifiers |-> f[n]],
           \A n \in Notifiers : /\ f[n] = [i \in DOMAIN cbs[n] |-> f[n][i]]
                                /\ \A i \in DOMAIN cbs[n] : /\ f[n][i] \in CallbackRecords
                                                            /\ f[n][i].id = cbs[n][i].id,
           cbs' = f
    PROVE  cbs' \in [Notifiers -> Seq(CallbackRecords)] /\ IdsKept
<1>1. ASSUME NEW n \in Notifiers
      PROVE  /\ f[n] \in Seq(CallbackRecords)
             /\ Len(f[n]) = Len(cbs[n])
             /\ DOMAIN cbs[n] = 1..Len(cbs[n])
  <2>1. cbs[n] \in Seq(CallbackRecords)
    BY DEF CallbackTypes
  <2>2. Len(cbs[n]) \in Nat /\ DOMAIN cbs[n] = 1..Len(cbs[n])
    BY <2>1
  <2> QED
    BY <2>2
<1> QED
  BY <1>1 DEF IdsKept

LEMMA PackageKeepsIds ==
    ASSUME CallbackTypes, NEW P \in SUBSET Notifiers, Package(P)
    PROVE  /\ cbs' \in [Notifiers -> Seq(CallbackRecords)] /\ IdsKept
           /\ cnt' \in [Notifiers -> Int] /\ \A n \in P : cnt'[n] = Len(cbs'[n])
           /\ idx' = idx
<1> DEFINE f == [n \in Notifiers |-> IF n \notin P THEN cbs[n] ELSE
                   [i \in DOMAIN cbs[n] |-> [cbs[n][i] EXCEPT !.todo = cbs[n][i].acc,
                                                              !.acc = {}]]]
<1>1. cbs' = f
  BY DEF Package
<1>2. ASSUME NEW n \in Notifiers
      PROVE  /\ cbs[n] \in Seq(CallbackRecords) /\ Len(cbs[n]) \in Nat
             /\ cbs[n] = [i \in DOMAIN cbs[n] |-> cbs[n][i]]
             /\ \A i \in DOMAIN cbs[n] : cbs[n][i] \in CallbackRecords
  BY DEF CallbackTypes
<1>3. ASSUME NEW n \in Notifiers
      PROVE  /\ f[n] = [i \in DOMAIN cbs[n] |-> f[n][i]]
             /\ \A i \in DOMAIN cbs[n] : /\ f[n][i] \in CallbackRecords
                                         /\ f[n][i].id = cbs[n][i].id
  <2>1. ASSUME NEW r \in CallbackRecords
        PROVE  LET q == [r EXCEPT !.todo = r.acc, !.acc = {}] IN
               q \in CallbackRecords /\ q.id = r.id
    BY DEF CallbackRecords
  <2>2. CASE n \notin P
    BY <1>2, <2>2
  <2>3. CASE n \in P
    <3>1. f[n] = [i \in DOMAIN cbs[n] |-> [cbs[n][i] EXCEPT !.todo = cbs[n][i].acc, !.acc = {}]]
      BY <2>3
    <3> QED
      BY <1>2, <2>1, <3>1
  <2> QED
    BY <2>2, <2>3
<1> HIDE DEF f
<1>4. cbs' \in [Notifiers -> Seq(CallbackRecords)] /\ IdsKept
  <2>1. f = [n \in Notifiers |-> f[n]]
    BY DEF f
  <2> QED
    BY <1>1, <1>3, <2>1, MappedCallbacks
<1>5. /\ cnt' = [n \in Notifiers |-> IF n \in P THEN Len(cbs[n]) ELSE cnt[n]]
      /\ idx' = idx
  BY DEF Package
<1> QED
  BY <1>2, <1>4, <1>5 DEF CallbackTypes, IdsKept

LEMMA HandOverKeepsIds ==
    ASSUME CallbackTypes, VersionTypes, NEW ns \in SUBSET Notifiers, NEW v, HandOver(ns, v)
    PROVE  cbs' \in [Notifiers -> Seq(CallbackRecords)] /\ IdsKept
<1> DEFINE f == [n \in Notifiers |-> IF n \notin ns THEN cbs[n] ELSE
                   [i \in DOMAIN cbs[n] |-> AddChanges(cbs[n][i], changes[n])]]
<1>1. cbs' = f
  BY DEF HandOver
<1>2. ASSUME NEW n \in Notifiers
      PROVE  /\ cbs[n] = [i \in DOMAIN cbs[n] |-> cbs[n][i]]
             /\ \A i \in DOMAIN cbs[n] : cbs[n][i] \in CallbackRecords
             /\ changes[n] \in SUBSET Int
  BY DEF CallbackTypes, VersionTypes
<1>3. ASSUME NEW n \in Notifiers
      PROVE  /\ f[n] = [i \in DOMAIN cbs[n] |-> f[n][i]]
             /\ \A i \in DOMAIN cbs[n] : /\ f[n][i] \in CallbackRecords
                                         /\ f[n][i].id = cbs[n][i].id
  <2>1. ASSUME NEW r \in CallbackRecords, NEW new \in SUBSET Int
        PROVE  AddChanges(r, new) \in CallbackRecords /\ AddChanges(r, new).id = r.id
    BY DEF CallbackRecords, AddChanges
  <2>2. CASE n \notin ns
    BY <1>2, <2>2
  <2>3. CASE n \in ns
    <3>1. f[n] = [i \in DOMAIN cbs[n] |-> AddChanges(cbs[n][i], changes[n])]
      BY <2>3
    <3> QED
      BY <1>2, <2>1, <3>1
  <2> QED
    BY <2>2, <2>3
<1> HIDE DEF f
<1>4. f = [n \in Notifiers |-> f[n]]
  BY DEF f
<1> QED
  BY <1>1, <1>3, <1>4, MappedCallbacks

LEMMA SuppressKeepsIds ==
    ASSUME CallbackTypes, NEW S \in SUBSET Callbacks, Suppress(S)
    PROVE  cbs' \in [Notifiers -> Seq(CallbackRecords)] /\ IdsKept
<1> DEFINE f == [n \in Notifiers |-> [i \in DOMAIN cbs[n] |->
                   [cbs[n][i] EXCEPT !.skip = @ \/ cbs[n][i].id \in S]]]
<1>1. cbs' = f
  BY DEF Suppress
<1>2. ASSUME NEW n \in Notifiers, NEW i \in DOMAIN cbs[n]
      PROVE  /\ [cbs[n][i] EXCEPT !.skip = @ \/ cbs[n][i].id \in S] \in CallbackRecords
             /\ [cbs[n][i] EXCEPT !.skip = @ \/ cbs[n][i].id \in S].id = cbs[n][i].id
  <2>1. cbs[n][i] \in CallbackRecords
    BY DEF CallbackTypes
  <2> QED
    BY <2>1 DEF CallbackRecords
<1> HIDE DEF CallbackRecords
<1>3. \A n \in Notifiers : /\ f[n] = [i \in DOMAIN cbs[n] |-> f[n][i]]
                           /\ \A i \in DOMAIN cbs[n] : /\ f[n][i] \in CallbackRecords
                                                       /\ f[n][i].id = cbs[n][i].id
  BY <1>2
<1>4. f = [n \in Notifiers |-> f[n]]
  OBVIOUS
<1> HIDE DEF f
<1> QED
  BY <1>1, <1>3, <1>4, MappedCallbacks

\* Calling a callback changes that callback only, and not its id.
LEMMA CallKeepsIds ==
    ASSUME LoopInv, NEW n \in Notifiers, Call(n)
    PROVE  /\ cbs' \in [Notifiers -> Seq(CallbackRecords)] /\ IdsKept
           /\ idx[n] \in DOMAIN cbs[n]
<1> USE DEF LoopInv
<1>1. /\ cbs[n] \in Seq(CallbackRecords) /\ Len(cbs[n]) \in Nat
      /\ DOMAIN cbs[n] = 1..Len(cbs[n]) /\ idx[n] \in Int /\ cnt[n] \in Int
  BY DEF CallbackTypes
<1>2. cur = n /\ inside = None /\ idx[n] <= cnt[n] /\ n # None
  BY NotificationsAssumption DEF Call
<1>3. idx[n] >= 1 /\ cnt[n] = Len(cbs[n])
  BY <1>1, <1>2 DEF CountsFit, IndexFits
<1>4. idx[n] \in DOMAIN cbs[n]
  BY <1>1, <1>2, <1>3
<1>5. CASE HasNothingFor(cbs[n][idx[n]])
  BY <1>4, <1>5 DEF Call, IdsKept, CallbackTypes
<1>6. CASE ~HasNothingFor(cbs[n][idx[n]])
  <2> DEFINE r == cbs[n][idx[n]]
             q == [[r EXCEPT !.initial = TRUE] EXCEPT !.todo = {}]
             t == [cbs[n] EXCEPT ![idx[n]] = q]
  <2>1. r \in CallbackRecords
    BY <1>1, <1>4
  <2>2. q \in CallbackRecords /\ q.id = r.id
    BY <2>1 DEF CallbackRecords
  <2>3. cbs' = [cbs EXCEPT ![n] = t]
    <3>1. cbs' = [cbs EXCEPT ![n][idx[n]].initial = TRUE, ![n][idx[n]].todo = {}]
      BY <1>6 DEF Call
    <3> QED
      BY <3>1, <1>4, <2>1 DEF CallbackTypes, CallbackRecords
  <2> HIDE DEF q, r
  <2>4. /\ t \in Seq(CallbackRecords) /\ Len(t) = Len(cbs[n])
        /\ \A i \in 1..Len(cbs[n]) : t[i] = IF i = idx[n] THEN q ELSE cbs[n][i]
    BY <1>1, <1>4, <2>2
  <2> HIDE DEF t
  <2>5. cbs' \in [Notifiers -> Seq(CallbackRecords)]
    BY <2>3, <2>4 DEF CallbackTypes
  <2>6. IdsKept
    BY <2>2, <2>3, <2>4 DEF IdsKept, CallbackTypes, r
  <2> QED
    BY <1>4, <2>5, <2>6
<1> QED
  BY <1>5, <1>6

\* A callback is added at the end of a list of which nothing is being delivered.
LEMMA AddCallbackKeepsLoop ==
    ASSUME LoopInv, NoAddDuringDelivery,
           NEW n \in Notifiers, NEW c \in Callbacks, AddCallback(n, c)
    PROVE  CallbackTypes' /\ IdsUnique' /\ CountsFit' /\ IndexFits'
<1> USE DEF LoopInv
<1> DEFINE r == [id |-> c, acc |-> {}, todo |-> {}, initial |-> FALSE, skip |-> FALSE]
<1>1. /\ n \notin pack /\ known[c] = -1
      /\ known' = [known EXCEPT ![c] = 0]
      /\ cbs' = [cbs EXCEPT ![n] = Append(@, r)]
      /\ UNCHANGED <<pc, pack, cur, inside, idx, cnt>>
  <2>1. c = NextOf({d \in scope.cs : known[d] = -1}) /\ {d \in scope.cs : known[d] = -1} # {}
    BY DEF AddCallback
  <2>2. known[c] = -1
    BY <2>1 DEF NextOf
  <2> QED
    BY <2>2 DEF AddCallback, main, NoAddDuringDelivery
<1>2. r \in CallbackRecords /\ r.id = c
  BY DEF CallbackRecords
<1> HIDE DEF r
<1>3. /\ Append(cbs[n], r) \in Seq(CallbackRecords)
      /\ Len(Append(cbs[n], r)) = Len(cbs[n]) + 1
      /\ \A i \in 1..Len(cbs[n]) : Append(cbs[n], r)[i] = cbs[n][i]
      /\ Append(cbs[n], r)[Len(cbs[n]) + 1] = r
  <2>1. cbs[n] \in Seq(CallbackRecords)
    BY ListTypes
  <2> QED
    BY <1>2, <2>1, AppendProperties
<1>4. /\ cbs' \in [Notifiers -> Seq(CallbackRecords)]
      /\ \A m \in Notifiers : cbs'[m] = IF m = n THEN Append(cbs[n], r) ELSE cbs[m]
  BY <1>1, <1>3 DEF CallbackTypes
<1>5. ASSUME NEW m \in Notifiers, NEW i \in 1..Len(cbs[m])
      PROVE  known[cbs[m][i].id] >= 0 /\ cbs[m][i].id # c /\ cbs[m][i].id \in Callbacks
  <2>1. known[cbs[m][i].id] >= 0
    BY DEF IdsUnique
  <2>2. cbs[m][i].id \in Callbacks
    BY ListTypes
  <2> QED
    BY <1>1, <2>1, <2>2
<1>6. ASSUME NEW m \in Notifiers, NEW i \in 1..Len(cbs'[m])
      PROVE  \/ i \in 1..Len(cbs[m]) /\ cbs'[m][i].id = cbs[m][i].id
             \/ m = n /\ i = Len(cbs[n]) + 1 /\ cbs'[m][i].id = c
  <2>1. CASE m # n
    BY <1>4, <2>1
  <2>2. CASE m = n
    <3>1. Len(cbs[n]) \in Nat /\ i \in 1..(Len(cbs[n]) + 1)
      BY <1>3, <1>4, <2>2, ListTypes
    <3>2. CASE i \in 1..Len(cbs[n])
      BY <1>3, <1>4, <2>2, <3>2
    <3>3. CASE i = Len(cbs[n]) + 1
      BY <1>2, <1>3, <1>4, <2>2, <3>3
    <3>4. i \in 1..Len(cbs[n]) \/ i = Len(cbs[n]) + 1
      BY <3>1
    <3> QED
      BY <3>2, <3>3, <3>4
  <2> QED
    BY <2>1, <2>2
<1>7. IdsUnique'
  <2>1. ASSUME NEW m \in Notifiers, NEW i \in 1..Len(cbs'[m])
        PROVE  known'[cbs'[m][i].id] >= 0
    <3>1. known \in [Callbacks -> Int]
      BY DEF VersionTypes
    <3> QED
      BY <1>1, <1>5, <1>6, <3>1
  <2>2. ASSUME NEW k \in Notifiers, NEW m \in Notifiers,
               NEW i \in 1..Len(cbs'[k]), NEW j \in 1..Len(cbs'[m]),
               cbs'[k][i].id = cbs'[m][j].id
        PROVE  k = m /\ i = j
    <3>1. CASE i \in 1..Len(cbs[k]) /\ cbs'[k][i].id = cbs[k][i].id
      <4>1. j \in 1..Len(cbs[m]) /\ cbs'[m][j].id = cbs[m][j].id
        BY <1>5, <1>6, <2>2, <3>1
      <4>2. cbs[k][i].id = cbs[m][j].id
        BY <2>2, <3>1, <4>1
      <4> QED
        BY <3>1, <4>1, <4>2 DEF IdsUnique
    <3>2. CASE k = n /\ i = Len(cbs[n]) + 1 /\ cbs'[k][i].id = c
      <4>1. ~(j \in 1..Len(cbs[m]) /\ cbs'[m][j].id = cbs[m][j].id)
        BY <1>5, <2>2, <3>2
      <4> QED
        BY <1>6, <2>2, <3>2, <4>1
    <3> QED
      BY <1>6, <3>1, <3>2
  <2> QED
    BY <2>1, <2>2 DEF IdsUnique
<1>8. CountsFit'
  <2>1. \A m \in pack : m \in Notifiers /\ m # n
    BY <1>1 DEF CallbackTypes
  <2>2. \A m \in pack : cbs'[m] = cbs[m]
    BY <1>4, <2>1
  <2> QED
    BY <1>1, <2>2 DEF CountsFit
<1>9. IndexFits'
  <2>1. inside # None => inside # c /\ known'[inside] >= 0
    <3>1. known \in [Callbacks -> Int] /\ (inside # None => inside \in Callbacks /\ known[inside] >= 0)
      BY DEF VersionTypes, IndexFits
    <3>2. inside # None => inside # c
      BY <1>1, <3>1
    <3> QED
      BY <1>1, <3>1, <3>2
  <2>2. ASSUME inside # None, NEW m \in Notifiers, NEW i \in 1..Len(cbs'[m]), cbs'[m][i].id = inside
        PROVE  m = cur /\ i = idx[cur]
    <3>1. i \in 1..Len(cbs[m]) /\ cbs[m][i].id = inside
      BY <1>6, <2>1, <2>2
    <3> QED
      BY <2>2, <3>1 DEF IndexFits
  <2> QED
    BY <1>1, <2>1, <2>2 DEF IndexFits
<1> QED
  BY <1>1, <1>4, <1>7, <1>8, <1>9 DEF CallbackTypes

\* Removing a callback moves the count and the index with the callbacks.
LEMMA RemoveCallbackKeepsLoop ==
    ASSUME LoopInv, NEW n \in Notifiers, NEW r \in 1..Cardinality(Callbacks), RemoveCallback(n, r)
    PROVE  CallbackTypes' /\ IdsUnique' /\ CountsFit' /\ IndexFits'
<1> USE DEF LoopInv
<1> DEFINE from(m, i) == IF m # n \/ i < r THEN i ELSE i + 1
<1>1. \A m \in Notifiers : /\ cbs[m] \in Seq(CallbackRecords) /\ Len(cbs[m]) \in Nat
                           /\ idx[m] \in Int /\ cnt[m] \in Int
  BY ListTypes
<1>2. /\ r \in DOMAIN cbs[n] /\ cbs' = [cbs EXCEPT ![n] = RemoveAt(@, r)]
      /\ idx' = [idx EXCEPT ![n] = IF idx[n] >= r THEN idx[n] - 1 ELSE idx[n]]
      /\ cnt' = [cnt EXCEPT ![n] = @ - 1]
      /\ pc = "idle" \/ inside # None
      /\ UNCHANGED <<pc, pack, cur, inside, known>>
  BY DEF RemoveCallback, IndexWithout, UserCode, main, told
<1>3. /\ RemoveAt(cbs[n], r) \in Seq(CallbackRecords)
      /\ Len(RemoveAt(cbs[n], r)) = Len(cbs[n]) - 1
      /\ \A i \in 1..(Len(cbs[n]) - 1) :
           RemoveAt(cbs[n], r)[i] = IF i < r THEN cbs[n][i] ELSE cbs[n][i + 1]
  BY <1>1, <1>2, RemoveAtProperties
<1>4. r \in Int /\ r >= 1 /\ r <= Len(cbs[n])
  BY <1>1, <1>2
<1>5. /\ CallbackTypes'
      /\ \A m \in Notifiers : Len(cbs'[m]) = IF m = n THEN Len(cbs[n]) - 1 ELSE Len(cbs[m])
      /\ \A m \in Notifiers : \A i \in 1..Len(cbs'[m]) :
           from(m, i) \in 1..Len(cbs[m]) /\ cbs'[m][i] = cbs[m][from(m, i)]
  <2>1. cbs' \in [Notifiers -> Seq(CallbackRecords)]
    BY <1>2, <1>3 DEF CallbackTypes
  <2>2. \A m \in Notifiers : cbs'[m] = IF m = n THEN RemoveAt(cbs[n], r) ELSE cbs[m]
    BY <1>2 DEF CallbackTypes
  <2>3. idx' \in [Notifiers -> Int] /\ cnt' \in [Notifiers -> Int] /\ pack' \subseteq Notifiers
    BY <1>2, <1>4 DEF CallbackTypes
  <2>4. ASSUME NEW m \in Notifiers, NEW i \in 1..Len(cbs'[m])
        PROVE  from(m, i) \in 1..Len(cbs[m]) /\ cbs'[m][i] = cbs[m][from(m, i)]
    <3>1. CASE m # n
      BY <2>2, <3>1
    <3>2. CASE m = n
      <4>1. Len(cbs[n]) \in Nat /\ i \in 1..(Len(cbs[n]) - 1)
        BY <1>1, <1>3, <2>2, <3>2
      <4>2. cbs'[m][i] = IF i < r THEN cbs[n][i] ELSE cbs[n][i + 1]
        BY <1>3, <2>2, <3>2, <4>1
      <4> QED
        BY <1>4, <3>2, <4>1, <4>2
    <3> QED
      BY <3>1, <3>2
  <2> QED
    BY <1>3, <2>1, <2>2, <2>3, <2>4 DEF CallbackTypes
<1>6. IdsUnique'
  <2>1. \A m \in Notifiers : \A i \in 1..Len(cbs'[m]) : known'[cbs'[m][i].id] >= 0
    BY <1>2, <1>5 DEF IdsUnique
  <2>2. ASSUME NEW k \in Notifiers, NEW m \in Notifiers,
               NEW i \in 1..Len(cbs'[k]), NEW j \in 1..Len(cbs'[m]),
               cbs'[k][i].id = cbs'[m][j].id
        PROVE  k = m /\ i = j
    <3> DEFINE a == from(k, i)
               b == from(m, j)
    <3>1. a \in 1..Len(cbs[k]) /\ b \in 1..Len(cbs[m]) /\ cbs[k][a].id = cbs[m][b].id
      BY <1>5, <2>2
    <3> HIDE DEF a, b
    <3>2. k = m /\ a = b
      BY <3>1 DEF IdsUnique
    <3>3. i \in Int /\ j \in Int
      OBVIOUS
    <3> QED
      BY <1>4, <3>2, <3>3 DEF a, b
  <2> QED
    BY <2>1, <2>2 DEF IdsUnique
<1>7. CountsFit'
  BY <1>1, <1>2, <1>5 DEF CountsFit, CallbackTypes
<1>8. IndexFits'
  <2>1. CASE inside = None
    BY <1>2, <2>1 DEF IndexFits
  <2>2. CASE inside # None
    <3>1. /\ cur # None /\ cur \in Notifiers /\ pc = "deliver" /\ cur \in pack
          /\ cnt[cur] = Len(cbs[cur])
      BY <2>2 DEF IndexFits, CallbackTypes, CountsFit
    <3>2. /\ idx[cur] \in Int /\ cnt[cur] \in Int
          /\ idx'[cur] = IF cur = n /\ idx[n] >= r THEN idx[n] - 1 ELSE idx[cur]
          /\ cnt'[cur] = IF cur = n THEN cnt[n] - 1 ELSE cnt[cur]
      BY <1>2, <3>1 DEF CallbackTypes
    <3>3. idx[cur] >= 0 /\ idx[cur] <= cnt[cur]
      BY <2>2, <3>1, <3>2 DEF IndexFits
    <3>4. idx'[cur] >= 0 /\ idx'[cur] <= cnt'[cur]
      BY <1>4, <3>1, <3>2, <3>3
    <3>5. ASSUME NEW m \in Notifiers, NEW i \in 1..Len(cbs'[m]), cbs'[m][i].id = inside
          PROVE  m = cur /\ i = idx'[cur]
      <4> DEFINE a == from(m, i)
      <4>1. a \in 1..Len(cbs[m]) /\ cbs[m][a].id = inside
        BY <1>5, <3>5
      <4> HIDE DEF a
      <4>2. m = cur /\ a = idx[cur]
        BY <2>2, <4>1 DEF IndexFits
      <4>3. i \in Int
        OBVIOUS
      <4> QED
        BY <1>4, <3>2, <4>2, <4>3 DEF a
    <3> QED
      BY <1>2, <2>2, <3>1, <3>2, <3>4, <3>5 DEF IndexFits
  <2> QED
    BY <2>1, <2>2
<1> QED
  BY <1>5, <1>6, <1>7, <1>8

\* Keeping the callbacks and their ids keeps them unique.
LEMMA KeptUnique ==
    ASSUME LoopInv, IdsKept, UNCHANGED known
    PROVE  IdsUnique'
<1>1. ASSUME NEW m \in Notifiers, NEW i \in 1..Len(cbs'[m])
      PROVE  i \in 1..Len(cbs[m]) /\ cbs'[m][i].id = cbs[m][i].id
  BY DEF IdsKept
<1>2. IdsUnique
  BY DEF LoopInv
<1>3. ASSUME NEW m \in Notifiers, NEW i \in 1..Len(cbs'[m])
      PROVE  known'[cbs'[m][i].id] >= 0
  BY <1>1, <1>2 DEF IdsUnique
<1>4. ASSUME NEW k \in Notifiers, NEW m \in Notifiers,
             NEW i \in 1..Len(cbs'[k]), NEW j \in 1..Len(cbs'[m]),
             cbs'[k][i].id = cbs'[m][j].id
      PROVE  k = m /\ i = j
  BY <1>1, <1>2, <1>4 DEF IdsUnique
<1> QED
  BY <1>3, <1>4 DEF IdsUnique

\* A step that leaves the loop alone.
LEMMA LoopFrame ==
    ASSUME LoopInv, IdsKept, cbs' \in [Notifiers -> Seq(CallbackRecords)],
           pack' \subseteq Notifiers,
           UNCHANGED <<pc, pack>> \/ (pc # "deliver" /\ pc' # "deliver"),
           UNCHANGED <<cur, inside, idx, cnt, known>>
    PROVE  CallbackTypes' /\ IdsUnique' /\ CountsFit' /\ IndexFits'
<1> USE DEF LoopInv
<1>1. CallbackTypes' /\ IdsUnique'
  BY KeptUnique DEF CallbackTypes
<1>2. CountsFit'
  BY DEF CountsFit, IdsKept, CallbackTypes
<1>3. ASSUME inside # None, NEW m \in Notifiers, NEW i \in 1..Len(cbs'[m]), cbs'[m][i].id = inside
      PROVE  m = cur /\ i = idx[cur]
  <2>1. i \in 1..Len(cbs[m]) /\ cbs[m][i].id = inside
    BY <1>3 DEF IdsKept
  <2> QED
    BY <1>3, <2>1 DEF IndexFits
<1>4. IndexFits'
  BY <1>3 DEF IndexFits
<1> QED
  BY <1>1, <1>2, <1>4

\* A package counts the callbacks that are there; its delivery starts with it.
LEMMA PackageKeepsLoop ==
    ASSUME LoopInv, pc # "deliver", NEW P \in SUBSET Notifiers, Package(P),
           pack' \subseteq P, UNCHANGED <<cur, inside, known>>
    PROVE  CallbackTypes' /\ IdsUnique' /\ CountsFit' /\ IndexFits'
<1> USE DEF LoopInv
<1>1. /\ cbs' \in [Notifiers -> Seq(CallbackRecords)] /\ IdsKept
      /\ cnt' \in [Notifiers -> Int] /\ \A n \in P : cnt'[n] = Len(cbs'[n])
      /\ idx' = idx
  BY PackageKeepsIds
<1>2. CallbackTypes' /\ IdsUnique'
  BY <1>1, KeptUnique DEF CallbackTypes
<1>3. cur = None /\ inside = None
  BY DEF IndexFits
<1> QED
  BY <1>1, <1>2, <1>3 DEF CountsFit, IndexFits

\* Every step keeps what the versions look like.
LEMMA VersionStep ==
    ASSUME SkipInv, LoopInv, [Next]_vars
    PROVE  VersionTypes'
<1> SUFFICES /\ ver' \in Nat /\ nver' \in [Notifiers -> Nat] /\ rows' \in [Notifiers -> Nat]
             /\ changes' \in [Notifiers -> SUBSET Int] /\ known' \in [Callbacks -> Int]
  BY SkipStepOthers, SkipStepWorker DEF VersionTypes, SkipInv
<1> USE DEF VersionTypes, SkipTypes
<1>0. VersionTypes
  BY DEF LoopInv
<1>1. ASSUME NEW n \in Notifiers, Register(n)
      PROVE  UNCHANGED <<ver, rows, changes, known>> /\ nver' \in [Notifiers -> Nat]
  BY <1>0, <1>1 DEF Register, main, told
<1>2. ASSUME NEW n \in Notifiers, NEW c \in Callbacks, AddCallback(n, c)
      PROVE  UNCHANGED <<ver, nver, rows, changes>> /\ known' \in [Callbacks -> Int]
  <2>1. known' = [known EXCEPT ![c] = 0] /\ UNCHANGED <<ver, nver, rows, changes>>
    BY <1>2 DEF AddCallback, main, bg
  <2> QED
    BY <1>0, <2>1
<1>3. ASSUME NEW n \in Notifiers, NEW i \in 1..Cardinality(Callbacks), RemoveCallback(n, i)
      PROVE  UNCHANGED <<ver, nver, rows, changes, known>>
  BY <1>3 DEF RemoveCallback, main, bg, told
<1>4. ASSUME NEW n \in Notifiers, Unregister(n)
      PROVE  UNCHANGED <<ver, nver, rows, changes, known>>
  BY <1>4 DEF Unregister, main, bg, told
<1>5. ASSUME NEW n \in Notifiers, Calls(n)
      PROVE  UNCHANGED <<ver, nver, rows, changes>> /\ known' \in [Callbacks -> Int]
  BY <1>0, <1>5 DEF Calls, StartCallbacks, Call, Return, EndCallbacks, bg, told
<1>6. ASSUME NEW P \in SUBSET Notifiers, AdvanceWith(P)
      PROVE  ver' \in Nat
  <2>1. P # {} => VersionOf(P) \in Nat
    BY <1>0 DEF VersionOf
  <2> QED
    BY <1>0, <1>6, <2>1 DEF AdvanceWith, Deliver
<1>7. CASE Notify \/ WaitEnds
  <2>1. UNCHANGED <<nver, rows, changes, known>>
    BY <1>7 DEF Notify, NotifyInWrite, NotifyAvailable, NotifyAdvance, WaitEnds, bg, told
  <2>2. ver' \in Nat
    <3>1. CASE NotifyInWrite \/ NotifyAvailable
      BY <1>0, <3>1 DEF NotifyInWrite, NotifyAvailable, Deliver, main
    <3>2. CASE NotifyAdvance
      BY <1>6, <3>2 DEF NotifyAdvance, Ready, Mine, Listed
    <3>3. CASE WaitEnds
      <4> DEFINE P == pack \cap Ready
      <4>1. P # {} => VersionOf(P) \in Nat
        BY <1>0 DEF VersionOf, Ready, Mine, Listed
      <4>2. Deliver({}, file) \/ (P # {} /\ Deliver(P, VersionOf(P)))
        BY <3>3 DEF WaitEnds
      <4> QED
        BY <1>0, <4>1, <4>2 DEF Deliver
    <3> QED
      BY <1>7, <3>1, <3>2, <3>3 DEF Notify
  <2> QED
    BY <1>0, <2>1, <2>2
<1>8. CASE Refresh \/ Write \/ Other
  <2>1. UNCHANGED <<nver, rows, changes, known>>
    BY <1>8 DEF Refresh, Write, Begin, Commit, Cancel, Suppress, Other, OtherCommits, OtherSignals,
                bg, told
  <2>2. ver' \in Nat
    BY <1>0, <1>8 DEF Refresh, Write, Begin, Commit, Cancel, Suppress, Other, OtherCommits,
                      OtherSignals, WaitFor, main
  <2> QED
    BY <1>0, <2>1, <2>2
<1>9. ASSUME NEW ns \in SUBSET Notifiers, NEW v \in Nat, RunAt(ns, v) \/ HandOver(ns, v)
      PROVE  /\ nver' \in [Notifiers -> Nat] /\ rows' \in [Notifiers -> Nat]
             /\ changes' \in [Notifiers -> SUBSET Int]
  <2>1. CASE RunAt(ns, v)
    <3>1. \A n \in Notifiers : rows[n]+1 .. v \in SUBSET Int
      BY <1>0
    <3> QED
      BY <1>0, <2>1, <3>1 DEF RunAt
  <2>2. CASE HandOver(ns, v)
    BY <1>0, <2>2 DEF HandOver
  <2> QED
    BY <1>9, <2>1, <2>2
<1>10. CASE Worker
  <2>1. UNCHANGED <<ver, known>>
    BY <1>10 DEF Worker, Take, RunToSkip, HandOverSkip, RunAll, HandOverAll, Post, main, told
  <2>2. /\ work.skip \in Nat /\ work.version \in Nat
        /\ work.old \in SUBSET Notifiers /\ Taken \in SUBSET Notifiers
    BY <1>0 DEF Taken
  <2>3. CASE Take \/ Post
    BY <1>0, <2>1, <2>3 DEF Take, Post, bg
  <2>4. CASE RunToSkip \/ HandOverSkip \/ RunAll \/ HandOverAll
    <3>1. \E ns \in SUBSET Notifiers, v \in Nat : RunAt(ns, v) \/ HandOver(ns, v)
      BY <2>2, <2>4 DEF RunToSkip, HandOverSkip, RunAll, HandOverAll
    <3> QED
      BY <1>0, <1>9, <2>1, <3>1
  <2> QED
    BY <1>10, <2>3, <2>4 DEF Worker
<1>11. CASE UNCHANGED vars
  BY <1>0, <1>11 DEF vars, main, bg, told
<1> QED
  BY <1>0, <1>1, <1>2, <1>3, <1>4, <1>5, <1>7, <1>8, <1>10, <1>11 DEF Next, Observe

\* Calling and returning move the index along the callbacks that were counted.
LEMMA CallsKeepLoop ==
    ASSUME LoopInv, NEW n \in Notifiers, Calls(n)
    PROVE  CallbackTypes' /\ IdsUnique' /\ CountsFit' /\ IndexFits'
<1> USE DEF LoopInv
<1>0. n # None /\ idx \in [Notifiers -> Int] /\ cnt \in [Notifiers -> Int] /\ pack \subseteq Notifiers
  BY NotificationsAssumption DEF CallbackTypes
<1>1. CASE StartCallbacks(n)
  <2>1. /\ UNCHANGED <<pc, pack, inside, cbs, cnt, known>>
        /\ pc = "deliver" /\ n \in pack /\ cur = None
        /\ cur' = n /\ idx' = [idx EXCEPT ![n] = 1]
    BY <1>1 DEF StartCallbacks, told
  <2>2. cnt[n] = Len(cbs[n]) /\ Len(cbs[n]) \in Nat
    BY <2>1, ListTypes DEF CountsFit
  <2>3. inside = None
    BY <2>1 DEF IndexFits
  <2>4. IndexFits'
    BY <1>0, <2>1, <2>2, <2>3 DEF IndexFits
  <2>5. CallbackTypes' /\ IdsUnique' /\ CountsFit'
    BY <1>0, <2>1 DEF CallbackTypes, IdsUnique, CountsFit
  <2> QED
    BY <2>4, <2>5
<1>2. CASE Call(n)
  <2>1. /\ UNCHANGED <<pc, pack, cur, cnt>>
        /\ cur = n /\ inside = None /\ idx[n] <= cnt[n]
    BY <1>2 DEF Call
  <2>2. /\ cbs' \in [Notifiers -> Seq(CallbackRecords)] /\ IdsKept
        /\ idx[n] \in DOMAIN cbs[n]
    BY <1>2, CallKeepsIds
  <2>3. pc = "deliver" /\ n \in pack /\ idx[n] >= 1
    BY <1>0, <2>1 DEF IndexFits
  <2>4. CountsFit'
    BY <1>0, <2>1, <2>2 DEF CountsFit, IdsKept
  <2>5. CASE HasNothingFor(cbs[n][idx[n]])
    <3>1. UNCHANGED <<cbs, inside, known>> /\ idx' = [idx EXCEPT ![n] = @ + 1]
      BY <1>2, <2>5 DEF Call
    <3>2. IndexFits'
      BY <1>0, <2>1, <2>3, <3>1 DEF IndexFits
    <3>3. CallbackTypes' /\ IdsUnique'
      BY <1>0, <2>1, <3>1 DEF CallbackTypes, IdsUnique
    <3> QED
      BY <2>4, <3>2, <3>3
  <2>6. CASE ~HasNothingFor(cbs[n][idx[n]])
    <3> DEFINE c == cbs[n][idx[n]].id
    <3>1. inside' = c /\ known' = [known EXCEPT ![c] = ver] /\ UNCHANGED idx
      BY <1>2, <2>6 DEF Call
    <3>2. c \in Callbacks /\ c # None /\ known[c] >= 0 /\ idx[n] \in 1..Len(cbs[n])
      <4>1. idx[n] \in 1..Len(cbs[n]) /\ c \in Callbacks
        BY <2>2, ListTypes
      <4>2. c # None
        BY <4>1, NotificationsAssumption
      <4>3. known[c] >= 0
        BY <4>1 DEF IdsUnique
      <4> QED
        BY <4>1, <4>2, <4>3
    <3>3. known' \in [Callbacks -> Int] /\ known'[c] >= 0
          /\ \A d \in Callbacks : known[d] >= 0 => known'[d] >= 0
      BY <3>1, <3>2 DEF VersionTypes
    <3>4. ASSUME NEW m \in Notifiers, NEW i \in 1..Len(cbs'[m])
          PROVE  i \in 1..Len(cbs[m]) /\ cbs'[m][i].id = cbs[m][i].id
                 /\ cbs[m][i].id \in Callbacks
      BY <2>2, ListTypes DEF IdsKept
    <3>5. IdsUnique'
      <4>1. ASSUME NEW m \in Notifiers, NEW i \in 1..Len(cbs'[m])
            PROVE  known'[cbs'[m][i].id] >= 0
        BY <3>3, <3>4 DEF IdsUnique
      <4>2. ASSUME NEW k \in Notifiers, NEW m \in Notifiers,
                   NEW i \in 1..Len(cbs'[k]), NEW j \in 1..Len(cbs'[m]),
                   cbs'[k][i].id = cbs'[m][j].id
            PROVE  k = m /\ i = j
        BY <3>4, <4>2 DEF IdsUnique
      <4> QED
        BY <4>1, <4>2 DEF IdsUnique
    <3>6. ASSUME NEW m \in Notifiers, NEW i \in 1..Len(cbs'[m]), cbs'[m][i].id = c
          PROVE  m = n /\ i = idx[n]
      BY <3>2, <3>4, <3>6 DEF IdsUnique
    <3> HIDE DEF c
    <3>7. IndexFits'
      BY <1>0, <2>1, <2>3, <3>1, <3>2, <3>3, <3>6 DEF IndexFits
    <3>8. CallbackTypes'
      BY <1>0, <2>1, <2>2, <3>1 DEF CallbackTypes
    <3> QED
      BY <2>4, <3>5, <3>7, <3>8
  <2> QED
    BY <2>5, <2>6
<1>3. CASE Return(n)
  <2>1. /\ UNCHANGED <<pc, pack, cur, cbs, cnt, known>>
        /\ cur = n /\ inside # None /\ inside' = None /\ idx' = [idx EXCEPT ![n] = @ + 1]
    BY <1>3 DEF Return, told
  <2>2. pc = "deliver" /\ n \in pack /\ idx[n] >= 0 /\ idx[n] <= cnt[n]
    BY <1>0, <2>1 DEF IndexFits
  <2>3. IndexFits'
    BY <1>0, <2>1, <2>2 DEF IndexFits
  <2>4. CallbackTypes' /\ IdsUnique' /\ CountsFit'
    BY <1>0, <2>1 DEF CallbackTypes, IdsUnique, CountsFit
  <2> QED
    BY <2>3, <2>4
<1>4. CASE EndCallbacks(n)
  <2>1. /\ UNCHANGED <<inside, cbs, cnt, known>> /\ inside = None
        /\ cur' = None /\ idx' = [idx EXCEPT ![n] = 0]
        /\ pack' = pack \ {n} /\ (pc' = "deliver" => pc = "deliver")
    BY <1>4 DEF EndCallbacks, told
  <2>2. CallbackTypes' /\ IdsUnique' /\ CountsFit'
    BY <1>0, <2>1 DEF CallbackTypes, IdsUnique, CountsFit
  <2>3. IndexFits'
    BY <2>1 DEF IndexFits
  <2> QED
    BY <2>2, <2>3
<1> QED
  BY <1>1, <1>2, <1>3, <1>4 DEF Calls

\* What the worker does to the loop: at most, it hands changes over.
LEMMA WorkerKeepsLoop ==
    ASSUME LoopInv, Worker
    PROVE  CallbackTypes' /\ IdsUnique' /\ CountsFit' /\ IndexFits'
<1>1. CallbackTypes /\ VersionTypes /\ pack \subseteq Notifiers
  BY DEF LoopInv, CallbackTypes
<1>2. UNCHANGED <<pc, pack, cur, inside, idx, cnt, known>>
  BY DEF Worker, Take, RunToSkip, HandOverSkip, RunAll, HandOverAll, Post, HandOver, main, told, call
<1>3. cbs' \in [Notifiers -> Seq(CallbackRecords)] /\ IdsKept
  <2>1. CASE HandOverSkip \/ HandOverAll
    <3>1. work.old \in SUBSET Notifiers /\ Taken \in SUBSET Notifiers
      BY <1>1 DEF VersionTypes, SkipTypes, Taken
    <3>2. \E ns \in SUBSET Notifiers : \E v : HandOver(ns, v)
      BY <2>1, <3>1 DEF HandOverSkip, HandOverAll
    <3> QED
      BY <1>1, <3>2, HandOverKeepsIds
  <2>2. CASE ~(HandOverSkip \/ HandOverAll)
    <3>1. cbs' = cbs
      BY <2>2 DEF Worker, Take, RunToSkip, RunAll, Post, call
    <3> QED
      BY <1>1, <3>1 DEF IdsKept, CallbackTypes
  <2> QED
    BY <2>1, <2>2
<1> QED
  BY <1>1, <1>2, <1>3, LoopFrame

\* What the other threads and the Realm's own calls do to it.
LEMMA RealmKeepsLoop ==
    ASSUME LoopInv, Notify \/ Refresh \/ WaitEnds \/ Write \/ Other \/ UNCHANGED vars
    PROVE  CallbackTypes' /\ IdsUnique' /\ CountsFit' /\ IndexFits'
<1>1. /\ CallbackTypes /\ pack \subseteq Notifiers
      /\ cbs \in [Notifiers -> Seq(CallbackRecords)]
  BY DEF LoopInv, CallbackTypes
<1>2. Ready \in SUBSET Notifiers /\ Mine \subseteq Notifiers
  BY DEF Ready, Mine, Listed
<1>3. cbs' = cbs => IdsKept
  BY DEF IdsKept
<1>4. CASE NotifyAvailable
  <2> DEFINE P == {n \in Ready : nver[n] = ver}
  <2>1. P \in SUBSET Notifiers /\ pc # "deliver" /\ Package(P) /\ Deliver(P, ver)
        /\ UNCHANGED <<cur, inside, known>>
    BY <1>2, <1>4 DEF NotifyAvailable, Deliver, told
  <2> HIDE DEF P
  <2> QED
    BY <2>1, PackageKeepsLoop DEF Deliver
<1>5. CASE NotifyAdvance
  <2>1. pc # "deliver" /\ Package(Ready) /\ AdvanceWith(Ready) /\ known' = known
    BY <1>5 DEF NotifyAdvance, told
  <2>2. pack' \subseteq Ready /\ UNCHANGED <<cur, inside>>
    BY <2>1 DEF AdvanceWith, Deliver
  <2> QED
    BY <1>2, <2>1, <2>2, PackageKeepsLoop
<1>6. CASE WaitEnds
  <2> DEFINE P == pack \cap Ready
  <2>1. P \in SUBSET Notifiers /\ pc # "deliver" /\ Package(P) /\ known' = known
        /\ (Deliver({}, file) \/ Deliver(P, VersionOf(P)))
    BY <1>2, <1>6 DEF WaitEnds, told
  <2> HIDE DEF P
  <2>2. pack' \subseteq P /\ UNCHANGED <<cur, inside>>
    BY <2>1 DEF Deliver
  <2> QED
    BY <2>1, <2>2, PackageKeepsLoop
<1>7. CASE \E S \in SUBSET Callbacks : Suppress(S)
  <2>1. cbs' \in [Notifiers -> Seq(CallbackRecords)] /\ IdsKept
    BY <1>1, <1>7, SuppressKeepsIds
  <2>2. pc # "deliver" /\ pc' # "deliver" /\ UNCHANGED <<pack, cur, inside, idx, cnt, known>>
    BY <1>7 DEF Suppress
  <2> QED
    BY <1>1, <2>1, <2>2, LoopFrame
<1>8. CASE NotifyInWrite \/ Refresh \/ Begin \/ Commit \/ Cancel \/ Other \/ UNCHANGED vars
  <2>1. UNCHANGED <<cbs, cur, inside, idx, cnt, known>>
    BY <1>8 DEF NotifyInWrite, Refresh, Begin, Commit, Cancel, Other, OtherCommits, OtherSignals,
                WaitFor, main, call, told, vars
  <2>2. pack' \subseteq Notifiers
        /\ (UNCHANGED <<pc, pack>> \/ (pc # "deliver" /\ pc' # "deliver"))
    <3>1. CASE Refresh \/ (Begin /\ inside = None)
      BY <1>2, <3>1 DEF Refresh, Begin, WaitFor, AtTop
    <3>2. CASE Commit
      BY <1>1, <3>2 DEF Commit
    <3>3. CASE NotifyInWrite \/ (Begin /\ inside # None) \/ Cancel \/ Other \/ UNCHANGED vars
      BY <1>1, <3>3 DEF NotifyInWrite, Begin, Cancel, Other, OtherCommits, OtherSignals, main, vars
    <3> QED
      BY <1>8, <3>1, <3>2, <3>3
  <2> QED
    BY <1>1, <1>3, <2>1, <2>2, LoopFrame
<1> QED
  BY <1>4, <1>5, <1>6, <1>7, <1>8 DEF Notify, Write

LEMMA LoopStep ==
    ASSUME NoAddDuringDelivery, SkipInv, LoopInv, [Next]_vars
    PROVE  LoopInv'
<1>1. VersionTypes'
  BY VersionStep
<1>2. ASSUME NEW n \in Notifiers, Register(n) \/ Unregister(n)
      PROVE  CallbackTypes' /\ IdsUnique' /\ CountsFit' /\ IndexFits'
  <2>1. UNCHANGED <<cbs, pc, pack, cur, inside, idx, cnt, known>>
    BY <1>2 DEF Register, Unregister, main, call, told
  <2> QED
    BY <2>1, LoopFrame DEF IdsKept, LoopInv, CallbackTypes
<1>3. CallbackTypes' /\ IdsUnique' /\ CountsFit' /\ IndexFits'
  BY <1>2, AddCallbackKeepsLoop, RemoveCallbackKeepsLoop, CallsKeepLoop, WorkerKeepsLoop,
     RealmKeepsLoop DEF Next, Observe
<1> QED
  BY <1>1, <1>3 DEF LoopInv

LEMMA LoopInit ==
    ASSUME Init
    PROVE  LoopInv
<1>1. /\ file = 1 /\ ver = 1 /\ skipVersion = 0 /\ pack = {} /\ cur = None /\ inside = None
      /\ pc = "idle"
      /\ place = [n \in Notifiers |-> "none"]
      /\ work = [at |-> "idle", version |-> 0, skip |-> 0, new |-> {}, old |-> {}]
      /\ nver = [n \in Notifiers |-> 0] /\ rows = [n \in Notifiers |-> 0]
      /\ changes = [n \in Notifiers |-> {}] /\ known = [c \in Callbacks |-> -1]
      /\ cbs = [n \in Notifiers |-> << >>]
      /\ idx = [n \in Notifiers |-> 0] /\ cnt = [n \in Notifiers |-> 0]
  BY DEF Init
<1>2. VersionTypes /\ CallbackTypes
  BY <1>1 DEF VersionTypes, SkipTypes, CallbackTypes
<1>3. \A n \in Notifiers : 1..Len(cbs[n]) = {}
  BY <1>1
<1> QED
  BY <1>1, <1>2, <1>3 DEF LoopInv, IdsUnique, CountsFit, IndexFits

\* What the loop's assertions say follows from its invariant.
LEMMA LoopAsserted ==
    ASSUME LoopInv
    PROVE  LoopStaysInside
<1> SUFFICES ASSUME cur # None PROVE LoopStaysInside
  BY DEF LoopStaysInside
<1>1. cur \in Notifiers /\ cnt[cur] = Len(cbs[cur]) /\ idx[cur] <= cnt[cur] + 1
  BY ListTypes DEF LoopInv, CallbackTypes, CountsFit, IndexFits
<1>2. \A i \in 1..Len(cbs[cur]) : cbs[cur][i].id # None
  BY <1>1, ListTypes, NotificationsAssumption DEF LoopInv
<1>3. ASSUME NEW i \in 1..Len(cbs[cur]), cbs[cur][i].id = inside
      PROVE  i = idx[cur]
  BY <1>1, <1>2, <1>3 DEF LoopInv, IndexFits
<1>4. DOMAIN cbs[cur] = 1..Len(cbs[cur]) /\ Len(cbs[cur]) \in Nat
  BY <1>1, ListTypes DEF LoopInv
<1> QED
  BY <1>1, <1>3, <1>4 DEF LoopStaysInside

(* The assertions of the worker and of the loop over the callbacks hold for any
   collections, callbacks and versions, if no callback is added to a collection
   whose changes are being delivered (collection_notifier.cpp:373-384). *)
THEOREM AssertionsAlwaysHold ==
    ASSUME NoAddDuringDelivery
    PROVE  Spec => []AssertionsHold
<1>1. Init => SkipInv /\ LoopInv
  BY SkipInit, LoopInit
<1>2. SkipInv /\ LoopInv /\ [Next]_vars => SkipInv' /\ LoopInv'
  BY LoopStep, SkipStepOthers, SkipStepWorker
<1>3. SkipInv /\ LoopInv => AssertionsHold
  BY LoopAsserted DEF AssertionsHold, SkipInv
<1> QED
  BY <1>1, <1>2, <1>3, PTL DEF Spec

-----------------------------------------------------------------------------
(* What the callbacks are told.  From here on the interface is used as intended,
   but that a collection may be released on another thread. *)
OnlyReleases == Uses \subseteq {"release on other thread"}

TellTypes ==
    /\ have \in [Notifiers -> BOOLEAN] /\ target \in Nat
    /\ suppressed \in [Callbacks -> SUBSET Int]

(* The lists: whom the worker has taken has run when it is idle again; a notifier
   knows whether it has callbacks, and is in no loop but the one under way. *)
PlaceFits ==
    /\ \A n \in Notifiers :
         /\ place[n] = "none" => cbs[n] = << >>
         /\ place[n] = "gone" => n \notin alive
         /\ hasRun[n] /\ n \in alive => place[n] = "main"
         /\ have[n] <=> cbs[n] # << >>
         /\ n # cur => idx[n] = 0
    /\ ~Working => \A n \in Notifiers : place[n] = "main" => hasRun[n]
    /\ Working => \A n \in work.old : hasRun[n]

(* The versions only grow: no notifier is handed over to an older one. *)
Skipping == work.at \in {"skip", "skipped"}
OrderFits ==
    /\ ver \in 1..file
    /\ \A n \in Notifiers :
         /\ nver[n] <= file
         /\ hasRun[n] =>
              /\ nver[n] > 0
              /\ place[n] = "main" /\ skipVersion > 0 => nver[n] <= skipVersion
              /\ Working /\ n \in Taken => nver[n] <= work.version
              /\ Skipping /\ n \in work.old => nver[n] <= work.skip
    /\ Working => /\ work.version \in 1..file
                  /\ skipVersion > 0 => work.version <= skipVersion
    /\ Skipping => work.skip \in 1..work.version

(* The main thread's call: a wait waits for all that is observed, a write starts
   at the latest version, and what is delivered has run up to the Realm's. *)
StageFits ==
    /\ pc = "wait" => Mine \subseteq pack /\ ~writing /\ ver <= target /\ target <= file
    /\ begun => pc = "wait" /\ target = file
    /\ writing => ver = file
    /\ pc = "commit" => writing
    /\ pc = "deliver" => \A n \in pack : hasRun[n] /\ ver <= nver[n]

(* What a run has found and not handed over yet: everything since the last
   handover, up to the version the run is at. *)
NowAt(n) == IF work.at = "skipped" THEN work.skip
            ELSE IF work.at = "ran" THEN work.version ELSE nver[n]
RowsFit ==
    \A n \in Notifiers : n \in alive =>
        /\ ~hasRun[n] => /\ changes[n] = {}
                         /\ work.at = "ran" /\ n \in work.new => rows[n] = work.version
        /\ hasRun[n] /\ have[n] => rows[n] = NowAt(n) /\ changes[n] = nver[n]+1 .. rows[n]

BaseInv == SkipInv /\ TogetherInv /\ LoopInv
RunInv == TellTypes /\ PlaceFits /\ OrderFits /\ StageFits /\ RowsFit

\* Used as intended: no callback joins a delivery, none comes late, no write in one.
LEMMA Intended ==
    ASSUME OnlyReleases
    PROVE  /\ NoAddDuringDelivery
           /\ AtTop <=> pc = "idle"
           /\ "observe late" \notin Uses
BY DEF OnlyReleases, NoAddDuringDelivery, AtTop

\* The user's code does not run during a wait, nor in a call between a write's steps.
LEMMA UserCodeRuns ==
    ASSUME LoopInv
    PROVE  /\ UserCode => pc \in {"idle", "deliver"}
           /\ pc # "deliver" => cur = None /\ inside = None
BY DEF LoopInv, IndexFits, UserCode

\* A list of callbacks is empty when it has no length.
LEMMA EmptyLists ==
    ASSUME CallbackTypes, NEW n \in Notifiers
    PROVE  cbs[n] = << >> <=> Len(cbs[n]) = 0
<1>1. cbs[n] \in Seq(CallbackRecords)
  BY DEF CallbackTypes
<1> QED
  BY <1>1, EmptySeq

LEMMA KeptEmpty ==
    ASSUME CallbackTypes, cbs' \in [Notifiers -> Seq(CallbackRecords)], IdsKept
    PROVE  \A n \in Notifiers : cbs'[n] = << >> <=> cbs[n] = << >>
<1>1. ASSUME NEW n \in Notifiers
      PROVE  cbs'[n] = << >> <=> Len(cbs'[n]) = 0
  <2>1. cbs'[n] \in Seq(CallbackRecords)
    OBVIOUS
  <2> QED
    BY <2>1, EmptySeq
<1> QED
  BY <1>1, EmptyLists DEF IdsKept

\* What a step of the main thread that calls or tells nothing does not touch.
Untouched == UNCHANGED <<place, alive, hasRun, nver, rows, changes, have, skipVersion, work>>

\* Calls and packages keep the callbacks in their places.
LEMMA TellsKeepIds ==
    ASSUME LoopInv,
           \/ \E n \in Notifiers : Calls(n)
           \/ Notify \/ WaitEnds \/ \E S \in SUBSET Callbacks : Suppress(S)
           \/ HandOverSkip \/ HandOverAll
    PROVE  cbs' \in [Notifiers -> Seq(CallbackRecords)] /\ IdsKept
<1>1. CallbackTypes /\ VersionTypes
  BY DEF LoopInv
<1>2. cbs' = cbs => cbs' \in [Notifiers -> Seq(CallbackRecords)] /\ IdsKept
  BY <1>1 DEF IdsKept, CallbackTypes
<1>3. ASSUME NEW n \in Notifiers, Calls(n)
      PROVE  cbs' \in [Notifiers -> Seq(CallbackRecords)] /\ IdsKept
  <2>1. StartCallbacks(n) \/ Return(n) \/ EndCallbacks(n) => cbs' = cbs
    BY DEF StartCallbacks, Return, EndCallbacks
  <2> QED
    BY <1>2, <1>3, <2>1, CallKeepsIds DEF Calls
<1>4. CASE Notify \/ WaitEnds
  <2>1. NotifyInWrite => cbs' = cbs
    BY DEF NotifyInWrite, call
  <2>2. NotifyAvailable \/ NotifyAdvance \/ WaitEnds => \E P \in SUBSET Notifiers : Package(P)
    BY DEF NotifyAvailable, NotifyAdvance, WaitEnds, Ready, Mine, Listed
  <2> QED
    BY <1>1, <1>2, <1>4, <2>1, <2>2, PackageKeepsIds DEF Notify
<1>5. CASE \E S \in SUBSET Callbacks : Suppress(S)
  BY <1>1, <1>5, SuppressKeepsIds
<1>6. CASE HandOverSkip \/ HandOverAll
  <2>1. work.old \in SUBSET Notifiers /\ Taken \in SUBSET Notifiers
    BY <1>1 DEF VersionTypes, SkipTypes, Taken
  <2>2. \E ns \in SUBSET Notifiers : \E v : HandOver(ns, v)
    BY <1>6, <2>1 DEF HandOverSkip, HandOverAll
  <2> QED
    BY <1>1, <2>2, HandOverKeepsIds
<1> QED
  BY <1>3, <1>4, <1>5, <1>6

\* An empty list of callbacks, or one that changes its length by one.
LEMMA ListsChange ==
    ASSUME LoopInv, NEW n \in Notifiers
    PROVE  /\ \A c \in Callbacks : AddCallback(n, c) =>
                /\ n \notin pack \/ "add during delivery" \in Uses
                /\ cbs'[n] # << >>
                /\ \A m \in Notifiers : m # n => cbs'[m] = cbs[m]
           /\ \A i : RemoveCallback(n, i) =>
                /\ i \in 1..Len(cbs[n]) /\ cbs[n] # << >> /\ (cbs'[n] = << >> <=> Len(cbs[n]) = 1)
                /\ \A m \in Notifiers : m # n => cbs'[m] = cbs[m]
<1>1. CallbackTypes /\ cbs[n] \in Seq(CallbackRecords) /\ Len(cbs[n]) \in Nat
      /\ DOMAIN cbs[n] = 1..Len(cbs[n])
  BY ListTypes DEF LoopInv
<1>2. ASSUME NEW c \in Callbacks, AddCallback(n, c)
      PROVE  /\ n \notin pack \/ "add during delivery" \in Uses
             /\ cbs'[n] # << >>
             /\ \A m \in Notifiers : m # n => cbs'[m] = cbs[m]
  <2> DEFINE r == [id |-> c, acc |-> {}, todo |-> {}, initial |-> FALSE, skip |-> FALSE]
  <2>1. cbs' = [cbs EXCEPT ![n] = Append(@, r)] /\ r \in CallbackRecords
    BY <1>2 DEF AddCallback, CallbackRecords
  <2> HIDE DEF r
  <2>2. Append(cbs[n], r) \in Seq(CallbackRecords) /\ Len(Append(cbs[n], r)) = Len(cbs[n]) + 1
    BY <1>1, <2>1, AppendProperties
  <2>3. ASSUME NEW s \in Seq(CallbackRecords), Len(s) = Len(cbs[n]) + 1
        PROVE  s # << >>
    BY <1>1, <2>3, EmptySeq
  <2>4. n \notin pack \/ "add during delivery" \in Uses
    BY <1>2 DEF AddCallback
  <2> QED
    BY <1>1, <2>1, <2>2, <2>3, <2>4 DEF CallbackTypes
<1>3. ASSUME NEW i, RemoveCallback(n, i)
      PROVE  /\ i \in 1..Len(cbs[n]) /\ cbs[n] # << >> /\ (cbs'[n] = << >> <=> Len(cbs[n]) = 1)
             /\ \A m \in Notifiers : m # n => cbs'[m] = cbs[m]
  <2>1. i \in DOMAIN cbs[n] /\ cbs' = [cbs EXCEPT ![n] = RemoveAt(@, i)]
    BY <1>3 DEF RemoveCallback
  <2>2. RemoveAt(cbs[n], i) \in Seq(CallbackRecords) /\ Len(RemoveAt(cbs[n], i)) = Len(cbs[n]) - 1
    BY <1>1, <2>1, RemoveAtProperties
  <2>3. ASSUME NEW s \in Seq(CallbackRecords), Len(s) = Len(cbs[n]) - 1
        PROVE  s = << >> <=> Len(cbs[n]) = 1
    <3>1. s = << >> <=> Len(s) = 0
      BY EmptySeq
    <3> QED
      BY <1>1, <2>3, <3>1
  <2>4. cbs[n] # << >>
    BY <1>1, <2>1, EmptyLists
  <2> QED
    BY <1>1, <2>1, <2>2, <2>3, <2>4 DEF CallbackTypes
<1> QED
  BY <1>2, <1>3

\* Cleaning up leaves the lists of those that are still there.
LEMMA CleanedPlaces ==
    ASSUME TogetherInv, NEW n \in Notifiers
    PROVE  LET q == PlacesCleaned(place) IN
           /\ q[n] \in {"none", "new", "main", "gone"} /\ q[n] \in {place[n], "gone"}
           /\ n \in alive => q[n] = place[n]
           /\ q[n] = "none" <=> place[n] = "none"
           /\ q[n] = "gone" => n \notin alive \/ place[n] = "gone"
BY DEF TogetherInv, TogetherTypes, PlacesCleaned

\* Taking the lists, by parts.
LEMMA Takes ==
    ASSUME SkipTypes, TogetherInv, Take
    PROVE  LET q == PlacesCleaned(place)
               v == SkipCleaned(place, q, skipVersion)
           IN  /\ ~Working /\ work.at = "idle" /\ v \in {0, skipVersion} /\ v <= skipVersion
               /\ \A n \in Notifiers : place'[n] = IF q[n] = "new" THEN "main" ELSE q[n]
               /\ \/ /\ \A n \in Notifiers : q[n] # "new" /\ q[n] # "main"
                     /\ ~Working' /\ work'.at = "post" /\ skipVersion' = v
                  \/ /\ work' = [at |-> IF v > 0 THEN "skip" ELSE "run", version |-> file,
                                 skip |-> v, new |-> {n \in Notifiers : q[n] = "new"},
                                 old |-> {n \in Notifiers : q[n] = "main"}]
                     /\ skipVersion' = 0
<1> DEFINE q == PlacesCleaned(place)
           v == SkipCleaned(place, q, skipVersion)
           new == {n \in Notifiers : q[n] = "new"}
           old == {n \in Notifiers : q[n] = "main"}
<1>1. /\ work.at = "idle"
      /\ place' = [n \in Notifiers |-> IF n \in new THEN "main" ELSE q[n]]
      /\ IF new \cup old = {}
         THEN work' = [work EXCEPT !.at = "post"] /\ skipVersion' = v
         ELSE /\ work' = [at |-> IF v > 0 THEN "skip" ELSE "run", version |-> file,
                          skip |-> v, new |-> new, old |-> old]
              /\ skipVersion' = 0
  BY DEF Take
<1>2. v \in {0, skipVersion} /\ v <= skipVersion
  BY DEF SkipCleaned, SkipTypes
<1>3. ~Working
  BY <1>1 DEF Working
<1>4. ASSUME new \cup old = {}
      PROVE  /\ \A n \in Notifiers : q[n] # "new" /\ q[n] # "main"
             /\ ~Working' /\ work'.at = "post" /\ skipVersion' = v
  <2>1. \A n \in Notifiers : q[n] # "new" /\ q[n] # "main"
    BY <1>4
  <2>2. work' = [work EXCEPT !.at = "post"] /\ skipVersion' = v
    BY <1>1, <1>4
  <2> QED
    BY <2>1, <2>2 DEF Working, SkipTypes
<1> HIDE DEF q, v
<1> QED
  BY <1>1, <1>2, <1>3, <1>4 DEF q, v

LEMMA TellTypesStep ==
    ASSUME BaseInv, TellTypes, [Next]_vars
    PROVE  TellTypes'
<1> USE DEF TellTypes
<1>1. UNCHANGED <<have, target, suppressed>> => TellTypes'
  OBVIOUS
<1>2. ASSUME NEW n \in Notifiers, Observe(n) \/ Calls(n)
      PROVE  TellTypes'
  <2>1. Register(n) \/ Unregister(n) \/ Calls(n) => UNCHANGED <<have, target, suppressed>>
    BY DEF Register, Unregister, Calls, StartCallbacks, Call, Return, EndCallbacks, main, call, told
  <2>2. ASSUME NEW c \in Callbacks, AddCallback(n, c)
        PROVE  TellTypes'
    BY <2>2 DEF AddCallback, main
  <2>3. ASSUME NEW i, RemoveCallback(n, i)
        PROVE  TellTypes'
    BY <2>3 DEF RemoveCallback, main, told
  <2> QED
    BY <1>1, <1>2, <2>1, <2>2, <2>3 DEF Observe
<1>3. CASE Notify \/ WaitEnds
  <2>1. UNCHANGED <<have, suppressed>> /\ target' \in {0, target}
    BY <1>3 DEF Notify, NotifyInWrite, NotifyAvailable, NotifyAdvance, WaitEnds, AdvanceWith,
                Deliver, Package, main, call, told
  <2> QED
    BY <2>1
<1>4. CASE Refresh \/ Begin
  <2>1. UNCHANGED <<have, suppressed>> /\ target' \in {file, target}
    BY <1>4 DEF Refresh, Begin, WaitFor, call, told
  <2> QED
    BY <2>1 DEF BaseInv, SkipInv, SkipTypes
<1>5. ASSUME NEW S \in SUBSET Callbacks, Suppress(S)
      PROVE  TellTypes'
  <2>1. ver + 1 \in Int
    BY DEF BaseInv, LoopInv, VersionTypes
  <2> QED
    BY <1>5, <2>1 DEF Suppress
<1>6. CASE Commit \/ Cancel \/ Other \/ Worker \/ UNCHANGED vars
  BY <1>1, <1>6 DEF Commit, Cancel, Other, OtherCommits, OtherSignals, Worker, Take, RunToSkip,
                    HandOverSkip, RunAll, HandOverAll, Post, HandOver, main, call, told, vars
<1> QED
  BY <1>2, <1>3, <1>4, <1>5, <1>6 DEF Next, Write

\* The lists and the notifiers' own fields fit after every step.
LEMMA PlaceStepMain ==
    ASSUME OnlyReleases, BaseInv, RunInv, [Next]_vars, ~Worker
    PROVE  PlaceFits'
<1> USE DEF PlaceFits, RunInv
<1>1. /\ place \in [Notifiers -> {"none", "new", "main", "gone"}] /\ None \notin Notifiers
      /\ LoopInv /\ CallbackTypes /\ SkipTypes /\ VersionTypes
      /\ \A n \in Notifiers : place[n] \in {"none", "new"} => ~hasRun[n]
      /\ hasRun \in [Notifiers -> BOOLEAN] /\ have \in [Notifiers -> BOOLEAN]
      /\ idx \in [Notifiers -> Int]
  BY NotificationsAssumption
     DEF BaseInv, LoopInv, CallbackTypes, SkipInv, SkipTypes, TogetherInv, TogetherTypes, TellTypes
<1>2. ASSUME UNCHANGED <<place, hasRun, have, idx, cur, work>>, alive' \subseteq alive,
             \A n \in Notifiers : cbs'[n] = << >> <=> cbs[n] = << >>
      PROVE  PlaceFits'
  BY <1>2 DEF Working
<1>3. ASSUME NEW n \in Notifiers, Register(n)
      PROVE  PlaceFits'
  <2>1. place[n] = "none" /\ place' = [place EXCEPT ![n] = "new"]
    BY <1>3 DEF Register, NextOf
  <2>2. UNCHANGED <<alive, hasRun, have, idx, cur, work, cbs>>
    BY <1>3 DEF Register, main, call
  <2> QED
    BY <1>1, <2>1, <2>2 DEF Working
<1>4. ASSUME NEW n \in Notifiers, NEW c \in Callbacks, AddCallback(n, c)
      PROVE  PlaceFits'
  <2>1. /\ n \in Mine
        /\ have' = [have EXCEPT ![n] = @ \/ idx[n] = 0]
        /\ UNCHANGED <<place, alive, hasRun, idx, cur, work>>
    BY <1>4 DEF AddCallback, main, list, bg
  <2>2. n \notin pack /\ cbs'[n] # << >> /\ \A m \in Notifiers : m # n => cbs'[m] = cbs[m]
    BY <1>1, <1>4, Intended, ListsChange DEF NoAddDuringDelivery
  <2>3. n # cur
    BY <1>1, <2>2 DEF LoopInv, IndexFits
  <2>4. idx[n] = 0 /\ place[n] \in {"new", "main"}
    BY <2>1, <2>3 DEF Mine, Listed
  <2>5. \A m \in Notifiers : have'[m] <=> (m = n \/ have[m])
    BY <1>1, <2>1, <2>4
  <2>6. \A m \in Notifiers : /\ have'[m] <=> cbs'[m] # << >>
                             /\ place[m] = "none" => cbs'[m] = << >>
    BY <2>2, <2>4, <2>5
  <2> QED
    BY <2>1, <2>6 DEF Working
<1>5. ASSUME NEW n \in Notifiers, NEW i \in 1..Cardinality(Callbacks), RemoveCallback(n, i)
      PROVE  PlaceFits'
  <2>1. /\ have' = [have EXCEPT ![n] = Len(cbs[n]) > 1]
        /\ idx' = [idx EXCEPT ![n] = IF idx[n] >= i THEN idx[n] - 1 ELSE idx[n]]
        /\ UNCHANGED <<place, alive, hasRun, cur, work>>
    BY <1>5 DEF RemoveCallback, IndexWithout, main, list, bg
  <2>2. /\ i \in 1..Len(cbs[n]) /\ cbs[n] # << >> /\ (cbs'[n] = << >> <=> Len(cbs[n]) = 1)
        /\ \A m \in Notifiers : m # n => cbs'[m] = cbs[m]
    BY <1>1, <1>5, ListsChange
  <2>3. Len(cbs[n]) \in Nat
    BY <1>1, ListTypes
  <2>4. have'[n] <=> cbs'[n] # << >>
    <3>1. have'[n] = (Len(cbs[n]) > 1)
      BY <1>1, <2>1
    <3>2. \A k \in Nat : \A j \in 1..k : k > 1 <=> k # 1
      OBVIOUS
    <3> QED
      BY <2>2, <2>3, <3>1, <3>2
  <2>5. \A m \in Notifiers : m # cur => idx'[m] = 0
    BY <1>1, <2>1
  <2> QED
    BY <1>1, <2>1, <2>2, <2>4, <2>5 DEF Working
<1>6. ASSUME NEW n \in Notifiers, Unregister(n)
      PROVE  PlaceFits'
  BY <1>2, <1>6 DEF Unregister, main, bg, call
<1>7. ASSUME NEW n \in Notifiers, Calls(n)
      PROVE  PlaceFits'
  <2>1. UNCHANGED <<place, alive, hasRun, have, work>>
    BY <1>7 DEF Calls, StartCallbacks, Call, Return, EndCallbacks, list, bg
  <2>2. \A m \in Notifiers : cbs'[m] = << >> <=> cbs[m] = << >>
    BY <1>1, <1>7, TellsKeepIds, KeptEmpty
  <2>3. \A m \in Notifiers : m # cur' => idx'[m] = 0
    BY <1>1, <1>7 DEF Calls, StartCallbacks, Call, Return, EndCallbacks
  <2> QED
    BY <2>1, <2>2, <2>3 DEF Working
<1>8. CASE Notify \/ WaitEnds
  <2>1. UNCHANGED <<place, hasRun, have, idx, cur, work, alive>>
    BY <1>8 DEF Notify, NotifyInWrite, NotifyAvailable, NotifyAdvance, WaitEnds, AdvanceWith,
                Deliver, Package, main, list, bg, call
  <2>2. \A m \in Notifiers : cbs'[m] = << >> <=> cbs[m] = << >>
    BY <1>1, <1>8, TellsKeepIds, KeptEmpty
  <2> QED
    BY <1>2, <2>1, <2>2
<1>9. CASE Refresh \/ Begin \/ Commit \/ Cancel \/ Other \/ UNCHANGED vars
  <2>1. UNCHANGED <<place, hasRun, have, idx, cur, work, alive, cbs>>
    BY <1>9 DEF Refresh, Begin, WaitFor, Commit, Cancel, Other, OtherCommits, OtherSignals,
                main, list, bg, call, vars
  <2> QED
    BY <1>2, <2>1
<1>10. ASSUME NEW S \in SUBSET Callbacks, Suppress(S)
      PROVE  PlaceFits'
  <2>1. UNCHANGED <<place, hasRun, have, idx, cur, work, alive>>
    BY <1>10 DEF Suppress, list, bg
  <2>2. \A m \in Notifiers : cbs'[m] = << >> <=> cbs[m] = << >>
    BY <1>1, <1>10, TellsKeepIds, KeptEmpty
  <2> QED
    BY <1>2, <2>1, <2>2
<1> QED
  BY <1>3, <1>4, <1>5, <1>6, <1>7, <1>8, <1>9, <1>10 DEF Next, Observe, Write

LEMMA PlaceStepWorker ==
    ASSUME BaseInv, RunInv, Worker
    PROVE  PlaceFits'
<1> USE DEF PlaceFits, RunInv
<1>1. /\ LoopInv /\ CallbackTypes /\ SkipTypes /\ TogetherInv
      /\ hasRun \in [Notifiers -> BOOLEAN]
      /\ \A n \in Notifiers : place[n] \in {"none", "new"} => ~hasRun[n]
  BY DEF BaseInv, LoopInv, SkipInv, TogetherInv, TogetherTypes
<1>2. CASE Take
  <2> DEFINE q == PlacesCleaned(place)
             v == SkipCleaned(place, q, skipVersion)
  <2>1. /\ ~Working
        /\ \A n \in Notifiers : place'[n] = IF q[n] = "new" THEN "main" ELSE q[n]
        /\ \/ (\A n \in Notifiers : q[n] # "new" /\ q[n] # "main") /\ ~Working'
           \/ work' = [at |-> IF v > 0 THEN "skip" ELSE "run", version |-> file,
                       skip |-> v, new |-> {n \in Notifiers : q[n] = "new"},
                       old |-> {n \in Notifiers : q[n] = "main"}]
    BY <1>1, <1>2, Takes
  <2>2. UNCHANGED <<alive, hasRun, have, cbs, idx, cur>>
    BY <1>2 DEF Take, main, bg, call
  <2>3. \A n \in Notifiers : /\ q[n] \in {place[n], "gone"}
                             /\ n \in alive => q[n] = place[n]
                             /\ q[n] = "none" <=> place[n] = "none"
                             /\ q[n] = "gone" => n \notin alive \/ place[n] = "gone"
    BY <1>1, CleanedPlaces
  <2> HIDE DEF q, v
  <2>4. \A n \in Notifiers :
         /\ place'[n] = "none" => cbs'[n] = << >>
         /\ place'[n] = "gone" => n \notin alive'
         /\ hasRun'[n] /\ n \in alive' => place'[n] = "main"
         /\ have'[n] <=> cbs'[n] # << >>
         /\ n # cur' => idx'[n] = 0
    BY <2>1, <2>2, <2>3
  <2>5. ~Working' => \A n \in Notifiers : place'[n] = "main" => hasRun'[n]
    BY <2>1, <2>2, <2>3 DEF Working
  <2>6. Working' => \A n \in work'.old : hasRun'[n]
    BY <2>1, <2>2, <2>3
  <2> QED
    BY <2>4, <2>5, <2>6
<1>3. CASE RunToSkip \/ RunAll \/ Post
  <2>1. UNCHANGED <<place, alive, hasRun, have, cbs, idx, cur>>
    BY <1>3 DEF RunToSkip, RunAll, RunAt, Post, main, list, bg, call
  <2>2. work'.old = work.old /\ (Working <=> Working')
    BY <1>1, <1>3 DEF RunToSkip, RunAll, Post, Working, SkipTypes
  <2> QED
    BY <2>1, <2>2
<1>4. CASE HandOverSkip
  <2>1. /\ UNCHANGED <<place, alive, have, idx, cur>>
        /\ hasRun' = [n \in Notifiers |-> n \in work.old \/ hasRun[n]]
        /\ work' = [work EXCEPT !.at = "run"]
    BY <1>4 DEF HandOverSkip, HandOver, main, list
  <2>2. Working /\ Working' /\ work'.old = work.old
    BY <1>1, <1>4, <2>1 DEF HandOverSkip, Working, SkipTypes
  <2>3. \A n \in Notifiers : hasRun'[n] = hasRun[n]
    BY <1>1, <2>1, <2>2
  <2>4. \A n \in Notifiers : cbs'[n] = << >> <=> cbs[n] = << >>
    BY <1>1, <1>4, TellsKeepIds, KeptEmpty
  <2>5. work.old \subseteq Notifiers
    BY <1>1 DEF SkipTypes
  <2> QED
    BY <2>1, <2>2, <2>3, <2>4, <2>5
<1>5. CASE HandOverAll
  <2>1. /\ UNCHANGED <<alive, have, idx, cur>> /\ place' = PlacesCleaned(place)
        /\ hasRun' = [n \in Notifiers |-> n \in Taken \/ hasRun[n]]
        /\ Working /\ ~Working'
    BY <1>5 DEF HandOverAll, HandOver, main, Working
  <2>2. \A n \in Notifiers : cbs'[n] = << >> <=> cbs[n] = << >>
    BY <1>1, <1>5, TellsKeepIds, KeptEmpty
  <2>3. \A n \in Notifiers : /\ place'[n] \in {place[n], "gone"}
                             /\ n \in alive => place'[n] = place[n]
                             /\ place'[n] = "none" <=> place[n] = "none"
                             /\ place'[n] = "gone" => n \notin alive \/ place[n] = "gone"
    BY <1>1, <2>1, CleanedPlaces
  <2>4. \A n \in Notifiers : /\ n \in Taken => place[n] \in {"main", "gone"}
                             /\ place[n] = "main" => n \in Taken
    BY <1>1, <2>1 DEF TogetherInv, WorkerHasAll, Taken
  <2> QED
    BY <2>1, <2>2, <2>3, <2>4
<1> QED
  BY <1>2, <1>3, <1>4, <1>5 DEF Worker

\* A package is at one version; those that are ready have run.
LEMMA ReadyVersions ==
    ASSUME BaseInv, RunInv
    PROVE  /\ Ready \subseteq Notifiers
           /\ \A n \in Ready : /\ n \in alive /\ hasRun[n] /\ place[n] = "main"
                               /\ nver[n] \in 1..file
           /\ \A P \in SUBSET Ready : P # {} =>
                VersionOf(P) \in 1..file /\ \A n \in P : nver[n] = VersionOf(P)
<1>1. /\ nver \in [Notifiers -> Nat] /\ file \in Nat /\ SameVersion
      /\ \A n \in Notifiers : place[n] \in {"none", "new"} => ~hasRun[n]
  BY DEF BaseInv, LoopInv, VersionTypes, SkipTypes, TogetherInv, TogetherTypes
<1>2. \A n \in Ready : /\ n \in Notifiers /\ n \in alive /\ hasRun[n] /\ place[n] = "main"
                       /\ nver[n] \in 1..file
  BY <1>1 DEF Ready, Mine, Listed, RunInv, OrderFits
<1>3. ASSUME NEW P \in SUBSET Ready, P # {}
      PROVE  VersionOf(P) \in 1..file /\ \A n \in P : nver[n] = VersionOf(P)
  <2> DEFINE m == CHOOSE n \in P : TRUE
  <2>1. m \in P
    BY <1>3
  <2> HIDE DEF m
  <2>2. \A n \in P : nver[n] = nver[m]
    BY <1>1, <1>2, <2>1 DEF SameVersion
  <2> QED
    BY <1>2, <2>1, <2>2 DEF VersionOf, m
<1> QED
  BY <1>2, <1>3

\* An advance that packages P tells n everything, or does not pass what it has told it.
TellsAll(n, P) ==
    /\ hasRun[n] => n \in P \/ (ver' = ver /\ ~writing')
    /\ n \in P /\ pack' = {} => ver' = ver
    /\ writing' => hasRun[n] /\ nver[n] = file

\* What the main thread's advances deliver, and the version they end at.
LEMMA Advances ==
    ASSUME BaseInv, RunInv, NotifyAvailable \/ NotifyAdvance \/ WaitEnds
    PROVE  \E P \in SUBSET Ready :
             /\ Package(P) /\ pack' \in {{}, P}
             /\ pc' = IF pack' = {} THEN "idle" ELSE "deliver"
             /\ target' = 0 /\ begun' = FALSE /\ ver' \in 1..file /\ ver <= ver'
             /\ \A n \in pack' : nver[n] = ver'
             /\ pack' = {} => \A n \in P : nver[n] < ver'
             /\ writing' => ver' = file
             /\ \A n \in Mine : have[n] => TellsAll(n, P)
             /\ UNCHANGED <<cur, inside, scope, file, untold, list, bg, skipVersion, work, wake,
                            told>>
<1>1. /\ ver \in 1..file /\ file \in Nat /\ target \in Nat
      /\ pc = "wait" => ver <= target /\ target <= file
      /\ begun => target = file
      /\ \A n \in Mine : n \in Notifiers /\ (hasRun[n] => n \in Ready)
      /\ \A n \in Ready : nver[n] \in 1..file
      /\ pc = "wait" => Mine \subseteq pack
  BY ReadyVersions DEF Ready, Mine, Listed, BaseInv, SkipInv, SkipTypes,
                           RunInv, OrderFits, StageFits, TellTypes
<1>2. \A P \in SUBSET Ready : P # {} =>
        VersionOf(P) \in 1..file /\ \A n \in P : nver[n] = VersionOf(P)
  BY ReadyVersions
<1>3. CASE NotifyAvailable
  <2> DEFINE P == {n \in Ready : nver[n] = ver}
  <2>1. Package(P) /\ Deliver(P, ver)
    BY <1>3 DEF NotifyAvailable
  <2>2. ~writing' /\ UNCHANGED <<scope, file, untold, list, bg, skipVersion, work, wake, told>>
    BY <1>3 DEF NotifyAvailable
  <2> QED
    BY <1>1, <2>1, <2>2 DEF Deliver, TellsAll
<1>4. CASE NotifyAdvance
  <2>1. /\ Package(Ready) /\ AdvanceWith(Ready)
        /\ ~writing' /\ UNCHANGED <<scope, file, untold, list, bg, skipVersion, work, wake, told>>
    BY <1>4 DEF NotifyAdvance
  <2>2. CASE Ready = {}
    BY <1>1, <2>1, <2>2 DEF AdvanceWith, Deliver, TellsAll
  <2>3. CASE Ready # {}
    <3>1. VersionOf(Ready) \in 1..file /\ \A n \in Ready : nver[n] = VersionOf(Ready)
      BY <1>2, <2>3
    <3>2. CASE VersionOf(Ready) < ver
      BY <1>1, <2>1, <2>3, <3>1, <3>2 DEF AdvanceWith, Deliver, TellsAll
    <3>3. CASE ~(VersionOf(Ready) < ver)
      <4>1. Deliver(Ready, VersionOf(Ready))
        BY <2>1, <2>3, <3>3 DEF AdvanceWith
      <4>2. ver <= VersionOf(Ready)
        BY <1>1, <3>1, <3>3
      <4> QED
        BY <1>1, <2>1, <2>3, <3>1, <4>1, <4>2 DEF Deliver, TellsAll
    <3> QED
      BY <3>2, <3>3
  <2> QED
    BY <2>2, <2>3
<1>5. CASE WaitEnds
  <2> DEFINE P == pack \cap Ready
  <2>1. /\ Package(P) /\ pc = "wait" /\ writing' = begun
        /\ IF P = {} \/ VersionOf(P) < target THEN Deliver({}, file) ELSE Deliver(P, VersionOf(P))
        /\ UNCHANGED <<scope, file, untold, list, bg, skipVersion, work, wake, told>>
    BY <1>5 DEF WaitEnds
  <2>2. P \in SUBSET Ready
    OBVIOUS
  <2>3. \A n \in Mine : have[n] =>
          n \in P /\ hasRun[n] /\ target <= nver[n] /\ (begun => nver[n] = file)
    BY <1>1, <1>5 DEF WaitEnds, Reached
  <2> HIDE DEF P
  <2>4. CASE P = {}
    BY <1>1, <2>1, <2>2, <2>3, <2>4 DEF Deliver, TellsAll
  <2>5. CASE P # {}
    <3>1. VersionOf(P) \in 1..file /\ \A n \in P : nver[n] = VersionOf(P)
      BY <1>2, <2>2, <2>5
    <3>2. CASE VersionOf(P) < target
      <4>1. \A n \in P : nver[n] < file
        BY <1>1, <2>1, <3>1, <3>2
      <4> QED
        BY <1>1, <2>1, <2>2, <2>3, <3>1, <3>2, <4>1 DEF Deliver, TellsAll
    <3>3. CASE ~(VersionOf(P) < target)
      <4>1. Deliver(P, VersionOf(P))
        BY <2>1, <2>5, <3>3
      <4>2. ver <= VersionOf(P) /\ (begun => VersionOf(P) = file)
        BY <1>1, <2>1, <3>1, <3>3
      <4> QED
        BY <2>1, <2>2, <2>3, <2>5, <3>1, <4>1, <4>2 DEF Deliver, TellsAll
    <3> QED
      BY <3>2, <3>3
  <2> QED
    BY <2>4, <2>5
<1> QED
  BY <1>3, <1>4, <1>5

\* The main thread and the other writers keep the versions in order.
LEMMA OrderStepMain ==
    ASSUME OnlyReleases, BaseInv, RunInv, [Next]_vars, ~Worker
    PROVE  OrderFits'
<1> USE DEF OrderFits, RunInv
<1>1. /\ LoopInv /\ SkipTypes /\ file \in Nat /\ skipVersion \in 0..file /\ ver \in 1..file
      /\ hasRun \in [Notifiers -> BOOLEAN] /\ nver \in [Notifiers -> Nat]
      /\ work.version \in Nat /\ work.skip \in Nat
      /\ \A n \in Notifiers : place[n] \in {"none", "new"} => ~hasRun[n]
      /\ Working => Taken \subseteq Notifiers
  BY DEF BaseInv, LoopInv, SkipInv, SkipTypes, VersionTypes, TogetherInv, TogetherTypes, Taken
<1>2. ASSUME UNCHANGED <<file, nver, hasRun, place, skipVersion, work>>, ver' \in 1..file
      PROVE  OrderFits'
  BY <1>2 DEF Working, Skipping, Taken
<1>3. ASSUME NEW n \in Notifiers, Register(n)
      PROVE  OrderFits'
  <2>1. ~hasRun[n] /\ place' = [place EXCEPT ![n] = "new"]
    BY <1>1, <1>3 DEF Register, NextOf
  <2>2. nver' = [nver EXCEPT ![n] = ver] /\ UNCHANGED <<file, ver, hasRun, skipVersion, work>>
    BY <1>3 DEF Register, main
  <2>3. \A m \in Notifiers : m # n => nver'[m] = nver[m] /\ place'[m] = place[m]
    BY <2>1, <2>2
  <2>4. \A m \in Notifiers : nver'[m] <= file
    BY <1>1, <2>2
  <2> QED
    BY <2>1, <2>2, <2>3, <2>4 DEF Working, Skipping, Taken
<1>4. ASSUME NEW n \in Notifiers, Observe(n) \/ Calls(n), ~Register(n)
      PROVE  OrderFits'
  <2>1. UNCHANGED <<file, ver, nver, hasRun, place, skipVersion, work>>
    BY <1>4 DEF Observe, AddCallback, RemoveCallback, Unregister, Calls, StartCallbacks, Call,
                Return, EndCallbacks, main, list, bg
  <2> QED
    BY <1>1, <1>2, <2>1
<1>5. CASE NotifyAvailable \/ NotifyAdvance \/ WaitEnds
  <2>1. /\ ver' \in 1..file
        /\ UNCHANGED <<file, nver, hasRun, place, skipVersion, work>>
    BY <1>5, Advances DEF list, bg
  <2> QED
    BY <1>2, <2>1
<1>6. CASE NotifyInWrite \/ Refresh \/ Begin \/ Cancel \/ OtherSignals \/ UNCHANGED vars
  <2>1. UNCHANGED <<file, nver, hasRun, place, skipVersion, work>> /\ ver' \in {ver, file}
    BY <1>6 DEF NotifyInWrite, Refresh, Begin, WaitFor, Cancel, OtherSignals, main, list, bg, vars
  <2> QED
    BY <1>1, <1>2, <2>1
<1>7. ASSUME NEW S \in SUBSET Callbacks, Suppress(S)
      PROVE  OrderFits'
  BY <1>1, <1>2, <1>7 DEF Suppress, list, bg
<1>8. CASE Commit
  <2>1. /\ file' = file + 1 /\ ver' = file + 1 /\ skipVersion' \in {skipVersion, file + 1}
        /\ UNCHANGED <<nver, hasRun, place, work>>
    BY <1>8 DEF Commit, SkipAfterCommit, list, bg
  <2> QED
    BY <1>1, <2>1 DEF Working, Skipping, Taken
<1>9. CASE OtherCommits
  <2>1. /\ file' = file + 1
        /\ UNCHANGED <<ver, nver, hasRun, place, work, skipVersion>>
    BY <1>9 DEF OtherCommits, main, list, bg
  <2> QED
    BY <1>1, <2>1 DEF Working, Skipping, Taken
<1> QED
  BY <1>3, <1>4, <1>5, <1>6, <1>7, <1>8, <1>9 DEF Next, Notify, Write, Other

LEMMA OrderStepWorker ==
    ASSUME BaseInv, RunInv, Worker
    PROVE  OrderFits'
<1> USE DEF OrderFits, RunInv
<1>1. /\ LoopInv /\ SkipTypes /\ TogetherInv /\ SkipCanRun
      /\ file \in Nat /\ skipVersion \in 0..file /\ ver \in 1..file
      /\ hasRun \in [Notifiers -> BOOLEAN] /\ nver \in [Notifiers -> Nat]
      /\ work.version \in Nat /\ work.skip \in Nat
      /\ \A n \in Notifiers : place[n] \in {"none", "new"} => ~hasRun[n]
  BY DEF BaseInv, LoopInv, SkipInv, SkipTypes, VersionTypes, TogetherInv, TogetherTypes
<1>2. UNCHANGED <<file, ver>>
  BY DEF Worker, Take, RunToSkip, HandOverSkip, RunAll, HandOverAll, Post, main
<1>3. CASE Take
  <2> DEFINE q == PlacesCleaned(place)
             v == SkipCleaned(place, q, skipVersion)
  <2>1. /\ v \in {0, skipVersion} /\ v <= skipVersion
        /\ \A n \in Notifiers : place'[n] = IF q[n] = "new" THEN "main" ELSE q[n]
        /\ \/ /\ \A n \in Notifiers : q[n] # "new" /\ q[n] # "main"
              /\ ~Working' /\ work'.at = "post" /\ skipVersion' = v
           \/ /\ work' = [at |-> IF v > 0 THEN "skip" ELSE "run", version |-> file,
                          skip |-> v, new |-> {n \in Notifiers : q[n] = "new"},
                          old |-> {n \in Notifiers : q[n] = "main"}]
              /\ skipVersion' = 0
    BY <1>1, <1>3, Takes
  <2>2. UNCHANGED <<hasRun, nver>>
    BY <1>3 DEF Take, bg
  <2>3. \A n \in Notifiers : q[n] \in {place[n], "gone"}
    BY <1>1, CleanedPlaces
  <2> HIDE DEF q, v
  <2>4. CASE (\A n \in Notifiers : q[n] # "new" /\ q[n] # "main") /\ ~Working' /\ work'.at = "post"
    BY <1>2, <2>1, <2>2, <2>4 DEF Skipping
  <2>5. CASE /\ work' = [at |-> IF v > 0 THEN "skip" ELSE "run", version |-> file,
                          skip |-> v, new |-> {n \in Notifiers : q[n] = "new"},
                          old |-> {n \in Notifiers : q[n] = "main"}]
             /\ skipVersion' = 0
    <3>1. /\ work'.version = file /\ work'.skip = v
          /\ work'.at = IF v > 0 THEN "skip" ELSE "run"
          /\ work'.old = {n \in Notifiers : q[n] = "main"}
      BY <2>5
    <3>2. Skipping' => v > 0 /\ v = skipVersion /\ v \in 1..file
      BY <1>1, <2>1, <3>1 DEF Skipping
    <3>3. \A n \in Notifiers : hasRun[n] /\ n \in work'.old => place[n] = "main"
      BY <2>3, <3>1
    <3>4. skipVersion' = 0
      BY <2>5
    <3> HIDE <2>5
    <3> QED
      BY <1>1, <1>2, <2>2, <3>1, <3>2, <3>3, <3>4 DEF Working
  <2> QED
    BY <2>1, <2>4, <2>5
<1>4. CASE RunToSkip \/ RunAll \/ Post
  <2>1. UNCHANGED <<place, hasRun, nver, skipVersion>>
    BY <1>4 DEF RunToSkip, RunAll, RunAt, Post, list, bg
  <2>2. /\ UNCHANGED <<work.old, work.new, work.version, work.skip>>
        /\ Working' => Working
        /\ Skipping' => Skipping
    BY <1>1, <1>4 DEF RunToSkip, RunAll, Post, Working, Skipping, SkipTypes
  <2> QED
    BY <1>2, <2>1, <2>2 DEF Taken
<1>5. CASE HandOverSkip
  <2>1. /\ UNCHANGED <<place, skipVersion>> /\ work.at = "skipped"
        /\ hasRun' = [n \in Notifiers |-> n \in work.old \/ hasRun[n]]
        /\ nver' = [n \in Notifiers |-> IF n \in work.old THEN work.skip ELSE nver[n]]
        /\ work' = [work EXCEPT !.at = "run"]
    BY <1>5 DEF HandOverSkip, HandOver, list
  <2>2. /\ UNCHANGED <<work.old, work.new, work.version, work.skip>>
        /\ Working /\ Working' /\ Skipping /\ ~Skipping'
    BY <1>1, <2>1 DEF Working, Skipping, SkipTypes
  <2>3. work.version \in 1..file /\ work.skip \in 1..work.version
    BY <2>2
  <2>4. skipVersion > 0 => work.skip <= skipVersion
    BY <1>1, <2>2, <2>3
  <2>5. \A n \in Notifiers : /\ hasRun'[n] <=> n \in work.old \/ hasRun[n]
                             /\ nver'[n] = IF n \in work.old THEN work.skip ELSE nver[n]
    BY <1>1, <2>1
  <2>6. \A n \in Notifiers : nver'[n] <= file /\ (hasRun'[n] =>
            /\ nver'[n] > 0
            /\ place'[n] = "main" /\ skipVersion' > 0 => nver'[n] <= skipVersion'
            /\ n \in Taken' => nver'[n] <= work'.version)
    BY <1>1, <2>1, <2>2, <2>3, <2>4, <2>5 DEF Taken
  <2>7. Working' => /\ work'.version \in 1..file'
                    /\ skipVersion' > 0 => work'.version <= skipVersion'
    BY <1>2, <2>1, <2>2
  <2> QED
    BY <1>1, <1>2, <2>2, <2>6, <2>7
<1>6. CASE HandOverAll
  <2>1. /\ place' = PlacesCleaned(place) /\ skipVersion' = SkipCleaned(place, place', skipVersion)
        /\ work.at = "ran" /\ work'.at = "post"
        /\ hasRun' = [n \in Notifiers |-> n \in Taken \/ hasRun[n]]
        /\ nver' = [n \in Notifiers |-> IF n \in Taken THEN work.version ELSE nver[n]]
    BY <1>6 DEF HandOverAll, HandOver
  <2>2. Working /\ ~Working' /\ ~Skipping'
    BY <2>1 DEF Working, Skipping
  <2>3. skipVersion' \in {0, skipVersion}
    BY <2>1 DEF SkipCleaned
  <2>4. \A n \in Notifiers : /\ place'[n] = "main" => n \in Taken
                             /\ hasRun'[n] <=> n \in Taken \/ hasRun[n]
                             /\ nver'[n] = IF n \in Taken THEN work.version ELSE nver[n]
    BY <1>1, <2>1, <2>2, CleanedPlaces DEF TogetherInv, WorkerHasAll, Taken
  <2>5. \A n \in Notifiers : nver'[n] <= file /\ (hasRun'[n] =>
            /\ nver'[n] > 0
            /\ place'[n] = "main" /\ skipVersion' > 0 => nver'[n] <= skipVersion')
    BY <1>1, <2>2, <2>3, <2>4
  <2> QED
    BY <1>1, <1>2, <2>2, <2>5
<1> QED
  BY <1>3, <1>4, <1>5, <1>6 DEF Worker

\* What the worker does to the notifiers and to what the main thread observes.
LEMMA WorkerMoves ==
    ASSUME BaseInv, RunInv, Worker
    PROVE  /\ Mine' = Mine
           /\ UNCHANGED <<scope, file, untold, main, alive, told, have, idx, cnt>>
           /\ \A n \in Notifiers : hasRun[n] => hasRun'[n] /\ nver[n] <= nver'[n]
<1>1. /\ TogetherInv /\ SkipTypes /\ RunInv /\ OrderFits
      /\ nver \in [Notifiers -> Nat] /\ hasRun \in [Notifiers -> BOOLEAN]
      /\ work.version \in Nat /\ work.skip \in Nat
      /\ \A n \in Notifiers : place[n] \in {"none", "new"} => ~hasRun[n]
  BY DEF BaseInv, LoopInv, VersionTypes, SkipInv, SkipTypes, TogetherInv, TogetherTypes, RunInv
<1>2. UNCHANGED <<scope, file, untold, main, alive, told, have, idx, cnt>>
  BY DEF Worker, Take, RunToSkip, HandOverSkip, RunAll, HandOverAll, Post, HandOver, list, call
<1>3. \A n \in Notifiers : n \in alive =>
        (place'[n] \in {"new", "main"} <=> place[n] \in {"new", "main"})
  <2>1. CASE Take
    BY <1>1, <2>1, Takes, CleanedPlaces
  <2>2. CASE HandOverAll
    BY <1>1, <2>2, CleanedPlaces DEF HandOverAll
  <2>3. CASE RunToSkip \/ HandOverSkip \/ RunAll \/ Post
    BY <2>3 DEF RunToSkip, HandOverSkip, RunAll, Post, list
  <2> QED
    BY <2>1, <2>2, <2>3 DEF Worker
<1>4. \A n \in Notifiers : hasRun[n] => hasRun'[n] /\ nver[n] <= nver'[n]
  <2>1. CASE Take \/ RunToSkip \/ RunAll \/ Post
    <3>1. UNCHANGED <<hasRun, nver>>
      BY <2>1 DEF Take, RunToSkip, RunAll, RunAt, Post, bg
    <3> QED
      BY <1>1, <3>1
  <2>2. CASE HandOverSkip
    <3>1. /\ Skipping
          /\ hasRun' = [n \in Notifiers |-> n \in work.old \/ hasRun[n]]
          /\ nver' = [n \in Notifiers |-> IF n \in work.old THEN work.skip ELSE nver[n]]
      BY <2>2 DEF HandOverSkip, HandOver, Skipping
    <3> QED
      BY <1>1, <3>1 DEF OrderFits
  <2>3. CASE HandOverAll
    <3>1. /\ Working
          /\ hasRun' = [n \in Notifiers |-> n \in Taken \/ hasRun[n]]
          /\ nver' = [n \in Notifiers |-> IF n \in Taken THEN work.version ELSE nver[n]]
      BY <2>3 DEF HandOverAll, HandOver, Working
    <3> QED
      BY <1>1, <3>1 DEF OrderFits
  <2> QED
    BY <2>1, <2>2, <2>3 DEF Worker
<1>5. Mine' = Mine
  BY <1>2, <1>3 DEF Mine, Listed
<1> QED
  BY <1>2, <1>4, <1>5

\* A call of the main thread fits the notifiers at each of its steps.
LEMMA StageStep ==
    ASSUME OnlyReleases, BaseInv, RunInv, [Next]_vars
    PROVE  StageFits'
<1> USE DEF StageFits, RunInv
<1>1. /\ LoopInv /\ file \in Nat /\ ver \in 1..file /\ target \in Nat
      /\ pack \subseteq Notifiers /\ nver \in [Notifiers -> Nat]
      /\ \A n \in Notifiers : place[n] \in {"none", "new"} => ~hasRun[n]
  BY DEF BaseInv, LoopInv, SkipInv, SkipTypes, VersionTypes, CallbackTypes, TogetherInv,
         TogetherTypes, OrderFits, TellTypes
<1>2. UserCode => pc # "wait"
  BY <1>1, UserCodeRuns
<1>3. ASSUME UNCHANGED <<file, ver, writing, pc, target, begun, pack, place, hasRun, nver>>,
             alive' \subseteq alive
      PROVE  StageFits'
  BY <1>3 DEF Mine, Listed
<1>4. ASSUME NEW n \in Notifiers, Register(n)
      PROVE  StageFits'
  <2>1. UserCode /\ place[n] = "none" /\ nver' = [nver EXCEPT ![n] = ver]
    BY <1>4 DEF Register, NextOf
  <2>2. UNCHANGED <<file, ver, writing, pc, target, begun, pack, hasRun>>
    BY <1>4 DEF Register, main
  <2>3. pc = "deliver" => n \notin pack
    BY <1>1, <2>1
  <2> QED
    BY <1>1, <1>2, <2>1, <2>2, <2>3
<1>5. ASSUME NEW n \in Notifiers, Observe(n), ~Register(n)
      PROVE  StageFits'
  BY <1>3, <1>5 DEF Observe, AddCallback, RemoveCallback, Unregister, main, list, bg
<1>6. ASSUME NEW n \in Notifiers, Calls(n)
      PROVE  StageFits'
  <2>1. UNCHANGED <<file, ver, writing, target, begun, place, alive, hasRun, nver>>
    BY <1>6 DEF Calls, StartCallbacks, Call, Return, EndCallbacks, list, bg
  <2>2. pc = "deliver"
    <3>1. cur = n => pc = "deliver"
      BY <1>1, NotificationsAssumption DEF LoopInv, IndexFits
    <3> QED
      BY <1>6, <3>1 DEF Calls, StartCallbacks, Call, Return, EndCallbacks
  <2>3. pc' \in {"deliver", "idle"} /\ pack' \subseteq pack
    BY <1>6, <2>2 DEF Calls, StartCallbacks, Call, Return, EndCallbacks
  <2> QED
    BY <2>1, <2>2, <2>3
<1>7. CASE NotifyAvailable \/ NotifyAdvance \/ WaitEnds
  <2>1. PICK P \in SUBSET Ready :
          /\ pack' \in {{}, P}
          /\ pc' = IF pack' = {} THEN "idle" ELSE "deliver"
          /\ target' = 0 /\ begun' = FALSE /\ ver' \in 1..file /\ ver <= ver'
          /\ \A n \in pack' : nver[n] = ver'
          /\ writing' => ver' = file
          /\ UNCHANGED <<file, list, bg>>
    BY <1>7, Advances
  <2>2. \A n \in pack' : hasRun[n] /\ n \in Notifiers
    BY <2>1, ReadyVersions
  <2> QED
    BY <1>1, <2>1, <2>2 DEF bg
<1>8. CASE Refresh \/ Begin
  <2>1. /\ WaitFor(file) /\ ~writing /\ (begun' => begun \/ begun')
        /\ UNCHANGED <<file, list, bg>>
    BY <1>1, <1>8, Intended, UserCodeRuns DEF Refresh, Begin
  <2> QED
    BY <1>1, <2>1 DEF WaitFor, Mine, Listed, list
<1>9. CASE NotifyInWrite \/ OtherSignals \/ UNCHANGED vars
  BY <1>3, <1>9 DEF NotifyInWrite, OtherSignals, main, list, bg, vars
<1>10. CASE Cancel \/ Commit
  <2>1. /\ writing /\ ~writing'
        /\ pc' \in {pc, "idle"} /\ pc' # "commit"
        /\ UNCHANGED <<target, begun, pack, list, bg>>
    BY <1>10, Intended DEF Cancel, Commit
  <2>2. pc # "deliver"
    BY <1>10, Intended DEF Cancel, Commit
  <2> QED
    BY <1>1, <2>1, <2>2
<1>11. ASSUME NEW S \in SUBSET Callbacks, Suppress(S)
      PROVE  StageFits'
  BY <1>11 DEF Suppress
<1>12. CASE OtherCommits
  <2>1. ~writing /\ ~begun /\ file' = file + 1 /\ UNCHANGED <<main, list, bg>>
    BY <1>12 DEF OtherCommits
  <2> QED
    BY <1>1, <2>1 DEF main, list, bg, Mine, Listed
<1>13. CASE Worker
  <2>1. /\ Mine' = Mine /\ UNCHANGED <<file, main>>
        /\ \A n \in Notifiers : hasRun[n] => hasRun'[n] /\ nver[n] <= nver'[n]
    BY <1>13, WorkerMoves
  <2>2. \A n \in Notifiers : nver'[n] \in Nat
    <3>1. VersionTypes'
      BY <1>13, VersionStep DEF BaseInv, Next
    <3> QED
      BY <3>1 DEF VersionTypes
  <2> QED
    BY <1>1, <2>1, <2>2 DEF main
<1> QED
  BY <1>4, <1>5, <1>6, <1>7, <1>8, <1>9, <1>10, <1>11, <1>12, <1>13 DEF Next, Notify, Write, Other

\* The main thread does not touch what a run found; no callback comes late.
LEMMA RowsStepMain ==
    ASSUME OnlyReleases, BaseInv, RunInv, [Next]_vars, ~Worker
    PROVE  RowsFit'
<1> USE DEF RowsFit, RunInv
<1>1. /\ LoopInv /\ CallbackTypes /\ TogetherInv
      /\ hasRun \in [Notifiers -> BOOLEAN] /\ have \in [Notifiers -> BOOLEAN]
      /\ nver \in [Notifiers -> Nat]
      /\ \A n \in Notifiers : place[n] \in {"none", "new"} => ~hasRun[n]
  BY DEF BaseInv, LoopInv, SkipInv, SkipTypes, VersionTypes, CallbackTypes, TogetherInv,
         TogetherTypes, TellTypes
<1>2. ASSUME UNCHANGED <<hasRun, nver, rows, changes, work>>, alive' \subseteq alive,
             \A n \in Notifiers : hasRun[n] /\ have'[n] => have[n]
      PROVE  RowsFit'
  BY <1>2 DEF NowAt
<1>3. ASSUME NEW n \in Notifiers, Register(n)
      PROVE  RowsFit'
  <2>1. ~hasRun[n] /\ nver' = [nver EXCEPT ![n] = ver]
    BY <1>1, <1>3 DEF Register, NextOf
  <2>2. UNCHANGED <<alive, hasRun, rows, changes, have, work>>
    BY <1>3 DEF Register, call
  <2>3. \A m \in Notifiers : m # n => nver'[m] = nver[m]
    BY <2>1
  <2> QED
    BY <2>1, <2>2, <2>3 DEF NowAt
<1>4. ASSUME NEW n \in Notifiers, NEW c \in Callbacks, AddCallback(n, c)
      PROVE  RowsFit'
  <2>1. /\ ~(hasRun[n] /\ ~have[n])
        /\ UNCHANGED <<hasRun, nver, rows, changes, work, alive>>
        /\ \A m \in Notifiers : m # n => have'[m] = have[m]
    BY <1>1, <1>4, Intended DEF AddCallback, list, bg
  <2> QED
    BY <1>2, <2>1
<1>5. ASSUME NEW n \in Notifiers, NEW i \in 1..Cardinality(Callbacks), RemoveCallback(n, i)
      PROVE  RowsFit'
  <2>1. /\ UNCHANGED <<hasRun, nver, rows, changes, work, alive>>
        /\ \A m \in Notifiers : m # n => have'[m] = have[m]
    BY <1>1, <1>5 DEF RemoveCallback, list, bg
  <2>2. have[n]
    BY <1>1, <1>5, ListsChange DEF PlaceFits
  <2> QED
    BY <1>2, <2>1, <2>2
<1>6. ASSUME NEW n \in Notifiers, Unregister(n) \/ Calls(n)
      PROVE  RowsFit'
  <2>1. UNCHANGED <<hasRun, nver, rows, changes, work, have>> /\ alive' \subseteq alive
    BY <1>6 DEF Unregister, Calls, StartCallbacks, Call, Return, EndCallbacks, list, bg, call
  <2> QED
    BY <1>2, <2>1
<1>7. CASE Notify \/ Refresh \/ WaitEnds \/ Write \/ Other \/ UNCHANGED vars
  <2>1. UNCHANGED <<hasRun, nver, rows, changes, work, have, alive>>
    BY <1>7 DEF Notify, NotifyInWrite, NotifyAvailable, NotifyAdvance, Refresh, WaitEnds, Write,
                Begin, Commit, Cancel, Suppress, Package, Other, OtherCommits, OtherSignals, list,
                bg, call, vars
  <2> QED
    BY <1>2, <2>1
<1> QED
  BY <1>3, <1>4, <1>5, <1>6, <1>7 DEF Next, Observe

LEMMA RowsStepWorker ==
    ASSUME BaseInv, RunInv, Worker
    PROVE  RowsFit'
<1> USE DEF RowsFit, RunInv
<1>1. /\ LoopInv /\ TogetherInv /\ SkipTypes /\ WorkerHasAll
      /\ hasRun \in [Notifiers -> BOOLEAN] /\ have \in [Notifiers -> BOOLEAN]
      /\ nver \in [Notifiers -> Nat] /\ rows \in [Notifiers -> Nat]
      /\ work.version \in Nat /\ work.skip \in Nat
      /\ work.old \subseteq Notifiers /\ work.new \subseteq Notifiers
      /\ \A n \in Notifiers : place[n] \in {"none", "new"} => ~hasRun[n]
  BY DEF BaseInv, LoopInv, SkipInv, SkipTypes, VersionTypes, TogetherInv, TogetherTypes, TellTypes
<1>2. Working => \A n \in Notifiers : n \in alive =>
                   /\ hasRun[n] <=> n \in work.old
                   /\ n \in work.new => ~hasRun[n]
  BY <1>1 DEF PlaceFits, WorkerHasAll
<1>3. UNCHANGED <<alive, have>>
  BY WorkerMoves
<1>4. CASE Take \/ Post
  <2>1. UNCHANGED <<hasRun, nver, rows, changes>>
    BY <1>4 DEF Take, Post, bg
  <2>2. work.at \in {"idle", "post"} /\ work'.at \notin {"skipped", "ran"}
    BY <1>1, <1>4, Takes DEF Post, Take, SkipTypes
  <2> QED
    BY <1>3, <2>1, <2>2 DEF NowAt
<1>5. CASE RunToSkip
  <2>1. /\ RunAt(work.old, work.skip) /\ work.at = "skip" /\ work' = [work EXCEPT !.at = "skipped"]
    BY <1>5 DEF RunToSkip
  <2>2. work'.at = "skipped" /\ work'.skip = work.skip /\ Working
    BY <1>1, <2>1 DEF SkipTypes, Working
  <2>3. \A n \in Notifiers :
          /\ rows'[n] = IF n \in work.old /\ n \in alive THEN work.skip ELSE rows[n]
          /\ changes'[n] = IF n \in work.old /\ n \in alive /\ hasRun[n] /\ have[n]
                           THEN rows[n]+1 .. work.skip ELSE changes[n]
          /\ hasRun'[n] = hasRun[n] /\ nver'[n] = nver[n]
    BY <2>1 DEF RunAt, Runs
  <2>4. \A n \in Notifiers : NowAt(n) = nver[n] /\ NowAt(n)' = work.skip
    BY <2>1, <2>2 DEF NowAt
  <2> QED
    BY <1>2, <1>3, <2>2, <2>3, <2>4
<1>6. CASE HandOverSkip
  <2>1. HandOver(work.old, work.skip) /\ work.at = "skipped" /\ work' = [work EXCEPT !.at = "run"]
    BY <1>6 DEF HandOverSkip
  <2>2. work'.at = "run" /\ Working
    BY <1>1, <2>1 DEF SkipTypes, Working
  <2>3. \A n \in Notifiers :
          /\ changes'[n] = IF n \in work.old THEN {} ELSE changes[n]
          /\ nver'[n] = IF n \in work.old THEN work.skip ELSE nver[n]
          /\ hasRun'[n] <=> n \in work.old \/ hasRun[n]
          /\ rows'[n] = rows[n]
    BY <2>1 DEF HandOver
  <2>4. \A n \in Notifiers : NowAt(n) = work.skip /\ NowAt(n)' = nver'[n]
    BY <2>1, <2>2 DEF NowAt
  <2>5. work.skip+1 .. work.skip = {}
    BY <1>1
  <2>6. ASSUME NEW n \in Notifiers, n \in alive
        PROVE  /\ ~hasRun'[n] => changes'[n] = {}
               /\ hasRun'[n] /\ have[n] => rows[n] = nver'[n] /\ changes'[n] = nver'[n]+1 .. rows[n]
    <3>1. CASE n \in work.old
      <4>1. have[n] => rows[n] = work.skip
        BY <1>2, <2>2, <2>4, <2>6, <3>1
      <4> QED
        BY <2>3, <2>5, <3>1, <4>1
    <3>2. CASE n \notin work.old
      BY <1>2, <2>2, <2>3, <2>6, <3>2
    <3> QED
      BY <3>1, <3>2
  <2>7. work'.at # "ran" /\ alive' = alive /\ have' = have /\ rows' = rows
    BY <1>3, <2>1, <2>2 DEF HandOver
  <2> QED
    BY <2>4, <2>6, <2>7
<1>7. CASE RunAll
  <2>1. RunAt(Taken, work.version) /\ work.at = "run" /\ work' = [work EXCEPT !.at = "ran"]
    BY <1>7 DEF RunAll
  <2>2. /\ work'.at = "ran" /\ work'.version = work.version /\ work'.new = work.new
        /\ Working
    BY <1>1, <2>1 DEF SkipTypes, Working
  <2>3. \A n \in Notifiers :
          /\ rows'[n] = IF n \in Taken /\ n \in alive THEN work.version ELSE rows[n]
          /\ changes'[n] = IF n \in Taken /\ n \in alive /\ hasRun[n] /\ have[n]
                           THEN rows[n]+1 .. work.version ELSE changes[n]
          /\ hasRun'[n] = hasRun[n] /\ nver'[n] = nver[n]
    BY <2>1 DEF RunAt, Runs
  <2>4. \A n \in Notifiers : NowAt(n) = nver[n] /\ NowAt(n)' = work.version
    BY <2>1, <2>2 DEF NowAt
  <2> QED
    BY <1>2, <1>3, <2>2, <2>3, <2>4 DEF Taken
<1>8. CASE HandOverAll
  <2>1. HandOver(Taken, work.version) /\ work.at = "ran" /\ work'.at = "post"
    BY <1>8 DEF HandOverAll
  <2>2. Working
    BY <2>1 DEF Working
  <2>3. \A n \in Notifiers :
          /\ changes'[n] = IF n \in Taken THEN {} ELSE changes[n]
          /\ nver'[n] = IF n \in Taken THEN work.version ELSE nver[n]
          /\ hasRun'[n] <=> n \in Taken \/ hasRun[n]
          /\ rows'[n] = rows[n]
    BY <2>1 DEF HandOver
  <2>4. \A n \in Notifiers : NowAt(n) = work.version /\ NowAt(n)' = nver'[n]
    BY <2>1 DEF NowAt
  <2>5. work.version+1 .. work.version = {}
    BY <1>1
  <2>6. ASSUME NEW n \in Notifiers, n \in alive
        PROVE  /\ ~hasRun'[n] => changes'[n] = {}
               /\ hasRun'[n] /\ have[n] => rows[n] = nver'[n] /\ changes'[n] = nver'[n]+1 .. rows[n]
    <3>1. CASE n \in Taken
      <4>1. have[n] => rows[n] = work.version
        <5>1. CASE hasRun[n]
          BY <2>4, <2>6, <5>1
        <5>2. CASE ~hasRun[n]
          BY <1>2, <2>1, <2>2, <2>6, <3>1, <5>2 DEF Taken
        <5> QED
          BY <5>1, <5>2
      <4> QED
        BY <2>3, <2>5, <3>1, <4>1
    <3>2. CASE n \notin Taken
      BY <1>2, <2>2, <2>3, <2>6, <3>2 DEF Taken
    <3> QED
      BY <3>1, <3>2
  <2>7. work'.at # "ran" /\ alive' = alive /\ have' = have /\ rows' = rows
    BY <1>3, <2>1 DEF HandOver
  <2> QED
    BY <2>4, <2>6, <2>7
<1> QED
  BY <1>4, <1>5, <1>6, <1>7, <1>8 DEF Worker

LEMMA RunInit ==
    ASSUME Init
    PROVE  BaseInv /\ RunInv
<1>1. /\ file = 1 /\ ver = 1 /\ skipVersion = 0 /\ pack = {} /\ pc = "idle"
      /\ writing = FALSE /\ target = 0 /\ begun = FALSE
      /\ place = [n \in Notifiers |-> "none"] /\ hasRun = [n \in Notifiers |-> FALSE]
      /\ work = [at |-> "idle", version |-> 0, skip |-> 0, new |-> {}, old |-> {}]
      /\ nver = [n \in Notifiers |-> 0] /\ changes = [n \in Notifiers |-> {}]
      /\ cbs = [n \in Notifiers |-> << >>] /\ have = [n \in Notifiers |-> FALSE]
      /\ idx = [n \in Notifiers |-> 0] /\ suppressed = [c \in Callbacks |-> {}]
  BY DEF Init
<1>2. TogetherInv
  BY <1>1 DEF TogetherInv, TogetherTypes, WorkerHasAll, SameVersion, Working
<1>3. ~Working /\ ~Skipping /\ work.at = "idle"
  BY <1>1 DEF Working, Skipping
<1>4. TellTypes /\ PlaceFits /\ OrderFits /\ StageFits /\ RowsFit
  BY <1>1, <1>3 DEF TellTypes, PlaceFits, OrderFits, StageFits, RowsFit
<1> QED
  BY <1>2, <1>4, SkipInit, LoopInit DEF BaseInv, RunInv

LEMMA BaseStep ==
    ASSUME OnlyReleases, BaseInv, [Next]_vars
    PROVE  BaseInv'
BY Intended, SkipStepOthers, SkipStepWorker, TogetherStepOthers, TogetherStepWorker, LoopStep
   DEF BaseInv, SkipInv

LEMMA RunStep ==
    ASSUME OnlyReleases, BaseInv, RunInv, [Next]_vars
    PROVE  RunInv'
<1>1. TellTypes' /\ StageFits'
  BY TellTypesStep, StageStep DEF RunInv
<1>2. PlaceFits' /\ OrderFits' /\ RowsFit'
  BY PlaceStepMain, PlaceStepWorker, OrderStepMain, OrderStepWorker, RowsStepMain, RowsStepWorker
<1> QED
  BY <1>1, <1>2 DEF RunInv

-----------------------------------------------------------------------------
(* What each callback has been told, is about to be told and will be told.  A
   set covers the versions after k up to v if it has no others and lacks only
   some of those the callback is not to be told of. *)
Covers(T, k, v, S) == T \subseteq k+1 .. v /\ (k+1 .. v) \ S \subseteq T

On(n) == {cbs[n][i] : i \in 1..Len(cbs[n])}
Packed(n) == pc = "deliver" /\ n \in pack

\* It was called first when the collection had run, at a version it is not past.
KnownFits(n, cb) ==
    /\ known[cb.id] \in 0..ver
    /\ cb.initial <=> known[cb.id] > 0
    /\ cb.initial => hasRun[n] /\ known[cb.id] <= nver[n]
\* While it waits for its call: what it is about to be told.
TodoFits(n, cb) ==
    Packed(n) /\ cb.initial => Covers(cb.todo, known[cb.id], ver, suppressed[cb.id])
\* What the worker has handed over since, from where the next call leaves it.
AccFits(n, cb) ==
    n \in alive =>
        IF Packed(n) THEN Covers(cb.acc, ver, nver[n], suppressed[cb.id])
        ELSE cb.initial => Covers(cb.acc, known[cb.id], nver[n], suppressed[cb.id])
(* A Realm that is past its notifiers was past them when it last wrote, with
   nothing left to tell; the runs to come stop there or jump over its version. *)
Passes(n, v) == v <= nver[n] \/ ver <= v
LagFits(n, cb) ==
    n \in alive /\ cb.initial /\ nver[n] < ver =>
        /\ cb.acc = {}
        /\ Skipping => Passes(n, work.skip)
        /\ Working => Passes(n, work.version)
        /\ skipVersion > 0 => Passes(n, skipVersion)
\* In a write nothing is left to tell but what the delivery before it tells.
WriteFits(n, cb) ==
    n \in alive /\ writing => cb.acc = {} /\ hasRun[n] /\ nver[n] = file
\* The next handover ends what was suppressed, and hands over nothing else.
NextRun == IF Skipping THEN work.skip ELSE IF Working THEN work.version
           ELSE IF skipVersion > 0 THEN skipVersion ELSE file
SkipFits(n, cb) ==
    n \in alive /\ cb.skip =>
        /\ hasRun[n] /\ nver[n]+1 .. NextRun \subseteq suppressed[cb.id]
        /\ IF pc = "commit" THEN file + 1 \in suppressed[cb.id]
           ELSE nver[n] < file /\ (Working \/ skipVersion > 0)

CallbackFits(n, cb) ==
    /\ KnownFits(n, cb) /\ TodoFits(n, cb) /\ AccFits(n, cb)
    /\ LagFits(n, cb) /\ WriteFits(n, cb) /\ SkipFits(n, cb)
AllFit == \A n \in Notifiers : \A cb \in On(n) : CallbackFits(n, cb)

\* Those the loop has passed have nothing left to be told.
LoopDone ==
    cur # None => \A i \in 1..Len(cbs[cur]) :
        i < idx[cur] \/ (inside # None /\ i = idx[cur]) => cbs[cur][i].todo = {}

ToldInv == AllFit /\ LoopDone

LEMMA CoversJoined ==
    ASSUME NEW k \in Int, NEW m \in Int, NEW v \in Int, k <= m, m <= v,
           NEW A, NEW B, NEW S, Covers(A, k, m, S), Covers(B, m, v, S)
    PROVE  Covers(A \cup B, k, v, S)
BY DEF Covers

LEMMA CoversNone ==
    ASSUME NEW k \in Int, NEW v \in Int, NEW S, k+1 .. v \subseteq S
    PROVE  Covers({}, k, v, S)
BY DEF Covers

LEMMA CoversLater ==
    ASSUME NEW k \in Int, NEW m \in Int, NEW v \in Int, k <= m, m <= v,
           NEW A, NEW S, Covers(A, k, m, S), m+1 .. v \subseteq S
    PROVE  Covers(A, k, v, S)
BY DEF Covers

\* The types a callback's record comes with.
LEMMA OnTypes ==
    ASSUME BaseInv, RunInv, NEW n \in Notifiers, NEW cb \in On(n)
    PROVE  /\ cb \in CallbackRecords /\ cb.id \in Callbacks
           /\ cb.acc \subseteq Int /\ cb.todo \subseteq Int
           /\ cb.initial \in BOOLEAN /\ cb.skip \in BOOLEAN
           /\ known[cb.id] \in Nat /\ suppressed[cb.id] \subseteq Int
           /\ cbs[n] # << >> /\ have[n] /\ place[n] # "none"
           /\ n \in alive => n \in Mine
<1>1. CallbackTypes /\ IdsUnique /\ known \in [Callbacks -> Int]
      /\ suppressed \in [Callbacks -> SUBSET Int]
      /\ place \in [Notifiers -> {"none", "new", "main", "gone"}]
  BY DEF BaseInv, LoopInv, VersionTypes, RunInv, TellTypes, TogetherInv, TogetherTypes
<1>2. PICK i \in 1..Len(cbs[n]) : cb = cbs[n][i]
  BY DEF On
<1>3. cb \in CallbackRecords /\ Len(cbs[n]) \in Nat
  BY <1>1, <1>2, ListTypes
<1>4. /\ cb.id \in Callbacks /\ cb.acc \subseteq Int /\ cb.todo \subseteq Int
      /\ cb.initial \in BOOLEAN /\ cb.skip \in BOOLEAN
  BY <1>3 DEF CallbackRecords
<1>5. known[cb.id] \in Nat /\ suppressed[cb.id] \subseteq Int
  BY <1>1, <1>2, <1>4 DEF IdsUnique
<1>6. cbs[n] # << >>
  BY <1>1, <1>2, <1>3, EmptyLists
<1>7. have[n] /\ place[n] # "none" /\ (n \in alive => place[n] # "gone")
  BY <1>6 DEF RunInv, PlaceFits
<1>8. n \in alive => n \in Mine
  BY <1>1, <1>7 DEF Mine, Listed
<1> QED
  BY <1>3, <1>4, <1>5, <1>6, <1>7, <1>8

\* A step that changes nothing a callback is told keeps what fits.
LEMMA FitsKept ==
    ASSUME BaseInv, RunInv, NEW n \in Notifiers, NEW cb \in On(n), CallbackFits(n, cb),
           UNCHANGED <<file, ver, skipVersion, work.skip, work.version>>, alive' \subseteq alive,
           UNCHANGED <<hasRun[n], nver[n], known[cb.id], suppressed[cb.id]>>,
           UNCHANGED <<Skipping, Working, Packed(n)>>, writing' => writing,
           pc' = "commit" <=> pc = "commit"
    PROVE  CallbackFits(n, cb)'
<1> USE DEF CallbackFits
<1>1. KnownFits(n, cb)' /\ TodoFits(n, cb)' /\ AccFits(n, cb)'
  BY DEF KnownFits, TodoFits, AccFits
<1>2. LagFits(n, cb)' /\ WriteFits(n, cb)'
  BY DEF LagFits, WriteFits, Passes
<1>3. NextRun' = NextRun
  BY DEF NextRun
<1>4. SkipFits(n, cb)'
  BY <1>3 DEF SkipFits
<1> QED
  BY <1>1, <1>2, <1>4

\* Adding a callback adds one record, removing one adds none.
LEMMA OnAdded ==
    ASSUME LoopInv, NEW n \in Notifiers, NEW c \in Callbacks, AddCallback(n, c)
    PROVE  \A m \in Notifiers : \A cb \in On(m)' :
             \/ cb \in On(m)
             \/ m = n /\ cb = [id |-> c, acc |-> {}, todo |-> {}, initial |-> FALSE, skip |-> FALSE]
<1> DEFINE r == [id |-> c, acc |-> {}, todo |-> {}, initial |-> FALSE, skip |-> FALSE]
<1>1. cbs' = [cbs EXCEPT ![n] = Append(@, r)] /\ r \in CallbackRecords
  BY DEF AddCallback, CallbackRecords
<1> HIDE DEF r
<1>2. cbs \in [Notifiers -> Seq(CallbackRecords)] /\ Len(cbs[n]) \in Nat
  BY ListTypes DEF LoopInv, CallbackTypes
<1>3. /\ Len(Append(cbs[n], r)) = Len(cbs[n]) + 1
      /\ \A i \in 1..Len(cbs[n]) : Append(cbs[n], r)[i] = cbs[n][i]
      /\ Append(cbs[n], r)[Len(cbs[n]) + 1] = r
  BY <1>1, <1>2, AppendProperties
<1>4. ASSUME NEW i \in 1..Len(cbs'[n])
      PROVE  cbs'[n][i] = r \/ cbs'[n][i] \in On(n)
  <2>1. cbs'[n] = Append(cbs[n], r)
    BY <1>1, <1>2
  <2>2. i \in 1..Len(cbs[n]) \/ i = Len(cbs[n]) + 1
    BY <1>2, <1>3, <2>1
  <2> QED
    BY <1>3, <2>1, <2>2 DEF On
<1>5. \A m \in Notifiers : m # n => cbs'[m] = cbs[m]
  BY <1>1, <1>2
<1> QED
  BY <1>4, <1>5 DEF On, r

LEMMA OnRemoved ==
    ASSUME LoopInv, NEW n \in Notifiers, NEW r, RemoveCallback(n, r)
    PROVE  \A m \in Notifiers : On(m)' \subseteq On(m)
<1>1. cbs \in [Notifiers -> Seq(CallbackRecords)] /\ Len(cbs[n]) \in Nat
      /\ DOMAIN cbs[n] = 1..Len(cbs[n])
  BY ListTypes DEF LoopInv, CallbackTypes
<1>2. r \in DOMAIN cbs[n] /\ cbs' = [cbs EXCEPT ![n] = RemoveAt(@, r)]
  BY DEF RemoveCallback
<1>3. /\ Len(RemoveAt(cbs[n], r)) = Len(cbs[n]) - 1
      /\ \A i \in 1..(Len(cbs[n]) - 1) :
           RemoveAt(cbs[n], r)[i] = IF i < r THEN cbs[n][i] ELSE cbs[n][i + 1]
  BY <1>1, <1>2, RemoveAtProperties
<1>4. ASSUME NEW i \in 1..Len(cbs'[n])
      PROVE  cbs'[n][i] \in On(n)
  <2>1. i \in 1..(Len(cbs[n]) - 1) /\ cbs'[n][i] = IF i < r THEN cbs[n][i] ELSE cbs[n][i + 1]
    BY <1>1, <1>2, <1>3
  <2>2. i \in 1..Len(cbs[n]) /\ i + 1 \in 1..Len(cbs[n])
    BY <1>1, <2>1
  <2> QED
    BY <2>1, <2>2 DEF On
<1>5. \A m \in Notifiers : m # n => cbs'[m] = cbs[m]
  BY <1>1, <1>2
<1> QED
  BY <1>4, <1>5 DEF On

\* Observing: a callback just added has nothing to be told of before its first call.
LEMMA ObserveFits ==
    ASSUME OnlyReleases, BaseInv, RunInv, AllFit, NEW m \in Notifiers, Observe(m)
    PROVE  AllFit'
<1>1. /\ LoopInv /\ ver \in Nat /\ known \in [Callbacks -> Int]
      /\ cur = None \/ pc = "deliver"
  BY DEF BaseInv, LoopInv, VersionTypes, IndexFits
<1>2. /\ UNCHANGED <<file, ver, writing, pc, pack, skipVersion, work, suppressed, hasRun>>
      /\ alive' \subseteq alive
  BY DEF Observe, Register, AddCallback, RemoveCallback, Unregister, main, list, bg, told
<1>3. ASSUME NEW n \in Notifiers, NEW cb \in On(n), UNCHANGED <<nver[n], known[cb.id]>>
      PROVE  CallbackFits(n, cb)'
  BY <1>2, <1>3, FitsKept DEF AllFit, Skipping, Working, Packed
<1>4. CASE Register(m)
  <2>1. place[m] = "none" /\ nver' = [nver EXCEPT ![m] = ver] /\ UNCHANGED <<known, cbs>>
    BY <1>4 DEF Register, NextOf, call, told
  <2>2. ASSUME NEW n \in Notifiers, NEW cb \in On(n)'
        PROVE  cb \in On(n) /\ nver'[n] = nver[n]
    <3>1. cb \in On(n)
      BY <2>1, <2>2 DEF On
    <3>2. n # m
      BY <2>1, <3>1, OnTypes
    <3> QED
      BY <2>1, <3>1, <3>2
  <2> QED
    BY <1>3, <2>1, <2>2 DEF AllFit
<1>5. ASSUME NEW c \in Callbacks, AddCallback(m, c)
      PROVE  AllFit'
  <2> DEFINE r == [id |-> c, acc |-> {}, todo |-> {}, initial |-> FALSE, skip |-> FALSE]
  <2>1. /\ known' = [known EXCEPT ![c] = 0] /\ nver' = nver /\ ~writing
    BY <1>5 DEF AddCallback, bg
  <2>2. known[c] = -1
    BY <1>5 DEF AddCallback, NextOf
  <2>3. ~Packed(m)
    BY <1>1, <1>5, Intended, ListsChange DEF NoAddDuringDelivery, Packed
  <2>4. ASSUME NEW n \in Notifiers, NEW cb \in On(n)
        PROVE  CallbackFits(n, cb)'
    <3>1. known[cb.id] \in Nat /\ cb.id \in Callbacks
      BY OnTypes
    <3>2. known'[cb.id] = known[cb.id]
      BY <2>1, <2>2, <3>1
    <3> QED
      BY <1>3, <2>1, <3>2
  <2>5. CallbackFits(m, r)'
    <3>1. /\ r.id = c /\ r.acc = {} /\ r.initial = FALSE /\ r.skip = FALSE
          /\ known'[c] = 0 /\ ~Packed(m)'
      BY <1>1, <1>2, <2>1, <2>3 DEF Packed
    <3> HIDE DEF r
    <3>2. KnownFits(m, r)' /\ TodoFits(m, r)' /\ AccFits(m, r)' /\ LagFits(m, r)'
      BY <1>1, <1>2, <3>1 DEF KnownFits, TodoFits, AccFits, LagFits
    <3>3. WriteFits(m, r)' /\ SkipFits(m, r)'
      BY <1>2, <2>1, <3>1 DEF WriteFits, SkipFits
    <3> QED
      BY <3>2, <3>3 DEF CallbackFits
  <2> HIDE DEF r
  <2>6. \A n \in Notifiers : \A cb \in On(n)' : cb \in On(n) \/ (n = m /\ cb = r)
    BY <1>1, <1>5, OnAdded DEF r
  <2> QED
    BY <2>4, <2>5, <2>6 DEF AllFit
<1>6. ASSUME NEW i, RemoveCallback(m, i)
      PROVE  AllFit'
  <2>1. UNCHANGED <<nver, known>>
    BY <1>6 DEF RemoveCallback, bg, told
  <2>2. \A n \in Notifiers : On(n)' \subseteq On(n)
    BY <1>1, <1>6, OnRemoved
  <2> QED
    BY <1>3, <2>1, <2>2 DEF AllFit
<1>7. CASE Unregister(m)
  <2>1. UNCHANGED <<nver, known, cbs>>
    BY <1>7 DEF Unregister, bg, call, told
  <2> QED
    BY <1>3, <2>1 DEF AllFit, On
<1> QED
  BY <1>4, <1>5, <1>6, <1>7 DEF Observe

\* Steps that neither tell, nor advance, nor hand anything over.
LEMMA QuietFits ==
    ASSUME OnlyReleases, BaseInv, RunInv, AllFit,
           \/ \E m \in Notifiers : StartCallbacks(m) \/ Return(m)
           \/ NotifyInWrite \/ Refresh \/ Begin \/ Cancel \/ OtherSignals
           \/ RunToSkip \/ RunAll \/ Post \/ UNCHANGED vars
    PROVE  AllFit'
<1>1. UNCHANGED <<file, ver, skipVersion, alive, hasRun, nver, known, suppressed, cbs>>
  BY Intended, UserCodeRuns
     DEF StartCallbacks, Return, NotifyInWrite, Refresh, Begin, WaitFor, Cancel, OtherSignals,
         RunToSkip, RunAll, RunAt, Post, main, list, bg, call, told, vars, BaseInv
<1>2. UNCHANGED <<work.skip, work.version, Skipping, Working>>
  <2>1. CASE RunToSkip \/ RunAll \/ Post
    <3> USE DEF Skipping, Working, SkipTypes
    <3>1. SkipTypes
      BY DEF BaseInv, SkipInv
    <3>2. CASE RunToSkip
      BY <3>1, <3>2 DEF RunToSkip
    <3>3. CASE RunAll
      BY <3>1, <3>3 DEF RunAll
    <3>4. CASE Post
      BY <3>1, <3>4 DEF Post
    <3> QED
      BY <2>1, <3>2, <3>3, <3>4
  <2>2. CASE ~(RunToSkip \/ RunAll \/ Post)
    <3>1. work' = work
      BY <2>2 DEF StartCallbacks, Return, NotifyInWrite, Refresh, Begin, WaitFor, Cancel,
                  OtherSignals, vars
    <3> QED
      BY <3>1 DEF Skipping, Working
  <2> QED
    BY <2>1, <2>2
<1>3. /\ (pc' = pc /\ pack' = pack) \/ (pc = "idle" /\ pc' = "wait")
      /\ writing' => writing
  <2>1. CASE Refresh \/ Begin
    BY <2>1, Intended, UserCodeRuns DEF Refresh, Begin, WaitFor, BaseInv
  <2>2. CASE ~(Refresh \/ Begin)
    BY <2>2 DEF StartCallbacks, Return, NotifyInWrite, Cancel, OtherSignals, RunToSkip, RunAll,
                RunAt, Post, main, vars
  <2> QED
    BY <2>1, <2>2
<1>4. ASSUME NEW n \in Notifiers, NEW cb \in On(n)'
      PROVE  CallbackFits(n, cb)'
  <2>1. cb \in On(n) /\ CallbackFits(n, cb)
    BY <1>1, <1>4 DEF On, AllFit
  <2>2. UNCHANGED <<hasRun[n], nver[n], known[cb.id], suppressed[cb.id]>>
    BY <1>1
  <2>3. UNCHANGED Packed(n) /\ (pc' = "commit" <=> pc = "commit")
    BY <1>3 DEF Packed
  <2> QED
    BY <1>1, <1>2, <1>3, <2>1, <2>2, <2>3, FitsKept
<1> QED
  BY <1>4 DEF AllFit

\* What a call does to the one callback it calls, which is q then.
Tells(m, q) ==
    LET cb == cbs[m][idx[m]] IN
    /\ ~HasNothingFor(cb)
    /\ q.id = cb.id /\ q.acc = cb.acc /\ q.skip = cb.skip /\ q.initial = TRUE /\ q.todo = {}
    /\ \A n \in Notifiers :
         /\ Len(cbs'[n]) = Len(cbs[n])
         /\ \A i \in 1..Len(cbs[n]) : cbs'[n][i] = IF n = m /\ i = idx[m] THEN q ELSE cbs[n][i]
    /\ inside' = cb.id /\ known' = [known EXCEPT ![cb.id] = ver] /\ idx' = idx

LEMMA CallOne ==
    ASSUME LoopInv, NEW m \in Notifiers, Call(m)
    PROVE  /\ m # None /\ cur = m /\ inside = None /\ Packed(m)
           /\ idx[m] \in 1..Len(cbs[m])
           /\ \/ /\ HasNothingFor(cbs[m][idx[m]])
                 /\ idx' = [idx EXCEPT ![m] = @ + 1] /\ UNCHANGED <<cbs, inside, known>>
              \/ \E q \in CallbackRecords : Tells(m, q)
<1>1. /\ cbs[m] \in Seq(CallbackRecords) /\ Len(cbs[m]) \in Nat
      /\ DOMAIN cbs[m] = 1..Len(cbs[m])
      /\ cbs \in [Notifiers -> Seq(CallbackRecords)]
  BY ListTypes DEF LoopInv, CallbackTypes
<1>2. m # None /\ cur = m /\ inside = None
  BY NotificationsAssumption DEF Call
<1>3. idx[m] \in 1..Len(cbs[m])
  BY <1>1, CallKeepsIds
<1>4. Packed(m)
  BY <1>2 DEF LoopInv, IndexFits, Packed
<1>5. ASSUME ~HasNothingFor(cbs[m][idx[m]])
      PROVE  \E q \in CallbackRecords : Tells(m, q)
  <2> DEFINE r == cbs[m][idx[m]]
             q == [[r EXCEPT !.initial = TRUE] EXCEPT !.todo = {}]
             t == [cbs[m] EXCEPT ![idx[m]] = q]
  <2>1. r \in CallbackRecords
    BY <1>1, <1>3
  <2>2. /\ q \in CallbackRecords
        /\ q.id = r.id /\ q.acc = r.acc /\ q.skip = r.skip /\ q.initial = TRUE /\ q.todo = {}
    BY <2>1 DEF CallbackRecords
  <2>3. cbs' = [cbs EXCEPT ![m] = t]
    <3>1. cbs' = [cbs EXCEPT ![m][idx[m]].initial = TRUE, ![m][idx[m]].todo = {}]
      BY <1>5 DEF Call
    <3> QED
      BY <3>1, <1>1, <1>3, <2>1 DEF CallbackRecords
  <2>4. inside' = r.id /\ known' = [known EXCEPT ![r.id] = ver] /\ idx' = idx
    BY <1>5 DEF Call
  <2> HIDE DEF q, r
  <2>5. /\ Len(t) = Len(cbs[m])
        /\ \A i \in 1..Len(cbs[m]) : t[i] = IF i = idx[m] THEN q ELSE cbs[m][i]
    BY <1>1, <1>3, <2>2
  <2> HIDE DEF t
  <2>6. \A n \in Notifiers :
          /\ Len(cbs'[n]) = Len(cbs[n])
          /\ \A i \in 1..Len(cbs[n]) :
               cbs'[n][i] = IF n = m /\ i = idx[m] THEN q ELSE cbs[n][i]
    BY <1>1, <2>3, <2>5
  <2> QED
    BY <1>5, <2>2, <2>4, <2>6 DEF r, Tells
<1>6. HasNothingFor(cbs[m][idx[m]]) =>
        idx' = [idx EXCEPT ![m] = @ + 1] /\ UNCHANGED <<cbs, inside, known>>
  BY DEF Call
<1> QED
  BY <1>2, <1>3, <1>4, <1>5, <1>6

\* A callback that is called knows of everything up to the Realm's version.
LEMMA CallFits ==
    ASSUME BaseInv, RunInv, AllFit, NEW m \in Notifiers, Call(m)
    PROVE  AllFit'
<1>1. /\ LoopInv /\ known \in [Callbacks -> Int] /\ ver \in 1..file /\ file \in Nat
      /\ nver \in [Notifiers -> Nat]
  BY DEF BaseInv, LoopInv, VersionTypes, SkipTypes, RunInv, OrderFits
<1>2. UNCHANGED <<file, ver, writing, pc, pack, alive, hasRun, nver, skipVersion, work, suppressed>>
  BY DEF Call, list, bg
<1>3. ASSUME NEW n \in Notifiers, NEW cb \in On(n), known'[cb.id] = known[cb.id]
      PROVE  CallbackFits(n, cb)'
  BY <1>2, <1>3, FitsKept DEF AllFit, Skipping, Working, Packed
<1>4. CASE cbs' = cbs /\ known' = known
  BY <1>3, <1>4 DEF AllFit, On
<1>5. ASSUME NEW q \in CallbackRecords, Tells(m, q)
      PROVE  AllFit'
  <2>1. Packed(m) /\ idx[m] \in 1..Len(cbs[m])
    BY <1>1, CallOne
  <2>2. PICK cb \in On(m) : cb = cbs[m][idx[m]]
    BY <2>1 DEF On
  <2>3. cb.id \in Callbacks /\ CallbackFits(m, cb)
    BY <2>2, OnTypes DEF AllFit
  <2>4. hasRun[m] /\ ver <= nver[m]
    BY <2>1 DEF Packed, RunInv, StageFits
  <2>5. /\ q.id = cb.id /\ q.acc = cb.acc /\ q.skip = cb.skip /\ q.initial = TRUE /\ q.todo = {}
        /\ known' = [known EXCEPT ![cb.id] = ver]
    BY <1>5, <2>2 DEF Tells
  <2>6. /\ known'[q.id] = ver /\ Packed(m)' /\ NextRun' = NextRun /\ nver[m] \in Nat
        /\ Working' = Working
    BY <1>1, <1>2, <2>1, <2>3, <2>5 DEF Packed, NextRun, Skipping, Working
  <2>7. KnownFits(m, q)' /\ TodoFits(m, q)'
    BY <1>1, <1>2, <2>4, <2>5, <2>6, CoversNone DEF KnownFits, TodoFits, Covers
  <2>8. AccFits(m, q)' /\ LagFits(m, q)'
    BY <1>1, <1>2, <2>1, <2>3, <2>4, <2>5, <2>6 DEF CallbackFits, AccFits, LagFits
  <2>9. WriteFits(m, q)' /\ SkipFits(m, q)'
    BY <1>2, <2>3, <2>5, <2>6 DEF CallbackFits, WriteFits, SkipFits
  <2>10. ASSUME NEW n \in Notifiers, NEW b \in On(n)'
         PROVE  CallbackFits(n, b)'
    <3>1. PICK i \in 1..Len(cbs[n]) : b = cbs'[n][i]
      BY <1>5 DEF On, Tells
    <3>2. CASE n = m /\ i = idx[m]
      BY <1>5, <2>7, <2>8, <2>9, <3>1, <3>2 DEF CallbackFits, Tells
    <3>3. CASE ~(n = m /\ i = idx[m])
      <4>1. b = cbs[n][i] /\ b \in On(n)
        BY <1>5, <3>1, <3>3 DEF On, Tells
      <4>2. b.id # cb.id
        BY <1>1, <2>1, <2>2, <3>3, <4>1 DEF LoopInv, IdsUnique
      <4>3. known'[b.id] = known[b.id]
        BY <1>1, <2>5, <4>1, <4>2, OnTypes
      <4> QED
        BY <1>3, <4>1, <4>3
    <3> QED
      BY <3>2, <3>3
  <2> QED
    BY <2>10 DEF AllFit
<1> QED
  BY <1>1, <1>4, <1>5, CallOne

\* When the loop is through, what was accumulated meanwhile starts where it called.
LEMMA EndFits ==
    ASSUME BaseInv, RunInv, AllFit, LoopDone, NEW m \in Notifiers, EndCallbacks(m)
    PROVE  AllFit'
<1>1. /\ LoopInv /\ ver \in 1..file /\ file \in Nat /\ nver \in [Notifiers -> Nat]
      /\ m # None /\ pack \subseteq Notifiers
  BY NotificationsAssumption
     DEF BaseInv, LoopInv, VersionTypes, SkipTypes, CallbackTypes, RunInv, OrderFits
<1>2. /\ cur = m /\ idx[m] > cnt[m] /\ pack' = pack \ {m}
      /\ pc' = IF pack = {m} THEN "idle" ELSE pc
      /\ UNCHANGED <<file, ver, writing, alive, hasRun, nver, skipVersion, work, known, suppressed,
                     cbs>>
  BY DEF EndCallbacks, list, bg, told
<1>3. Packed(m) /\ pc = "deliver" /\ cnt[m] = Len(cbs[m])
  BY <1>1, <1>2 DEF LoopInv, IndexFits, CountsFit, Packed
<1>4. ASSUME NEW n \in Notifiers, NEW cb \in On(n), n # m
      PROVE  CallbackFits(n, cb)'
  <2>1. UNCHANGED <<Packed(n), Skipping, Working>> /\ pc' # "commit" /\ pc # "commit"
    BY <1>2, <1>3, <1>4 DEF Packed, Skipping, Working
  <2> QED
    BY <1>2, <2>1, FitsKept DEF AllFit
<1>5. ASSUME NEW cb \in On(m)
      PROVE  CallbackFits(m, cb)'
  <2>1. CallbackFits(m, cb) /\ known[cb.id] \in Nat
    BY OnTypes DEF AllFit
  <2>2. cb.todo = {}
    <3>1. PICK i \in 1..Len(cbs[m]) : cb = cbs[m][i]
      BY DEF On
    <3>2. Len(cbs[m]) \in Nat /\ idx[m] \in Int
      BY <1>1, ListTypes DEF LoopInv
    <3> QED
      BY <1>1, <1>2, <1>3, <3>1, <3>2 DEF LoopDone
  <2>3. hasRun[m] /\ ver <= nver[m]
    BY <1>3 DEF Packed, RunInv, StageFits
  <2>4. ~Packed(m)' /\ NextRun' = NextRun /\ Working' = Working /\ pc' # "commit"
    BY <1>2, <1>3 DEF Packed, NextRun, Skipping, Working
  <2>6. m \in alive /\ cb.initial => Covers(cb.acc, known[cb.id], nver[m], suppressed[cb.id])
    <3>1. known[cb.id] <= ver /\ nver[m] \in Int
      BY <1>1, <2>1 DEF CallbackFits, KnownFits
    <3>2. cb.initial => Covers({}, known[cb.id], ver, suppressed[cb.id])
      BY <1>3, <2>1, <2>2 DEF CallbackFits, TodoFits
    <3>3. m \in alive => Covers(cb.acc, ver, nver[m], suppressed[cb.id])
      BY <1>3, <2>1 DEF CallbackFits, AccFits
    <3> QED
      BY <1>1, <2>1, <2>3, <3>1, <3>2, <3>3 DEF Covers
  <2>7. KnownFits(m, cb)' /\ TodoFits(m, cb)' /\ AccFits(m, cb)'
    BY <1>2, <2>1, <2>4, <2>6 DEF CallbackFits, KnownFits, TodoFits, AccFits
  <2>8. LagFits(m, cb)' /\ WriteFits(m, cb)' /\ SkipFits(m, cb)'
    BY <1>1, <1>2, <1>3, <2>1, <2>3, <2>4 DEF CallbackFits, LagFits, WriteFits, SkipFits
  <2> QED
    BY <2>7, <2>8 DEF CallbackFits
<1> QED
  BY <1>2, <1>4, <1>5 DEF AllFit, On

\* Suppressing marks callbacks, whose next version is then not to be told.
LEMMA SuppressOn ==
    ASSUME LoopInv, NEW S \in SUBSET Callbacks, Suppress(S), NEW n \in Notifiers, NEW cb \in On(n)'
    PROVE  \E b \in On(n) : /\ cb.id = b.id /\ cb.acc = b.acc /\ cb.todo = b.todo
                            /\ cb.initial = b.initial /\ (cb.skip <=> b.skip \/ b.id \in S)
<1>1. cbs[n] \in Seq(CallbackRecords) /\ Len(cbs[n]) \in Nat /\ DOMAIN cbs[n] = 1..Len(cbs[n])
      /\ CallbackTypes
  BY ListTypes DEF LoopInv
<1>2. Len(cbs'[n]) = Len(cbs[n])
  BY <1>1, SuppressKeepsIds DEF IdsKept
<1>3. PICK i \in 1..Len(cbs[n]) : cb = cbs'[n][i]
  BY <1>2 DEF On
<1>4. PICK b \in CallbackRecords : b = cbs[n][i] /\ b \in On(n)
  BY <1>1 DEF On
<1>5. cb = [b EXCEPT !.skip = @ \/ b.id \in S]
  BY <1>1, <1>3, <1>4 DEF Suppress
<1>6. /\ cb.id = b.id /\ cb.acc = b.acc /\ cb.todo = b.todo
      /\ cb.initial = b.initial /\ (cb.skip <=> b.skip \/ b.id \in S)
  BY <1>5 DEF CallbackRecords
<1> QED
  BY <1>4, <1>6

LEMMA SuppressFits ==
    ASSUME BaseInv, RunInv, AllFit, NEW S \in SUBSET Callbacks, Suppress(S)
    PROVE  AllFit'
<1>1. /\ LoopInv /\ file \in Nat /\ ver = file /\ writing /\ pc = "idle" /\ pc' = "commit"
      /\ suppressed \in [Callbacks -> SUBSET Int]
      /\ UNCHANGED <<file, ver, writing, alive, hasRun, nver, skipVersion, work, known>>
  BY DEF Suppress, BaseInv, LoopInv, VersionTypes, SkipTypes, RunInv, StageFits, TellTypes, list, bg
<1>2. \A c \in Callbacks : /\ suppressed[c] \subseteq suppressed'[c]
                           /\ c \in S => ver + 1 \in suppressed'[c]
  BY <1>1 DEF Suppress
<1>3. NextRun <= file /\ NextRun' = NextRun /\ NextRun \in Nat
  BY <1>1 DEF BaseInv, SkipInv, SkipTypes, RunInv, OrderFits, NextRun, Skipping, Working
<1>4. ASSUME NEW n \in Notifiers, NEW cb \in On(n)'
      PROVE  CallbackFits(n, cb)'
  <2>1. PICK b \in On(n) : /\ cb.id = b.id /\ cb.acc = b.acc /\ cb.todo = b.todo
                           /\ cb.initial = b.initial /\ (cb.skip <=> b.skip \/ b.id \in S)
    BY <1>1, <1>4, SuppressOn
  <2>2. b.id \in Callbacks /\ CallbackFits(n, b)
    BY OnTypes DEF AllFit
  <2>3. ~Packed(n) /\ ~Packed(n)' /\ Skipping' = Skipping /\ Working' = Working
    BY <1>1 DEF Packed, Skipping, Working
  <2>4. KnownFits(n, cb)' /\ TodoFits(n, cb)'
    BY <1>1, <2>1, <2>2, <2>3 DEF CallbackFits, KnownFits, TodoFits
  <2>5. AccFits(n, cb)'
    BY <1>1, <1>2, <2>1, <2>2, <2>3 DEF CallbackFits, AccFits, Covers
  <2>6. LagFits(n, cb)' /\ WriteFits(n, cb)'
    BY <1>1, <2>1, <2>2, <2>3 DEF CallbackFits, LagFits, WriteFits, Passes
  <2>7. SkipFits(n, cb)'
    <3>1. n \in alive => hasRun[n] /\ nver[n] = file
      BY <1>1, <2>2 DEF CallbackFits, WriteFits
    <3>2. n \in alive => ~b.skip
      BY <1>1, <2>2, <3>1 DEF CallbackFits, SkipFits
    <3>3. n \in alive => nver[n]+1 .. NextRun = {}
      BY <1>1, <1>3, <3>1
    <3> QED
      BY <1>1, <1>2, <1>3, <2>1, <2>2, <3>1, <3>2, <3>3 DEF SkipFits
  <2> QED
    BY <2>4, <2>5, <2>6, <2>7 DEF CallbackFits
<1> QED
  BY <1>4 DEF AllFit

\* A commit starts where everything has been told; the worker is to jump over it.
LEMMA CommitFits ==
    ASSUME OnlyReleases, BaseInv, RunInv, AllFit, Commit
    PROVE  AllFit'
<1>1. /\ LoopInv /\ file \in Nat /\ ver = file /\ writing /\ pc \in {"idle", "commit"}
      /\ file' = file + 1 /\ ver' = file + 1 /\ ~writing' /\ pc' = "idle"
      /\ skipVersion \in 0..file
      /\ UNCHANGED <<alive, place, hasRun, nver, work, known, suppressed, cbs>>
  BY Intended DEF Commit, BaseInv, LoopInv, VersionTypes, SkipInv, SkipTypes, RunInv, StageFits,
                  list, bg, call, told
<1>2. /\ Skipping' = Skipping /\ Working' = Working
      /\ Working => work.version \in 1..file
      /\ Skipping => work.skip \in 1..work.version /\ Working
  BY <1>1 DEF Skipping, Working, RunInv, OrderFits
<1>3. ASSUME NEW n \in Notifiers, NEW cb \in On(n)
      PROVE  CallbackFits(n, cb)'
  <2>1. CallbackFits(n, cb) /\ (n \in alive => n \in Mine)
    BY OnTypes DEF AllFit
  <2>2. ~Packed(n) /\ ~Packed(n)'
    BY <1>1 DEF Packed
  <2>3. n \in alive => cb.acc = {} /\ hasRun[n] /\ nver[n] = file
    BY <1>1, <2>1 DEF CallbackFits, WriteFits
  <2>4. n \in alive => skipVersion' = file + 1
    BY <2>1, <2>3 DEF Commit, SkipAfterCommit, RunInv, PlaceFits
  <2>5. KnownFits(n, cb)' /\ TodoFits(n, cb)' /\ AccFits(n, cb)' /\ WriteFits(n, cb)'
    BY <1>1, <2>1, <2>2, <2>3 DEF CallbackFits, KnownFits, TodoFits, AccFits, WriteFits
  <2>6. LagFits(n, cb)'
    BY <1>1, <1>2, <2>3, <2>4 DEF LagFits, Passes
  <2>7. SkipFits(n, cb)'
    <3> SUFFICES ASSUME n \in alive, cb.skip
                 PROVE  /\ hasRun[n] /\ nver[n]+1 .. NextRun' \subseteq suppressed[cb.id]
                        /\ nver[n] < file' /\ skipVersion' > 0
      BY <1>1 DEF SkipFits
    <3>1. pc = "commit"
      BY <1>1, <2>1, <2>3 DEF CallbackFits, SkipFits
    <3>2. file + 1 \in suppressed[cb.id] /\ nver[n]+1 .. NextRun \subseteq suppressed[cb.id]
      BY <2>1, <3>1 DEF CallbackFits, SkipFits
    <3>3. NextRun' \in {NextRun, file + 1}
      BY <1>1, <1>2, <2>4 DEF NextRun
    <3>4. nver[n]+1 .. file + 1 = {file + 1}
      BY <1>1, <2>3
    <3> QED
      BY <1>1, <2>3, <2>4, <3>2, <3>3, <3>4
  <2> QED
    BY <2>5, <2>6, <2>7 DEF CallbackFits
<1> QED
  BY <1>1, <1>3 DEF AllFit, On

\* Another writer's commit is not suppressed by anyone.
LEMMA OtherFits ==
    ASSUME BaseInv, RunInv, AllFit, OtherCommits
    PROVE  AllFit'
<1>1. /\ file \in Nat /\ file' = file + 1 /\ ~writing /\ ~writing' /\ pc # "commit"
      /\ nver \in [Notifiers -> Nat]
      /\ UNCHANGED <<ver, pc, pack, alive, hasRun, nver, skipVersion, work, known, suppressed, cbs>>
  BY DEF OtherCommits, BaseInv, LoopInv, VersionTypes, SkipTypes, RunInv, StageFits, main, list, bg,
         call, told
<1>2. ASSUME NEW n \in Notifiers, NEW cb \in On(n)
      PROVE  CallbackFits(n, cb)'
  <2>1. CallbackFits(n, cb)
    BY DEF AllFit
  <2>2. UNCHANGED <<Packed(n), Skipping, Working>>
    BY <1>1 DEF Packed, Skipping, Working
  <2>3. KnownFits(n, cb)' /\ TodoFits(n, cb)' /\ AccFits(n, cb)' /\ WriteFits(n, cb)'
    BY <1>1, <2>1, <2>2 DEF CallbackFits, KnownFits, TodoFits, AccFits, WriteFits
  <2>4. LagFits(n, cb)'
    BY <1>1, <2>1, <2>2 DEF CallbackFits, LagFits, Passes
  <2>5. SkipFits(n, cb)'
    <3>1. Working \/ skipVersion > 0 => NextRun' = NextRun
      BY <1>1, <2>2 DEF NextRun
    <3> QED
      BY <1>1, <2>1, <2>2, <3>1 DEF CallbackFits, SkipFits
  <2> QED
    BY <2>3, <2>4, <2>5 DEF CallbackFits
<1> QED
  BY <1>1, <1>2 DEF AllFit, On

\* What is taken to skip to is what the commits left, if anyone alive has run.
LEMMA TakeFits ==
    ASSUME BaseInv, RunInv, AllFit, Take
    PROVE  AllFit'
<1>1. /\ SkipTypes /\ TogetherInv /\ file \in Nat /\ ver \in 1..file /\ skipVersion \in 0..file
      /\ nver \in [Notifiers -> Nat]
      /\ UNCHANGED <<file, ver, writing, pc, pack, alive, hasRun, nver, known, suppressed, cbs>>
  BY DEF Take, BaseInv, LoopInv, VersionTypes, SkipInv, SkipTypes, RunInv, OrderFits, main, bg,
         call, told
<1> DEFINE q == PlacesCleaned(place)
           v == SkipCleaned(place, q, skipVersion)
<1>2. /\ ~Working /\ ~Skipping
      /\ \/ /\ \A n \in Notifiers : q[n] # "new" /\ q[n] # "main"
            /\ ~Working' /\ work'.at = "post" /\ skipVersion' = v
         \/ /\ work'.at = IF v > 0 THEN "skip" ELSE "run"
            /\ work'.version = file /\ work'.skip = v
            /\ skipVersion' = 0
  BY <1>1, Takes DEF Working, Skipping
<1>3. ASSUME NEW n \in Notifiers, n \in alive, hasRun[n]
      PROVE  /\ v = skipVersion /\ skipVersion' = 0 /\ Working'
             /\ Skipping' <=> skipVersion > 0
             /\ Skipping' => work'.skip = skipVersion
             /\ work'.version = file
  <2>1. q[n] = "main"
    BY <1>1, <1>3, CleanedPlaces DEF RunInv, PlaceFits
  <2>2. v = skipVersion
    BY <2>1 DEF SkipCleaned
  <2> HIDE DEF q, v
  <2> QED
    BY <1>2, <2>1, <2>2 DEF Working, Skipping
<1>4. ASSUME NEW n \in Notifiers, NEW cb \in On(n)
      PROVE  CallbackFits(n, cb)'
  <2>1. CallbackFits(n, cb)
    BY DEF AllFit
  <2>2. Packed(n)' = Packed(n)
    BY <1>1 DEF Packed
  <2>3. KnownFits(n, cb)' /\ TodoFits(n, cb)' /\ AccFits(n, cb)' /\ WriteFits(n, cb)'
    BY <1>1, <2>1, <2>2 DEF CallbackFits, KnownFits, TodoFits, AccFits, WriteFits
  <2>4. LagFits(n, cb)'
    <3>1. n \in alive /\ cb.initial => hasRun[n]
      BY <2>1 DEF CallbackFits, KnownFits
    <3> HIDE DEF v
    <3> QED
      BY <1>1, <1>3, <2>1, <3>1 DEF CallbackFits, LagFits, Passes
  <2>5. SkipFits(n, cb)'
    <3> SUFFICES ASSUME n \in alive, cb.skip
                 PROVE  SkipFits(n, cb)'
      BY <1>1 DEF SkipFits
    <3>1. hasRun[n]
      BY <2>1 DEF CallbackFits, SkipFits
    <3> HIDE DEF v
    <3>2. NextRun' = NextRun /\ Working'
      BY <1>1, <1>2, <1>3, <3>1 DEF NextRun
    <3> QED
      BY <1>1, <2>1, <3>1, <3>2 DEF CallbackFits, SkipFits
  <2> QED
    BY <2>3, <2>4, <2>5 DEF CallbackFits
<1> QED
  BY <1>1, <1>4 DEF AllFit, On

\* Packaging moves what a callback has accumulated to what it is about to be told.
LEMMA PackageOn ==
    ASSUME LoopInv, NEW P \in SUBSET Notifiers, Package(P), NEW n \in Notifiers, NEW cb \in On(n)'
    PROVE  /\ n \notin P => cb \in On(n)
           /\ n \in P => \E b \in On(n) : /\ cb.id = b.id /\ cb.todo = b.acc /\ cb.acc = {}
                                          /\ cb.initial = b.initial /\ cb.skip = b.skip
<1>1. cbs[n] \in Seq(CallbackRecords) /\ Len(cbs[n]) \in Nat /\ DOMAIN cbs[n] = 1..Len(cbs[n])
      /\ CallbackTypes
  BY ListTypes DEF LoopInv
<1>2. Len(cbs'[n]) = Len(cbs[n])
  BY <1>1, PackageKeepsIds DEF IdsKept
<1>3. PICK i \in 1..Len(cbs[n]) : cb = cbs'[n][i]
  BY <1>2 DEF On
<1>4. CASE n \notin P
  BY <1>3, <1>4 DEF Package, On
<1>5. CASE n \in P
  <2>1. PICK b \in CallbackRecords : b = cbs[n][i] /\ b \in On(n)
    BY <1>1 DEF On
  <2>2. cb = [b EXCEPT !.todo = b.acc, !.acc = {}]
    BY <1>1, <1>3, <1>5, <2>1 DEF Package
  <2>3. /\ cb.id = b.id /\ cb.todo = b.acc /\ cb.acc = {}
        /\ cb.initial = b.initial /\ cb.skip = b.skip
    BY <2>2 DEF CallbackRecords
  <2> QED
    BY <1>5, <2>1, <2>3
<1> QED
  BY <1>4, <1>5

\* What is packaged ends at the version the Realm advances to, or is empty.
LEMMA AdvanceFits ==
    ASSUME BaseInv, RunInv, AllFit, NotifyAvailable \/ NotifyAdvance \/ WaitEnds
    PROVE  AllFit'
<1>1. PICK P \in SUBSET Ready :
        /\ Package(P) /\ pack' \in {{}, P}
        /\ pc' = IF pack' = {} THEN "idle" ELSE "deliver"
        /\ target' = 0 /\ begun' = FALSE /\ ver' \in 1..file /\ ver <= ver'
        /\ \A n \in pack' : nver[n] = ver'
        /\ pack' = {} => \A n \in P : nver[n] < ver'
        /\ writing' => ver' = file
        /\ \A n \in Mine : have[n] => TellsAll(n, P)
        /\ UNCHANGED <<cur, inside, scope, file, untold, list, bg, skipVersion, work, wake, told>>
  BY Advances
<1>2. /\ UNCHANGED <<file, alive, hasRun, nver, skipVersion, work, known, suppressed>>
      /\ UNCHANGED <<Skipping, Working, NextRun>>
  BY <1>1 DEF list, bg, told, Skipping, Working, NextRun
<1>3. /\ LoopInv /\ file \in Nat /\ ver \in 1..file /\ nver \in [Notifiers -> Nat]
      /\ P \in SUBSET Notifiers /\ P \subseteq alive
      /\ pc # "deliver" /\ pc # "commit" /\ pc' # "commit"
  BY <1>1, ReadyVersions
     DEF BaseInv, LoopInv, VersionTypes, SkipTypes, RunInv, OrderFits, NotifyAvailable,
         NotifyAdvance, WaitEnds
<1>4. ASSUME NEW n \in Notifiers, n \notin P, NEW cb \in On(n)
      PROVE  CallbackFits(n, cb)'
  <2>1. CallbackFits(n, cb) /\ (n \in alive => n \in Mine /\ have[n])
    BY OnTypes DEF AllFit
  <2>2. ~Packed(n) /\ ~Packed(n)'
    BY <1>1, <1>3, <1>4 DEF Packed
  <2>3. n \in alive /\ hasRun[n] => ver' = ver /\ ~writing'
    BY <1>1, <1>4, <2>1 DEF TellsAll
  <2>4. n \in alive /\ writing' => hasRun[n]
    BY <1>1, <2>1 DEF TellsAll
  <2>5. KnownFits(n, cb)' /\ TodoFits(n, cb)' /\ AccFits(n, cb)'
    BY <1>1, <1>2, <1>3, <2>1, <2>2 DEF CallbackFits, KnownFits, TodoFits, AccFits
  <2>6. LagFits(n, cb)'
    <3>1. cb.initial => hasRun[n]
      BY <2>1 DEF CallbackFits, KnownFits
    <3> QED
      BY <1>2, <2>1, <2>3, <3>1 DEF CallbackFits, LagFits, Passes
  <2>7. WriteFits(n, cb)' /\ SkipFits(n, cb)'
    BY <1>2, <1>3, <2>1, <2>3, <2>4 DEF CallbackFits, WriteFits, SkipFits
  <2> QED
    BY <2>5, <2>6, <2>7 DEF CallbackFits
<1>5. ASSUME NEW n \in Notifiers, n \in P, NEW b \in On(n), NEW cb,
             cb.id = b.id, cb.todo = b.acc, cb.acc = {}, cb.initial = b.initial, cb.skip = b.skip
      PROVE  CallbackFits(n, cb)'
  <2>1. /\ CallbackFits(n, b) /\ n \in alive /\ TellsAll(n, P) /\ known[b.id] \in Nat
        /\ nver[n] \in Nat
    BY <1>1, <1>3, <1>5, OnTypes DEF AllFit
  <2>2. ~Packed(n) /\ (Packed(n)' <=> pack' # {})
    BY <1>1, <1>3, <1>5 DEF Packed
  <2>3. b.initial => Covers(b.acc, known[b.id], nver[n], suppressed[b.id])
    BY <2>1, <2>2 DEF CallbackFits, AccFits
  <2>4. pack' # {} => nver[n] = ver'
    BY <1>1, <1>5
  <2>5. pack' = {} => nver[n] < ver /\ ver' = ver
    BY <1>1, <1>5, <2>1 DEF TellsAll
  <2>6. b.initial /\ pack' = {} => b.acc = {}
    BY <2>1, <2>5 DEF CallbackFits, LagFits
  <2>7. KnownFits(n, cb)' /\ TodoFits(n, cb)'
    BY <1>1, <1>2, <1>3, <1>5, <2>1, <2>2, <2>3, <2>4 DEF CallbackFits, KnownFits, TodoFits
  <2>8. AccFits(n, cb)'
    <3>1. Packed(n)' => Covers({}, ver', nver[n], suppressed[b.id])
      BY <1>1, <2>2, <2>4 DEF Covers
    <3>2. ~Packed(n)' /\ b.initial => Covers({}, known[b.id], nver[n], suppressed[b.id])
      BY <2>2, <2>3, <2>6
    <3> QED
      BY <1>2, <1>5, <3>1, <3>2 DEF AccFits
  <2>9. LagFits(n, cb)'
    BY <1>1, <1>2, <1>5, <2>1, <2>4, <2>5 DEF CallbackFits, LagFits, Passes
  <2>10. WriteFits(n, cb)'
    BY <1>2, <1>5, <2>1 DEF WriteFits, TellsAll
  <2>11. SkipFits(n, cb)'
    BY <1>2, <1>3, <1>5, <2>1 DEF CallbackFits, SkipFits
  <2> QED
    BY <2>7, <2>8, <2>9, <2>10, <2>11 DEF CallbackFits
<1> QED
  BY <1>1, <1>3, <1>4, <1>5, PackageOn DEF AllFit

\* What a handover hands over: all that the notifiers it takes have not told yet.
HandsOver(ns, v) ==
    /\ HandOver(ns, v) /\ v \in 1..file /\ v = NextRun /\ Working
    /\ v = IF Skipping THEN work.skip ELSE work.version
    /\ \A n \in ns : hasRun[n] => nver[n] <= v
    /\ \A n \in Notifiers : n \in alive =>
         /\ hasRun[n] => n \in ns
         /\ have[n] => changes[n] = IF hasRun[n] THEN nver[n]+1 .. v ELSE {}
    /\ UNCHANGED <<file, ver, writing, pc, pack, cur, inside, alive, known, suppressed>>
    /\ skipVersion' \in {0, skipVersion} /\ ~Skipping'
    /\ Working' => work'.version = work.version

LEMMA HandsOverAll ==
    ASSUME BaseInv, RunInv, HandOverSkip \/ HandOverAll
    PROVE  \E ns \in SUBSET Notifiers : \E v : HandsOver(ns, v)
<1>1. /\ SkipTypes /\ WorkerHasAll
      /\ \A n \in Notifiers : place[n] \in {"none", "new"} => ~hasRun[n]
  BY DEF BaseInv, SkipInv, TogetherInv, TogetherTypes
<1>2. /\ UNCHANGED <<file, ver, writing, pc, pack, cur, inside, alive, known, suppressed>>
      /\ Working
  BY DEF HandOverSkip, HandOverAll, main, told, list, Working
<1>3. \A n \in Notifiers : n \in alive /\ hasRun[n] => n \in work.old
  BY <1>1, <1>2 DEF RunInv, PlaceFits, WorkerHasAll
<1>4. CASE HandOverSkip
  <2>1. /\ HandOver(work.old, work.skip) /\ work.at = "skipped"
        /\ work' = [work EXCEPT !.at = "run"] /\ skipVersion' = skipVersion
    BY <1>4 DEF HandOverSkip
  <2>2. Skipping /\ ~Skipping' /\ work'.version = work.version
    BY <1>1, <2>1 DEF Skipping, SkipTypes
  <2>3. work.skip \in 1..file /\ work.skip = NextRun
    BY <1>1, <1>2, <2>2 DEF RunInv, OrderFits, NextRun, SkipTypes
  <2>4. \A n \in work.old : n \in Notifiers /\ (hasRun[n] => nver[n] <= work.skip)
    BY <1>1, <2>2 DEF RunInv, OrderFits, SkipTypes
  <2>5. \A n \in Notifiers : n \in alive /\ have[n] =>
             changes[n] = IF hasRun[n] THEN nver[n]+1 .. work.skip ELSE {}
    BY <2>1 DEF RunInv, RowsFit, NowAt
  <2>6. HandsOver(work.old, work.skip)
    BY <1>2, <1>3, <2>1, <2>2, <2>3, <2>4, <2>5 DEF HandsOver
  <2> QED
    BY <1>1, <2>6 DEF SkipTypes
<1>5. CASE HandOverAll
  <2>1. /\ HandOver(Taken, work.version) /\ work.at = "ran" /\ work'.at = "post"
        /\ skipVersion' = SkipCleaned(place, place', skipVersion)
    BY <1>5 DEF HandOverAll
  <2>2. ~Skipping /\ ~Skipping' /\ ~Working' /\ skipVersion' \in {0, skipVersion}
    BY <2>1 DEF Skipping, Working, SkipCleaned
  <2>3. /\ work.version \in 1..file /\ work.version = NextRun
        /\ \A n \in Taken : n \in Notifiers /\ (hasRun[n] => nver[n] <= work.version)
        /\ \A n \in Notifiers : n \in alive /\ have[n] =>
             changes[n] = IF hasRun[n] THEN nver[n]+1 .. work.version ELSE {}
    BY <1>1, <1>2, <2>1, <2>2 DEF RunInv, OrderFits, RowsFit, NowAt, NextRun, SkipTypes, Taken
  <2>4. HandsOver(Taken, work.version)
    BY <1>2, <1>3, <2>1, <2>2, <2>3 DEF HandsOver, Taken
  <2> QED
    BY <1>1, <2>4 DEF SkipTypes, Taken
<1> QED
  BY <1>4, <1>5

\* The record a callback has after a handover, from the one it had.
AfterHandOver(b, cb, new) ==
    /\ cb.id = b.id /\ cb.todo = b.todo /\ cb.initial = b.initial /\ ~cb.skip
    /\ cb.acc = IF b.skip THEN b.acc ELSE b.acc \cup new

LEMMA HandOverOn ==
    ASSUME LoopInv, NEW ns \in SUBSET Notifiers, NEW v, HandOver(ns, v),
           NEW n \in Notifiers, NEW cb \in On(n)'
    PROVE  /\ n \notin ns => cb \in On(n)
           /\ n \in ns => \E b \in On(n) : AfterHandOver(b, cb, changes[n])
<1>1. cbs[n] \in Seq(CallbackRecords) /\ Len(cbs[n]) \in Nat /\ DOMAIN cbs[n] = 1..Len(cbs[n])
      /\ CallbackTypes /\ VersionTypes
  BY ListTypes DEF LoopInv
<1>2. Len(cbs'[n]) = Len(cbs[n])
  BY <1>1, HandOverKeepsIds DEF IdsKept
<1>3. PICK i \in 1..Len(cbs[n]) : cb = cbs'[n][i]
  BY <1>2 DEF On
<1>4. CASE n \notin ns
  BY <1>3, <1>4 DEF HandOver, On
<1>5. CASE n \in ns
  <2>1. PICK b \in CallbackRecords : b = cbs[n][i] /\ b \in On(n)
    BY <1>1 DEF On
  <2>2. cb = AddChanges(b, changes[n])
    BY <1>1, <1>3, <1>5, <2>1 DEF HandOver
  <2>3. AfterHandOver(b, cb, changes[n])
    BY <2>2 DEF CallbackRecords, AddChanges, AfterHandOver
  <2> QED
    BY <1>5, <2>1, <2>3
<1> QED
  BY <1>4, <1>5

\* A handover adds what comes next for each callback, or what it need not be told.
LEMMA HandOverFits ==
    ASSUME BaseInv, RunInv, AllFit, HandOverSkip \/ HandOverAll
    PROVE  AllFit'
<1>1. PICK ns \in SUBSET Notifiers : \E v : HandsOver(ns, v)
  BY HandsOverAll
<1>2. PICK v : HandsOver(ns, v)
  BY <1>1
<1>3. /\ LoopInv /\ file \in Nat /\ ver \in 1..file /\ nver \in [Notifiers -> Nat]
      /\ \A n \in Notifiers : nver[n] <= file
      /\ v \in 1..file /\ v = NextRun /\ HandOver(ns, v) /\ Working
      /\ v = IF Skipping THEN work.skip ELSE work.version
      /\ UNCHANGED <<file, ver, writing, pc, pack, alive, known, suppressed>>
      /\ skipVersion' \in {0, skipVersion} /\ ~Skipping'
      /\ Working' => work'.version = work.version
      /\ skipVersion \in Nat
  BY <1>2 DEF HandsOver, BaseInv, LoopInv, VersionTypes, SkipTypes, RunInv, OrderFits
<1>4. \A n \in Notifiers : /\ hasRun'[n] <=> n \in ns \/ hasRun[n]
                           /\ nver'[n] = IF n \in ns THEN v ELSE nver[n]
                           /\ Packed(n)' = Packed(n)
  BY <1>3 DEF HandOver, Packed
<1>5. ASSUME NEW n \in Notifiers, n \notin ns, NEW cb \in On(n)
      PROVE  CallbackFits(n, cb)'
  <2>1. CallbackFits(n, cb) /\ nver'[n] = nver[n] /\ (hasRun'[n] <=> hasRun[n])
    BY <1>4, <1>5 DEF AllFit
  <2>2. n \in alive => ~hasRun[n]
    BY <1>2, <1>5 DEF HandsOver
  <2>3. n \in alive => ~cb.initial /\ ~cb.skip /\ ~writing
    BY <2>1, <2>2 DEF CallbackFits, KnownFits, SkipFits, WriteFits
  <2>4. KnownFits(n, cb)' /\ TodoFits(n, cb)'
    BY <1>3, <1>4, <2>1 DEF CallbackFits, KnownFits, TodoFits
  <2>5. AccFits(n, cb)' /\ LagFits(n, cb)'
    BY <1>3, <1>4, <2>1, <2>3 DEF CallbackFits, AccFits, LagFits
  <2>6. WriteFits(n, cb)' /\ SkipFits(n, cb)'
    BY <1>3, <2>3 DEF WriteFits, SkipFits
  <2> QED
    BY <2>4, <2>5, <2>6 DEF CallbackFits
<1>6. ASSUME NEW n \in Notifiers, n \in ns, NEW b \in On(n), NEW cb,
             cb.id = b.id, cb.todo = b.todo, cb.initial = b.initial, ~cb.skip,
             cb.acc = IF b.skip THEN b.acc ELSE b.acc \cup changes[n]
      PROVE  CallbackFits(n, cb)'
  <2>1. /\ CallbackFits(n, b) /\ known[b.id] \in Nat /\ nver[n] \in Nat /\ have[n]
        /\ nver'[n] = v /\ hasRun'[n] /\ (hasRun[n] => nver[n] <= v)
        /\ Packed(n)' = Packed(n)
    BY <1>2, <1>3, <1>4, <1>6, OnTypes DEF AllFit, HandsOver
  <2>2. n \in alive => changes[n] = IF hasRun[n] THEN nver[n]+1 .. v ELSE {}
    BY <1>2, <2>1 DEF HandsOver
  <2>3. /\ Packed(n) => hasRun[n] /\ ver <= nver[n]
        /\ b.initial => hasRun[n] /\ known[b.id] <= nver[n]
    BY <2>1 DEF Packed, RunInv, StageFits, CallbackFits, KnownFits
  <2>4. ASSUME NEW k \in Int, k <= nver[n], Covers(b.acc, k, nver[n], suppressed[b.id]),
               n \in alive, hasRun[n]
        PROVE  Covers(cb.acc, k, v, suppressed[b.id])
    <3>1. CASE b.skip
      <4>1. nver[n]+1 .. v \subseteq suppressed[b.id]
        BY <1>3, <2>1, <2>4, <3>1 DEF CallbackFits, SkipFits
      <4> QED
        BY <1>3, <1>6, <2>1, <2>4, <3>1, <4>1, CoversLater
    <3>2. CASE ~b.skip
      <4>1. cb.acc = b.acc \cup (nver[n]+1 .. v)
        BY <1>6, <2>2, <2>4, <3>2
      <4>2. Covers(nver[n]+1 .. v, nver[n], v, suppressed[b.id])
        BY DEF Covers
      <4> QED
        BY <1>3, <2>1, <2>4, <4>1, <4>2, CoversJoined
    <3> QED
      BY <3>1, <3>2
  <2>5. AccFits(n, cb)'
    <3>1. n \in alive /\ Packed(n) => Covers(cb.acc, ver, v, suppressed[b.id])
      BY <1>3, <2>1, <2>3, <2>4 DEF CallbackFits, AccFits
    <3>2. n \in alive /\ ~Packed(n) /\ b.initial => Covers(cb.acc, known[b.id], v, suppressed[b.id])
      BY <2>1, <2>3, <2>4 DEF CallbackFits, AccFits
    <3> QED
      BY <1>3, <1>6, <2>1, <3>1, <3>2 DEF AccFits
  <2>6. ASSUME n \in alive, b.acc = {}, hasRun[n], nver[n] = v
        PROVE  cb.acc = {}
    <3>1. changes[n] = {}
      BY <2>1, <2>2, <2>6
    <3> QED
      BY <1>6, <2>6, <3>1
  <2>7. KnownFits(n, cb)' /\ TodoFits(n, cb)'
    BY <1>3, <1>6, <2>1, <2>3 DEF CallbackFits, KnownFits, TodoFits
  <2>8. LagFits(n, cb)'
    <3> SUFFICES ASSUME n \in alive, b.initial, v < ver
                 PROVE  LagFits(n, cb)'
      BY <1>3, <1>6, <2>1 DEF LagFits
    <3>1. hasRun[n] /\ nver[n] <= v /\ nver[n] < ver
      BY <1>3, <2>1, <2>3
    <3>2. /\ b.acc = {} /\ Passes(n, v)
          /\ Passes(n, work.version)
          /\ skipVersion > 0 => Passes(n, skipVersion)
      BY <1>3, <2>1, <3>1 DEF CallbackFits, LagFits
    <3>3. nver[n] = v
      BY <1>3, <2>1, <3>1, <3>2 DEF Passes
    <3>4. cb.acc = {}
      BY <2>6, <3>1, <3>2, <3>3
    <3> QED
      BY <1>3, <2>1, <3>2, <3>3, <3>4 DEF LagFits, Passes
  <2>9. WriteFits(n, cb)'
    <3> SUFFICES ASSUME n \in alive, writing
                 PROVE  cb.acc = {} /\ v = file
      BY <1>3, <2>1 DEF WriteFits
    <3>1. b.acc = {} /\ hasRun[n] /\ nver[n] = file
      BY <2>1 DEF CallbackFits, WriteFits
    <3>2. v = file
      BY <1>3, <2>1, <3>1
    <3> QED
      BY <2>6, <3>1, <3>2
  <2>10. SkipFits(n, cb)'
    BY <1>6 DEF SkipFits
  <2> QED
    BY <2>5, <2>7, <2>8, <2>9, <2>10 DEF CallbackFits
<1>7. ASSUME NEW n \in Notifiers, NEW cb \in On(n)'
      PROVE  CallbackFits(n, cb)'
  <2>1. CASE n \notin ns
    BY <1>3, <1>5, <1>7, <2>1, HandOverOn
  <2>2. CASE n \in ns
    <3>1. PICK b \in On(n) : AfterHandOver(b, cb, changes[n])
      BY <1>3, <1>7, <2>2, HandOverOn
    <3> QED
      BY <1>6, <2>2, <3>1 DEF AfterHandOver
  <2> QED
    BY <2>1, <2>2
<1> QED
  BY <1>7 DEF AllFit

\* Removing a callback, the loop stays with those it has called.
LEMMA RemoveKeepsDone ==
    ASSUME LoopInv, LoopDone, NEW n \in Notifiers, NEW r, RemoveCallback(n, r)
    PROVE  LoopDone'
<1>1. /\ cbs \in [Notifiers -> Seq(CallbackRecords)] /\ idx \in [Notifiers -> Int]
      /\ Len(cbs[n]) \in Nat /\ DOMAIN cbs[n] = 1..Len(cbs[n])
      /\ pack \subseteq Notifiers
  BY ListTypes DEF LoopInv, CallbackTypes
<1>2. /\ r \in DOMAIN cbs[n] /\ cbs' = [cbs EXCEPT ![n] = RemoveAt(@, r)]
      /\ idx' = [idx EXCEPT ![n] = IF idx[n] >= r THEN idx[n] - 1 ELSE idx[n]]
      /\ pc = "idle" \/ inside # None
      /\ UNCHANGED <<cur, inside>>
  BY DEF RemoveCallback, IndexWithout, UserCode, main
<1>3. /\ Len(RemoveAt(cbs[n], r)) = Len(cbs[n]) - 1
      /\ \A i \in 1..(Len(cbs[n]) - 1) :
           RemoveAt(cbs[n], r)[i] = IF i < r THEN cbs[n][i] ELSE cbs[n][i + 1]
  BY <1>1, <1>2, RemoveAtProperties
<1>4. CASE cur = n /\ cur # None
  <2>1. inside # None
    BY <1>2, <1>4 DEF LoopInv, IndexFits
  <2>2. \A i \in 1..Len(cbs[n]) : i <= idx[n] => cbs[n][i].todo = {}
    BY <1>1, <1>4, <2>1 DEF LoopDone
  <2>3. ASSUME NEW i \in 1..Len(cbs'[n]), i <= idx'[n]
        PROVE  cbs'[n][i].todo = {}
    <3>1. i \in 1..(Len(cbs[n]) - 1) /\ cbs'[n][i] = IF i < r THEN cbs[n][i] ELSE cbs[n][i + 1]
      BY <1>1, <1>2, <1>3
    <3>2. idx[n] \in Int /\ idx'[n] = (IF idx[n] >= r THEN idx[n] - 1 ELSE idx[n]) /\ r \in 1..Len(cbs[n])
      BY <1>1, <1>2
    <3>3. CASE i < r
      <4>1. i \in 1..Len(cbs[n]) /\ i <= idx[n]
        BY <1>1, <2>3, <3>1, <3>2
      <4> QED
        BY <2>2, <3>1, <3>3, <4>1
    <3>4. CASE ~(i < r)
      <4>1. i + 1 \in 1..Len(cbs[n]) /\ i + 1 <= idx[n]
        BY <1>1, <2>3, <3>1, <3>2, <3>4
      <4> QED
        BY <2>2, <3>1, <3>4, <4>1
    <3> QED
      BY <3>3, <3>4
  <2>4. idx'[n] \in Int
    BY <1>1, <1>2
  <2> QED
    BY <1>2, <1>4, <2>3, <2>4 DEF LoopDone
<1>5. CASE cur # n /\ cur # None
  <2>1. cur \in Notifiers
    BY <1>1, <1>5 DEF LoopInv, IndexFits
  <2>2. cbs'[cur] = cbs[cur] /\ idx'[cur] = idx[cur]
    BY <1>1, <1>2, <1>5, <2>1
  <2> QED
    BY <1>2, <1>5, <2>2 DEF LoopDone
<1>6. CASE cur = None
  BY <1>2, <1>6 DEF LoopDone
<1> QED
  BY <1>4, <1>5, <1>6

\* Those the loop has passed have been told, at each of its steps.
LEMMA LoopDoneStep ==
    ASSUME OnlyReleases, BaseInv, RunInv, LoopDone, [Next]_vars
    PROVE  LoopDone'
<1>1. /\ LoopInv /\ CallbackTypes /\ VersionTypes
      /\ cbs \in [Notifiers -> Seq(CallbackRecords)] /\ idx \in [Notifiers -> Int]
      /\ cur # None => cur \in pack /\ cur \in Notifiers /\ pc = "deliver"
      /\ cur = None => inside = None
      /\ None \notin Notifiers
  BY NotificationsAssumption DEF BaseInv, LoopInv, CallbackTypes, IndexFits
<1>2. ASSUME UNCHANGED <<cbs, cur, inside, idx>>
      PROVE  LoopDone'
  BY <1>2 DEF LoopDone
<1>3. ASSUME NEW n \in Notifiers, Observe(n)
      PROVE  LoopDone'
  <2>1. CASE Register(n) \/ Unregister(n)
    BY <1>2, <2>1 DEF Register, Unregister, main, call
  <2>2. ASSUME NEW c \in Callbacks, AddCallback(n, c)
        PROVE  LoopDone'
    <3>1. n \notin pack /\ \A m \in Notifiers : m # n => cbs'[m] = cbs[m]
      BY <1>1, <2>2, Intended, ListsChange DEF NoAddDuringDelivery
    <3>2. UNCHANGED <<cur, inside, idx>>
      BY <2>2 DEF AddCallback, main
    <3>3. cur # None => cbs'[cur] = cbs[cur]
      BY <1>1, <3>1
    <3> QED
      BY <3>2, <3>3 DEF LoopDone
  <2> QED
    BY <1>1, <1>3, <2>1, <2>2, RemoveKeepsDone DEF Observe
<1>4. ASSUME NEW n \in Notifiers, StartCallbacks(n)
      PROVE  LoopDone'
  <2>1. cur' = n /\ idx'[n] = 1 /\ inside' = None
    BY <1>1, <1>4 DEF StartCallbacks
  <2> QED
    BY <2>1 DEF LoopDone
<1>5. ASSUME NEW n \in Notifiers, Call(n)
      PROVE  LoopDone'
  <2>1. cur = n /\ cur' = n /\ inside = None /\ n # None /\ idx[n] \in 1..Len(cbs[n])
    BY <1>1, <1>5, CallOne DEF Call
  <2>2. \A i \in 1..Len(cbs[n]) : i < idx[n] => cbs[n][i].todo = {}
    BY <2>1 DEF LoopDone
  <2>3. CASE HasNothingFor(cbs[n][idx[n]]) /\ idx' = [idx EXCEPT ![n] = @ + 1]
             /\ UNCHANGED <<cbs, inside, known>>
    <3>1. idx'[n] = idx[n] + 1 /\ idx[n] \in Int
      BY <1>1, <2>3
    <3>2. \A i \in 1..Len(cbs[n]) : i < idx[n] + 1 => cbs[n][i].todo = {}
      BY <2>1, <2>2, <2>3, <3>1 DEF HasNothingFor
    <3> QED
      BY <2>1, <2>3, <3>1, <3>2 DEF LoopDone
  <2>4. ASSUME NEW q \in CallbackRecords, Tells(n, q)
        PROVE  LoopDone'
    <3>1. /\ idx' = idx /\ q.todo = {} /\ Len(cbs'[n]) = Len(cbs[n])
          /\ \A i \in 1..Len(cbs[n]) : cbs'[n][i] = IF i = idx[n] THEN q ELSE cbs[n][i]
      BY <2>4 DEF Tells
    <3>2. \A i \in 1..Len(cbs'[n]) : i < idx[n] \/ i = idx[n] => cbs'[n][i].todo = {}
      BY <2>2, <3>1
    <3> QED
      BY <2>1, <3>1, <3>2 DEF LoopDone
  <2> QED
    BY <1>1, <1>5, <2>3, <2>4, CallOne
<1>6. ASSUME NEW n \in Notifiers, Return(n)
      PROVE  LoopDone'
  <2>1. /\ cur = n /\ cur' = n /\ inside # None /\ inside' = None /\ cbs' = cbs
        /\ idx'[n] = idx[n] + 1 /\ idx[n] \in Int /\ n # None
    BY <1>1, <1>6 DEF Return
  <2>2. \A i \in 1..Len(cbs[n]) : i < idx[n] + 1 => i < idx[n] \/ i = idx[n]
    BY <2>1
  <2> QED
    BY <2>1, <2>2 DEF LoopDone
<1>7. ASSUME NEW n \in Notifiers, EndCallbacks(n)
      PROVE  LoopDone'
  BY <1>7 DEF EndCallbacks, LoopDone
<1>8. CASE NotifyAvailable \/ NotifyAdvance \/ WaitEnds
  <2>1. pc # "deliver" /\ cur' = cur
    BY <1>8, Advances DEF NotifyAvailable, NotifyAdvance, WaitEnds
  <2> QED
    BY <1>1, <2>1 DEF LoopDone
<1>9. ASSUME NEW S \in SUBSET Callbacks, Suppress(S)
      PROVE  LoopDone'
  <2>1. pc # "deliver" /\ cur' = cur
    BY <1>9 DEF Suppress
  <2> QED
    BY <1>1, <2>1 DEF LoopDone
<1>10. CASE HandOverSkip \/ HandOverAll
  <2>1. PICK ns \in SUBSET Notifiers : \E v : HandOver(ns, v)
    BY <1>10, HandsOverAll DEF HandsOver
  <2>2. UNCHANGED <<cur, inside, idx>> /\ cbs' \in [Notifiers -> Seq(CallbackRecords)] /\ IdsKept
    BY <1>1, <1>10, TellsKeepIds DEF HandOverSkip, HandOverAll, HandOver, main
  <2>3. ASSUME NEW n \in Notifiers, NEW i \in 1..Len(cbs[n])
        PROVE  Len(cbs'[n]) = Len(cbs[n]) /\ cbs'[n][i].todo = cbs[n][i].todo
    <3>1. PICK b \in CallbackRecords : b = cbs[n][i]
      BY <1>1, ListTypes
    <3>2. cbs'[n][i] = b \/ cbs'[n][i] = AddChanges(b, changes[n])
      BY <1>1, <2>1, <3>1, ListTypes DEF HandOver
    <3>3. AddChanges(b, changes[n]).todo = b.todo
      BY DEF AddChanges, CallbackRecords
    <3> QED
      BY <2>2, <3>1, <3>2, <3>3 DEF IdsKept
  <2>4. ASSUME cur # None, NEW i \in 1..Len(cbs'[cur])
        PROVE  i \in 1..Len(cbs[cur]) /\ cbs'[cur][i].todo = cbs[cur][i].todo
    <3>1. Len(cbs'[cur]) = Len(cbs[cur])
      BY <1>1, <2>2, <2>4 DEF IdsKept
    <3> QED
      BY <1>1, <2>3, <2>4, <3>1
  <2> QED
    BY <2>2, <2>4 DEF LoopDone
<1>11. CASE NotifyInWrite \/ Refresh \/ Begin \/ Commit \/ Cancel \/ Other \/ UNCHANGED vars
  <2>1. UNCHANGED <<cbs, cur, inside, idx>>
    BY <1>11 DEF NotifyInWrite, Refresh, Begin, WaitFor, Commit, Cancel, Other, OtherCommits,
                 OtherSignals, main, call, vars
  <2> QED
    BY <1>2, <2>1
<1>12. CASE Take \/ RunToSkip \/ RunAll \/ Post
  <2>1. UNCHANGED <<cbs, cur, inside, idx>>
    BY <1>12 DEF Take, RunToSkip, RunAll, Post, main, call
  <2> QED
    BY <1>2, <2>1
<1> QED
  BY <1>3, <1>4, <1>5, <1>6, <1>7, <1>8, <1>9, <1>10, <1>11, <1>12
     DEF Next, Calls, Notify, Write, Worker

LEMMA ToldStep ==
    ASSUME OnlyReleases, BaseInv, RunInv, ToldInv, [Next]_vars
    PROVE  ToldInv'
<1>1. AllFit /\ LoopDone
  BY DEF ToldInv
<1>2. LoopDone'
  BY <1>1, LoopDoneStep
<1>3. \/ \E m \in Notifiers : Observe(m)
      \/ \E m \in Notifiers : StartCallbacks(m) \/ Return(m)
      \/ \E m \in Notifiers : Call(m)
      \/ \E m \in Notifiers : EndCallbacks(m)
      \/ NotifyAvailable \/ NotifyAdvance \/ WaitEnds
      \/ NotifyInWrite \/ Refresh \/ Begin \/ Cancel \/ OtherSignals
      \/ RunToSkip \/ RunAll \/ Post \/ UNCHANGED vars
      \/ Commit \/ OtherCommits \/ Take \/ HandOverSkip \/ HandOverAll
      \/ \E S \in SUBSET Callbacks : Suppress(S)
  BY DEF Next, Calls, Notify, Write, Other, Worker
<1>4. AllFit'
  BY <1>1, <1>3, ObserveFits, QuietFits, CallFits, EndFits, AdvanceFits, CommitFits, OtherFits,
     TakeFits, HandOverFits, SuppressFits
<1> QED
  BY <1>2, <1>4 DEF ToldInv

LEMMA ToldInit ==
    ASSUME Init
    PROVE  ToldInv
<1>1. cbs = [n \in Notifiers |-> << >>] /\ cur = None
  BY DEF Init
<1>2. \A n \in Notifiers : 1..Len(cbs[n]) = {}
  BY <1>1
<1> QED
  BY <1>1, <1>2 DEF ToldInv, AllFit, On, LoopDone

\* In a write, after its notifications, what was called knows what is before it.
LEMMA ToldInWrite ==
    ASSUME BaseInv, RunInv, ToldInv
    PROVE  WriteStartsTold
<1> SUFFICES ASSUME writing, pack = {}, NEW n \in Mine, NEW i \in DOMAIN cbs[n], cbs[n][i].initial
             PROVE  known[cbs[n][i].id]+1 .. ver \subseteq suppressed[cbs[n][i].id]
  BY DEF WriteStartsTold
<1>1. n \in Notifiers /\ n \in alive /\ LoopInv
  BY DEF Mine, Listed, BaseInv
<1>2. PICK cb \in On(n) : cb = cbs[n][i]
  BY <1>1, ListTypes DEF On, LoopInv
<1>3. CallbackFits(n, cb) /\ ~Packed(n)
  BY <1>1 DEF ToldInv, AllFit, Packed
<1>4. cb.acc = {} /\ nver[n] = file /\ ver = file
  BY <1>1, <1>3 DEF CallbackFits, WriteFits, RunInv, StageFits
<1>5. Covers({}, known[cb.id], ver, suppressed[cb.id])
  BY <1>1, <1>2, <1>3, <1>4 DEF CallbackFits, AccFits
<1> QED
  BY <1>2, <1>5 DEF Covers

(* A write starts when every callback ever called knows of everything before it,
   so that suppress_next_notification and the skip version leave out its own
   changes only (realm_coordinator.cpp:397-433, :846-856,
   collection_notifier.cpp:223-237, :319-334): for any collections, callbacks
   and versions. *)
THEOREM WritesStartTold ==
    ASSUME OnlyReleases
    PROVE  Spec => []WriteStartsTold
<1>1. Init => BaseInv /\ RunInv /\ ToldInv
  BY RunInit, ToldInit
<1>2. BaseInv /\ RunInv /\ ToldInv /\ [Next]_vars => BaseInv' /\ RunInv' /\ ToldInv'
  BY BaseStep, RunStep, ToldStep
<1>3. BaseInv /\ RunInv /\ ToldInv => WriteStartsTold
  BY ToldInWrite
<1> QED
  BY <1>1, <1>2, <1>3, PTL DEF Spec

(* Every call after the first tells exactly the changes from the version the
   callback last knew to the one the Realm is at, but for those it asked not to be
   told of: none is lost, told twice or of another version
   (collection_notifier.cpp:289-384, :406-423), for any collections, callbacks and
   versions. *)
THEOREM CallsTellAll ==
    ASSUME OnlyReleases
    PROVE  Spec => CallTellsAll
<1> DEFINE Tell == \A c \in Callbacks : inside' = c /\ inside # c /\ known[c] > 0 =>
                     LET cb == cbs[cur][idx[cur]] IN
                     /\ cb.todo \subseteq known[c]+1 .. ver
                     /\ (known[c]+1 .. ver) \ suppressed[c] \subseteq cb.todo
<1>1. Init => BaseInv /\ RunInv /\ ToldInv
  BY RunInit, ToldInit
<1>2. BaseInv /\ RunInv /\ ToldInv /\ [Next]_vars => BaseInv' /\ RunInv' /\ ToldInv'
  BY BaseStep, RunStep, ToldStep
<1>3. ASSUME BaseInv, RunInv, ToldInv, Next
      PROVE  Tell
  <2> SUFFICES ASSUME NEW c \in Callbacks, inside' = c, inside # c, known[c] > 0
               PROVE  LET cb == cbs[cur][idx[cur]] IN
                      /\ cb.todo \subseteq known[c]+1 .. ver
                      /\ (known[c]+1 .. ver) \ suppressed[c] \subseteq cb.todo
    OBVIOUS
  <2>1. LoopInv /\ c # None
    BY <1>3, NotificationsAssumption DEF BaseInv
  <2>2. PICK m \in Notifiers : Call(m)
    <3>1. NotifyAvailable \/ NotifyAdvance \/ WaitEnds => inside' = inside
      BY <1>3, Advances
    <3>2. \A m \in Notifiers : Return(m) => inside' = None
      BY DEF Return
    <3>3. (\E m \in Notifiers : StartCallbacks(m) \/ EndCallbacks(m) \/ Observe(m)) => inside' = inside
      BY DEF StartCallbacks, EndCallbacks, Observe, Register, AddCallback, RemoveCallback,
             Unregister, main
    <3>4. NotifyInWrite \/ Refresh \/ Write \/ Other \/ Worker => inside' = inside
      BY DEF NotifyInWrite, Refresh, WaitFor, Write, Begin, Commit, Cancel, Suppress, Other,
             OtherCommits, OtherSignals, Worker, Take, RunToSkip, HandOverSkip, RunAll, HandOverAll,
             Post, main
    <3> QED
      BY <1>3, <2>1, <3>1, <3>2, <3>3, <3>4 DEF Next, Calls, Notify
  <2>3. cur = m /\ Packed(m) /\ idx[m] \in 1..Len(cbs[m]) /\ cbs[m][idx[m]].id = c
    BY <2>1, <2>2, CallOne DEF Tells
  <2>4. PICK cb \in On(m) : cb = cbs[m][idx[m]]
    BY <2>3 DEF On
  <2>5. CallbackFits(m, cb)
    BY <1>3 DEF ToldInv, AllFit
  <2>6. Covers(cb.todo, known[c], ver, suppressed[c])
    BY <2>3, <2>4, <2>5 DEF CallbackFits, KnownFits, TodoFits
  <2> QED
    BY <2>3, <2>4, <2>6 DEF Covers
<1>5. BaseInv /\ RunInv /\ ToldInv /\ [Next]_vars => [Tell]_vars
  BY <1>3
<1> QED
  BY <1>1, <1>2, <1>5, PTL DEF Spec, CallTellsAll

-----------------------------------------------------------------------------
(* Types.  Each bound of TypeOK needs the stage the bound comes from: versions
   end at scope.top since whoever holds the write lock has room for one more,
   what is handed over ends at the worker's version, and a list is as long as
   there are callbacks that were added. *)
CallbacksOf(f) == [id : Callbacks, acc : SUBSET (1..f), todo : SUBSET (1..f),
                   initial : BOOLEAN, skip : BOOLEAN]
Added == {c \in Callbacks : known[c] # -1}

RealmTypes ==
    /\ scope \in Scopes /\ file \in 1..scope.top /\ ver \in 1..file
    /\ untold \in BOOLEAN /\ writing \in BOOLEAN /\ begun \in BOOLEAN
    /\ pc \in {"idle", "wait", "deliver", "commit"} /\ target \in 0..file
    /\ pack \subseteq Notifiers
    /\ cur \in Notifiers \cup {None} /\ inside \in Callbacks \cup {None}
    /\ wake \in BOOLEAN /\ posted \in BOOLEAN
Stages ==
    /\ pc = "wait" => target > 0
    /\ begun => pc = "wait"
    /\ writing \/ begun => file < scope.top
    /\ cur # None => pc = "deliver"
    /\ inside # None => cur # None
NotifierTypes ==
    /\ place \in [Notifiers -> {"none", "new", "main", "gone"}] /\ alive \subseteq Notifiers
    /\ hasRun \in [Notifiers -> BOOLEAN] /\ have \in [Notifiers -> BOOLEAN]
    /\ nver \in [Notifiers -> 0..file] /\ rows \in [Notifiers -> 0..file]
    /\ changes \in [Notifiers -> SUBSET (1..file)]
    /\ skipVersion \in 0..file
    /\ work \in [at : {"idle", "skip", "skipped", "run", "ran", "post"}, version : 0..file,
                 skip : 0..file, new : SUBSET Notifiers, old : SUBSET Notifiers]
ListsTyped ==
    /\ cbs \in [Notifiers -> Seq(CallbacksOf(file))]
    /\ known \in [Callbacks -> -1..file]
    /\ suppressed \in [Callbacks -> SUBSET (1..scope.top)]
CountTypes ==
    /\ idx \in [Notifiers -> 0..Cardinality(Callbacks)+1]
    /\ cnt \in [Notifiers -> Int]
    /\ \A n \in Notifiers : /\ Len(cbs[n]) <= Cardinality(Added)
                            /\ cnt[n] \in Len(cbs[n]) - Cardinality(Added) .. Len(cbs[n])
    /\ inside # None => idx[cur] <= Cardinality(Callbacks)
    /\ cur # None /\ inside = None => idx[cur] > 0
TypeInv == RealmTypes /\ Stages /\ NotifierTypes /\ ListsTyped /\ CountTypes

LEMMA TypeFacts ==
    ASSUME TypeInv
    PROVE  /\ scope \in Scopes /\ scope.top \in Nat /\ file \in Nat /\ ver \in Nat
           /\ 1 <= ver /\ ver <= file /\ file <= scope.top
           /\ None \notin Callbacks /\ None \notin Notifiers
           /\ Mine \subseteq Notifiers /\ Ready \subseteq Notifiers
           /\ \A n \in Notifiers : nver[n] \in Nat /\ nver[n] <= file
<1>1. /\ scope \in Scopes /\ file \in 1..scope.top /\ ver \in 1..file
      /\ nver \in [Notifiers -> 0..file]
  BY DEF TypeInv, RealmTypes, NotifierTypes
<1>2. scope.top \in Nat
  BY <1>1, NotificationsAssumption
<1>3. file \in Nat /\ file <= scope.top
  BY <1>1, <1>2
<1>4. ver \in Nat /\ 1 <= ver /\ ver <= file
  BY <1>1, <1>3
<1>5. \A n \in Notifiers : nver[n] \in Nat /\ nver[n] <= file
  BY <1>1, <1>3
<1>6. Mine \subseteq Notifiers /\ Ready \subseteq Notifiers
  BY DEF Mine, Ready, Listed
<1>7. None \notin Callbacks /\ None \notin Notifiers
  BY NotificationsAssumption
<1> QED
  BY <1>1, <1>2, <1>3, <1>4, <1>5, <1>6, <1>7

\* The callback that is called next is one of the list's.
LEMMA Called ==
    ASSUME TypeInv, NEW n \in Notifiers, Call(n)
    PROVE  /\ idx[n] \in 1..Len(cbs[n]) /\ idx[n] \in Nat /\ cnt[n] \in Int
           /\ idx[n] <= cnt[n]
           /\ cbs[n][idx[n]] \in CallbacksOf(file) /\ cbs[n][idx[n]].id \in Callbacks
           /\ ~HasNothingFor(cbs[n][idx[n]]) => inside' = cbs[n][idx[n]].id
<1>1. cur = n /\ inside = None /\ idx[n] <= cnt[n] /\ n # None
  BY TypeFacts DEF Call
<1>2. idx[n] \in 0..Cardinality(Callbacks)+1 /\ cnt[n] \in Int /\ idx[n] > 0
  BY <1>1 DEF TypeInv, CountTypes
<1>3. cbs[n] \in Seq(CallbacksOf(file)) /\ Len(cbs[n]) \in Nat
  BY DEF TypeInv, ListsTyped
<1>4. cnt[n] <= Len(cbs[n])
  <2>1. cnt[n] \in Len(cbs[n]) - Cardinality(Added) .. Len(cbs[n])
    BY DEF TypeInv, CountTypes
  <2> QED
    BY <1>2, <1>3, <2>1
<1>5. idx[n] \in 1..Len(cbs[n]) /\ idx[n] \in Nat
  BY <1>1, <1>2, <1>3, <1>4
<1>6. cbs[n][idx[n]] \in CallbacksOf(file)
  BY <1>3, <1>5
<1>7. cbs[n][idx[n]].id \in Callbacks
  BY <1>6 DEF CallbacksOf
<1> QED
  BY <1>1, <1>2, <1>5, <1>6, <1>7 DEF Call

\* What the main thread delivers is of a version the file has.
LEMMA DeliversVersion ==
    ASSUME TypeInv, NotifyAvailable \/ NotifyAdvance \/ WaitEnds
    PROVE  /\ \E P \in SUBSET Notifiers : \E v \in 1..file : Deliver(P, v)
           /\ \E P \in SUBSET Notifiers : Package(P)
           /\ pc # "deliver" /\ UNCHANGED <<scope, file, untold, wake, known, suppressed>>
           /\ writing' = begun \/ writing' = writing
           /\ posted' \in {FALSE, posted}
<1>1. /\ file \in 1..file /\ ver \in 1..file /\ Ready \subseteq Notifiers
      /\ \A P \in SUBSET Notifiers : P # {} => VersionOf(P) \in 0..file
  BY TypeFacts DEF VersionOf
<1>2. CASE NotifyAvailable
  <2> DEFINE P == {n \in Ready : nver[n] = ver}
  <2>1. P \in SUBSET Notifiers /\ Package(P) /\ Deliver(P, ver)
    BY <1>1, <1>2 DEF NotifyAvailable
  <2> HIDE DEF P
  <2> QED
    BY <1>1, <1>2, <2>1 DEF NotifyAvailable, told
<1>3. CASE NotifyAdvance
  <2>1. Package(Ready) /\ AdvanceWith(Ready)
    BY <1>3 DEF NotifyAdvance
  <2>2. ~(VersionOf(Ready) < ver) /\ Ready # {} => VersionOf(Ready) \in 1..file
    BY <1>1, TypeFacts
  <2>3. \E P \in SUBSET Notifiers : \E v \in 1..file : Deliver(P, v)
    BY <1>1, <2>1, <2>2 DEF AdvanceWith
  <2> QED
    BY <1>1, <1>3, <2>1, <2>3 DEF NotifyAdvance, told
<1>4. CASE WaitEnds
  <2> DEFINE P == pack \cap Ready
  <2>1. /\ P \in SUBSET Notifiers /\ Package(P) /\ pc = "wait"
        /\ IF P = {} \/ VersionOf(P) < target THEN Deliver({}, file)
                                            ELSE Deliver(P, VersionOf(P))
    BY <1>1, <1>4 DEF WaitEnds
  <2> HIDE DEF P
  <2>2. target \in Nat /\ target > 0
    BY <2>1 DEF TypeInv, RealmTypes, Stages
  <2>3. P # {} /\ ~(VersionOf(P) < target) => VersionOf(P) \in 1..file
    BY <1>1, <2>1, <2>2, TypeFacts
  <2>4. \E Q \in SUBSET Notifiers : \E v \in 1..file : Deliver(Q, v)
    BY <1>1, <2>1, <2>3
  <2> QED
    BY <1>4, <2>1, <2>4 DEF WaitEnds, told
<1> QED
  BY <1>2, <1>3, <1>4

\* The Realm and the calls of the main thread.
LEMMA RealmTypesStep ==
    ASSUME TypeInv, [Next]_vars
    PROVE  RealmTypes' /\ Stages'
<1> DEFINE Same == UNCHANGED <<scope, file, untold>>
<1>1. RealmTypes /\ Stages
  BY DEF TypeInv
<1>2. /\ scope.top \in Nat /\ file \in Nat /\ 1 <= file /\ file \in 0..file
      /\ None \notin Callbacks /\ None \notin Notifiers /\ Mine \subseteq Notifiers
  BY TypeFacts
<1>3. CASE NotifyAvailable \/ NotifyAdvance \/ WaitEnds
  <2>1. PICK P \in SUBSET Notifiers : \E v \in 1..file : Deliver(P, v)
    BY <1>3, DeliversVersion
  <2>2. PICK v \in 1..file : Deliver(P, v)
    BY <2>1
  <2>3. /\ pc # "deliver" /\ UNCHANGED <<scope, file, untold, wake>>
        /\ writing' = begun \/ writing' = writing
        /\ posted' \in {FALSE, posted}
    BY <1>3, DeliversVersion
  <2>4. /\ ver' \in 1..file /\ pack' \in SUBSET Notifiers /\ pc' \in {"idle", "deliver"}
        /\ target' = 0 /\ begun' = FALSE /\ UNCHANGED <<cur, inside>>
    BY <2>2 DEF Deliver
  <2>5. cur = None /\ inside = None
    BY <1>1, <2>3 DEF Stages
  <2>6. writing' \in BOOLEAN /\ (writing' => file < scope.top)
    BY <1>1, <2>3 DEF RealmTypes, Stages
  <2>7. wake' \in BOOLEAN /\ posted' \in BOOLEAN /\ untold' \in BOOLEAN
    BY <1>1, <2>3 DEF RealmTypes
  <2>8. file' = file /\ scope' = scope /\ scope \in Scopes /\ file \in 1..scope.top
    BY <1>1, <2>3 DEF RealmTypes
  <2>9. RealmTypes'
    <3>1. scope' \in Scopes /\ file' \in 1..scope'.top /\ ver' \in 1..file' /\ target' \in 0..file'
      BY <1>2, <2>4, <2>8
    <3>2. pc' \in {"idle", "wait", "deliver", "commit"} /\ begun' \in BOOLEAN
      BY <2>4
    <3>3. cur' \in Notifiers \cup {None} /\ inside' \in Callbacks \cup {None}
      BY <2>4, <2>5
    <3> QED
      BY <2>4, <2>6, <2>7, <3>1, <3>2, <3>3 DEF RealmTypes
  <2> QED
    BY <2>4, <2>5, <2>6, <2>8, <2>9 DEF Stages
<1>4. ASSUME NEW n \in Notifiers, Calls(n)
      PROVE  RealmTypes' /\ Stages'
  <2>1. CASE StartCallbacks(n)
    BY <1>1, <1>2, <2>1 DEF StartCallbacks, RealmTypes, Stages
  <2>2. CASE Call(n)
    <3>1. cur = n /\ UNCHANGED <<scope, file, untold, ver, writing, pc, target, begun, pack, cur, wake, posted>>
      BY <2>2 DEF Call
    <3>2. inside' \in Callbacks \cup {None}
      <4>1. CASE HasNothingFor(cbs[n][idx[n]])
        BY <1>1, <2>2, <4>1 DEF Call, RealmTypes
      <4>2. CASE ~HasNothingFor(cbs[n][idx[n]])
        BY <2>2, <4>2, Called
      <4> QED
        BY <4>1, <4>2
    <3> QED
      BY <1>1, <1>2, <3>1, <3>2 DEF RealmTypes, Stages
  <2>3. CASE Return(n)
    BY <1>1, <1>2, <2>3 DEF Return, RealmTypes, Stages
  <2>4. CASE EndCallbacks(n)
    BY <1>1, <1>2, <2>4 DEF EndCallbacks, RealmTypes, Stages
  <2> QED
    BY <1>4, <2>1, <2>2, <2>3, <2>4 DEF Calls
<1>5. ASSUME NEW n \in Notifiers, Observe(n)
      PROVE  RealmTypes' /\ Stages'
  <2>1. UNCHANGED <<scope, file, untold, main, posted>> /\ wake' \in BOOLEAN
    BY <1>1, <1>5 DEF Observe, Register, Unregister, AddCallback, RemoveCallback, RealmTypes, Wakes
  <2> QED
    BY <1>1, <2>1 DEF main, RealmTypes, Stages
<1>6. CASE Refresh
  BY <1>1, <1>2, <1>6 DEF Refresh, WaitFor, RealmTypes, Stages
<1>7. CASE Begin
  <2>1. CASE inside = None
    BY <1>1, <1>2, <1>7, <2>1 DEF Begin, AtTop, WaitFor, RealmTypes, Stages
  <2>2. CASE inside # None
    BY <1>1, <1>2, <1>7, <2>2 DEF Begin, RealmTypes, Stages
  <2> QED
    BY <2>1, <2>2
<1>8. CASE Commit
  <2>1. /\ writing /\ pc # "wait" /\ file' = file + 1 /\ ver' = file + 1 /\ writing' = FALSE
        /\ pc' \in {pc, "idle"} /\ (pc = "deliver" => pc' = pc) /\ wake' = TRUE
        /\ UNCHANGED <<scope, untold, target, begun, pack, cur, inside, posted>>
    BY <1>1, <1>8 DEF Commit, AtTop, Stages
  <2>2. file < scope.top /\ ~begun
    BY <1>1, <2>1 DEF Stages
  <2>3. file' \in 1..scope.top /\ ver' \in 1..file' /\ target' \in 0..file'
    BY <1>1, <1>2, <2>1, <2>2 DEF RealmTypes
  <2> QED
    BY <1>1, <1>2, <2>1, <2>2, <2>3 DEF RealmTypes, Stages
<1>9. CASE Cancel
  BY <1>1, <1>2, <1>9 DEF Cancel, AtTop, RealmTypes, Stages
<1>10. ASSUME NEW S \in SUBSET Callbacks, Suppress(S)
       PROVE  RealmTypes' /\ Stages'
  BY <1>1, <1>2, <1>10 DEF Suppress, RealmTypes, Stages
<1>11. CASE OtherCommits
  BY <1>1, <1>2, <1>11 DEF OtherCommits, main, RealmTypes, Stages
<1>12. CASE OtherSignals \/ NotifyInWrite
  <2>1. /\ UNCHANGED <<scope, file, main>> /\ untold' \in BOOLEAN /\ wake' \in BOOLEAN
        /\ posted' \in BOOLEAN
    BY <1>1, <1>12 DEF OtherSignals, NotifyInWrite, RealmTypes
  <2> QED
    BY <1>1, <2>1 DEF main, RealmTypes, Stages
<1>13. CASE Worker
  <2>1. UNCHANGED <<scope, file, untold, main>> /\ wake' \in BOOLEAN /\ posted' \in BOOLEAN
    BY <1>1, <1>13 DEF Worker, Take, RunToSkip, HandOverSkip, RunAll, HandOverAll, Post, RealmTypes
  <2> QED
    BY <1>1, <2>1 DEF main, RealmTypes, Stages
<1>14. CASE UNCHANGED vars
  BY <1>1, <1>14 DEF vars, RealmTypes, Stages
<1> QED
  BY <1>3, <1>4, <1>5, <1>6, <1>7, <1>8, <1>9, <1>10, <1>11, <1>12, <1>13, <1>14
  DEF Next, Notify, Write, Other

\* The notifiers and the worker.
LEMMA NotifierTypesStep ==
    ASSUME TypeInv, [Next]_vars
    PROVE  NotifierTypes'
<1>1. /\ NotifierTypes /\ file \in Nat /\ file \in 0..file /\ ver \in 0..file /\ 0 \in 0..file
      /\ Mine \subseteq Notifiers
  BY TypeFacts DEF TypeInv
<1>2. ASSUME UNCHANGED <<file, list, bg, skipVersion, work>>, have' \in [Notifiers -> BOOLEAN]
      PROVE  NotifierTypes'
  BY <1>1, <1>2 DEF list, bg, NotifierTypes
<1>3. have \in [Notifiers -> BOOLEAN]
  BY <1>1 DEF NotifierTypes
<1>4. CASE Notify \/ Refresh \/ WaitEnds \/ Begin \/ Cancel \/ OtherSignals \/ UNCHANGED vars
  <2>1. UNCHANGED <<file, list, bg, skipVersion, work, have>>
    <3>1. \A P : Package(P) => have' = have
      BY DEF Package
    <3>2. CASE NotifyAvailable
      BY <3>1, <3>2 DEF NotifyAvailable
    <3>3. CASE NotifyAdvance \/ WaitEnds
      BY <3>1, <3>3 DEF NotifyAdvance, WaitEnds
    <3>4. CASE NotifyInWrite \/ Refresh \/ Begin \/ Cancel \/ OtherSignals \/ UNCHANGED vars
      BY <3>4 DEF NotifyInWrite, Refresh, Begin, Cancel, OtherSignals, call, vars, list, bg
    <3> QED
      BY <1>4, <3>2, <3>3, <3>4 DEF Notify
  <2> QED
    BY <1>2, <1>3, <2>1
<1>5. ASSUME NEW S \in SUBSET Callbacks, Suppress(S)
      PROVE  NotifierTypes'
  BY <1>2, <1>3, <1>5 DEF Suppress
<1>6. ASSUME NEW n \in Notifiers, Calls(n)
      PROVE  NotifierTypes'
  BY <1>2, <1>3, <1>6 DEF Calls, StartCallbacks, Call, Return, EndCallbacks
<1>7. ASSUME NEW n \in Notifiers, Observe(n)
      PROVE  NotifierTypes'
  <2>1. CASE Register(n)
    BY <1>1, <2>1 DEF Register, call, NotifierTypes
  <2>2. CASE Unregister(n)
    BY <1>1, <2>2 DEF Unregister, bg, call, NotifierTypes
  <2>3. ASSUME NEW c \in Callbacks, AddCallback(n, c)
        PROVE  NotifierTypes'
    <3>1. have' \in [Notifiers -> BOOLEAN]
      BY <1>3, <2>3 DEF AddCallback
    <3> QED
      BY <1>2, <2>3, <3>1 DEF AddCallback
  <2>4. ASSUME NEW i \in 1..Cardinality(Callbacks), RemoveCallback(n, i)
        PROVE  NotifierTypes'
    <3>1. have' \in [Notifiers -> BOOLEAN]
      BY <1>3, <2>4 DEF RemoveCallback
    <3> QED
      BY <1>2, <2>4, <3>1 DEF RemoveCallback
  <2> QED
    BY <1>7, <2>1, <2>2, <2>3, <2>4 DEF Observe
<1>8. CASE Commit \/ OtherCommits
  <2>1. UNCHANGED <<list, bg, work, have>> /\ file' = file + 1
        /\ skipVersion' \in {skipVersion, file + 1}
    BY <1>8 DEF Commit, OtherCommits, call, SkipAfterCommit
  <2>2. 0..file \subseteq 0..file' /\ 1..file \subseteq 1..file' /\ file + 1 \in 0..file'
    BY <1>1, <2>1
  <2>3. nver' \in [Notifiers -> 0..file'] /\ rows' \in [Notifiers -> 0..file']
        /\ changes' \in [Notifiers -> SUBSET (1..file')]
    BY <1>1, <2>1, <2>2 DEF NotifierTypes, bg
  <2>4. /\ work' = [at |-> work.at, version |-> work.version, skip |-> work.skip,
                    new |-> work.new, old |-> work.old]
        /\ work.at \in {"idle", "skip", "skipped", "run", "ran", "post"}
        /\ work.version \in 0..file /\ work.skip \in 0..file
        /\ work.new \in SUBSET Notifiers /\ work.old \in SUBSET Notifiers
    BY <1>1, <2>1 DEF NotifierTypes
  <2>5. work' \in [at : {"idle", "skip", "skipped", "run", "ran", "post"}, version : 0..file',
                   skip : 0..file', new : SUBSET Notifiers, old : SUBSET Notifiers]
    BY <2>2, <2>4
  <2> QED
    BY <1>1, <2>1, <2>2, <2>3, <2>5 DEF NotifierTypes, list, bg
<1>9. CASE Worker
  <2>1. /\ work \in [at : {"idle", "skip", "skipped", "run", "ran", "post"}, version : 0..file,
                     skip : 0..file, new : SUBSET Notifiers, old : SUBSET Notifiers]
        /\ work.version \in 0..file /\ work.skip \in 0..file
        /\ work.old \subseteq Notifiers /\ Taken \subseteq Notifiers
        /\ place \in [Notifiers -> {"none", "new", "main", "gone"}]
        /\ skipVersion \in 0..file
    BY <1>1 DEF NotifierTypes, Taken
  <2>2. /\ PlacesCleaned(place) \in [Notifiers -> {"none", "new", "main", "gone"}]
        /\ \A q : SkipCleaned(place, q, skipVersion) \in 0..file
    BY <1>1, <2>1 DEF PlacesCleaned, SkipCleaned
  <2>3. ASSUME NEW ns, NEW v \in 0..file, RunAt(ns, v), file' = file,
               UNCHANGED <<list, have, skipVersion>>, work' \in {[work EXCEPT !.at = "skipped"],
                                                                [work EXCEPT !.at = "ran"]}
        PROVE  NotifierTypes'
    <3>1. rows' \in [Notifiers -> 0..file]
      BY <1>1, <2>3 DEF RunAt, NotifierTypes
    <3>2. \A n \in Notifiers : rows[n]+1 .. v \in SUBSET (1..file)
      BY <1>1, <2>3 DEF NotifierTypes
    <3>3. changes' \in [Notifiers -> SUBSET (1..file)]
      BY <1>1, <2>3, <3>2 DEF RunAt, NotifierTypes
    <3> QED
      BY <1>1, <2>1, <2>3, <3>1, <3>3 DEF RunAt, NotifierTypes, list
  <2>4. ASSUME NEW ns, NEW v \in 0..file, HandOver(ns, v)
        PROVE  /\ nver' \in [Notifiers -> 0..file] /\ hasRun' \in [Notifiers -> BOOLEAN]
               /\ changes' \in [Notifiers -> SUBSET (1..file)] /\ UNCHANGED <<rows, have>>
    BY <1>1, <2>4 DEF HandOver, NotifierTypes
  <2>5. CASE Take
    <3> DEFINE q == PlacesCleaned(place)
               new == {n \in Notifiers : q[n] = "new"}
               old == {n \in Notifiers : q[n] = "main"}
               v == SkipCleaned(place, q, skipVersion)
    <3>1. q \in [Notifiers -> {"none", "new", "main", "gone"}] /\ v \in 0..file
      BY <2>2
    <3>2. /\ place' = [n \in Notifiers |-> IF n \in new THEN "main" ELSE q[n]]
          /\ UNCHANGED <<file, alive, bg, have>>
          /\ IF new \cup old = {}
             THEN work' = [work EXCEPT !.at = "post"] /\ skipVersion' = v
             ELSE /\ work' = [at |-> IF v > 0 THEN "skip" ELSE "run", version |-> file,
                              skip |-> v, new |-> new, old |-> old]
                  /\ skipVersion' = 0
      BY <2>5 DEF Take, call
    <3>3. new \in SUBSET Notifiers /\ old \in SUBSET Notifiers
      OBVIOUS
    <3> HIDE DEF q, v, new, old
    <3>4. place' \in [Notifiers -> {"none", "new", "main", "gone"}]
      BY <3>1, <3>2
    <3>5. /\ work' \in [at : {"idle", "skip", "skipped", "run", "ran", "post"}, version : 0..file,
                        skip : 0..file, new : SUBSET Notifiers, old : SUBSET Notifiers]
          /\ skipVersion' \in 0..file
      BY <1>1, <2>1, <3>1, <3>2, <3>3
    <3> QED
      BY <1>1, <3>2, <3>4, <3>5 DEF NotifierTypes, bg
  <2>6. CASE RunToSkip
    BY <2>1, <2>3, <2>6 DEF RunToSkip, call
  <2>7. CASE RunAll
    BY <2>1, <2>3, <2>7 DEF RunAll, call
  <2>8. CASE HandOverSkip
    <3>1. HandOver(work.old, work.skip) /\ UNCHANGED <<file, list, skipVersion>>
          /\ work' = [work EXCEPT !.at = "run"]
      BY <2>8 DEF HandOverSkip
    <3>2. /\ nver' \in [Notifiers -> 0..file] /\ hasRun' \in [Notifiers -> BOOLEAN]
          /\ changes' \in [Notifiers -> SUBSET (1..file)] /\ UNCHANGED <<rows, have>>
      BY <2>1, <2>4, <3>1
    <3> QED
      BY <1>1, <2>1, <3>1, <3>2 DEF NotifierTypes, list
  <2>9. CASE HandOverAll
    <3>1. HandOver(Taken, work.version) /\ UNCHANGED <<file, alive>>
          /\ place' = PlacesCleaned(place) /\ skipVersion' = SkipCleaned(place, place', skipVersion)
          /\ work' = [at |-> "post", version |-> 0, skip |-> 0, new |-> {}, old |-> {}]
      BY <2>9 DEF HandOverAll
    <3>2. /\ nver' \in [Notifiers -> 0..file] /\ hasRun' \in [Notifiers -> BOOLEAN]
          /\ changes' \in [Notifiers -> SUBSET (1..file)] /\ UNCHANGED <<rows, have>>
      BY <2>1, <2>4, <3>1
    <3> QED
      BY <1>1, <2>2, <3>1, <3>2 DEF NotifierTypes
  <2>10. CASE Post
    <3>1. UNCHANGED <<file, list, bg, skipVersion, have>> /\ work' = [work EXCEPT !.at = "idle"]
      BY <2>10 DEF Post, call
    <3> QED
      BY <1>1, <2>1, <3>1 DEF NotifierTypes, list, bg
  <2> QED
    BY <1>9, <2>5, <2>6, <2>7, <2>8, <2>9, <2>10 DEF Worker
<1> QED
  BY <1>4, <1>5, <1>6, <1>7, <1>8, <1>9 DEF Next, Write, Other

\* A longer file has more callback records.
LEMMA MoreRecords ==
    ASSUME NEW f \in Nat, NEW g \in Nat, f <= g
    PROVE  CallbacksOf(f) \subseteq CallbacksOf(g)
<1>1. 1..f \subseteq 1..g
  OBVIOUS
<1> QED
  BY <1>1 DEF CallbacksOf

LEMMA ListFacts ==
    ASSUME TypeInv, NEW n \in Notifiers
    PROVE  /\ cbs[n] \in Seq(CallbacksOf(file)) /\ Len(cbs[n]) \in Nat
           /\ DOMAIN cbs[n] = 1..Len(cbs[n])
           /\ \A i \in DOMAIN cbs[n] : /\ cbs[n][i] \in CallbacksOf(file)
                                       /\ cbs[n][i].id \in Callbacks
                                       /\ cbs[n][i].acc \in SUBSET (1..file)
                                       /\ cbs[n][i].todo \in SUBSET (1..file)
<1>1. cbs[n] \in Seq(CallbacksOf(file))
  BY DEF TypeInv, ListsTyped
<1>2. \A i \in DOMAIN cbs[n] : cbs[n][i] \in CallbacksOf(file)
  BY <1>1
<1> QED
  BY <1>1, <1>2 DEF CallbacksOf

\* Changed records are lists as long as before.
LEMMA RelistedTypes ==
    ASSUME TypeInv, NEW g, cbs' = [n \in Notifiers |-> g[n]],
           \A n \in Notifiers : /\ g[n] = [i \in DOMAIN cbs[n] |-> g[n][i]]
                                /\ \A i \in DOMAIN cbs[n] : g[n][i] \in CallbacksOf(file)
    PROVE  /\ cbs' \in [Notifiers -> Seq(CallbacksOf(file))]
           /\ \A n \in Notifiers : Len(cbs'[n]) = Len(cbs[n])
<1>1. ASSUME NEW n \in Notifiers
      PROVE  g[n] \in Seq(CallbacksOf(file)) /\ Len(g[n]) = Len(cbs[n])
  <2>1. cbs[n] \in Seq(CallbacksOf(file))
    BY DEF TypeInv, ListsTyped
  <2>2. g[n] = [i \in DOMAIN cbs[n] |-> g[n][i]]
    BY Zenon
  <2>3. \A i \in DOMAIN cbs[n] : g[n][i] \in CallbacksOf(file)
    BY Zenon
  <2> QED
    <3>1. Len(cbs[n]) \in Nat /\ DOMAIN cbs[n] = 1..Len(cbs[n])
      BY ListFacts
    <3>2. g[n] = [i \in 1..Len(cbs[n]) |-> g[n][i]] /\ \A i \in 1..Len(cbs[n]) : g[n][i] \in CallbacksOf(file)
      BY <2>2, <2>3, <3>1
    <3> QED
      BY <3>1, <3>2
<1> QED
  BY <1>1

\* The callbacks that were added, of which there are no more than callbacks.
LEMMA AddedFacts ==
    ASSUME IsFiniteSet(Callbacks)
    PROVE  /\ IsFiniteSet(Added) /\ Cardinality(Added) \in Nat /\ Cardinality(Callbacks) \in Nat
           /\ Cardinality(Added) <= Cardinality(Callbacks)
BY FS_Subset, FS_CardinalityType DEF Added

\* What keeps the lists, or shortens none, keeps the counts.
LEMMA CountsKept ==
    ASSUME TypeInv, UNCHANGED <<idx, cnt, cur, inside>>, Added' = Added,
           \A n \in Notifiers : Len(cbs'[n]) = Len(cbs[n])
    PROVE  CountTypes'
BY DEF TypeInv, CountTypes

LEMMA PackageTypes ==
    ASSUME TypeInv, IsFiniteSet(Callbacks), NEW P \in SUBSET Notifiers, Package(P),
           UNCHANGED <<file, cur, inside, known>>
    PROVE  cbs' \in [Notifiers -> Seq(CallbacksOf(file))] /\ CountTypes'
<1> DEFINE g == [n \in Notifiers |-> IF n \notin P THEN cbs[n] ELSE
                   [i \in DOMAIN cbs[n] |-> [cbs[n][i] EXCEPT !.todo = cbs[n][i].acc, !.acc = {}]]]
<1>1. cbs' = g
  BY DEF Package
<1>2. ASSUME NEW n \in Notifiers
      PROVE  /\ g[n] = [i \in DOMAIN cbs[n] |-> g[n][i]]
             /\ \A i \in DOMAIN cbs[n] : g[n][i] \in CallbacksOf(file)
  <2>1. \A i \in DOMAIN cbs[n] : g[n][i] \in CallbacksOf(file)
    <3> SUFFICES ASSUME NEW i \in DOMAIN cbs[n]
                 PROVE  g[n][i] \in CallbacksOf(file)
      OBVIOUS
    <3>1. cbs[n][i] \in CallbacksOf(file) /\ cbs[n][i].acc \in SUBSET (1..file)
      BY ListFacts
    <3>2. [cbs[n][i] EXCEPT !.todo = cbs[n][i].acc, !.acc = {}] \in CallbacksOf(file)
      BY <3>1 DEF CallbacksOf
    <3> QED
      BY <3>1, <3>2
  <2>2. cbs[n] = [i \in DOMAIN cbs[n] |-> cbs[n][i]]
    BY ListFacts
  <2> QED
    BY <2>1, <2>2
<1>3. g = [n \in Notifiers |-> g[n]]
  OBVIOUS
<1> HIDE DEF g
<1>4. /\ cbs' \in [Notifiers -> Seq(CallbacksOf(file))]
      /\ \A n \in Notifiers : Len(cbs'[n]) = Len(cbs[n])
  BY <1>1, <1>2, <1>3, RelistedTypes
<1>5. Added' = Added
  BY DEF Added
<1>6. cnt' = [n \in Notifiers |-> IF n \in P THEN Len(cbs[n]) ELSE cnt[n]] /\ idx' = idx
  BY DEF Package
<1>7. CountTypes /\ \A n \in Notifiers : Len(cbs[n]) \in Nat
  BY ListFacts DEF TypeInv
<1>8. Cardinality(Added) \in Nat
  BY AddedFacts
<1>9. ASSUME NEW n \in Notifiers
      PROVE  /\ cnt'[n] \in Int
             /\ Len(cbs'[n]) <= Cardinality(Added)
             /\ cnt'[n] \in Len(cbs'[n]) - Cardinality(Added) .. Len(cbs'[n])
  <2>1. Len(cbs[n]) <= Cardinality(Added) /\ cnt[n] \in Int
        /\ cnt[n] \in Len(cbs[n]) - Cardinality(Added) .. Len(cbs[n])
    BY <1>7 DEF CountTypes
  <2>2. cnt'[n] = IF n \in P THEN Len(cbs[n]) ELSE cnt[n]
    BY <1>6
  <2> QED
    BY <1>4, <1>7, <1>8, <2>1, <2>2
<1>10. cnt' \in [Notifiers -> Int]
  BY <1>6, <1>9
<1> QED
  BY <1>4, <1>5, <1>6, <1>7, <1>9, <1>10 DEF CountTypes

\* Handing over adds changes the file has.
LEMMA HandOverTypes ==
    ASSUME TypeInv, NEW ns, NEW v, HandOver(ns, v), UNCHANGED <<file, main, told>>
    PROVE  cbs' \in [Notifiers -> Seq(CallbacksOf(file))] /\ CountTypes'
<1> DEFINE g == [n \in Notifiers |-> IF n \notin ns THEN cbs[n] ELSE
                   [i \in DOMAIN cbs[n] |-> AddChanges(cbs[n][i], changes[n])]]
<1>1. cbs' = g /\ UNCHANGED <<idx, cnt>>
  BY DEF HandOver
<1>2. ASSUME NEW n \in Notifiers
      PROVE  /\ g[n] = [i \in DOMAIN cbs[n] |-> g[n][i]]
             /\ \A i \in DOMAIN cbs[n] : g[n][i] \in CallbacksOf(file)
  <2>1. changes[n] \in SUBSET (1..file)
    BY DEF TypeInv, NotifierTypes
  <2>2. \A cb \in CallbacksOf(file) : AddChanges(cb, changes[n]) \in CallbacksOf(file)
    BY <2>1 DEF CallbacksOf, AddChanges
  <2>3. \A i \in DOMAIN cbs[n] : g[n][i] \in CallbacksOf(file)
    BY <2>2, ListFacts
  <2>4. cbs[n] = [i \in DOMAIN cbs[n] |-> cbs[n][i]]
    BY ListFacts
  <2> QED
    BY <2>3, <2>4
<1>3. g = [n \in Notifiers |-> g[n]]
  OBVIOUS
<1> HIDE DEF g
<1>4. /\ cbs' \in [Notifiers -> Seq(CallbacksOf(file))]
      /\ \A n \in Notifiers : Len(cbs'[n]) = Len(cbs[n])
  BY <1>1, <1>2, <1>3, RelistedTypes
<1>5. Added' = Added /\ UNCHANGED <<cur, inside>>
  BY DEF Added, told, main
<1> QED
  BY <1>1, <1>4, <1>5, CountsKept

LEMMA SuppressTypes ==
    ASSUME TypeInv, NEW S \in SUBSET Callbacks, Suppress(S)
    PROVE  ListsTyped' /\ CountTypes'
<1> DEFINE g == [n \in Notifiers |-> [i \in DOMAIN cbs[n] |->
                   [cbs[n][i] EXCEPT !.skip = @ \/ cbs[n][i].id \in S]]]
<1>1. cbs' = g /\ UNCHANGED <<scope, file, idx, cnt, cur, inside, known>>
  BY DEF Suppress
<1>2. ASSUME NEW n \in Notifiers
      PROVE  /\ g[n] = [i \in DOMAIN cbs[n] |-> g[n][i]]
             /\ \A i \in DOMAIN cbs[n] : g[n][i] \in CallbacksOf(file)
  <2>1. ASSUME NEW cb \in CallbacksOf(file)
        PROVE  [cb EXCEPT !.skip = @ \/ cb.id \in S] \in CallbacksOf(file)
    BY DEF CallbacksOf
  <2>2. \A i \in DOMAIN cbs[n] : g[n][i] \in CallbacksOf(file)
    BY <2>1, ListFacts
  <2> QED
    BY <2>2
<1>3. g = [n \in Notifiers |-> g[n]]
  OBVIOUS
<1> HIDE DEF g
<1>4. /\ cbs' \in [Notifiers -> Seq(CallbacksOf(file))]
      /\ \A n \in Notifiers : Len(cbs'[n]) = Len(cbs[n])
  BY <1>1, <1>2, <1>3, RelistedTypes
<1>5. Added' = Added
  BY <1>1 DEF Added
<1>6. CountTypes'
  BY <1>1, <1>4, <1>5, CountsKept
<1>7. ver + 1 \in 1..scope.top
  <2>1. writing /\ RealmTypes /\ Stages
    BY DEF Suppress, TypeInv
  <2>2. file < scope.top
    BY <2>1 DEF Stages
  <2> QED
    BY <2>2, TypeFacts
<1>8. suppressed' \in [Callbacks -> SUBSET (1..scope.top)]
  <2>1. suppressed \in [Callbacks -> SUBSET (1..scope.top)]
    BY DEF TypeInv, ListsTyped
  <2> QED
    BY <1>7, <2>1 DEF Suppress
<1> QED
  BY <1>1, <1>4, <1>6, <1>8 DEF TypeInv, ListsTyped

\* One more callback in one list, and one more that was added.
LEMMA AddCallbackTypes ==
    ASSUME TypeInv, IsFiniteSet(Callbacks),
           NEW n \in Notifiers, NEW c \in Callbacks, AddCallback(n, c)
    PROVE  ListsTyped' /\ CountTypes'
<1> DEFINE new == [id |-> c, acc |-> {}, todo |-> {}, initial |-> FALSE, skip |-> FALSE]
           K == Cardinality(Added)
<1>1. /\ known[c] = -1 /\ known' = [known EXCEPT ![c] = 0]
      /\ cbs' = [cbs EXCEPT ![n] = Append(@, new)]
      /\ UNCHANGED <<scope, file, cur, inside, idx, cnt, suppressed>>
  BY DEF AddCallback, NextOf, main
<1>2. ListsTyped /\ CountTypes /\ file \in Nat /\ 0 \in -1..file
  BY TypeFacts DEF TypeInv
<1>3. new \in CallbacksOf(file)
  BY DEF CallbacksOf
<1>4. /\ Append(cbs[n], new) \in Seq(CallbacksOf(file))
      /\ Len(Append(cbs[n], new)) = Len(cbs[n]) + 1
  BY <1>3, ListFacts
<1>5. /\ cbs \in [Notifiers -> Seq(CallbacksOf(file))]
      /\ known \in [Callbacks -> -1..file]
  BY <1>2 DEF ListsTyped
<1>6. ListsTyped'
  BY <1>1, <1>2, <1>4, <1>5 DEF ListsTyped
<1>7. /\ IsFiniteSet(Added) /\ K \in Nat /\ c \notin Added /\ Added' = Added \cup {c}
  BY <1>1, <1>5, AddedFacts DEF Added
<1>8. Cardinality(Added') = K + 1
  BY <1>7, FS_AddElement
<1>9. ASSUME NEW m \in Notifiers
      PROVE  /\ Len(cbs'[m]) <= K + 1
             /\ cnt'[m] \in Len(cbs'[m]) - (K + 1) .. Len(cbs'[m])
  <2>1. Len(cbs'[m]) = IF m = n THEN Len(cbs[m]) + 1 ELSE Len(cbs[m])
    BY <1>1, <1>4, <1>5
  <2>2. /\ Len(cbs[m]) <= K /\ cnt[m] \in Int /\ cnt' = cnt
        /\ cnt[m] \in Len(cbs[m]) - K .. Len(cbs[m])
    BY <1>1, <1>2 DEF CountTypes
  <2>3. Len(cbs[m]) \in Nat
    BY ListFacts
  <2> HIDE DEF K
  <2> QED
    BY <1>7, <2>1, <2>2, <2>3
<1> HIDE DEF K
<1>10. CountTypes'
  BY <1>1, <1>2, <1>8, <1>9 DEF CountTypes
<1> QED
  BY <1>6, <1>10

LEMMA RemoveCallbackTypes ==
    ASSUME TypeInv, IsFiniteSet(Callbacks), NEW n \in Notifiers,
           NEW r \in 1..Cardinality(Callbacks), RemoveCallback(n, r)
    PROVE  ListsTyped' /\ CountTypes'
<1> DEFINE K == Cardinality(Added)
<1>1. /\ cbs' = [cbs EXCEPT ![n] = RemoveAt(@, r)] /\ r \in DOMAIN cbs[n]
      /\ idx' = [idx EXCEPT ![n] = IndexWithout(n, r)] /\ cnt' = [cnt EXCEPT ![n] = @ - 1]
      /\ UNCHANGED <<scope, file, pc, cur, inside, known, suppressed>>
      /\ pc = "idle" \/ inside # None
  BY DEF RemoveCallback, UserCode, main, told
<1>2. ListsTyped /\ CountTypes /\ Stages
  BY DEF TypeInv
<1>3. /\ RemoveAt(cbs[n], r) \in Seq(CallbacksOf(file))
      /\ Len(RemoveAt(cbs[n], r)) = Len(cbs[n]) - 1
  BY <1>1, ListFacts, RemoveAtProperties
<1>4. cbs \in [Notifiers -> Seq(CallbacksOf(file))]
  BY <1>2 DEF ListsTyped
<1>5. ListsTyped'
  BY <1>1, <1>2, <1>3, <1>4 DEF ListsTyped
<1>6. K \in Nat /\ Added' = Added /\ Cardinality(Callbacks) \in Nat
  BY <1>1, AddedFacts DEF Added
<1>7. ASSUME NEW m \in Notifiers
      PROVE  /\ Len(cbs'[m]) <= K /\ cnt'[m] \in Int
             /\ cnt'[m] \in Len(cbs'[m]) - K .. Len(cbs'[m])
             /\ idx'[m] \in 0..Cardinality(Callbacks)+1 /\ idx'[m] <= idx[m]
  <2>1. Len(cbs'[m]) = IF m = n THEN Len(cbs[m]) - 1 ELSE Len(cbs[m])
    BY <1>1, <1>3, <1>4
  <2>2. /\ Len(cbs[m]) <= K /\ cnt[m] \in Int
        /\ cnt[m] \in Len(cbs[m]) - K .. Len(cbs[m])
        /\ cnt'[m] = IF m = n THEN cnt[m] - 1 ELSE cnt[m]
        /\ idx[m] \in 0..Cardinality(Callbacks)+1
        /\ idx'[m] = IF m = n THEN IndexWithout(n, r) ELSE idx[m]
    BY <1>1, <1>2 DEF CountTypes
  <2>3. Len(cbs[m]) \in Nat /\ r \in Nat /\ 1 <= r
    BY <1>6, ListFacts
  <2> HIDE DEF K
  <2>4. Len(cbs'[m]) <= K
    BY <1>6, <2>1, <2>2, <2>3
  <2>5. cnt'[m] \in Int /\ cnt'[m] \in Len(cbs'[m]) - K .. Len(cbs'[m])
    <3>1. CASE m = n
      BY <1>6, <2>1, <2>2, <2>3, <3>1
    <3>2. CASE m # n
      BY <1>6, <2>1, <2>2, <3>2
    <3> QED
      BY <3>1, <3>2
  <2>6. idx'[m] \in 0..Cardinality(Callbacks)+1 /\ idx'[m] <= idx[m]
    BY <1>6, <2>2, <2>3 DEF IndexWithout
  <2> QED
    BY <2>4, <2>5, <2>6
<1>8. idx' \in [Notifiers -> 0..Cardinality(Callbacks)+1] /\ cnt' \in [Notifiers -> Int]
  BY <1>1, <1>2, <1>7 DEF CountTypes
<1>9. inside' # None => idx'[cur'] <= Cardinality(Callbacks)
  <2>1. ASSUME inside # None
        PROVE  idx'[cur] <= Cardinality(Callbacks)
    <3>1. cur \in Notifiers /\ idx[cur] <= Cardinality(Callbacks)
      BY <1>2, <2>1 DEF TypeInv, RealmTypes, Stages, CountTypes
    <3>2. idx'[cur] <= idx[cur] /\ idx'[cur] \in 0..Cardinality(Callbacks)+1
      BY <1>7, <3>1
    <3>3. idx[cur] \in 0..Cardinality(Callbacks)+1
      BY <1>2, <3>1 DEF CountTypes
    <3> QED
      BY <1>6, <3>1, <3>2, <3>3
  <2> QED
    BY <1>1, <2>1
<1>10. cur' # None /\ inside' = None => idx'[cur'] > 0
  BY <1>1, <1>2 DEF Stages
<1> HIDE DEF K
<1>11. \A m \in Notifiers : /\ Len(cbs'[m]) <= Cardinality(Added')
                            /\ cnt'[m] \in Len(cbs'[m]) - Cardinality(Added') .. Len(cbs'[m])
  BY <1>6, <1>7 DEF K
<1> QED
  BY <1>5, <1>8, <1>9, <1>10, <1>11 DEF CountTypes

\* The loop over the callbacks of a notifier.
LEMMA CallsTypes ==
    ASSUME TypeInv, IsFiniteSet(Callbacks), NEW n \in Notifiers, Calls(n)
    PROVE  ListsTyped' /\ CountTypes'
<1> DEFINE K == Cardinality(Callbacks)
<1>1. ListsTyped /\ CountTypes /\ Stages /\ file \in Nat /\ n # None
      /\ None \notin Callbacks /\ ver \in -1..file /\ -1 \in -1..file
      /\ inside \in Callbacks \cup {None}
  BY TypeFacts DEF TypeInv, RealmTypes
<1>2. K \in Nat /\ Cardinality(Added) \in Nat /\ Cardinality(Added) <= K
  BY AddedFacts
<1>3. idx \in [Notifiers -> 0..K+1] /\ idx[n] \in Nat
  BY <1>1, <1>2 DEF CountTypes
<1> HIDE DEF K
<1>4. UNCHANGED <<scope, file, cnt, suppressed>>
  BY DEF Calls, StartCallbacks, Call, Return, EndCallbacks, told
<1>5. ASSUME UNCHANGED <<cbs, known>>
      PROVE  /\ ListsTyped'
             /\ cnt' \in [Notifiers -> Int]
             /\ \A m \in Notifiers : /\ Len(cbs'[m]) <= Cardinality(Added')
                                     /\ cnt'[m] \in Len(cbs'[m]) - Cardinality(Added') .. Len(cbs'[m])
  BY <1>1, <1>4, <1>5 DEF ListsTyped, CountTypes, Added
<1>6. CASE StartCallbacks(n)
  <2>1. /\ cur' = n /\ inside' = None /\ idx' = [idx EXCEPT ![n] = 1]
        /\ UNCHANGED <<cbs, known>>
    BY <1>1, <1>6 DEF StartCallbacks, Stages, told
  <2>2. idx' \in [Notifiers -> 0..K+1] /\ idx'[n] = 1
    BY <1>2, <1>3, <2>1
  <2> QED
    BY <1>5, <2>1, <2>2 DEF CountTypes, K
<1>7. CASE Return(n)
  <2>1. /\ cur' = n /\ cur = n /\ inside # None /\ inside' = None
        /\ idx' = [idx EXCEPT ![n] = @ + 1] /\ UNCHANGED <<cbs, known>>
    BY <1>7 DEF Return, told
  <2>2. idx[n] <= K
    BY <1>1, <2>1 DEF CountTypes, K
  <2>3. idx' \in [Notifiers -> 0..K+1] /\ idx'[n] > 0
    BY <1>2, <1>3, <2>1, <2>2
  <2> QED
    BY <1>5, <2>1, <2>3 DEF CountTypes, K
<1>8. CASE EndCallbacks(n)
  <2>1. /\ cur' = None /\ inside' = None /\ idx' = [idx EXCEPT ![n] = 0]
        /\ UNCHANGED <<cbs, known>>
    BY <1>8 DEF EndCallbacks, told
  <2>2. idx' \in [Notifiers -> 0..K+1]
    BY <1>2, <1>3, <2>1
  <2> QED
    BY <1>5, <2>1, <2>2 DEF CountTypes, K
<1>9. CASE Call(n)
  <2>1. /\ idx[n] \in 1..Len(cbs[n]) /\ idx[n] <= cnt[n]
        /\ cbs[n][idx[n]] \in CallbacksOf(file) /\ cbs[n][idx[n]].id \in Callbacks
    BY <1>9, Called
  <2>2. /\ cur' = n /\ cur = n /\ inside = None
    BY <1>9 DEF Call
  <2>3. Len(cbs[n]) \in Nat /\ Len(cbs[n]) <= Cardinality(Added)
    BY <1>1, ListFacts DEF CountTypes
  <2>4. idx[n] <= K /\ idx[n] > 0
    BY <1>2, <1>3, <2>1, <2>3
  <2>5. CASE HasNothingFor(cbs[n][idx[n]])
    <3>1. idx' = [idx EXCEPT ![n] = @ + 1] /\ inside' = None /\ UNCHANGED <<cbs, known>>
      BY <1>9, <2>2, <2>5 DEF Call
    <3>2. idx' \in [Notifiers -> 0..K+1] /\ idx'[n] > 0
      BY <1>2, <1>3, <2>4, <3>1
    <3> QED
      BY <1>5, <2>2, <3>1, <3>2 DEF CountTypes, K
  <2>6. CASE ~HasNothingFor(cbs[n][idx[n]])
    <3> DEFINE r == cbs[n][idx[n]]
               q == [[r EXCEPT !.initial = TRUE] EXCEPT !.todo = {}]
               t == [cbs[n] EXCEPT ![idx[n]] = q]
    <3>1. /\ cbs' = [cbs EXCEPT ![n][idx[n]].initial = TRUE, ![n][idx[n]].todo = {}]
          /\ inside' = r.id /\ known' = [known EXCEPT ![r.id] = ver] /\ idx' = idx
      BY <1>9, <2>6 DEF Call
    <3>2. q \in CallbacksOf(file)
      BY <2>1 DEF CallbacksOf
    <3>3. cbs \in [Notifiers -> Seq(CallbacksOf(file))] /\ known \in [Callbacks -> -1..file]
      BY <1>1 DEF ListsTyped
    <3>4. cbs' = [cbs EXCEPT ![n] = t]
      BY <2>1, <3>1, <3>3 DEF CallbacksOf
    <3>5. inside' \in Callbacks /\ inside' # None
      BY <1>1, <2>1, <3>1
    <3>6. known' \in [Callbacks -> -1..file] /\ Added \subseteq Added'
      BY <1>1, <2>1, <3>1, <3>3, TypeFacts DEF Added
    <3> HIDE DEF q
    <3>7. t \in Seq(CallbacksOf(file)) /\ Len(t) = Len(cbs[n])
      BY <2>1, <3>2, <3>3
    <3> HIDE DEF t
    <3>8. /\ cbs' \in [Notifiers -> Seq(CallbacksOf(file))]
          /\ \A m \in Notifiers : Len(cbs'[m]) = Len(cbs[m])
      BY <3>3, <3>4, <3>7
    <3>9. Cardinality(Added') \in Nat /\ Cardinality(Added) <= Cardinality(Added')
      <4>1. IsFiniteSet(Added')
        BY FS_Subset DEF Added
      <4> QED
        BY <3>6, <4>1, FS_Subset, FS_CardinalityType
    <3>11. ASSUME NEW m \in Notifiers
           PROVE  /\ Len(cbs'[m]) <= Cardinality(Added')
                  /\ cnt'[m] \in Len(cbs'[m]) - Cardinality(Added') .. Len(cbs'[m])
      <4>1. /\ Len(cbs[m]) <= Cardinality(Added) /\ cnt[m] \in Int
            /\ cnt[m] \in Len(cbs[m]) - Cardinality(Added) .. Len(cbs[m])
        BY <1>1 DEF CountTypes
      <4>2. Len(cbs[m]) \in Nat /\ Len(cbs'[m]) = Len(cbs[m]) /\ cnt' = cnt
        BY <1>4, <3>8, ListFacts
      <4> QED
        BY <1>2, <3>9, <4>1, <4>2
    <3>10. ListsTyped'
      BY <1>1, <1>4, <3>6, <3>8 DEF ListsTyped
    <3> QED
      BY <1>1, <1>4, <2>2, <2>4, <3>1, <3>5, <3>10, <3>11 DEF CountTypes, K
  <2> QED
    BY <2>5, <2>6
<1> QED
  BY <1>6, <1>7, <1>8, <1>9 DEF Calls

\* The lists of callbacks and what each was told.
LEMMA ListsStep ==
    ASSUME TypeInv, IsFiniteSet(Callbacks), [Next]_vars
    PROVE  ListsTyped' /\ CountTypes'
<1>1. ListsTyped /\ CountTypes /\ file \in Nat
  BY TypeFacts DEF TypeInv
<1>2. ASSUME UNCHANGED <<scope, cbs, known, suppressed, idx, cnt, cur, inside>>,
             file' \in {file, file + 1}
      PROVE  ListsTyped' /\ CountTypes'
  <2>1. CallbacksOf(file) \subseteq CallbacksOf(file') /\ -1..file \subseteq -1..file'
    BY <1>1, <1>2, MoreRecords
  <2>2. \A n \in Notifiers : cbs[n] \in Seq(CallbacksOf(file'))
    <3>1. ASSUME NEW n \in Notifiers
          PROVE  cbs[n] \in Seq(CallbacksOf(file'))
      <4>1. cbs[n] \in Seq(CallbacksOf(file)) /\ Len(cbs[n]) \in Nat
        BY ListFacts
      <4> HIDE DEF CallbacksOf
      <4> QED
        BY <2>1, <4>1
    <3> QED
      BY <3>1
  <2>3. ListsTyped'
    BY <1>1, <1>2, <2>1, <2>2 DEF ListsTyped
  <2>4. Added' = Added
    BY <1>2 DEF Added
  <2> QED
    BY <1>2, <2>3, <2>4, CountsKept
<1>3. ASSUME cbs' \in [Notifiers -> Seq(CallbacksOf(file))], UNCHANGED <<scope, file, known, suppressed>>
      PROVE  ListsTyped'
  BY <1>1, <1>3 DEF ListsTyped
<1>4. CASE NotifyAvailable \/ NotifyAdvance \/ WaitEnds
  <2>1. PICK P \in SUBSET Notifiers : Package(P)
    BY <1>4, DeliversVersion
  <2>2. UNCHANGED <<scope, file, known, suppressed>>
    BY <1>4, DeliversVersion
  <2>3. UNCHANGED <<cur, inside>>
    BY <1>4, DeliversVersion DEF Deliver
  <2> QED
    BY <1>3, <2>1, <2>2, <2>3, PackageTypes
<1>5. CASE NotifyInWrite \/ Refresh \/ Begin \/ Commit \/ Cancel \/ Other \/ UNCHANGED vars
  <2>1. UNCHANGED <<scope, cbs, known, suppressed, idx, cnt, cur, inside>>
    BY <1>5 DEF NotifyInWrite, Refresh, WaitFor, Begin, Commit, Cancel, Other, OtherCommits,
                OtherSignals, main, call, told, vars
  <2>2. file' \in {file, file + 1}
    BY <1>5 DEF NotifyInWrite, Refresh, Begin, Commit, Cancel, Other, OtherCommits, OtherSignals, vars
  <2> QED
    BY <1>2, <2>1, <2>2
<1>6. ASSUME NEW S \in SUBSET Callbacks, Suppress(S)
      PROVE  ListsTyped' /\ CountTypes'
  BY <1>6, SuppressTypes
<1>7. ASSUME NEW n \in Notifiers, Observe(n)
      PROVE  ListsTyped' /\ CountTypes'
  <2>1. CASE Register(n) \/ Unregister(n)
    BY <1>2, <2>1 DEF Register, Unregister, main, call, told
  <2> QED
    BY <1>7, <2>1, AddCallbackTypes, RemoveCallbackTypes DEF Observe
<1>8. CASE Worker
  <2>1. CASE Take \/ RunToSkip \/ RunAll \/ Post
    BY <1>2, <2>1 DEF Take, RunToSkip, RunAll, Post, main, call, told
  <2>2. CASE HandOverSkip \/ HandOverAll
    <3>1. UNCHANGED <<scope, file, main, told>> /\ \E ns, v : HandOver(ns, v)
      BY <2>2 DEF HandOverSkip, HandOverAll
    <3>2. UNCHANGED <<known, suppressed>>
      BY <3>1 DEF told
    <3> QED
      BY <1>3, <3>1, <3>2, HandOverTypes
  <2> QED
    BY <1>8, <2>1, <2>2 DEF Worker
<1> QED
  BY <1>4, <1>5, <1>6, <1>7, <1>8, CallsTypes DEF Next, Notify, Write

LEMMA TypesInit ==
    ASSUME IsFiniteSet(Callbacks), Init
    PROVE  TypeInv
<1>1. scope \in Scopes /\ scope.top \in Nat /\ 1 <= scope.top /\ file = 1
  <2>1. scope \in Scopes /\ file = 1
    BY DEF Init
  <2>2. \A s \in Scopes : s.top \in Nat \ {0}
    BY NotificationsAssumption
  <2> QED
    BY <2>1, <2>2
<1>2. RealmTypes /\ Stages
  <2>1. 1 \in 1..scope.top /\ 1 \in 1..1 /\ 0 \in 0..1
    BY <1>1
  <2>2. /\ file = 1 /\ untold = FALSE /\ ver = 1 /\ writing = FALSE /\ pc = "idle"
        /\ target = 0 /\ begun = FALSE /\ pack = {} /\ cur = None /\ inside = None
        /\ wake = FALSE /\ posted = FALSE
    BY DEF Init
  <2> QED
    BY <1>1, <2>1, <2>2 DEF RealmTypes, Stages
<1>3. NotifierTypes
  BY DEF Init, NotifierTypes
<1>4. Added = {} /\ Cardinality(Added) = 0 /\ Cardinality(Callbacks) \in Nat
  BY FS_EmptySet, FS_CardinalityType DEF Init, Added
<1>5. ListsTyped
  BY <1>1 DEF Init, ListsTyped
<1>6. CountTypes
  BY <1>4 DEF Init, CountTypes
<1> QED
  BY <1>2, <1>3, <1>5, <1>6 DEF TypeInv

LEMMA TypesTyped ==
    ASSUME IsFiniteSet(Callbacks), TypeInv
    PROVE  TypeOK
<1>1. /\ Cardinality(Callbacks) \in Nat /\ Cardinality(Added) \in Nat
      /\ Cardinality(Added) <= Cardinality(Callbacks)
  BY AddedFacts
<1>2. ASSUME NEW n \in Notifiers
      PROVE  /\ cnt[n] \in -Cardinality(Callbacks)..Cardinality(Callbacks)
             /\ \A i \in DOMAIN cbs[n] : cbs[n][i] \in CallbacksOf(file)
  <2>1. /\ Len(cbs[n]) <= Cardinality(Added) /\ cnt[n] \in Int
        /\ cnt[n] \in Len(cbs[n]) - Cardinality(Added) .. Len(cbs[n])
    BY DEF TypeInv, CountTypes
  <2>2. Len(cbs[n]) \in Nat /\ \A i \in DOMAIN cbs[n] : cbs[n][i] \in CallbacksOf(file)
    BY ListFacts
  <2> QED
    BY <1>1, <2>1, <2>2
<1>3. cnt \in [Notifiers -> -Cardinality(Callbacks)..Cardinality(Callbacks)]
      /\ idx \in [Notifiers -> 0..Cardinality(Callbacks) + 1]
  BY <1>2 DEF TypeInv, CountTypes
<1>4. work.at \in {"idle", "skip", "skipped", "run", "ran", "post"}
  BY DEF TypeInv, NotifierTypes
<1> QED
  BY <1>2, <1>3, <1>4 DEF TypeInv, RealmTypes, NotifierTypes, ListsTyped, TypeOK, CallbacksOf

(* Every variable has its type, for any collections, versions and uses of the
   interface, if there are finitely many callbacks: no version is beyond the
   file's, no index or count beyond the callbacks there are, though removing a
   callback lowers a count it may not be part of
   (collection_notifier.cpp:197-221, :361-384). *)
THEOREM NotificationTypes ==
    ASSUME IsFiniteSet(Callbacks)
    PROVE  Spec => []TypeOK
<1>1. Init => TypeInv
  BY TypesInit
<1>2. TypeInv /\ [Next]_vars => TypeInv'
  BY RealmTypesStep, NotifierTypesStep, ListsStep DEF TypeInv
<1>3. TypeInv => TypeOK
  BY TypesTyped
<1> QED
  BY <1>1, <1>2, <1>3, PTL DEF Spec
=============================================================================
