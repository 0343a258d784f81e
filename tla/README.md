# LosTrouvee in TLA+

LosTrouvee is an iOS app for lost and found items. A visitor sees two lists; a
user who is logged in posts items, edits them, and marks them as found. Items
are kept in a Realm on the device, accounts by FirebaseAuth. This directory
models the app together with the part of FirebaseAuth it uses, and the three
concurrent parts of Realm's ObjectStore that the app is built with (its source
is in the repository): sync sessions, change sets, and the background delivery
of notifications. The models are checked with TLC, and theorems about the app,
its session and the three parts of the ObjectStore are proved with TLAPS.

## The system

| Component | State | Operations | Correct when |
|---|---|---|---|
| FirebaseAuth (`Pods/FirebaseAuth/.../FIRAuth.m`) | current user, keychain, requests in flight, blocks on the main queue | signIn, createUser, signOut, currentUser, load at launch | memory and keychain agree, each call is answered once, no session without an account |
| `ItemsTableViewController` (two instances) | `items`, `isLostList`, bar buttons, row that shows Delete | load, open details, delete, unwind, logout, segues | the cached array is the store's content, buttons follow the session |
| `AddItemTableViewController` | `item`, `isLostItem`, editing, Save button | load, edit, Save, Found, cancel | only the owner edits, what changes is what is shown |
| `LoginTableViewController`, `RegisterTableViewController` | `navFromLostList`, the call under way | submit, switch to the other, cancel, completion block | one outcome per call, the list gets back its kind |
| `Item`, `Place`, `Contact` | fields | constructor | kind, owner and time are right |
| Realm | objects | add, delete, enumerate | deleted objects are not touched again |
| Storyboard | tabs, navigation stacks, modal forms | segues, unwinds, new root | |
| Validation, `Category`, `StringExtension` | none | pure functions | not modelled yet |
| ObjectStore: `SyncSession`, `SyncManager`, `SyncUser` | session states, external references, registry, the user's session lists | get session, close Realm, log in and out, tokens, errors, waits | a referenced session stays open, one per path, each callback is called once |
| ObjectStore: `IndexSet`, `CollectionChangeBuilder`, transaction log observer, `ResultsNotifier` | sets of positions, moves | insert, delete, move, modify, merge, calculate, finalise | the reported changes lead from the old collection to the new one |
| ObjectStore: `RealmCoordinator`, `CollectionNotifier`, `Realm` | notifiers and their versions, callbacks, skip version | observe, notify, refresh, write, the worker's run | every change is told once, writes start with everything told, no wait hangs |
| ObjectStore: schemas, migrations, signals, partial sync, metadata; realm-core | | | not modelled |
| `AppDelegate` | Core Data stack, never used | launch, terminate | |
| `ItemTableViewCell`, `ViewControllerExtension`, `Category.swift`, `DummyData`, `User`, `ViewController` | none | display, templates | not modelled |

The parts interact as follows. Every handler of the app runs on the main
thread. `signIn` and `createUser` put a block on FirebaseAuth's serial work
queue and return; each makes two requests, and the outcome changes the current
user on the work queue, *then* dispatches the completion block to the main
queue. Between the two the session has changed and no screen knows. A
completion block that reports success replaces the whole screen by a new tab
bar controller; so does a logout, and so does the posting of a found item.
The lists never observe the store: each holds an array filled when its view
loads, and every handler has to keep both arrays right.

Realm is a library of several threads. A commit by any Realm or process
signals the coordinator's worker, which runs the notifiers at a version it picks
under `m_notifier_mutex`, hands the results over, and signals the run loops;
`Realm::notify`, `refresh` and `begin_transaction` on the owner's thread package
what is ready, advance and call the callbacks. Meanwhile the transaction log
observer turns each transaction into change sets, which are merged until they
are delivered. The sync session of a Realm is shared through `SyncManager` and
listed by its `SyncUser`; threads of the app, the binding's token answers and the
sync client call into it, each under a lock of its own.

What is hard in the app is that a screen acts on what it read earlier: the owner of an
item, whether somebody is signed in, a row number, an array of objects. The list
of hazards with their lines is in `PROJECT.json`.

## Modules

| Module | Models |
|---|---|
| `Session` | what the app may rely on: one session, a keychain, calls, replies. The abstract specification |
| `FirebaseAuth` | how the library does it: two requests per call, the keychain, both queues, restarts. Implements `Session` |
| `LosTrouvee` | the app on top of `Session` (EXTENDS it and uses its actions as conjuncts) |
| `MCLosTrouvee` | the symmetry set for TLC |
| `SyncSession` | the ObjectStore's sync sessions of one user and one path, on several threads |
| `IndexSets`, `ChangeBuilder` | the operators of `IndexSet` and of `CollectionChangeBuilder` |
| `CollectionChanges` | a list, a table, a query or a sorted query under any changes, run by a notifier and checked against what really happened |
| `Notifications`, `MCNotifications` | the worker, the observing thread and other writers; its bounds |
| `ListLemmas` | what the sequence operators return (`SetToSeqs`, `RemoveAt`, appending, replacing a row) |
| `FirebaseAuthProofs`, `LosTrouveeProofs` | the theorems about the app, its session, and the library that keeps it |
| `SyncSessionProofs`, `SyncSerialProofs` | those about sync sessions: for any overlap of calls; for one call at a time |
| `ChangeProofs` | those about positions, change sets and the log of a table; about what a run of a list or a table and a merge make of them |
| `ResultsProofs` | those about what `calculate` makes of two result sets, and what any callback is told |
| `NotificationsProofs` | those about the delivery of notifications |

### Session

`user` is what `currentUser` returns, `saved` the keychain's user. A call is
open (`calls[c]`), then its callback is queued (`replies`), then the slot is
free again; slots bound the calls under way. `SignInNobody` is a real outcome:
`createUser` may report success with no user (see the findings).

### FirebaseAuth

One action per block of the work queue. `Updated` and `UpdateRefused` are the
outcomes of `updateCurrentUser`, which saves before it assigns and does neither
if nil replaces nil. `VerifyFails` includes the sign-up whose answer is lost
after the account was made. `Restart` drops both queues and loads the keychain,
which may be unreadable; the load is a block queued before any read of
`currentUser`, so it is part of the step. The refinement maps both phases of a
request to one open call.

### LosTrouvee

| Variable | Code |
|---|---|
| `db`, `clock` | the Items in the Realm; creation times, one per object |
| `tab` | selected tab |
| `list[t]` | the list controller of tab t, or None before it has loaded |
| `details[t]` | the details screen pushed on it; `row` is the selected row |
| `modals` | Add, Login, Register presented over the tabs; the last is on top |
| `alert`, `screen` | the alert of a failed call; which form made which call |
| `crashed` | a force-unwrapped nil or a deleted object was used |

| Action | Handler |
|---|---|
| `SelectTab`, `PopDetails` | tab bar (a tab loads once; a tap on the selected tab pops) |
| `OpenDetails` | segue ListToDetails and `AddItemTableViewController.viewDidLoad` |
| `ShowDelete`, `HideDelete`, `CommitDelete` | `canEditRowAt`, `commit editingStyle` |
| `OpenForm`, `SwitchForm`, `CancelForm` | the other segues and the cancel unwinds |
| `CancelDetails`, `EditNew`, `EditDetails` | cancelUnwind, `updateSaveButtonState` |
| `SaveNew`, `SaveDetails`, `FoundUnwind` | `prepare(for:)` of the form followed by `unwindToItemList` |
| `LogOut`, `SubmitForm`, `Callback`, `DismissAlert` | `logoutAction`, `loginAction`, `signUpAction` and their completion blocks |
| `Decide` | the library's queue, with `Session`'s outcomes |
| `Relaunch` | the end of the process at any moment and the next launch |

### SyncSession

`sess[s]` is one `SyncSession` object: the state, whether `m_session` exists and
is bound, the deferred close and commit, the queued and the handed-over
completion callbacks, and the upload completions that `Dying` waits for with
their death count. `registry` is `SyncManager::m_sessions` at the path, `live`
and `waiting` are the two (weak) lists of `SyncUser`. A thread is a stack of the
critical sections it has still to run; `mgr` and `usr` say who holds the two
mutexes that calls keep while they take another. `realm` and `borrow` are
external references: one goes through `external`/`release` frames when the
last of it drops. The binding has one refresh handle per path
(`RLMSyncUser.mm:65-75`), so the token request of a session replaces that of the
path's earlier session. The states' `enter_state`, `access_token`, `log_out`, `close`
and `revive` are functions of the session's record (`ToDying`, `Refreshed`,
`LoggedOut`, `Closed`, `Revived`).

### IndexSets, ChangeBuilder, CollectionChanges

An `IndexSet` is a set of positions; its chunks are left out. A change set is a
record of deletions, insertions, modifications and moves. `CollectionChanges`
applies operations to a real collection of entries and, next to it, to the
change set as the transaction log observer does; at the end of a transaction
`ParseComplete`, at a run `ResultsChanges` (for queries, from the old rows and
the new ones), and for runs that were not delivered `Merge`. Since the entries
are known, each property compares the set with what happened to them.

### Notifications

Every commit changes every collection, so a set of changes is a set of versions.

| Variable | Code |
|---|---|
| `file`, `untold`, `ver`, `writing` | latest version; a writer that has not signalled; the Realm's read version and stage |
| `pc`, `target`, `begun`, `pack` | the call of the main thread, what it waits for, the `NotifierPackage` |
| `cur`, `inside`, `idx`, `cnt` | the loop over callbacks, `m_callback_index` and `m_callback_count` |
| `place`, `alive` | `m_new_notifiers`, `m_notifiers`; whether a notifier has its Realm |
| `hasRun`, `nver`, `rows`, `changes` | `m_has_run`, `m_sg_version`, the version of `m_previous_rows`, `m_changes` |
| `cbs`, `have` | `m_callbacks` and `m_have_callbacks` |
| `work`, `skipVersion`, `wake`, `posted` | the worker's locals, the skip version, the two signals |
| `known`, `suppressed` | history: what each callback was told, what it asked to miss |

The worker is `Take` (first critical section), `RunToSkip`, `HandOverSkip`,
`RunAll`, `HandOverAll`, `Post`. The main thread is `Register`, `AddCallback`,
`RemoveCallback`, `Unregister`; `Notify*` (`Realm::notify` in a write, up to
date, behind); `Refresh`, `Begin` and `WaitEnds`; `Suppress`, `Commit`, `Cancel`;
and the steps of a delivery (`StartCallbacks`, `Call`, `Return`,
`EndCallbacks`), with the user's code running inside a callback.

`Uses` names uses of the interface that break its promises; see *What the
ObjectStore does not keep*.

What is assumed of code that is not in the repository:

- UIKit: an unwind from a modal form ends at the list of the selected tab and
  dismisses all forms; a form covers the screens beneath it; the selection of a
  list is cleared when it comes back; a new root view controller drops presented
  forms and alerts.
- Realm: the order in which objects are enumerated is arbitrary (deletions move
  the last object, `move_last_over`); a transaction in which an exception is
  thrown is not committed.
- A handler is one step with respect to the work queue. Handlers that read
  `currentUser` twice are thereby abstracted (see *Not modelled*).
- `Date()` differs between any two items, so `timeAdded` is used as identity.
- realm-core: versions, one writer at a time, advancing a reader to a version.
  The sync client: it reports uploads and answers waits, in any order with other
  calls. The binding: a token request is answered or lost.
- Validation is a free choice (`EditNew(valid)`); an item in the store is valid
  when it is opened.

## Runs

| Run | Instance | Result |
|---|---|---|
| `session` | 2 users, 2 calls | types, keychain, one reply per call, every call answered |
| `firebase` | 2 users, 2 calls | types, no session without account, refinement of `Session` with its fairness |
| `firebase_nobody` | 1 user, 1 call | violated: see finding 4 |
| `two_calls` | 2 users, 2 calls, 2 posts, 2 forms | screens agree with the store and each other |
| `one_call` | 2 users, 1 call, 3 posts, 2 forms | ownership, forms have users, no trap, removals of what is shown |
| `catch_up` | 2 users, 1 call, 1 post, 1 form | liveness of the bar buttons |
| `stale_owner`, `form_without_user` | 2 users, 2 calls, 1 post | violated: findings 1 and 2 |
| `edit_reposts` | 2 users, 1 call, 2 posts | violated: finding 3 |
| `sync_calls` | 2 threads and the client, 2 sessions, 1 wait, 1 commit; 3 calls one at a time or 2 overlapping | one session open and kept open by its references, commits announced, rest after log-out, each wait answered once |
| `changes` | collections of 3 entries, 4 operations, 2 runs | the change sets line up, moves are moves, no modification is lost |
| `notifications` | 1 collection, 2 callbacks, 3 versions; 2 collections, 1 callback, 2 versions | every change told once, nothing left behind, no wait hangs, the assertions hold |

Bounds. Two users are what it takes to have an owner and somebody else. Two
calls race; a third adds nothing the FIFO of replies does not show with two.
Two posts give a list of two rows, so that a wrong index shows; three let an
edit happen in a list of two (an edit creates an object, and `MaxPosts` counts
every object ever created). Two stacked forms show the switch between login and
register; more only repeat it. `MaxPosts` is a guard of `SaveNew` and
`SaveDetails`, `MaxForms` of `SwitchForm`; nothing else is cut off. Users and
calls are symmetric in the app (`AnyNames`); no liveness is checked with
symmetry. The properties of `two_calls`, and `RemovesWhatIsShown`, hold by the
theorems for all values of the constants.

`sync_calls`: two threads make every pair of calls overlap, the client's events
are a third party; two session objects are needed for a session that is
replaced while it dies. Three calls give close, get, close; with overlap two are
enough to block or race, and the properties that must hold regardless
(`AnsweredOnce`, `UploadedBeforeEnd`) are checked there. Errors that end the
user (`RacingErrors`) come in the overlapping part. `changes`: three entries are
the first, the last and one between; four operations in two runs give three in
one transaction and one to merge. `Swapped` lists the kinds in which whole rows
are swapped. `notifications`: three versions let a callback know one, be told the
next, and lose it at the third; two collections let a new notifier meet one that
has run. Names of notifiers and callbacks are used in a fixed order, as they are
interchangeable.

The other properties of `one_call` need a single call at a time, and are proved
for all values of the constants but the number of calls under way (`OneCall`).
The code does not enforce that: `stale_owner` and `form_without_user` check two
of them again with two calls and find them violated.

Fairness. `Decide` and the requests are weakly fair because each request of
the library has a time-out, and `Callback` because the main queue is drained
while the process runs. Nothing is assumed of the user. `CallsAnswered` and
`BarsCatchUp` count the end of the process as an answer: a relaunch forgets the
calls and reloads the screens.

`SyncSession`: threads run, so every frame of a stack is taken; the client
uploads and answers; a token that is asked for again and again is answered
(strong fairness, since requests can be lost), and the network returns.
`Notifications`: the worker runs when it is signalled (a wait signals it too), a
wait whose condition holds returns, callbacks return and a write is committed or
cancelled; strong fairness of `Realm::notify` says that the main thread comes
back to its run loop outside of writes. Nothing is assumed of other writers but
that one who committed signals it.

Each property of a passing run is broken by a slip in the code it depends on;
the slips are defined in the modules next to what they replace.

## Findings

1. *Stale owner* (`stale_owner`). The details screen decides in `viewDidLoad`
   who may edit, as its comments say (`AddItemTableViewController.swift:74`,
   `:79`). A login that is still under way can change the session afterwards.
2. *Form without user* (`form_without_user`). The comment at
   `AddItemTableViewController.swift:214` calls the check of `currentUser` an
   extra layer of safety. With two sign-ups under way a form can be open with
   nobody signed in; if Save is enabled, line 147 unwraps nil.
3. *An edit reposts* (`edit_reposts`). `Item.timeAdded` is documented as the
   time of posting (`Item.swift:22`); an edit makes a new object with a new time.
4. *Success for nobody* (`firebase_nobody`). `FIRAuth.h:575` says that
   `createUser` signs in on success. `FIRAuth.m:913` drops the error of the
   second request, and success is reported with nobody signed in.

## What the ObjectStore does not keep

The models hold more behaviours than the passing runs admit: a constant
excludes uses in which the code breaks its own promises. Changing the constant
in the cfg shows each.

- `SyncSession`, `Overlaps`: properties marked `~overlap` fail when calls
  overlap. `log_out` and `get_session` take the user's and the manager's lock in
  opposite orders and can block one another; `get_session` revives first and takes
  its reference later, so that a reference dropped in between closes the session
  under its new owner; a revival decided before a log-out takes effect after it;
  a session that went inactive can be revived before it is unregistered; two
  permission errors unregister twice. With `Overlaps = {TRUE}` and without
  `~overlap`, two racing calls refute `ReferenceKeepsOpenSerially` and
  `LoggedOutQuiesces`; for `OneOpenSession` it takes three (`MaxRacing = 3`). These
  hazards are thus described by the model and covered by no property.
- `SyncSession`, `Errors`: a server that refuses the user or the permission ends
  a session whose Realm is open; `sync_calls` leaves the two out of the part in
  which calls do not overlap, and `ReferenceKeepsOpenSerially` fails with them.
- `Notifications`, `Uses`:
  - `"observe late"`: a first callback is added to a collection that already ran
    without one. A run that saw no callbacks computes no changes; if the callback
    gets its first call at the older version before the handover, it never learns
    of the newer one. The comment at `collection_notifier.hpp:233` says that a
    stale `m_have_callbacks` is harmless.
  - `"add during delivery"`: adding and removing a callback in a delivery lowers
    `m_callback_count` though the callback was never counted; and the added one
    does not wake the worker.
  - `"write in callback"`: such a write does not wait for the notifiers, so
    callbacks lag behind when it starts (`shared_realm.cpp:647` calls this
    unavoidable).
  - `"release on other thread"`: the last reference to a collection is dropped on
    another thread while `begin_transaction` waits for its notifier. The worker
    drops the notifier, its version never moves, and the main thread waits for
    ever with the file's write lock. TLC reports the deadlock after seven states.
- `Notifications`, always: any handover clears `skip_next`, so a change asked to
  be suppressed can be told. `CallTellsAll` allows that; with `cb.todo` equal to
  the unsuppressed versions it is refuted.
- `CollectionChanges`, `Swapped = {"query"}`: `calculate_moves_unsorted` reports
  wrong moves if rows of a table are swapped; its comment excludes that.

## Proofs

The theorems hold for all sets of users and calls and for all bounds. They
assume what the modules' ASSUMEs say: the bounds are natural numbers and None
is none of the users, requests, screens, callbacks, notifiers, threads or
sessions. TLC evaluates these in every run.

- `LosTrouveeProofs`, first section: of `Session` by itself types, `SessionPersisted` and `OneReplyPerCall` are
  inductive together with the types; each step of `SessionNext` is a case.
- `FirebaseAuthProofs`: types; `AccountBeforeSession`, inductive because it
  includes the calls that are about to sign in; and `AuthImplementsSteps`: each
  step of the library is a step of `Session` or invisible to it.
- `LosTrouveeProofs`:
  - `AppUsesSession`: every step of the app is a step of the session or leaves
    it alone. `SessionPersisted` in the app follows.
  - `AppInvariant`: the inductive invariant `AppInv`. `ListMirrorsStore` is not
    inductive by itself. A row is removed by its number, so the details screen
    must hold the row's item (`DetailsOK`); a saved item is appended to the
    selected tab's list, so the form must be of that tab's kind (`FormsOK`); it
    must not be listed already, so no object is as young as the next one
    (`StoreOK`); and the selected tab must have loaded.
  - `ListsMirrorStore`, `DetailsTrackRows`, `ListKindsMatchTabs` are parts of it.
  - `StaleBarsAreAnnounced`: a decision that changes the session queues a
    success, a delivered success shows new screens, and a delivered failure
    leaves the successes behind it in the queue.
  - `RemovalsAreShown` and `EditsKeepKinds`: action properties, from `AppInv`.
  - One call at a time: `WaitersAreSignedOut`, `EditorsAreOwners`,
    `FormsHaveUsers`, `NeverCrashes`, `OwnersOnlyChange`, under the hypothesis
    `[]OneCall` (no two calls are under way at once), which no code enforces. Each
    rests on the others, so they are proved together (`OneCallInv`): the buttons
    of a list never claim a session that is not there (`ClaimsHold`), because
    while a call waits nobody is signed in and what it decides replaces the
    screens; a form is one that the list beneath it offers (`FormsOffered`); a
    details screen whose Save is enabled is being edited (`SaveIsEditing`).
- `NotificationsProofs`:
  - `SkipsCanRun`: there is a skip version only while the main list of notifiers
    is not empty, since cleaning up clears it with the last one (`SkipInv`).
  - `AllRunTogether` (`RunTogether`): a notifier that has run is in the main
    list, and while the worker runs it has the whole main list, the new ones
    apart, which have not run (`TogetherInv`).
  - `AssertionsAlwaysHold` (`AssertionsHold`): ids of callbacks are unique, and
    the count is the length of the list while a package is delivered (`LoopInv`);
    removing a callback moves both. Its hypothesis `NoAddDuringDelivery` excludes
    the use of the interface that breaks the loop (see *What the ObjectStore does
    not keep*); the other misuses are allowed.
  - `WritesStartTold` (`WriteStartsTold`) and `CallsTellAll` (`CallTellsAll`), if
    the interface is used as promised (`OnlyReleases`: a release on another thread
    is the only misuse allowed). `RunInv` orders the versions: a notifier's rows,
    its version, the Realm's, the file's. `ToldInv` says of each callback that
    what it has accumulated reaches from the version it knows to that of its
    notifier; that a callback which knows more than its Realm's version has
    nothing left to tell and the coming runs jump over it; and that the next
    handover to it hands over suppressed versions only. Without the last part a
    handover that clears `skip_next` would not be inductive.
  - `NotificationTypes` (`TypeOK`), for every use of the interface, if there are
    finitely many callbacks. That no version is beyond the last one needs who
    holds the write lock; that no list is longer than the callbacks there are
    needs that they are all different; and a count can go below the number of
    callbacks it was taken from, by removals.
- `SyncSessionProofs`: types (`TypesHold`), where a frame of a stack names a
  session except log-out's last; and `CallbacksAnsweredOnce` (`AnsweredOnce`).
  That a callback is answered once is not inductive: `WaitInv` adds that one not
  yet answered is in one place at most (a session's queue, the sync client, or a
  frame of one thread). Each action moves callbacks from one place to the next,
  or calls those it takes out. It holds with overlapping calls too. So does
  `EndsAfterUpload` (`UploadedBeforeEnd`): every death of a session leaves one
  completion with the sync client, no two with the same death count, and the
  one of the present death stands for all that the session was told (`UploadInv`).
- `SyncSerialProofs`: after calls that did not overlap (`~overlap`, as in the
  run), `OneSessionOpen`, `LogOutQuiesces` and `ActiveSessionsAreTold`. One
  actor's frames are then the system's, and `SerialInv` says which frames can lie
  on which: only the registered session is referred to, open, or being entered;
  one that is not registered only waits for a token that comes to nothing; the
  user's list holds the session that is up. `ReferenceKeepsOpen`
  (`ReferenceKeepsOpenSerially`) adds `KeptInv`: the session of an open Realm is
  up or about to be revived, and is in the waiting list after a log-out. Its
  hypothesis is that the server refuses neither the user nor the permission.
- `ChangeProofs`: lemmas that count the members of a set below a position give
  - `ShiftUndoesUnshift`, for every finite set of positions, and with it
    `ModificationsMatch`, for every change set.
  - `InsertsFollow`, `ErasesFollow`, `ListMovesFollow`, `StaleMovesFollow`,
    `MergesFollow`: an entry that is not deleted is followed by
    `shift(unshift(...))` to where it is after the call. Moving is proved for
    logs in which the end of a move is an insertion.
  - `TableRowsTraced`: for tables (`kind = "rows"`) the log of the module's
    specification tells where each row was. In the log of a table rows do not
    shift, which is what `TableLog` says: up to the smaller of the two sizes the
    insertions are the deletions. `AddedRowsTraced`,
    `MovedOverRowsTraced` and `SwappedRowsTraced` keep it, through rows that were
    moved before, and `ParsedRowsTraced` shows what `parse_complete` leaves.
- `ChangeProofs`, second part: what the callback of a list or a table (`kind`
  "list" or "rows") is told, for any size, any number of changes and runs.
  - The notion is `Leads(b, s, t)`: change set `b` leads from collection `s` to
    `t` when `s` without the deletions is `t` without the insertions, each move is
    one entry's, and no two moves share an end. Each call on the builder keeps it
    (`LeadsStep` and the lemmas of each call); `CleanUpLeads`, `ParsedLeads` and
    `MergeLeads` say it of `clean_up_stale_moves`, `parse_complete` and `merge`.
    The last follows the old moves through the new change set one at a time: each
    is continued by a move of the new one, dropped with its entry, or shifted.
  - The invariant (`Reported`, `AlwaysReported`): the accumulated change set leads
    from the callback's collection to that of the last run; the log leads from
    that one to the collection as it is (of a list; the log of a table traces its
    rows, as in `ChangeProofs`); and every touched entry is marked in one of the
    two, or is new. `ChangesLineUp` alone is not inductive: a deletion that is
    merged must find the entry it deletes, which takes the moves, and a moved entry
    deleted later takes that its move is a move.
  - `ListAndTableLineUp`, `ListAndTableMoves`, `ListAndTableModifications`,
    `ListAndTableAgree`: the run's four properties, for these two kinds.
  - `clean_up_stale_moves` and `merge` are loops. They are written as recursive
    functions; that such a function exists and obeys its equation is proved by the
    least step at which it would not, since the library's theorem on recursive
    definitions cannot be used by these provers.
- `ResultsProofs`: what the callback of a query or of sorted results (`kind`
  "query" or "sorted") is told, and with that what any callback is.
  - `calculate` compares the rows of the last run, where the log says they are now,
    with the rows there are. Its notion is `Accounts(c, old, next)`: what is not
    deleted is what is not inserted, in the same order, and moves are rows.
  - `TableOrderAccounts`: `calculate_moves_unsorted` goes through the rows once; its
    invariant (`PlacedTo`) says that the rows met so far that are no moves are in
    their order, the last of them where `expected` says. It asks that only
    candidates for a move have overtaken another row; `QuerySettled` shows that a
    query does so, since rows that are not swapped only fall (`Falls`).
  - `AnyOrderAccounts`: `calculate_moves_sorted` searches for longest matches
    recursively. The function is shown to exist by the size of its window; each
    window's blocks lie inside it and apart from each other (`MatchesApart`), so
    they pair equal rows in order (`BlocksPair`). That the matches are the longest
    is not needed: a shorter one only reports more.
  - The invariant (`ResultsReported`, `AlwaysResultsReported`): the rows of the last
    run are known and followed through the log; what has accumulated leads from the
    callback's results to those of the last run. An entry that leaves the results
    in one run and comes back in a later one is deleted and inserted, so a merged
    change set does not relate it to itself; the invariant gives entries
    numbers, a new one whenever a run reports the entry inserted (`Numbered`), and
    `MergeLeads` is applied to the numbers.
  - `ChangesAlwaysLineUp`, `MovesAreAlwaysMoves`, `ModificationsAlwaysReported` and
    `OldAndNewAlwaysAgree`: the four properties for all four kinds, under the
    hypothesis `"query" \notin Swapped`. The code takes that for granted: no
    code of the ObjectStore swaps rows of a table that objects live in, and with
    such swaps the model violates `ChangesLineUp` (see *What the ObjectStore does
    not keep*). `ChangesTypeCorrect` (`TypeOK`) has no hypothesis.
- `ListLemmas`: a list without duplicates that enumerates a set still does so
  when a row is removed, appended or replaced along with its element.

Only model-checked: liveness (`CallsAnswered`, `BarsCatchUp`, `WaitsAnswered`,
`WaitsEnd`, `EverythingTold`, the fairness half of `ImplementsSession`) and
freedom from deadlock, which are out of the prover's reach, as is ENABLED, and
the four runs that expect a violation. Every invariant and every action property
without fairness that a passing run checks is proved.

## Not modelled

- The contents of the form (validation, category names, slices of strings, the
  details screen's hidden fields); `Place` and `Contact`, which a deleted Item
  leaves behind in the store.
- Two reads of `currentUser` in one handler (`updateBarButtons`).
- Display: cells, dates, row heights, keyboard. Templates nothing uses: Core
  Data, `DummyData`, `User`, `ViewController`. The tests are empty templates.
- The alert of a call whose form has gone; the six-character passwords that the
  form refuses and the server accepts.
- FirebaseAuth's other sign-in providers, token refresh and listeners; the
  other pods.
- Of the ObjectStore: schemas and migrations, object accessors, thread-safe
  references, permissions, partial sync and its metadata, the signals between
  processes (two flags in `Notifications`), the work queue. Of notifications:
  errors opening the background Realm, key-value observation and
  before-callbacks, Realms without auto-refresh or read transaction, closing. Of
  change sets: changes per column, rows merged by primary key, schema changes,
  links (a modified row is modified itself), and how long a step takes. The app
  itself opens no synced Realm and observes nothing; these parts are linked into
  it and run for any Realm that does.
- Of change sets, the choice between equally long matches: the code takes the one
  with the fewest modified rows (`LongestMatches` takes the first). No property
  says which of two moves is reported.
- The runs a `ResultsNotifier` skips (`need_to_run`: no callbacks, and no need of
  background updates). A first run is never skipped (`m_wants_background_updates`
  is true until a table view was handed over and not used, `results.cpp:760`);
  whether a later one is matters only to a callback added afterwards, in the use
  `"observe late"`. The model always runs.
- `refresh_access_token` without a server URL, which returns early if none was
  ever given (`sync_session.cpp:790`): the binding passes one with every token.
- A token request that the server refuses, which logs the session out in the
  binding (`RLMSyncSessionRefreshHandle.mm`); the model's requests are answered or
  lost.
- realm-core. Most C++ lines of the repository are headers of this prebuilt
  library, whose implementation is not there: what the headers declare cannot be
  modelled from them, and the app's Swift code is a small part of the lines. A
  model of every line that has behaviour would still cover a small share.

## Plan

Done: the app with its session and their theorems, one call at a time included;
the ObjectStore's sync sessions, change sets and notifications, with their runs;
as theorems, every invariant and every action property that a passing run checks.

Next, in this order:

1. Change sets: links between objects (a row modified through a link) and the
   changes per column, which the log observer keeps next to those modelled.
2. Handlers that read the session twice: `updateBarButtons` and the details
   screen as two steps against the work queue.
3. The pure parts of the form (validation, category names, clamped slices),
   which tests reach as well.
