----------------------------- MODULE LosTrouvee -----------------------------
(***************************************************************************)
(* The app: the store of posted items, the two tabs that list them, the    *)
(* details screen, the modal forms, and the session of module Session.     *)
(*                                                                         *)
(* A view controller keeps what it read when it was loaded: the items, the *)
(* bar buttons that go with the session of that moment, whether the viewer *)
(* owns the item.  The session changes behind it, on FirebaseAuth's queue. *)
(*                                                                         *)
(* Each action is one event handler on the main thread, with everything it *)
(* calls.  A force-unwrapped nil or an object that has left the store ends *)
(* the process (Trap); Relaunch starts the app again at any time.          *)
(***************************************************************************)
EXTENDS Session, FiniteSets, SequencesExt

CONSTANTS
    MaxPosts,   \* bound on the number of Item objects ever created
    MaxForms    \* bound on the forms presented on top of each other

ASSUME BoundsAssumption == MaxPosts \in Nat /\ MaxForms \in Nat

Tabs == {"lost", "found"}

\* An object of the store.  Objects are created one after the other, so
\* timeAdded, the Date() of their creation, tells them apart.
Items == [timeAdded : 1..MaxPosts, found : BOOLEAN, userEmail : Users]

\* ItemsTableViewController: signedIn stands for the bar buttons (logout and
\* add, or login and register), swiped for the row that shows Delete, or 0.
Lists == [items : Seq(Items), isLostList : BOOLEAN, signedIn : BOOLEAN, swiped : Nat]

\* AddItemTableViewController pushed on a list.  row is the row selected in
\* the list; editing shows the Save and Found buttons; save enables Save.
DetailScreens == [row : Nat, item : Items, isLostItem : BOOLEAN,
                  editing : BOOLEAN, save : BOOLEAN]

\* A modal form; lost is isLostItem of an add form, navFromLostList of the
\* others, and save the state of an add form's Save button.
Forms == [kind : {"add", "login", "register"}, lost : BOOLEAN, save : BOOLEAN]

ASSUME NoneIsNoScreen == None \notin Lists /\ None \notin DetailScreens

VARIABLES
    db,       \* objects of type Item in the Realm
    clock,    \* number of Item objects created, the time of the last one
    tab,      \* selected tab
    list,     \* list[t]: root of tab t, or None before its view is loaded
    details,  \* details[t]: details screen on top of list[t], or None
    modals,   \* forms presented over the tabs, the topmost last
    alert,    \* the topmost form shows the alert of a failed call
    screen,   \* screen[c]: place in modals of the form that made call c, or 0
    crashed   \* the process has trapped

screenVars == <<tab, list, details, modals, alert, screen>>
appVars == <<db, clock, screenVars, crashed>>
vars == <<sessionVars, appVars>>

SignedIn == user # None

\* Slip: whoever is signed in will do.
OwnsAny(u, item) == u # None

\* The check of viewDidLoad and canEditRowAt.
Owns(u, item) == u # None /\ u = item.userEmail

-----------------------------------------------------------------------------
(* Screens *)

\* The objects of the kind tab t lists.
OfKind(t, store) == {i \in store : i.found = (t = "found")}

\* viewDidLoad of a list: the items of its kind in the order the store
\* enumerates them, which deletions shuffle.
Loaded(t, store, u) ==
    {[items |-> s, isLostList |-> t = "lost", signedIn |-> u # None, swiped |-> 0] :
        s \in SetToSeqs(OfKind(t, store))}

\* Slip: the list of the other tab survives.
NewTabsKept(first) == [list EXCEPT !["lost"] = first]

\* The tabs of a new tab bar controller: the first one has loaded its list.
NewTabs(first) == [t \in Tabs |-> IF t = "lost" THEN first ELSE None]

\* A new tab bar controller replaces everything: the first tab loads, the
\* other one waits until it is selected.
FreshRoot(store, u) ==
    /\ tab' = "lost"
    /\ \E first \in Loaded("lost", store, u) : list' = NewTabs(first)
    /\ details' = [t \in Tabs |-> None]
    /\ modals' = <<>>
    /\ alert' = FALSE
    /\ screen' = [c \in Calls |-> 0]

\* The forms are dismissed; calls they made outlive them.
DismissForms ==
    /\ modals' = <<>>
    /\ screen' = [c \in Calls |-> 0]

Trap == crashed' = TRUE /\ UNCHANGED <<db, clock, screenVars>>

Running == ~crashed
Touchable == Running /\ ~alert
OnTabs == Touchable /\ modals = <<>>
OnList == OnTabs /\ details[tab] = None
OnDetails == OnTabs /\ details[tab] # None
OnForm(kinds) == Touchable /\ modals # <<>> /\ Last(modals).kind \in kinds

\* prepare(for:) and unwindToItemList on the way back to the selected tab's
\* list: its isLostList is assigned and its bar buttons are refreshed.
Unwound(lost) == [list[tab] EXCEPT !.isLostList = lost, !.signedIn = SignedIn]

-----------------------------------------------------------------------------
(* Tabs and lists *)

\* Slip: the items are read whenever the list appears.
AlwaysUnloaded(t) == TRUE

\* The items are read in viewDidLoad, once, not each time the list appears.
Unloaded(t) == list[t] = None

SelectTab(t) ==
    /\ OnTabs
    /\ t # tab
    /\ tab' = t
    /\ IF Unloaded(t)
       THEN \E l \in Loaded(t, db, user) : list' = [list EXCEPT ![t] = l]
       ELSE UNCHANGED list
    /\ UNCHANGED <<db, clock, details, modals, alert, screen, crashed, sessionVars>>

\* Tapping the selected tab again pops to the list without an unwind.
PopDetails ==
    /\ OnDetails
    /\ details' = [details EXCEPT ![tab] = None]
    /\ UNCHANGED <<db, clock, tab, list, modals, alert, screen, crashed, sessionVars>>

\* A tap on a row: prepare(for:) hands over the item, and viewDidLoad of the
\* details screen decides what the viewer may do with it.
OpenDetails(r) ==
    /\ OnList
    /\ list[tab].swiped = 0
    /\ r \in DOMAIN list[tab].items
    /\ LET item == list[tab].items[r] IN
       IF item \in db
       THEN /\ details' = [details EXCEPT ![tab] =
                 [row |-> r, item |-> item, isLostItem |-> ~item.found,
                  editing |-> Owns(user, item), save |-> Owns(user, item)]]
            /\ UNCHANGED <<db, clock, tab, list, modals, alert, screen, crashed>>
       ELSE Trap
    /\ UNCHANGED sessionVars

\* A swipe reveals Delete if canEditRowAt allows it.
ShowDelete(r) ==
    /\ OnList
    /\ list[tab].swiped = 0
    /\ r \in DOMAIN list[tab].items
    /\ Owns(user, list[tab].items[r])
    /\ list' = [list EXCEPT ![tab].swiped = r]
    /\ UNCHANGED <<db, clock, tab, details, modals, alert, screen, crashed, sessionVars>>

HideDelete ==
    /\ OnList
    /\ list[tab].swiped # 0
    /\ list' = [list EXCEPT ![tab].swiped = 0]
    /\ UNCHANGED <<db, clock, tab, details, modals, alert, screen, crashed, sessionVars>>

\* Slip: the row stays.
RowKept(l, r) == [l EXCEPT !.swiped = 0]

\* items.remove(at:) and deleteRows.
RowRemoved(l, r) == [l EXCEPT !.items = RemoveAt(@, r), !.swiped = 0]

\* commit editingStyle: deletes without asking again who is signed in.
CommitDelete ==
    /\ OnList
    /\ list[tab].swiped # 0
    /\ LET r == list[tab].swiped IN
       IF list[tab].items[r] \in db
       THEN /\ db' = db \ {list[tab].items[r]}
            /\ list' = [list EXCEPT ![tab] = RowRemoved(@, r)]
            /\ UNCHANGED <<clock, tab, details, modals, alert, screen, crashed>>
       ELSE Trap
    /\ UNCHANGED sessionVars

\* Slips: adding, or logging in, is offered to everybody.
AddOffered(kind) == list[tab].signedIn => kind = "add"
LoginOffered(kind) == kind = "add" => list[tab].signedIn

\* The bar buttons of the list.
Offered(kind) == list[tab].signedIn <=> kind = "add"

\* Slip: the found list's segues are not told apart.
LostForm(kind) == [kind |-> kind, lost |-> TRUE, save |-> FALSE]

NewForm(kind) == [kind |-> kind, lost |-> tab = "lost", save |-> FALSE]

\* The bar buttons' segues; the tab whose button it is fixes the kind.
OpenForm(kind) ==
    /\ OnList
    /\ Offered(kind)
    /\ modals' = <<NewForm(kind)>>
    /\ UNCHANGED <<db, clock, tab, list, details, alert, screen, crashed, sessionVars>>

\* Slip: the screens stay as they are.
LogOutInPlace ==
    /\ OnList
    /\ list[tab].signedIn
    /\ SignOutUser \/ SignOutFails
    /\ UNCHANGED appVars

LogOut ==
    /\ OnList
    /\ list[tab].signedIn
    /\ SignOutUser \/ SignOutFails
    /\ FreshRoot(db, user')
    /\ UNCHANGED <<db, clock, crashed>>

-----------------------------------------------------------------------------
(* Forms *)

\* LoginToRegister and RegisterToLogin present the other form on top.
SwitchForm ==
    /\ OnForm({"login", "register"})
    /\ Len(modals) < MaxForms
    /\ modals' = Append(modals, [Last(modals) EXCEPT
          !.kind = IF @ = "login" THEN "register" ELSE "login"])
    /\ UNCHANGED <<db, clock, tab, list, details, alert, screen, crashed, sessionVars>>

\* Cancel on any form unwinds to the list beneath all of them.
CancelForm ==
    /\ OnForm({"add", "login", "register"})
    /\ list' = [list EXCEPT ![tab] = Unwound(Last(modals).lost)]
    /\ DismissForms
    /\ UNCHANGED <<db, clock, tab, details, alert, crashed, sessionVars>>

CancelDetails ==
    /\ OnDetails
    /\ list' = [list EXCEPT ![tab] = Unwound(details[tab].isLostItem)]
    /\ details' = [details EXCEPT ![tab] = None]
    /\ UNCHANGED <<db, clock, tab, modals, alert, screen, crashed, sessionVars>>

\* Text changes; the Save button follows the input and the session.
EditNew(valid) ==
    /\ OnForm({"add"})
    /\ modals' = [modals EXCEPT ![Len(modals)].save = valid /\ SignedIn]
    /\ UNCHANGED <<db, clock, tab, list, details, alert, screen, crashed, sessionVars>>

EditDetails(valid) ==
    /\ OnDetails
    /\ details[tab].editing
    /\ details' = [details EXCEPT ![tab].save = valid /\ SignedIn]
    /\ UNCHANGED <<db, clock, tab, list, modals, alert, screen, crashed, sessionVars>>

\* loginAction and signUpAction: the button stays enabled, and the form may
\* be left, while the call is under way.
SubmitForm(c, email) ==
    /\ OnForm({"login", "register"})
    /\ SubmitCall(c, IF Last(modals).kind = "login" THEN "signIn" ELSE "createUser", email)
    /\ screen' = [screen EXCEPT ![c] = Len(modals)]
    /\ UNCHANGED <<db, clock, tab, list, details, modals, alert, crashed>>

DismissAlert ==
    /\ Running
    /\ alert
    /\ alert' = FALSE
    /\ UNCHANGED <<db, clock, tab, list, details, modals, screen, crashed, sessionVars>>

-----------------------------------------------------------------------------
(* Saving.  prepare(for:) makes the object and unwindToItemList stores it. *)

\* Slips: the time of the last object instead of the next one; a found that is
\* not negated.
NewItemLate(isLostItem) ==
    [timeAdded |-> clock, found |-> ~isLostItem, userEmail |-> user]

NewItemSwapped(isLostItem) ==
    [timeAdded |-> clock + 1, found |-> isLostItem, userEmail |-> user]

NewItem(isLostItem) ==
    [timeAdded |-> clock + 1, found |-> ~isLostItem, userEmail |-> user]

\* Save on an add form.  The list is told that it is the lost list, and the
\* lost items are shown by inserting a row; a found item resets the root.
SaveNew ==
    /\ OnForm({"add"})
    /\ Last(modals).save
    /\ clock < MaxPosts
    /\ LET item == NewItem(Last(modals).lost)
           told == Unwound(TRUE)
       IN IF ~SignedIn THEN Trap
          ELSE /\ db' = db \cup {item}
               /\ clock' = clock + 1
               /\ IF told.isLostList /\ ~item.found
                  THEN /\ list' = [list EXCEPT ![tab] =
                              [told EXCEPT !.items = Append(@, item)]]
                       /\ DismissForms
                       /\ UNCHANGED <<tab, details, alert>>
                  ELSE FreshRoot(db', user)
               /\ UNCHANGED crashed
    /\ UNCHANGED sessionVars

\* Slip: the first row is taken for the selected one.
FirstRow == 1

\* indexPathForSelectedRow of the list beneath the details screen.
SelectedRow == details[tab].row

\* Save on a details screen: one transaction deletes the selected row's
\* object and adds a new one made from the fields.
SaveDetails ==
    /\ OnDetails
    /\ details[tab].save
    /\ clock < MaxPosts
    /\ LET shown == details[tab]
           item == NewItem(shown.isLostItem)
       IN IF /\ SignedIn
             /\ SelectedRow \in DOMAIN list[tab].items
             /\ list[tab].items[SelectedRow] \in db
          THEN /\ db' = (db \ {list[tab].items[SelectedRow]}) \cup {item}
               /\ clock' = clock + 1
               /\ list' = [list EXCEPT ![tab] = [Unwound(shown.isLostItem)
                              EXCEPT !.items[SelectedRow] = item]]
               /\ details' = [details EXCEPT ![tab] = None]
               /\ UNCHANGED <<tab, modals, alert, screen, crashed>>
          ELSE Trap
    /\ UNCHANGED sessionVars

\* Found on a details screen: the item of the screen leaves the store and the
\* selected row leaves the list.
FoundUnwind ==
    /\ OnDetails
    /\ details[tab].editing
    /\ LET shown == details[tab] IN
       IF shown.item \in db /\ SelectedRow \in DOMAIN list[tab].items
       THEN /\ db' = db \ {shown.item}
            /\ list' = [list EXCEPT ![tab] =
                  RowRemoved(Unwound(shown.isLostItem), SelectedRow)]
            /\ details' = [details EXCEPT ![tab] = None]
            /\ UNCHANGED <<clock, tab, modals, alert, screen, crashed>>
       ELSE Trap
    /\ UNCHANGED sessionVars

-----------------------------------------------------------------------------
(* The session behind the screens *)

\* Slip: success leaves the screens as they are.
CallbackInPlace ==
    /\ Running
    /\ DeliverReply
    /\ UNCHANGED appVars

\* A completion block of loginAction or signUpAction runs: success shows a new
\* root, failure an alert if the form that made the call is still on top.
Callback ==
    /\ Running
    /\ DeliverReply
    /\ LET reply == Head(replies) IN
       IF reply.ok THEN FreshRoot(db, user)
       ELSE /\ alert' = (alert \/ (modals # <<>> /\ screen[reply.call] = Len(modals)))
            /\ screen' = [screen EXCEPT ![reply.call] = 0]
            /\ UNCHANGED <<tab, list, details, modals>>
    /\ UNCHANGED <<db, clock, crashed>>

Decide(c) == Running /\ DecideCall(c) /\ UNCHANGED appVars

\* The process ends, by a trap or at any moment by the system, and the app is
\* launched again; what the Realm has committed is still there.
Relaunch ==
    /\ RelaunchSession
    /\ FreshRoot(db, user')
    /\ crashed' = FALSE
    /\ UNCHANGED <<db, clock>>

-----------------------------------------------------------------------------
Init ==
    /\ SessionInit
    /\ db = {}
    /\ clock = 0
    /\ tab = "lost"
    /\ \E first \in Loaded("lost", {}, None) :
          list = [t \in Tabs |-> IF t = "lost" THEN first ELSE None]
    /\ details = [t \in Tabs |-> None]
    /\ modals = <<>>
    /\ alert = FALSE
    /\ screen = [c \in Calls |-> 0]
    /\ crashed = FALSE

Next ==
    \/ \E t \in Tabs : SelectTab(t)
    \/ PopDetails
    \/ \E r \in 1..MaxPosts : OpenDetails(r)
    \/ \E r \in 1..MaxPosts : ShowDelete(r)
    \/ HideDelete
    \/ CommitDelete
    \/ \E kind \in {"add", "login", "register"} : OpenForm(kind)
    \/ LogOut
    \/ SwitchForm
    \/ CancelForm
    \/ CancelDetails
    \/ \E valid \in BOOLEAN : EditNew(valid)
    \/ \E valid \in BOOLEAN : EditDetails(valid)
    \/ \E c \in Calls, email \in Users : SubmitForm(c, email)
    \/ DismissAlert
    \/ SaveNew
    \/ SaveDetails
    \/ FoundUnwind
    \/ Callback
    \/ \E c \in Calls : Decide(c)
    \/ Relaunch

\* Requests end and the main queue is drained; users owe the app nothing.
Fairness ==
    /\ \A c \in Calls : WF_vars(Decide(c))
    /\ WF_vars(Callback)

Spec == Init /\ [][Next]_vars
FairSpec == Spec /\ Fairness

-----------------------------------------------------------------------------
(* Properties that hold whatever the constants are *)

\* The values of the app's state, the session's included.
TypeOK ==
    /\ SessionTypeOK
    /\ db \subseteq Items
    /\ clock \in 0..MaxPosts
    /\ tab \in Tabs
    /\ list \in [Tabs -> Lists \cup {None}]
    /\ details \in [Tabs -> DetailScreens \cup {None}]
    /\ modals \in Seq(Forms)
    /\ alert \in BOOLEAN
    /\ screen \in [Calls -> Nat]
    /\ crashed \in BOOLEAN

\* A list that is loaded shows every object of its kind that is in the store,
\* once, and nothing else.  No list is ever told of what happens elsewhere:
\* each handler must leave the cached arrays of both tabs right.
ListMirrorsStore ==
    \A t \in Tabs : list[t] # None =>
        /\ IsInjective(list[t].items)
        /\ ToSet(list[t].items) = OfKind(t, db)

\* The details screen shows the item of the row that is still selected
\* beneath it, so that Save and Found, which go by the row, change that item;
\* a row that shows Delete exists.
DetailsTrackRow ==
    \A t \in Tabs :
        /\ details[t] # None =>
              /\ list[t] # None
              /\ details[t].row \in DOMAIN list[t].items
              /\ list[t].items[details[t].row] = details[t].item
              /\ details[t].isLostItem = ~details[t].item.found
        /\ list[t] # None => list[t].swiped \in 0..Len(list[t].items)

\* isLostList is what the tab's storyboard scene needs it to be, whatever
\* forms have assigned it on their way back: the cell identifiers of the other
\* kind are not registered with its table.
ListKindMatchesTab ==
    /\ \A t \in Tabs : list[t] # None => list[t].isLostList = (t = "lost")
    /\ \A i \in DOMAIN modals : modals[i].lost = (tab = "lost")

\* Bar buttons that contradict the session do not stay: the success that
\* changed the session is queued, and will replace the screens.
StaleBarsAnnounced ==
    \A t \in Tabs :
        list[t] # None /\ list[t].signedIn # SignedIn
            => \E i \in DOMAIN replies : replies[i].ok

\* What a step removes from the store is what the viewer was looking at: the
\* item of the details screen, or of the row that shows Delete.
RemovesWhatIsShown ==
    [][\A i \in db \ db' :
          \/ details[tab] # None /\ i = details[tab].item
          \/ /\ details[tab] = None /\ list[tab].swiped # 0
             /\ i = list[tab].items[list[tab].swiped]]_vars

\* An edit replaces one object by another of the same kind: an item never
\* moves from the lost to the found list.
EditKeepsKind ==
    [][\A i \in db \ db', j \in db' \ db : j.found = i.found]_vars

-----------------------------------------------------------------------------
(* Properties of one call at a time: they need that no second sign-in or    *)
(* sign-up is sent while one is under way, which no code enforces.          *)

\* Login and sign-up forms are reached signed out and left by their success.
WaitingMeansSignedOut == \A c \in Calls : calls[c] # None => user = None

\* viewDidLoad's "correct user => show save button and enable editing" still
\* holds when the button is used, and so does canEditRowAt's check.
EditorsOwn ==
    \A t \in Tabs :
        /\ details[t] # None /\ details[t].editing
              => user = details[t].item.userEmail
        /\ list[t] # None /\ list[t].swiped # 0
              => user = list[t].items[list[t].swiped].userEmail

\* updateSaveButtonState calls its check of currentUser "purely an extra layer
\* of safety": a form that can be filled in is never up without a user.
FormHasUser ==
    /\ modals # <<>> /\ Last(modals).kind = "add" => SignedIn
    /\ \A t \in Tabs : details[t] # None /\ details[t].editing => SignedIn

\* No handler runs into a nil or into an object that has left the store.
NoCrash == ~crashed

\* Only the owner of an item removes or replaces it, and stays its owner.
OwnerOnlyChanges ==
    [][\A i \in db \ db' :
          /\ i.userEmail = user
          /\ \A j \in db' \ db : j.userEmail = i.userEmail]_vars

\* Bar buttons that contradict the session are replaced in the end.
BarsCatchUp ==
    \A t \in Tabs :
        (list[t] # None /\ list[t].signedIn # SignedIn)
            ~> (list[t] = None \/ list[t].signedIn = SignedIn)

-----------------------------------------------------------------------------
(* What a comment says and the code does not do *)

\* Item.swift documents timeAdded as the "time when lost or found item was
\* posted": an edit of an item does not change when it was posted.
EditKeepsTimeAdded ==
    [][\A i \in db \ db', j \in db' \ db : j.timeAdded = i.timeAdded]_vars
=============================================================================
