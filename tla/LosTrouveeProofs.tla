-------------------------- MODULE LosTrouveeProofs --------------------------
(***************************************************************************)
(* Theorems about module LosTrouvee, for any users, any number of calls    *)
(* under way at once, and any bounds on posts and forms.                   *)
(*                                                                         *)
(* The safety of the lists rests on one inductive invariant, AppInv, about *)
(* the app's own variables.  What the session contributes is proved first: *)
(* every step of the app is a step of Session or leaves the session alone. *)
(* The theorems about one call at a time rest on a second, OneCallInv, at  *)
(* the end.                                                                *)
(***************************************************************************)
EXTENDS LosTrouvee, ListLemmas

-----------------------------------------------------------------------------
(* The session: module Session by itself *)

\* Deciding a call keeps the types of the calls and of the queue.
LEMMA ReplyType ==
    ASSUME SessionTypeOK, NEW c \in Calls, NEW ok \in BOOLEAN, Reply(c, ok)
    PROVE  /\ calls[c] \in Requests
           /\ calls' \in [Calls -> Requests \cup {None}]
           /\ replies' \in Seq([call : Calls, ok : BOOLEAN])
BY NoneAssumption DEF SessionTypeOK, Reply

\* The steps keep the state well typed.
LEMMA SessionTypeStep ==
    ASSUME SessionTypeOK, [SessionNext]_sessionVars
    PROVE  SessionTypeOK'
<1>1. ASSUME NEW c \in Calls, NEW kind \in Kinds, NEW email \in Users,
             SubmitCall(c, kind, email)
      PROVE  SessionTypeOK'
  BY <1>1 DEF SessionTypeOK, SubmitCall, Requests
<1>2. ASSUME NEW c \in Calls, SignInCall(c)
      PROVE  SessionTypeOK'
  <2>1. calls[c].email \in Users
    BY <1>2, ReplyType DEF SignInCall, Requests
  <2> QED
    BY <1>2, <2>1, ReplyType DEF SessionTypeOK, SignInCall
<1>3. ASSUME NEW c \in Calls, RejectCall(c)
      PROVE  SessionTypeOK'
  BY <1>3, ReplyType DEF SessionTypeOK, RejectCall
<1>4. ASSUME NEW c \in Calls, SignInNobody(c)
      PROVE  SessionTypeOK'
  BY <1>4, ReplyType DEF SessionTypeOK, SignInNobody
<1>5. ASSUME DeliverReply
      PROVE  SessionTypeOK'
  BY <1>5, HeadTailProperties DEF SessionTypeOK, DeliverReply
<1>6. ASSUME RelaunchSession
      PROVE  SessionTypeOK'
  BY <1>6 DEF SessionTypeOK, RelaunchSession
<1>7. CASE SignOutUser \/ SignOutFails \/ UNCHANGED sessionVars
  BY <1>7 DEF SessionTypeOK, SignOutUser, SignOutFails, sessionVars
<1> QED
  BY <1>1, <1>2, <1>3, <1>4, <1>5, <1>6, <1>7 DEF SessionNext

\* Every reachable state is well typed.
THEOREM SessionTypes == SessionSteps => []SessionTypeOK
<1>1. SessionInit => SessionTypeOK
  BY DEF SessionInit, SessionTypeOK
<1> QED
  BY <1>1, SessionTypeStep, PTL DEF SessionSteps

\* The steps keep the signed-in user in the keychain.
LEMMA PersistedStep ==
    ASSUME SessionTypeOK, SessionPersisted, [SessionNext]_sessionVars
    PROVE  SessionPersisted'
<1>1. CASE \E c \in Calls : SignInCall(c) \/ RejectCall(c) \/ SignInNobody(c)
  BY <1>1 DEF SessionPersisted, SignInCall, RejectCall, SignInNobody
<1>2. CASE SignOutUser \/ SignOutFails \/ RelaunchSession
  BY <1>2 DEF SessionPersisted, SignOutUser, SignOutFails, RelaunchSession, sessionVars
<1>3. CASE \/ \E c \in Calls, kind \in Kinds, email \in Users : SubmitCall(c, kind, email)
           \/ DeliverReply \/ UNCHANGED sessionVars
  BY <1>3 DEF SessionPersisted, SubmitCall, DeliverReply, sessionVars
<1> QED
  BY <1>1, <1>2, <1>3 DEF SessionNext

\* Whoever is signed in is the user the keychain holds.
THEOREM SessionIsPersisted == SessionSteps => []SessionPersisted
<1>1. SessionInit => SessionPersisted
  BY DEF SessionInit, SessionPersisted
<1> QED
  BY <1>1, SessionTypes, PersistedStep, PTL DEF SessionSteps

\* The steps neither lose a callback nor queue a second one.
LEMMA OneReplyStep ==
    ASSUME SessionTypeOK, OneReplyPerCall, [SessionNext]_sessionVars
    PROVE  OneReplyPerCall'
<1>1. ASSUME NEW c \in Calls, NEW kind \in Kinds, NEW email \in Users,
             SubmitCall(c, kind, email)
      PROVE  OneReplyPerCall'
  BY <1>1 DEF OneReplyPerCall, SubmitCall, Free, SessionTypeOK
<1>2. ASSUME NEW c \in Calls, NEW ok \in BOOLEAN, Reply(c, ok)
      PROVE  OneReplyPerCall'
  <2> DEFINE n == Len(replies) + 1
  <2>1. /\ DOMAIN replies = 1..Len(replies)
        /\ DOMAIN replies' = 1..n
        /\ replies'[n] = [call |-> c, ok |-> ok]
        /\ \A i \in 1..Len(replies) : replies'[i] = replies[i]
    BY <1>2, AppendProperties DEF Reply, SessionTypeOK
  <2>2. \A i \in 1..Len(replies) : replies[i].call # c /\ calls'[replies[i].call] = None
    BY <1>2, <2>1 DEF OneReplyPerCall, Reply, SessionTypeOK
  <2>3. replies'[n].call = c /\ calls'[c] = None
    BY <1>2, <2>1 DEF Reply, SessionTypeOK
  <2>4. \A i \in 1..n : i = n \/ i \in 1..Len(replies)
    BY DEF SessionTypeOK
  <2>5. ASSUME NEW i \in 1..n, NEW j \in 1..n, replies'[i].call = replies'[j].call
        PROVE  calls'[replies'[i].call] = None /\ i = j
    BY <2>1, <2>2, <2>3, <2>4, <2>5 DEF OneReplyPerCall
  <2> QED
    BY <2>1, <2>5 DEF OneReplyPerCall
<1>3. ASSUME DeliverReply
      PROVE  OneReplyPerCall'
  <2>1. /\ DOMAIN replies = 1..Len(replies)
        /\ DOMAIN replies' = 1..(Len(replies) - 1)
        /\ Len(replies) \in Nat \ {0}
        /\ \A i \in 1..(Len(replies) - 1) : replies'[i] = replies[i + 1]
    BY <1>3, HeadTailProperties DEF DeliverReply, SessionTypeOK
  <2>2. \A i \in 1..(Len(replies) - 1) : i + 1 \in 1..Len(replies)
    BY <2>1
  <2> QED
    BY <1>3, <2>1, <2>2 DEF OneReplyPerCall, DeliverReply
<1>4. CASE RelaunchSession
  BY <1>4 DEF OneReplyPerCall, RelaunchSession
<1>5. CASE SignOutUser \/ SignOutFails \/ UNCHANGED sessionVars
  BY <1>5 DEF OneReplyPerCall, SignOutUser, SignOutFails, sessionVars
<1> QED
  BY <1>1, <1>2, <1>3, <1>4, <1>5
  DEF SessionNext, SignInCall, RejectCall, SignInNobody

\* A call is open, or has exactly one callback queued, or is over.
THEOREM RepliesAreUnique == SessionSteps => []OneReplyPerCall
<1>1. SessionInit => OneReplyPerCall
  BY DEF SessionInit, OneReplyPerCall
<1> QED
  BY <1>1, SessionTypes, OneReplyStep, PTL DEF SessionSteps

-----------------------------------------------------------------------------
(* The session inside the app *)

\* The app does nothing to the session but what the session offers.
LEMMA AppStepIsSessionStep ==
    ASSUME [Next]_vars
    PROVE  [SessionNext]_sessionVars
<1>1. CASE UNCHANGED vars
  BY <1>1 DEF vars
<1>2. ASSUME NEW c \in Calls, NEW email \in Users, SubmitForm(c, email)
      PROVE  SessionNext
  BY <1>2 DEF SubmitForm, SessionNext, Kinds
<1>3. CASE \E c \in Calls : Decide(c)
  BY <1>3 DEF Decide, DecideCall, SessionNext
<1>4. CASE LogOut
  BY <1>4 DEF LogOut, SessionNext
<1>5. CASE Callback
  BY <1>5 DEF Callback, SessionNext
<1>6. CASE Relaunch
  BY <1>6 DEF Relaunch, SessionNext
<1>7. CASE \/ \E t \in Tabs : SelectTab(t)
           \/ \E r \in 1..MaxPosts : OpenDetails(r) \/ ShowDelete(r)
           \/ \E kind \in {"add", "login", "register"} : OpenForm(kind)
           \/ \E valid \in BOOLEAN : EditNew(valid) \/ EditDetails(valid)
  BY <1>7 DEF SelectTab, OpenDetails, ShowDelete, OpenForm, EditNew, EditDetails, sessionVars
<1>8. CASE PopDetails \/ HideDelete \/ CommitDelete \/ SwitchForm \/ CancelForm
           \/ CancelDetails \/ DismissAlert
  BY <1>8 DEF PopDetails, HideDelete, CommitDelete, SwitchForm, CancelForm,
              CancelDetails, DismissAlert, sessionVars
<1>9. CASE SaveNew \/ SaveDetails \/ FoundUnwind
  BY <1>9 DEF SaveNew, SaveDetails, FoundUnwind, sessionVars
<1> QED
  BY <1>1, <1>2, <1>3, <1>4, <1>5, <1>6, <1>7, <1>8, <1>9 DEF Next

\* The app uses the session as module Session says it may be used, so what is
\* proved of the session holds inside the app.
THEOREM AppUsesSession == Spec => SessionSteps
<1>1. Init => SessionInit
  BY DEF Init
<1> QED
  BY <1>1, AppStepIsSessionStep, PTL DEF Spec, SessionSteps

\* In the app, too, whoever is signed in is the user the keychain holds.
THEOREM AppSessionPersisted == Spec => []SessionPersisted
BY AppUsesSession, SessionIsPersisted, PTL

-----------------------------------------------------------------------------
(* The inductive invariant of the screens and the store *)

AppTypes ==
    /\ db \subseteq Items
    /\ clock \in 0..MaxPosts
    /\ tab \in Tabs
    /\ list \in [Tabs -> Lists \cup {None}]
    /\ details \in [Tabs -> DetailScreens \cup {None}]
    /\ modals \in Seq(Forms)
    /\ alert \in BOOLEAN
    /\ screen \in [Calls -> Nat]
    /\ crashed \in BOOLEAN

\* A list of tab t that agrees with the store.
ListOK(t, l, store) ==
    /\ Enumerates(l.items, OfKind(t, store))
    /\ l.isLostList = (t = "lost")
    /\ l.swiped \in 0..Len(l.items)

\* A details screen that agrees with the list beneath it.
DetailsOK(d, l) ==
    /\ l # None
    /\ d.row \in DOMAIN l.items
    /\ l.items[d.row] = d.item
    /\ d.isLostItem = ~d.item.found

TabsOK ==
    \A t \in Tabs : /\ list[t] # None => ListOK(t, list[t], db)
                    /\ details[t] # None => DetailsOK(details[t], list[t])

FormsOK == \A i \in DOMAIN modals : modals[i].lost = (tab = "lost")

\* Objects carry different times because each gets a time no other has had.
StoreOK == IsFiniteSet(db) /\ \A i \in db : i.timeAdded <= clock

AppInv == AppTypes /\ list[tab] # None /\ TabsOK /\ FormsOK /\ StoreOK

\* The invariant is what the properties say, and more.
LEMMA AppInvImplies ==
    ASSUME AppInv
    PROVE  ListMirrorsStore /\ DetailsTrackRow /\ ListKindMatchesTab
BY DEF AppInv, TabsOK, FormsOK, ListOK, DetailsOK, Enumerates,
       ListMirrorsStore, DetailsTrackRow, ListKindMatchesTab

\* A list that has just been loaded agrees with the store.
LEMMA LoadedOK ==
    ASSUME NEW t \in Tabs, NEW store, store \subseteq Items, IsFiniteSet(store),
           NEW u, NEW l \in Loaded(t, store, u)
    PROVE  /\ l \in Lists
           /\ ListOK(t, l, store)
           /\ l.swiped = 0
           /\ l.signedIn = (u # None)
<1>1. OfKind(t, store) \subseteq Items /\ IsFiniteSet(OfKind(t, store))
  BY FS_Subset DEF OfKind
<1>2. PICK s \in SetToSeqs(OfKind(t, store)) :
          l = [items |-> s, isLostList |-> t = "lost", signedIn |-> u # None, swiped |-> 0]
  BY DEF Loaded
<1>3. s \in Seq(OfKind(t, store)) /\ Enumerates(s, OfKind(t, store))
  BY <1>1, SetToSeqsEnumerate
<1>4. s \in Seq(Items) /\ Len(s) \in Nat
  BY <1>1, <1>3, SeqMonotonic, LenProperties
<1> QED
  BY <1>2, <1>3, <1>4 DEF Lists, ListOK

\* A new root agrees with the store and with the session, whatever was on the
\* screen before.
LEMMA FreshRootOK ==
    ASSUME NEW store, store \subseteq Items, IsFiniteSet(store), NEW u,
           FreshRoot(store, u)
    PROVE  /\ tab' = "lost"
           /\ list' \in [Tabs -> Lists \cup {None}]
           /\ list'["lost"] # None
           /\ \A t \in Tabs : list'[t] # None => /\ ListOK(t, list'[t], store)
                                                 /\ list'[t].signedIn = (u # None)
           /\ details' = [t \in Tabs |-> None]
           /\ modals' = <<>>
           /\ alert' = FALSE
           /\ screen' \in [Calls -> Nat]
<1>1. PICK first \in Loaded("lost", store, u) : list' = NewTabs(first)
  BY DEF FreshRoot
<1>2. /\ first \in Lists
      /\ ListOK("lost", first, store)
      /\ first.signedIn = (u # None)
  BY LoadedOK DEF Tabs
<1>3. list' \in [Tabs -> Lists \cup {None}]
  BY <1>1, <1>2 DEF NewTabs
<1>4. \A t \in Tabs : list'[t] # None => t = "lost" /\ list'[t] = first
  BY <1>1 DEF NewTabs
<1>5. list'["lost"] # None
  BY <1>1, <1>2, NoneIsNoScreen DEF NewTabs, Tabs
<1> QED
  BY <1>2, <1>3, <1>4, <1>5 DEF FreshRoot

\* The whole screen is new and the store is as the new root has read it.
LEMMA FreshRootInv ==
    ASSUME AppInv, FreshRoot(db', user'),
           db' \subseteq Items, clock' \in 0..MaxPosts, StoreOK', crashed' \in BOOLEAN
    PROVE  AppInv'
<1>1. IsFiniteSet(db')
  BY DEF StoreOK
<1>2. /\ tab' = "lost"
      /\ list' \in [Tabs -> Lists \cup {None}]
      /\ list'["lost"] # None
      /\ \A t \in Tabs : list'[t] # None => ListOK(t, list'[t], db')
      /\ details' = [t \in Tabs |-> None]
      /\ modals' = <<>>
      /\ alert' = FALSE
      /\ screen' \in [Calls -> Nat]
  BY <1>1, FreshRootOK
<1>3. AppTypes'
  <2>1. "lost" \in Tabs
    BY DEF Tabs
  <2>2. details' \in [Tabs -> DetailScreens \cup {None}]
    BY <1>2
  <2>3. modals' \in Seq(Forms)
    BY <1>2
  <2>4. alert' \in BOOLEAN
    BY <1>2
  <2> QED
    BY <1>2, <2>1, <2>2, <2>3, <2>4 DEF AppTypes
<1>4. TabsOK'
  BY <1>2 DEF TabsOK
<1>5. FormsOK'
  BY <1>2 DEF FormsOK
<1> QED
  BY <1>2, <1>3, <1>4, <1>5 DEF AppInv

\* The selected tab gets a new list and a new details screen, or none, that
\* agree with the store; the other tab is not concerned.
LEMMA TabStep ==
    ASSUME AppInv, NEW l \in Lists, NEW d \in DetailScreens \cup {None},
           tab' = tab,
           list' = [list EXCEPT ![tab] = l],
           details' = [details EXCEPT ![tab] = d],
           \A t \in Tabs : t # tab => OfKind(t, db') = OfKind(t, db),
           ListOK(tab, l, db'),
           d # None => DetailsOK(d, l)
    PROVE  /\ list' \in [Tabs -> Lists \cup {None}]
           /\ details' \in [Tabs -> DetailScreens \cup {None}]
           /\ list'[tab'] # None
           /\ TabsOK'
<1>1. /\ tab \in Tabs
      /\ list \in [Tabs -> Lists \cup {None}]
      /\ details \in [Tabs -> DetailScreens \cup {None}]
      /\ l # None
  BY NoneIsNoScreen DEF AppInv, AppTypes
<1>2. \A t \in Tabs : /\ list'[t] = IF t = tab THEN l ELSE list[t]
                      /\ details'[t] = IF t = tab THEN d ELSE details[t]
  BY <1>1
<1>3. ASSUME NEW t \in Tabs
      PROVE  /\ list'[t] # None => ListOK(t, list'[t], db')
             /\ details'[t] # None => DetailsOK(details'[t], list'[t])
  <2>1. CASE t = tab
    BY <1>2, <2>1
  <2>2. CASE t # tab
    <3>1. list[t] # None => ListOK(t, list[t], db')
      BY <2>2 DEF AppInv, TabsOK, ListOK
    <3> QED
      BY <1>2, <2>2, <3>1 DEF AppInv, TabsOK
  <2> QED
    BY <2>1, <2>2
<1> QED
  BY <1>1, <1>2, <1>3 DEF TabsOK

\* The list of the selected tab is loaded and agrees with the store.
LEMMA CurrentList ==
    ASSUME AppInv
    PROVE  /\ tab \in Tabs
           /\ list[tab] \in Lists
           /\ ListOK(tab, list[tab], db)
           /\ list[tab].items \in Seq(Items)
           /\ Len(list[tab].items) \in Nat
           /\ DOMAIN list[tab].items = 1..Len(list[tab].items)
           /\ \A r \in DOMAIN list[tab].items : list[tab].items[r] \in OfKind(tab, db)
<1>1. tab \in Tabs /\ list[tab] \in Lists /\ ListOK(tab, list[tab], db)
  BY DEF AppInv, AppTypes, TabsOK
<1>2. list[tab].items \in Seq(Items)
  BY <1>1 DEF Lists
<1>3. \A r \in DOMAIN list[tab].items : list[tab].items[r] \in OfKind(tab, db)
  BY <1>1 DEF ListOK, Enumerates, ToSet
<1> QED
  BY <1>1, <1>2, <1>3, LenProperties

\* An unwind assigns two fields of the list and leaves its rows.
LEMMA UnwoundOK ==
    ASSUME AppInv, NEW lost \in BOOLEAN
    PROVE  /\ Unwound(lost) \in Lists
           /\ Unwound(lost).items = list[tab].items
           /\ Unwound(lost).isLostList = lost
           /\ Unwound(lost).swiped = list[tab].swiped
<1>1. list[tab] \in Lists
  BY CurrentList
<1>2. SignedIn \in BOOLEAN
  BY DEF SignedIn
<1> QED
  BY <1>1, <1>2 DEF Unwound, Lists

\* Removing a row together with its object keeps a list in agreement.
LEMMA RowRemovedOK ==
    ASSUME AppInv, NEW l \in Lists, l.items = list[tab].items,
           l.isLostList = (tab = "lost"), NEW r \in DOMAIN l.items,
           db' = db \ {l.items[r]}
    PROVE  /\ RowRemoved(l, r) \in Lists
           /\ ListOK(tab, RowRemoved(l, r), db')
           /\ \A t \in Tabs : t # tab => OfKind(t, db') = OfKind(t, db)
<1> DEFINE m == RowRemoved(l, r)
<1>1. /\ l.items \in Seq(Items)
      /\ Enumerates(l.items, OfKind(tab, db))
      /\ l.items[r] \in OfKind(tab, db)
      /\ tab \in Tabs
  BY CurrentList DEF ListOK
<1>2. /\ RemoveAt(l.items, r) \in Seq(Items)
      /\ Len(RemoveAt(l.items, r)) \in Nat
  BY <1>1, RemoveAtProperties, LenProperties
<1>3. /\ m \in Lists
      /\ m.items = RemoveAt(l.items, r)
      /\ m.isLostList = (tab = "lost")
      /\ m.swiped = 0
  BY <1>2 DEF RowRemoved, Lists
<1>4. Enumerates(m.items, OfKind(tab, db) \ {l.items[r]})
  BY <1>1, <1>3, EnumeratesRemoveAt
<1>5. OfKind(tab, db') = OfKind(tab, db) \ {l.items[r]}
  BY DEF OfKind
<1>6. \A t \in Tabs : t # tab => OfKind(t, db') = OfKind(t, db)
  BY <1>1 DEF OfKind, Tabs
<1> HIDE DEF m
<1>7. 0 \in 0..Len(m.items)
  BY <1>2, <1>3
<1>8. ListOK(tab, m, db')
  BY <1>3, <1>4, <1>5, <1>7 DEF ListOK
<1> QED
  BY <1>3, <1>6, <1>8 DEF m

\* Removing objects keeps the store in order.
LEMMA StoreShrinks ==
    ASSUME StoreOK, db' \subseteq db, clock' = clock
    PROVE  StoreOK'
BY FS_Subset DEF StoreOK

\* The object made by Save is a new one of the kind of the form.
LEMMA NewItemOK ==
    ASSUME AppInv, SessionTypeOK, SignedIn, clock < MaxPosts, NEW lost \in BOOLEAN
    PROVE  /\ NewItem(lost) \in Items
           /\ NewItem(lost).found = ~lost
           /\ NewItem(lost).timeAdded = clock + 1
           /\ NewItem(lost) \notin db
<1>1. clock \in 0..MaxPosts /\ MaxPosts \in Nat /\ user \in Users
  BY BoundsAssumption DEF AppInv, AppTypes, SessionTypeOK, SignedIn
<1>2. NewItem(lost).timeAdded = clock + 1
  BY DEF NewItem
<1>3. \A i \in db : i.timeAdded <= clock /\ i.timeAdded \in Int
  BY DEF AppInv, StoreOK, AppTypes, Items
<1> QED
  BY <1>1, <1>2, <1>3 DEF NewItem, Items

-----------------------------------------------------------------------------
(* One lemma for each group of actions that change the same variables *)

\* A trap, the session's own steps, and the actions that touch only the
\* alert or the places of the forms.
LEMMA QuietStep ==
    ASSUME AppInv, UNCHANGED <<db, clock, tab, list, details, modals>>,
           alert' \in BOOLEAN, screen' \in [Calls -> Nat], crashed' \in BOOLEAN
    PROVE  AppInv'
<1>1. AppTypes'
  BY DEF AppInv, AppTypes
<1>2. list'[tab'] # None /\ FormsOK' /\ StoreOK'
  BY DEF AppInv, FormsOK, StoreOK
<1>3. TabsOK'
  BY DEF AppInv, TabsOK
<1> QED
  BY <1>1, <1>2, <1>3 DEF AppInv

\* A trap changes nothing but crashed.
LEMMA TrapStep ==
    ASSUME AppInv, Trap
    PROVE  AppInv'
BY QuietStep DEF Trap, screenVars, AppInv, AppTypes

\* Selecting a tab loads its list from the store, or finds it as it was left.
LEMMA SelectTabStep ==
    ASSUME AppInv, NEW t \in Tabs, SelectTab(t)
    PROVE  AppInv'
<1>1. db \subseteq Items /\ IsFiniteSet(db)
  BY DEF AppInv, AppTypes, StoreOK
<1>2. /\ list' \in [Tabs -> Lists \cup {None}]
      /\ list'[t] # None
      /\ \A v \in Tabs : /\ list'[v] # None => ListOK(v, list'[v], db)
                         /\ details[v] # None => DetailsOK(details[v], list'[v])
  <2>1. CASE Unloaded(t)
    <3>1. PICK l \in Loaded(t, db, user) : list' = [list EXCEPT ![t] = l]
      BY <2>1 DEF SelectTab
    <3>2. l \in Lists /\ ListOK(t, l, db)
      BY <1>1, LoadedOK
    <3>3. details[t] = None
      BY <2>1 DEF Unloaded, AppInv, TabsOK, DetailsOK
    <3>4. \A v \in Tabs : list'[v] = IF v = t THEN l ELSE list[v]
      BY <3>1 DEF AppInv, AppTypes
    <3>5. list' \in [Tabs -> Lists \cup {None}]
      BY <3>1, <3>2 DEF AppInv, AppTypes
    <3> QED
      BY <3>2, <3>3, <3>4, <3>5, NoneIsNoScreen DEF AppInv, TabsOK
  <2>2. CASE ~Unloaded(t)
    BY <2>2 DEF SelectTab, Unloaded, AppInv, AppTypes, TabsOK
  <2> QED
    BY <2>1, <2>2
<1>3. UNCHANGED <<db, clock, details, modals, alert, screen, crashed>> /\ tab' = t
  BY DEF SelectTab
<1>4. AppTypes'
  BY <1>2, <1>3 DEF AppInv, AppTypes
<1>5. TabsOK'
  BY <1>2, <1>3 DEF TabsOK
<1>6. FormsOK' /\ StoreOK'
  BY <1>3 DEF SelectTab, OnTabs, AppInv, FormsOK, StoreOK
<1> QED
  BY <1>2, <1>3, <1>4, <1>5, <1>6 DEF AppInv

\* The rows of the store stay; one tab's screens change.
LEMMA ScreensOnly ==
    ASSUME AppInv, NEW l \in Lists, NEW d \in DetailScreens \cup {None},
           UNCHANGED <<db, clock, tab, alert, crashed>>,
           list' = [list EXCEPT ![tab] = l],
           details' = [details EXCEPT ![tab] = d],
           ListOK(tab, l, db),
           d # None => DetailsOK(d, l),
           modals' \in Seq(Forms), FormsOK', screen' \in [Calls -> Nat]
    PROVE  AppInv'
<1>1. \A t \in Tabs : OfKind(t, db') = OfKind(t, db)
  OBVIOUS
<1>2. ListOK(tab, l, db')
  OBVIOUS
<1>3. /\ list' \in [Tabs -> Lists \cup {None}]
      /\ details' \in [Tabs -> DetailScreens \cup {None}]
      /\ list'[tab'] # None
      /\ TabsOK'
  BY <1>1, <1>2, TabStep
<1>4. AppTypes' /\ StoreOK'
  BY <1>3 DEF AppInv, AppTypes, StoreOK
<1> QED
  BY <1>3, <1>4 DEF AppInv

\* Nothing but the list of the selected tab, or nothing but its details
\* screen, is assigned: the other function is as good as assigned to itself.
LEMMA SelfAssign ==
    ASSUME AppInv
    PROVE  /\ list = [list EXCEPT ![tab] = list[tab]]
           /\ details = [details EXCEPT ![tab] = details[tab]]
           /\ list[tab] \in Lists
           /\ details[tab] \in DetailScreens \cup {None}
           /\ details[tab] # None => DetailsOK(details[tab], list[tab])
BY DEF AppInv, AppTypes, TabsOK

\* Popping the details screen leaves its list alone.
LEMMA PopDetailsStep ==
    ASSUME AppInv, PopDetails
    PROVE  AppInv'
<1>1. list' = [list EXCEPT ![tab] = list[tab]] /\ list[tab] \in Lists
  BY SelfAssign DEF PopDetails
<1>2. ListOK(tab, list[tab], db)
  BY CurrentList
<1>3. /\ UNCHANGED <<db, clock, tab, alert, crashed>>
      /\ details' = [details EXCEPT ![tab] = None]
      /\ modals' \in Seq(Forms) /\ FormsOK' /\ screen' \in [Calls -> Nat]
  BY DEF PopDetails, AppInv, AppTypes, FormsOK
<1> QED
  BY <1>1, <1>2, <1>3, ScreensOnly

\* The details screen opens on the item of the row that was tapped.
LEMMA OpenDetailsStep ==
    ASSUME AppInv, NEW r \in 1..MaxPosts, OpenDetails(r)
    PROVE  AppInv'
<1> DEFINE item == list[tab].items[r]
           d == [row |-> r, item |-> item, isLostItem |-> ~item.found,
                 editing |-> Owns(user, item), save |-> Owns(user, item)]
<1>1. CASE item \notin db
  BY <1>1, TrapStep DEF OpenDetails
<1>2. CASE item \in db
  <2>1. item \in Items
    BY <1>2 DEF AppInv, AppTypes
  <2>2. r \in Nat /\ r \in DOMAIN list[tab].items
    BY BoundsAssumption DEF OpenDetails
  <2>3. item.found \in BOOLEAN /\ Owns(user, item) \in BOOLEAN
    BY <2>1 DEF Items, Owns
  <2>4. d \in DetailScreens
    BY <2>1, <2>2, <2>3 DEF DetailScreens
  <2>5. list[tab] # None
    BY DEF AppInv
  <2>6. DetailsOK(d, list[tab])
    BY <2>2, <2>5 DEF DetailsOK
  <2>7. /\ UNCHANGED <<db, clock, tab, list, modals, alert, screen, crashed>>
        /\ details' = [details EXCEPT ![tab] = d]
    BY <1>2 DEF OpenDetails
  <2>8. modals' \in Seq(Forms) /\ FormsOK' /\ screen' \in [Calls -> Nat]
    BY <2>7 DEF AppInv, AppTypes, FormsOK
  <2>9. list' = [list EXCEPT ![tab] = list[tab]] /\ list[tab] \in Lists
    BY <2>7, SelfAssign
  <2>10. ListOK(tab, list[tab], db)
    BY CurrentList
  <2> HIDE DEF d
  <2> QED
    BY <2>4, <2>6, <2>7, <2>8, <2>9, <2>10, ScreensOnly
<1> QED
  BY <1>1, <1>2

\* Showing and hiding Delete leaves the rows alone.
LEMMA SwipeStep ==
    ASSUME AppInv, NEW r \in 0..Len(list[tab].items),
           list' = [list EXCEPT ![tab].swiped = r],
           UNCHANGED <<db, clock, tab, details, modals, alert, screen, crashed>>
    PROVE  AppInv'
<1> DEFINE l == [list[tab] EXCEPT !.swiped = r]
<1>1. r \in Nat
  BY CurrentList
<1>2. /\ list[tab] \in Lists
      /\ list[tab].items \in Seq(Items)
      /\ ListOK(tab, list[tab], db)
      /\ list[tab] # None
  BY CurrentList DEF AppInv
<1>3. l \in Lists /\ l.items = list[tab].items
      /\ l.isLostList = list[tab].isLostList /\ l.swiped = r
  BY <1>1, <1>2 DEF Lists
<1>4. list' = [list EXCEPT ![tab] = l]
  BY DEF AppInv, AppTypes
<1>5. l # None
  BY <1>3, NoneIsNoScreen
<1> HIDE DEF l
<1>6. ListOK(tab, l, db)
  BY <1>2, <1>3 DEF ListOK
<1>7. /\ details' = [details EXCEPT ![tab] = details[tab]]
      /\ details[tab] \in DetailScreens \cup {None}
      /\ details[tab] # None => DetailsOK(details[tab], l)
  BY <1>3, <1>5, SelfAssign DEF DetailsOK
<1>8. modals' \in Seq(Forms) /\ FormsOK' /\ screen' \in [Calls -> Nat]
  BY DEF AppInv, AppTypes, FormsOK
<1> QED
  BY <1>3, <1>4, <1>6, <1>7, <1>8, ScreensOnly

\* Cancel on the details screen tells the list of which kind it is.
LEMMA CancelDetailsStep ==
    ASSUME AppInv, CancelDetails
    PROVE  AppInv'
<1>1. details[tab] \in DetailScreens /\ DetailsOK(details[tab], list[tab])
  BY SelfAssign DEF CancelDetails, OnDetails
<1>2. details[tab].isLostItem = (tab = "lost") /\ details[tab].isLostItem \in BOOLEAN
  <2>1. details[tab].item \in OfKind(tab, db) /\ tab \in Tabs
    BY <1>1, CurrentList DEF DetailsOK
  <2> QED
    BY <1>1, <2>1 DEF DetailsOK, DetailScreens, OfKind, Tabs
<1> DEFINE l == Unwound(details[tab].isLostItem)
<1>3. /\ l \in Lists
      /\ l.items = list[tab].items
      /\ l.isLostList = (tab = "lost")
      /\ l.swiped = list[tab].swiped
  BY <1>2, UnwoundOK
<1>4. ListOK(tab, list[tab], db)
  BY CurrentList
<1>5. /\ UNCHANGED <<db, clock, tab, modals, alert, screen, crashed>>
      /\ details' = [details EXCEPT ![tab] = None]
      /\ list' = [list EXCEPT ![tab] = l]
  BY DEF CancelDetails
<1> HIDE DEF l
<1>6. ListOK(tab, l, db)
  BY <1>3, <1>4 DEF ListOK
<1>7. modals' \in Seq(Forms) /\ FormsOK' /\ screen' \in [Calls -> Nat]
  BY <1>5 DEF AppInv, AppTypes, FormsOK
<1> QED
  BY <1>3, <1>5, <1>6, <1>7, ScreensOnly

\* Editing the fields of the details screen enables or disables Save.
LEMMA EditDetailsStep ==
    ASSUME AppInv, NEW valid \in BOOLEAN, EditDetails(valid)
    PROVE  AppInv'
<1> DEFINE d == [details[tab] EXCEPT !.save = valid /\ SignedIn]
<1>1. details[tab] \in DetailScreens /\ DetailsOK(details[tab], list[tab])
  BY SelfAssign DEF EditDetails, OnDetails
<1>2. /\ UNCHANGED <<db, clock, tab, list, modals, alert, screen, crashed>>
      /\ details' = [details EXCEPT ![tab] = d]
  BY DEF EditDetails
<1>3. /\ d \in DetailScreens
      /\ d.row = details[tab].row
      /\ d.item = details[tab].item
      /\ d.isLostItem = details[tab].isLostItem
  BY <1>1 DEF DetailScreens, SignedIn
<1> HIDE DEF d
<1>4. DetailsOK(d, list[tab])
  BY <1>1, <1>3 DEF DetailsOK
<1>5. list' = [list EXCEPT ![tab] = list[tab]] /\ list[tab] \in Lists
  BY <1>2, SelfAssign
<1>6. ListOK(tab, list[tab], db)
  BY CurrentList
<1>7. modals' \in Seq(Forms) /\ FormsOK' /\ screen' \in [Calls -> Nat]
  BY <1>2 DEF AppInv, AppTypes, FormsOK
<1> QED
  BY <1>2, <1>3, <1>4, <1>5, <1>6, <1>7, ScreensOnly

\* Only the forms change.
LEMMA FormsStep ==
    ASSUME AppInv, UNCHANGED <<db, clock, tab, list, details, alert, screen, crashed>>,
           modals' \in Seq(Forms), FormsOK'
    PROVE  AppInv'
<1>1. AppTypes'
  BY DEF AppInv, AppTypes
<1>2. list'[tab'] # None /\ StoreOK'
  BY DEF AppInv, StoreOK
<1>3. TabsOK'
  BY DEF AppInv, TabsOK
<1> QED
  BY <1>1, <1>2, <1>3 DEF AppInv

\* The topmost form is one of the selected tab.
LEMMA TopForm ==
    ASSUME AppInv, modals # <<>>
    PROVE  /\ Len(modals) \in Nat \ {0}
           /\ DOMAIN modals = 1..Len(modals)
           /\ Last(modals) \in Forms
           /\ Last(modals) = modals[Len(modals)]
           /\ Last(modals).lost = (tab = "lost")
<1>1. /\ modals \in Seq(Forms)
      /\ Len(modals) \in Nat \ {0}
      /\ DOMAIN modals = 1..Len(modals)
  BY EmptySeq, LenProperties DEF AppInv, AppTypes
<1>2. modals[Len(modals)] \in Forms
  BY <1>1, ElementOfSeq
<1> QED
  BY <1>1, <1>2 DEF Last, AppInv, FormsOK

\* A form that opens is one of the selected tab.
LEMMA OpenFormStep ==
    ASSUME AppInv, NEW kind \in {"add", "login", "register"}, OpenForm(kind)
    PROVE  AppInv'
<1>1. NewForm(kind) \in Forms /\ NewForm(kind).lost = (tab = "lost")
  BY DEF NewForm, Forms
<1>2. /\ UNCHANGED <<db, clock, tab, list, details, alert, screen, crashed>>
      /\ modals' = <<NewForm(kind)>>
  BY DEF OpenForm
<1>3. modals' \in Seq(Forms)
  BY <1>1, <1>2
<1>4. DOMAIN modals' = {1} /\ modals'[1] = NewForm(kind)
  BY <1>2
<1>5. FormsOK'
  BY <1>1, <1>2, <1>4 DEF FormsOK
<1> QED
  BY <1>2, <1>3, <1>5, FormsStep

\* A form presented on top of another is one of the same tab.
LEMMA SwitchFormStep ==
    ASSUME AppInv, SwitchForm
    PROVE  AppInv'
<1> DEFINE form == [Last(modals) EXCEPT !.kind = IF @ = "login" THEN "register" ELSE "login"]
<1>1. /\ UNCHANGED <<db, clock, tab, list, details, alert, screen, crashed>>
      /\ modals' = Append(modals, form)
      /\ modals # <<>>
  BY DEF SwitchForm, OnForm
<1>2. form \in Forms /\ form.lost = (tab = "lost")
  BY <1>1, TopForm DEF Forms
<1>3. modals \in Seq(Forms)
  BY DEF AppInv, AppTypes
<1> HIDE DEF form
<1>4. /\ modals' \in Seq(Forms)
      /\ DOMAIN modals' = 1..(Len(modals) + 1)
      /\ modals'[Len(modals) + 1] = form
      /\ \A i \in 1..Len(modals) : modals'[i] = modals[i]
  BY <1>1, <1>2, <1>3, AppendProperties, LenProperties
<1>5. \A i \in DOMAIN modals' : i = Len(modals) + 1 \/ i \in DOMAIN modals
  BY <1>3, <1>4, LenProperties
<1>6. FormsOK'
  BY <1>1, <1>2, <1>3, <1>4, <1>5, LenProperties DEF FormsOK, AppInv
<1> QED
  BY <1>1, <1>4, <1>6, FormsStep

\* Editing the fields of an add form enables or disables Save.
LEMMA EditNewStep ==
    ASSUME AppInv, NEW valid \in BOOLEAN, EditNew(valid)
    PROVE  AppInv'
<1> DEFINE n == Len(modals)
           form == [modals[n] EXCEPT !.save = valid /\ SignedIn]
<1>1. /\ UNCHANGED <<db, clock, tab, list, details, alert, screen, crashed>>
      /\ modals' = [modals EXCEPT ![n] = form]
      /\ modals # <<>>
  BY DEF EditNew, OnForm
<1>2. /\ n \in DOMAIN modals
      /\ modals[n] \in Forms
      /\ modals[n].lost = (tab = "lost")
      /\ modals \in Seq(Forms)
  BY <1>1, TopForm DEF AppInv, AppTypes
<1>3. form \in Forms /\ form.lost = modals[n].lost
  BY <1>2 DEF Forms, SignedIn
<1> HIDE DEF form
<1>4. modals' \in Seq(Forms)
  BY <1>1, <1>2, <1>3, ExceptSeq
<1>5. FormsOK'
  BY <1>1, <1>2, <1>3 DEF FormsOK, AppInv
<1> QED
  BY <1>1, <1>4, <1>5, FormsStep

\* Dismissing the forms and unwinding to the list keeps everything in order.
LEMMA CancelFormStep ==
    ASSUME AppInv, CancelForm
    PROVE  AppInv'
<1> DEFINE l == Unwound(Last(modals).lost)
<1>1. /\ UNCHANGED <<db, clock, tab, details, alert, crashed>>
      /\ list' = [list EXCEPT ![tab] = l]
      /\ modals' = <<>>
      /\ screen' = [c \in Calls |-> 0]
      /\ modals # <<>>
  BY DEF CancelForm, DismissForms, OnForm
<1>2. Last(modals).lost = (tab = "lost") /\ Last(modals).lost \in BOOLEAN
  BY <1>1, TopForm DEF Forms
<1>3. /\ l \in Lists
      /\ l.items = list[tab].items
      /\ l.isLostList = (tab = "lost")
      /\ l.swiped = list[tab].swiped
  BY <1>2, UnwoundOK
<1>4. ListOK(tab, list[tab], db)
  BY CurrentList
<1> HIDE DEF l
<1>5. ListOK(tab, l, db)
  BY <1>3, <1>4 DEF ListOK
<1>6. /\ details' = [details EXCEPT ![tab] = details[tab]]
      /\ details[tab] \in DetailScreens \cup {None}
      /\ details[tab] # None => DetailsOK(details[tab], l)
  BY <1>1, <1>3, SelfAssign, NoneIsNoScreen DEF DetailsOK
<1>7. modals' \in Seq(Forms) /\ FormsOK' /\ screen' \in [Calls -> Nat]
  BY <1>1 DEF FormsOK
<1> QED
  BY <1>1, <1>3, <1>5, <1>6, <1>7, ScreensOnly

-----------------------------------------------------------------------------
(* Actions that change the store *)

\* The store changes with the screens of the selected tab.
LEMMA StoreStep ==
    ASSUME AppInv, NEW l \in Lists, NEW d \in DetailScreens \cup {None},
           UNCHANGED <<tab, alert, crashed>>,
           list' = [list EXCEPT ![tab] = l],
           details' = [details EXCEPT ![tab] = d],
           \A t \in Tabs : t # tab => OfKind(t, db') = OfKind(t, db),
           ListOK(tab, l, db'),
           d # None => DetailsOK(d, l),
           db' \subseteq Items, clock' \in 0..MaxPosts, StoreOK',
           modals' \in Seq(Forms), FormsOK', screen' \in [Calls -> Nat]
    PROVE  AppInv'
<1>1. /\ list' \in [Tabs -> Lists \cup {None}]
      /\ details' \in [Tabs -> DetailScreens \cup {None}]
      /\ list'[tab'] # None
      /\ TabsOK'
  BY TabStep
<1>2. AppTypes'
  BY <1>1 DEF AppInv, AppTypes
<1> QED
  BY <1>1, <1>2 DEF AppInv

\* Delete removes the row together with its object.
LEMMA CommitDeleteStep ==
    ASSUME AppInv, CommitDelete
    PROVE  AppInv'
<1> DEFINE r == list[tab].swiped
           l == RowRemoved(list[tab], r)
<1>1. CASE list[tab].items[r] \notin db
  BY <1>1, TrapStep DEF CommitDelete
<1>2. CASE list[tab].items[r] \in db
  <2>1. r \in DOMAIN list[tab].items
    <3>1. r \in 0..Len(list[tab].items) /\ r # 0
      BY CurrentList DEF ListOK, CommitDelete
    <3> QED
      BY <3>1, CurrentList
  <2>2. /\ db' = db \ {list[tab].items[r]}
        /\ list' = [list EXCEPT ![tab] = l]
        /\ UNCHANGED <<clock, tab, details, modals, alert, screen, crashed>>
        /\ details[tab] = None
    BY <1>2 DEF CommitDelete, OnList
  <2>3. list[tab] \in Lists /\ list[tab].isLostList = (tab = "lost")
    BY CurrentList DEF ListOK
  <2>4. /\ l \in Lists
        /\ ListOK(tab, l, db')
        /\ \A t \in Tabs : t # tab => OfKind(t, db') = OfKind(t, db)
    BY <2>1, <2>2, <2>3, RowRemovedOK
  <2>5. db' \subseteq Items /\ clock' \in 0..MaxPosts /\ StoreOK'
    BY <2>2, StoreShrinks DEF AppInv, AppTypes
  <2>6. details' = [details EXCEPT ![tab] = None]
    BY <2>2 DEF AppInv, AppTypes
  <2>7. modals' \in Seq(Forms) /\ FormsOK' /\ screen' \in [Calls -> Nat]
    BY <2>2 DEF AppInv, AppTypes, FormsOK
  <2> HIDE DEF l, r
  <2> QED
    BY <2>2, <2>4, <2>5, <2>6, <2>7, StoreStep
<1> QED
  BY <1>1, <1>2

\* The details screen shows an item of its tab's kind.
LEMMA ShownItem ==
    ASSUME AppInv, details[tab] # None
    PROVE  /\ details[tab].row \in DOMAIN list[tab].items
           /\ list[tab].items[details[tab].row] = details[tab].item
           /\ details[tab].item \in OfKind(tab, db)
           /\ details[tab].isLostItem = (tab = "lost")
           /\ details[tab].isLostItem \in BOOLEAN
<1>1. details[tab] \in DetailScreens /\ DetailsOK(details[tab], list[tab])
  BY SelfAssign
<1>2. details[tab].item \in OfKind(tab, db) /\ tab \in Tabs
  BY <1>1, CurrentList DEF DetailsOK
<1> QED
  BY <1>1, <1>2 DEF DetailsOK, DetailScreens, OfKind, Tabs

\* Found removes the row together with its object.
LEMMA FoundUnwindStep ==
    ASSUME AppInv, FoundUnwind
    PROVE  AppInv'
<1> DEFINE shown == details[tab]
           u == Unwound(shown.isLostItem)
           l == RowRemoved(u, SelectedRow)
<1>1. CASE ~(shown.item \in db /\ SelectedRow \in DOMAIN list[tab].items)
  BY <1>1, TrapStep DEF FoundUnwind
<1>2. CASE shown.item \in db /\ SelectedRow \in DOMAIN list[tab].items
  <2>1. /\ db' = db \ {shown.item}
        /\ list' = [list EXCEPT ![tab] = l]
        /\ details' = [details EXCEPT ![tab] = None]
        /\ UNCHANGED <<clock, tab, modals, alert, screen, crashed>>
        /\ details[tab] # None
    BY <1>2 DEF FoundUnwind, OnDetails
  <2>2. /\ SelectedRow \in DOMAIN list[tab].items
        /\ list[tab].items[SelectedRow] = shown.item
        /\ shown.isLostItem = (tab = "lost")
        /\ shown.isLostItem \in BOOLEAN
    BY <2>1, ShownItem DEF SelectedRow
  <2>3. u \in Lists /\ u.items = list[tab].items /\ u.isLostList = (tab = "lost")
    BY <2>2, UnwoundOK
  <2>4. SelectedRow \in DOMAIN u.items /\ db' = db \ {u.items[SelectedRow]}
    BY <2>1, <2>2, <2>3
  <2> HIDE DEF u
  <2>5. /\ l \in Lists
        /\ ListOK(tab, l, db')
        /\ \A t \in Tabs : t # tab => OfKind(t, db') = OfKind(t, db)
    BY <2>3, <2>4, RowRemovedOK
  <2>6. db' \subseteq Items /\ clock' \in 0..MaxPosts /\ StoreOK'
    BY <2>1, StoreShrinks DEF AppInv, AppTypes
  <2>7. modals' \in Seq(Forms) /\ FormsOK' /\ screen' \in [Calls -> Nat]
    BY <2>1 DEF AppInv, AppTypes, FormsOK
  <2> HIDE DEF l
  <2> QED
    BY <2>1, <2>5, <2>6, <2>7, StoreStep
<1> QED
  BY <1>1, <1>2

\* A new object keeps the store in order.
LEMMA StoreGrows ==
    ASSUME AppInv, SessionTypeOK, SignedIn, clock < MaxPosts, NEW lost \in BOOLEAN,
           NEW gone, db' = (db \ gone) \cup {NewItem(lost)}, clock' = clock + 1
    PROVE  db' \subseteq Items /\ clock' \in 0..MaxPosts /\ StoreOK'
<1>1. clock \in 0..MaxPosts /\ MaxPosts \in Nat /\ db \subseteq Items
  BY BoundsAssumption DEF AppInv, AppTypes
<1>2. NewItem(lost) \in Items /\ NewItem(lost).timeAdded = clock + 1
  BY NewItemOK
<1>3. IsFiniteSet(db')
  <2>1. IsFiniteSet(db \ gone)
    BY FS_Subset DEF AppInv, StoreOK
  <2> QED
    BY <2>1, FS_AddElement
<1>4. \A i \in db : i.timeAdded <= clock /\ i.timeAdded \in Int
  BY <1>1 DEF AppInv, StoreOK, Items
<1>5. \A i \in db' : i.timeAdded <= clock'
  BY <1>1, <1>2, <1>4
<1> QED
  BY <1>1, <1>2, <1>3, <1>5 DEF StoreOK

\* Save on the details screen replaces the row together with its object.
LEMMA SaveDetailsStep ==
    ASSUME AppInv, SessionTypeOK, SaveDetails
    PROVE  AppInv'
<1> DEFINE shown == details[tab]
           item == NewItem(shown.isLostItem)
           u == Unwound(shown.isLostItem)
           old == list[tab].items[SelectedRow]
           l == [u EXCEPT !.items[SelectedRow] = item]
<1>1. CASE ~(SignedIn /\ SelectedRow \in DOMAIN list[tab].items /\ old \in db)
  BY <1>1, TrapStep DEF SaveDetails
<1>2. CASE SignedIn /\ SelectedRow \in DOMAIN list[tab].items /\ old \in db
  <2>1. /\ db' = (db \ {old}) \cup {item}
        /\ clock' = clock + 1
        /\ clock < MaxPosts
        /\ list' = [list EXCEPT ![tab] = l]
        /\ details' = [details EXCEPT ![tab] = None]
        /\ UNCHANGED <<tab, modals, alert, screen, crashed>>
        /\ details[tab] # None
    BY <1>2 DEF SaveDetails, OnDetails
  <2>2. /\ old \in OfKind(tab, db)
        /\ shown.isLostItem = (tab = "lost")
        /\ shown.isLostItem \in BOOLEAN
        /\ tab \in Tabs
    BY <2>1, ShownItem, CurrentList DEF SelectedRow
  <2>3. /\ u \in Lists
        /\ u.items = list[tab].items
        /\ u.isLostList = (tab = "lost")
        /\ u.swiped = list[tab].swiped
    BY <2>2, UnwoundOK
  <2>4. /\ item \in Items
        /\ item.found = ~shown.isLostItem
        /\ item \notin db
    BY <1>2, <2>1, <2>2, NewItemOK
  <2>5. db' \subseteq Items /\ clock' \in 0..MaxPosts /\ StoreOK'
    BY <1>2, <2>1, <2>2, StoreGrows
  <2> DEFINE rows == [u.items EXCEPT ![SelectedRow] = item]
  <2> HIDE DEF item, u
  <2>6. /\ u.items \in Seq(Items)
        /\ Enumerates(u.items, OfKind(tab, db))
        /\ SelectedRow \in DOMAIN u.items
        /\ u.items[SelectedRow] = old
        /\ item \notin OfKind(tab, db)
    BY <1>2, <2>3, <2>4, CurrentList DEF ListOK, OfKind
  <2>7. rows \in Seq(Items) /\ Enumerates(rows, (OfKind(tab, db) \ {old}) \cup {item})
    BY <2>4, <2>6, EnumeratesReplace
  <2>8. Len(rows) = Len(list[tab].items)
    BY <2>3, <2>6, <2>7, ExceptSeq
  <2>9. /\ OfKind(tab, db') = (OfKind(tab, db) \ {old}) \cup {item}
        /\ \A t \in Tabs : t # tab => OfKind(t, db') = OfKind(t, db)
    BY <2>1, <2>2, <2>4 DEF OfKind, Tabs
  <2>10. /\ l \in Lists
         /\ l.items = rows
         /\ l.isLostList = (tab = "lost")
         /\ l.swiped = list[tab].swiped
    BY <2>3, <2>7 DEF Lists
  <2>11. list[tab].swiped \in 0..Len(list[tab].items)
    BY CurrentList DEF ListOK
  <2> HIDE DEF l, rows
  <2>12. ListOK(tab, l, db')
    BY <2>7, <2>8, <2>9, <2>10, <2>11 DEF ListOK
  <2>13. modals' \in Seq(Forms) /\ FormsOK' /\ screen' \in [Calls -> Nat]
    BY <2>1 DEF AppInv, AppTypes, FormsOK
  <2> QED
    BY <2>1, <2>5, <2>9, <2>10, <2>12, <2>13, StoreStep
<1> QED
  BY <1>1, <1>2

\* Save on an add form adds an object, and a row or a new root.
LEMMA SaveNewStep ==
    ASSUME AppInv, SessionTypeOK, SaveNew
    PROVE  AppInv'
<1> DEFINE lost == Last(modals).lost
           item == NewItem(lost)
           u == Unwound(TRUE)
           l == [u EXCEPT !.items = Append(@, item)]
<1>1. modals # <<>> /\ clock < MaxPosts
  BY DEF SaveNew, OnForm
<1>2. lost = (tab = "lost") /\ lost \in BOOLEAN
  BY <1>1, TopForm DEF Forms
<1>3. CASE ~SignedIn
  BY <1>3, TrapStep DEF SaveNew
<1>4. ASSUME SignedIn
      PROVE  /\ item \in Items
             /\ item.found = ~lost
             /\ item \notin db
             /\ db' = db \cup {item}
             /\ db' \subseteq Items
             /\ clock' \in 0..MaxPosts
             /\ StoreOK'
             /\ crashed' = crashed
  <2>1. db' = db \cup {item} /\ clock' = clock + 1 /\ crashed' = crashed
    BY <1>4 DEF SaveNew
  <2>2. db' = (db \ {}) \cup {item}
    BY <2>1
  <2> QED
    BY <1>1, <1>2, <1>4, <2>1, <2>2, NewItemOK, StoreGrows
<1>5. CASE SignedIn /\ u.isLostList /\ ~item.found
  <2>1. /\ list' = [list EXCEPT ![tab] = l]
        /\ modals' = <<>>
        /\ screen' = [c \in Calls |-> 0]
        /\ UNCHANGED <<tab, details, alert, crashed>>
    BY <1>5 DEF SaveNew, DismissForms
  <2>2. /\ u \in Lists
        /\ u.items = list[tab].items
        /\ u.isLostList
        /\ u.swiped = list[tab].swiped
    BY UnwoundOK
  <2>3. tab = "lost" /\ ~item.found
    BY <1>2, <1>4, <1>5
  <2> DEFINE rows == Append(u.items, item)
  <2> HIDE DEF item, u
  <2>4. /\ u.items \in Seq(Items)
        /\ Enumerates(u.items, OfKind(tab, db))
        /\ item \notin OfKind(tab, db)
        /\ list[tab].swiped \in 0..Len(list[tab].items)
        /\ Len(list[tab].items) \in Nat
    BY <1>4, <1>5, <2>2, CurrentList DEF ListOK, OfKind
  <2>5. /\ rows \in Seq(Items)
        /\ Len(rows) = Len(list[tab].items) + 1
        /\ \A i \in DOMAIN list[tab].items : /\ i \in DOMAIN rows
                                             /\ rows[i] = list[tab].items[i]
    BY <1>4, <1>5, <2>2, <2>4, AppendProperties, LenProperties
  <2>6. Enumerates(rows, OfKind(tab, db) \cup {item})
    BY <1>4, <1>5, <2>4, EnumeratesAppend
  <2>7. /\ OfKind(tab, db') = OfKind(tab, db) \cup {item}
        /\ \A t \in Tabs : t # tab => OfKind(t, db') = OfKind(t, db)
    BY <1>4, <1>5, <2>3 DEF OfKind, Tabs
  <2>8. /\ l \in Lists
        /\ l.items = rows
        /\ l.isLostList = (tab = "lost")
        /\ l.swiped = list[tab].swiped
    BY <2>2, <2>3, <2>5 DEF Lists
  <2>9. list[tab].swiped \in 0..Len(rows)
    BY <2>4, <2>5
  <2> HIDE DEF l, rows
  <2>10. ListOK(tab, l, db')
    BY <2>6, <2>7, <2>8, <2>9 DEF ListOK
  <2>11. /\ details' = [details EXCEPT ![tab] = details[tab]]
         /\ details[tab] \in DetailScreens \cup {None}
         /\ details[tab] # None => DetailsOK(details[tab], l)
    BY <2>1, <2>5, <2>8, SelfAssign, NoneIsNoScreen DEF DetailsOK
  <2>12. modals' \in Seq(Forms) /\ FormsOK' /\ screen' \in [Calls -> Nat]
    BY <2>1 DEF FormsOK
  <2> QED
    BY <1>4, <1>5, <2>1, <2>7, <2>8, <2>10, <2>11, <2>12, StoreStep
<1>6. CASE SignedIn /\ ~(u.isLostList /\ ~item.found)
  <2>1. FreshRoot(db', user) /\ user' = user
    BY <1>6 DEF SaveNew, sessionVars
  <2>2. FreshRoot(db', user') /\ crashed' \in BOOLEAN
    BY <1>4, <1>6, <2>1 DEF AppInv, AppTypes
  <2> QED
    BY <1>4, <1>6, <2>2, FreshRootInv
<1> QED
  BY <1>3, <1>5, <1>6

\* A new root over a store that stays as it is.
LEMMA FreshRootSameStore ==
    ASSUME AppInv, FreshRoot(db, user'), UNCHANGED <<db, clock>>, crashed' \in BOOLEAN
    PROVE  AppInv'
<1>1. FreshRoot(db', user')
  OBVIOUS
<1>2. db' \subseteq Items /\ clock' \in 0..MaxPosts /\ StoreOK'
  BY DEF AppInv, AppTypes, StoreOK
<1> QED
  BY <1>1, <1>2, FreshRootInv

\* A callback shows a new root or an alert.
LEMMA CallbackStep ==
    ASSUME AppInv, Callback
    PROVE  AppInv'
<1>1. CASE Head(replies).ok
  <2>1. FreshRoot(db, user') /\ UNCHANGED <<db, clock, crashed>>
    BY <1>1 DEF Callback, DeliverReply
  <2>2. crashed' \in BOOLEAN
    BY <2>1 DEF AppInv, AppTypes
  <2> QED
    BY <2>1, <2>2, FreshRootSameStore
<1>2. CASE ~Head(replies).ok
  <2>1. UNCHANGED <<db, clock, tab, list, details, modals, crashed>>
    BY <1>2 DEF Callback
  <2>2. alert' \in BOOLEAN /\ screen' \in [Calls -> Nat] /\ crashed' \in BOOLEAN
    BY <1>2 DEF Callback, AppInv, AppTypes
  <2> QED
    BY <2>1, <2>2, QuietStep
<1> QED
  BY <1>1, <1>2

\* The invariant is inductive: one step per action.
LEMMA AppInvStep ==
    ASSUME AppInv, SessionTypeOK, [Next]_vars
    PROVE  AppInv'
<1>1. CASE UNCHANGED vars
  BY <1>1, QuietStep DEF vars, appVars, screenVars, AppInv, AppTypes
<1>2. ASSUME NEW t \in Tabs, SelectTab(t) PROVE AppInv'
  BY <1>2, SelectTabStep
<1>3. CASE PopDetails
  BY <1>3, PopDetailsStep
<1>4. ASSUME NEW r \in 1..MaxPosts, OpenDetails(r) PROVE AppInv'
  BY <1>4, OpenDetailsStep
<1>5. ASSUME NEW r \in 1..MaxPosts, ShowDelete(r) PROVE AppInv'
  <2>1. r \in 0..Len(list[tab].items)
    BY <1>5, CurrentList DEF ShowDelete
  <2> QED
    BY <1>5, <2>1, SwipeStep DEF ShowDelete
<1>6. CASE HideDelete
  <2>1. 0 \in 0..Len(list[tab].items)
    BY CurrentList
  <2> QED
    BY <1>6, <2>1, SwipeStep DEF HideDelete
<1>7. CASE CommitDelete
  BY <1>7, CommitDeleteStep
<1>8. ASSUME NEW kind \in {"add", "login", "register"}, OpenForm(kind) PROVE AppInv'
  BY <1>8, OpenFormStep
<1>9. CASE LogOut
  BY <1>9, FreshRootSameStore DEF LogOut, AppInv, AppTypes
<1>10. CASE SwitchForm
  BY <1>10, SwitchFormStep
<1>11. CASE CancelForm
  BY <1>11, CancelFormStep
<1>12. CASE CancelDetails
  BY <1>12, CancelDetailsStep
<1>13. ASSUME NEW valid \in BOOLEAN, EditNew(valid) PROVE AppInv'
  BY <1>13, EditNewStep
<1>14. ASSUME NEW valid \in BOOLEAN, EditDetails(valid) PROVE AppInv'
  BY <1>14, EditDetailsStep
<1>15. ASSUME NEW c \in Calls, NEW email \in Users, SubmitForm(c, email) PROVE AppInv'
  <2>1. Len(modals) \in Nat
    BY LenProperties DEF AppInv, AppTypes
  <2>2. /\ UNCHANGED <<db, clock, tab, list, details, modals, alert, crashed>>
        /\ screen' = [screen EXCEPT ![c] = Len(modals)]
    BY <1>15 DEF SubmitForm
  <2>3. screen' \in [Calls -> Nat] /\ alert' \in BOOLEAN /\ crashed' \in BOOLEAN
    BY <2>1, <2>2 DEF AppInv, AppTypes
  <2> QED
    BY <2>2, <2>3, QuietStep
<1>16. CASE DismissAlert
  BY <1>16, QuietStep DEF DismissAlert, AppInv, AppTypes
<1>17. CASE SaveNew
  BY <1>17, SaveNewStep
<1>18. CASE SaveDetails
  BY <1>18, SaveDetailsStep
<1>19. CASE FoundUnwind
  BY <1>19, FoundUnwindStep
<1>20. CASE Callback
  BY <1>20, CallbackStep
<1>21. CASE \E c \in Calls : Decide(c)
  BY <1>21, QuietStep DEF Decide, appVars, screenVars, AppInv, AppTypes
<1>22. CASE Relaunch
  BY <1>22, FreshRootSameStore DEF Relaunch
<1> QED
  BY <1>1, <1>2, <1>3, <1>4, <1>5, <1>6, <1>7, <1>8, <1>9, <1>10, <1>11, <1>12,
     <1>13, <1>14, <1>15, <1>16, <1>17, <1>18, <1>19, <1>20, <1>21, <1>22
  DEF Next

\* The app starts with an empty store and an empty list.
LEMMA AppInvInit == ASSUME Init PROVE AppInv
<1>1. IsFiniteSet(db) /\ db = {} /\ clock = 0
  BY FS_EmptySet DEF Init
<1>2. PICK first \in Loaded("lost", db, None) :
          list = [t \in Tabs |-> IF t = "lost" THEN first ELSE None]
  BY <1>1 DEF Init
<1>3. first \in Lists /\ ListOK("lost", first, db)
  BY <1>1, <1>2, LoadedOK DEF Tabs
<1>4. /\ tab = "lost" /\ tab \in Tabs
      /\ details = [t \in Tabs |-> None]
      /\ modals = <<>> /\ alert = FALSE /\ crashed = FALSE
      /\ screen \in [Calls -> Nat]
  BY DEF Init, Tabs
<1>5. list \in [Tabs -> Lists \cup {None}] /\ list[tab] # None
  BY <1>2, <1>3, <1>4, NoneIsNoScreen
<1>6. AppTypes
  <2>1. clock \in 0..MaxPosts /\ db \subseteq Items
    BY <1>1, BoundsAssumption
  <2>2. details \in [Tabs -> DetailScreens \cup {None}]
    BY <1>4
  <2>3. modals \in Seq(Forms)
    BY <1>4
  <2> QED
    BY <1>4, <1>5, <2>1, <2>2, <2>3 DEF AppTypes
<1>7. TabsOK
  BY <1>2, <1>3, <1>4 DEF TabsOK
<1>8. FormsOK
  BY <1>4 DEF FormsOK
<1>9. StoreOK
  BY <1>1 DEF StoreOK
<1> QED
  BY <1>5, <1>6, <1>7, <1>8, <1>9 DEF AppInv

\* The screens and the store satisfy the invariant in every reachable state.
THEOREM AppInvariant == Spec => []AppInv
<1>1. Spec => []SessionTypeOK
  BY AppUsesSession, SessionTypes, PTL
<1> QED
  BY <1>1, AppInvInit, AppInvStep, PTL DEF Spec

\* Every reachable state is well typed.
THEOREM AppTypeCorrect == Spec => []TypeOK
<1>1. AppInv /\ SessionTypeOK => TypeOK
  BY DEF AppInv, AppTypes, TypeOK
<1>2. Spec => []SessionTypeOK
  BY AppUsesSession, SessionTypes, PTL
<1> QED
  BY <1>1, <1>2, AppInvariant, PTL

\* A loaded list shows the objects of its kind that are in the store, each of
\* them once, whatever the session does meanwhile.
THEOREM ListsMirrorStore == Spec => []ListMirrorsStore
BY AppInvariant, AppInvImplies, PTL

\* A details screen shows the item of the row selected beneath it.
THEOREM DetailsTrackRows == Spec => []DetailsTrackRow
BY AppInvariant, AppInvImplies, PTL

\* No form on its way back turns a list into one of the other kind.
THEOREM ListKindsMatchTabs == Spec => []ListKindMatchesTab
BY AppInvariant, AppInvImplies, PTL

-----------------------------------------------------------------------------
(* Bar buttons and the session *)

\* A success is queued.
SuccessQueued == \E i \in DOMAIN replies : replies[i].ok

\* The bar buttons of each list go with the session, or were those before.
BarsKept ==
    \A t \in Tabs : list'[t] # None =>
        \/ list'[t].signedIn = SignedIn
        \/ list[t] # None /\ list'[t].signedIn = list[t].signedIn

\* Steps that leave the session alone refresh bar buttons or leave them alone.
LEMMA ScreenStepBars ==
    ASSUME StaleBarsAnnounced, BarsKept, UNCHANGED <<user, replies>>
    PROVE  StaleBarsAnnounced'
BY DEF StaleBarsAnnounced, BarsKept, SignedIn

\* A new root reads the session as it is.
LEMMA FreshRootBars ==
    ASSUME NEW store, store \subseteq Items, IsFiniteSet(store), FreshRoot(store, user')
    PROVE  StaleBarsAnnounced'
<1>1. \A t \in Tabs : list'[t] # None => list'[t].signedIn = (user' # None)
  BY FreshRootOK
<1> QED
  BY <1>1 DEF StaleBarsAnnounced, SignedIn

\* A decision that changes the session queues a success.
LEMMA DecideBars ==
    ASSUME StaleBarsAnnounced, SessionTypeOK, NEW c \in Calls, Decide(c)
    PROVE  StaleBarsAnnounced'
<1>1. list' = list
  BY DEF Decide, appVars, screenVars
<1>2. PICK ok \in BOOLEAN : replies' = Append(replies, [call |-> c, ok |-> ok])
                            /\ (ok \/ user' = user)
  BY DEF Decide, DecideCall, SignInCall, RejectCall, SignInNobody, Reply
<1>3. /\ Len(replies) \in Nat
      /\ DOMAIN replies = 1..Len(replies)
      /\ DOMAIN replies' = 1..(Len(replies) + 1)
      /\ replies'[Len(replies) + 1] = [call |-> c, ok |-> ok]
      /\ \A i \in 1..Len(replies) : replies'[i] = replies[i]
  BY <1>2, AppendProperties, LenProperties DEF SessionTypeOK
<1>4. SuccessQueued => SuccessQueued'
  <2>1. \A i \in DOMAIN replies : i \in DOMAIN replies' /\ replies'[i] = replies[i]
    BY <1>3
  <2> QED
    BY <2>1 DEF SuccessQueued
<1>5. ok => SuccessQueued'
  <2>1. Len(replies) + 1 \in DOMAIN replies'
    BY <1>3
  <2> QED
    BY <1>3, <2>1 DEF SuccessQueued
<1> QED
  BY <1>1, <1>2, <1>4, <1>5 DEF StaleBarsAnnounced, SuccessQueued, SignedIn

\* A failure that is delivered leaves the successes behind it in the queue.
LEMMA CallbackBars ==
    ASSUME AppInv, StaleBarsAnnounced, SessionTypeOK, Callback
    PROVE  StaleBarsAnnounced'
<1>1. CASE Head(replies).ok
  <2>1. FreshRoot(db, user')
    BY <1>1 DEF Callback, DeliverReply
  <2> QED
    BY <2>1, FreshRootBars DEF AppInv, AppTypes, StoreOK
<1>2. CASE ~Head(replies).ok
  <2>1. replies # <<>> /\ replies' = Tail(replies) /\ user' = user /\ list' = list
    BY <1>2 DEF Callback, DeliverReply
  <2>2. /\ Len(replies) \in Nat
        /\ DOMAIN replies = 1..Len(replies)
        /\ DOMAIN replies' = 1..(Len(replies) - 1)
        /\ Head(replies) = replies[1]
        /\ \A i \in 1..(Len(replies) - 1) : replies'[i] = replies[i + 1]
    BY <2>1, HeadTailProperties, LenProperties DEF SessionTypeOK
  <2>3. ASSUME NEW i \in DOMAIN replies, replies[i].ok
        PROVE  \E j \in DOMAIN replies' : replies'[j].ok
    <3>1. i # 1
      BY <1>2, <2>2, <2>3
    <3>2. i - 1 \in DOMAIN replies' /\ (i - 1) + 1 = i
      BY <2>2, <3>1
    <3>3. replies'[i - 1] = replies[i]
      BY <2>2, <3>2
    <3> QED
      BY <2>3, <3>2, <3>3
  <2> QED
    BY <2>1, <2>3 DEF StaleBarsAnnounced, SignedIn
<1> QED
  BY <1>1, <1>2

\* An unwind refreshes the bar buttons of the selected tab's list.
LEMMA UnwoundBars ==
    ASSUME AppInv, NEW lost \in BOOLEAN
    PROVE  Unwound(lost).signedIn = SignedIn
BY CurrentList DEF Unwound, Lists

\* If only the selected tab's list is assigned, the others are kept.
LEMMA OneListBars ==
    ASSUME AppInv, NEW l, list' = [list EXCEPT ![tab] = l],
           l.signedIn = SignedIn \/ l.signedIn = list[tab].signedIn
    PROVE  BarsKept
BY DEF AppInv, AppTypes, BarsKept

\* A step that changes no list leaves the bar buttons alone.
LEMMA SameListBars ==
    ASSUME list' = list
    PROVE  BarsKept
BY DEF BarsKept

\* Every step of the app that leaves the session alone keeps or refreshes.
LEMMA ScreenStepsKeepBars ==
    ASSUME AppInv,
           \/ \E t \in Tabs : SelectTab(t)
           \/ \E r \in 1..MaxPosts : ShowDelete(r)
           \/ HideDelete \/ CommitDelete \/ CancelForm \/ CancelDetails
           \/ SaveDetails \/ FoundUnwind
    PROVE  BarsKept
<1>1. ASSUME NEW t \in Tabs, SelectTab(t) PROVE BarsKept
  <2>1. CASE Unloaded(t)
    <3>1. PICK l \in Loaded(t, db, user) : list' = [list EXCEPT ![t] = l]
      BY <1>1, <2>1 DEF SelectTab
    <3>2. l.signedIn = SignedIn
      BY LoadedOK DEF AppInv, AppTypes, StoreOK, SignedIn
    <3> QED
      BY <3>1, <3>2 DEF AppInv, AppTypes, BarsKept
  <2>2. CASE ~Unloaded(t)
    BY <1>1, <2>2, SameListBars DEF SelectTab
  <2> QED
    BY <2>1, <2>2
<1>2. ASSUME NEW r \in 1..MaxPosts, ShowDelete(r) PROVE BarsKept
  <2> DEFINE l == [list[tab] EXCEPT !.swiped = r]
  <2>1. list' = [list EXCEPT ![tab] = l]
    BY <1>2 DEF ShowDelete
  <2>2. l.signedIn = list[tab].signedIn
    BY CurrentList DEF Lists
  <2> QED
    BY <2>1, <2>2, OneListBars
<1>3. CASE HideDelete
  <2> DEFINE l == [list[tab] EXCEPT !.swiped = 0]
  <2>1. list' = [list EXCEPT ![tab] = l]
    BY <1>3 DEF HideDelete
  <2>2. l.signedIn = list[tab].signedIn
    BY CurrentList DEF Lists
  <2> QED
    BY <2>1, <2>2, OneListBars
<1>4. CASE CommitDelete
  <2> DEFINE l == RowRemoved(list[tab], list[tab].swiped)
  <2>1. list' = [list EXCEPT ![tab] = l] \/ list' = list
    BY <1>4 DEF CommitDelete, Trap, screenVars
  <2>2. l.signedIn = list[tab].signedIn
    BY CurrentList DEF Lists, RowRemoved
  <2> QED
    BY <2>1, <2>2, OneListBars, SameListBars
<1>5. CASE CancelForm
  <2>1. Last(modals).lost \in BOOLEAN
    BY <1>5, TopForm DEF CancelForm, OnForm, Forms
  <2> QED
    BY <1>5, <2>1, UnwoundBars, OneListBars DEF CancelForm
<1>6. ASSUME details[tab] # None
      PROVE  details[tab].isLostItem \in BOOLEAN
  BY <1>6, ShownItem
<1>7. CASE CancelDetails
  BY <1>6, <1>7, UnwoundBars, OneListBars DEF CancelDetails, OnDetails
<1>8. CASE SaveDetails
  <2> DEFINE u == Unwound(details[tab].isLostItem)
             l == [u EXCEPT !.items[SelectedRow] = NewItem(details[tab].isLostItem)]
  <2>1. list' = [list EXCEPT ![tab] = l] \/ list' = list
    BY <1>8 DEF SaveDetails, Trap, screenVars
  <2>2. u \in Lists /\ u.signedIn = SignedIn
    BY <1>6, <1>8, UnwoundOK, UnwoundBars DEF SaveDetails, OnDetails
  <2> HIDE DEF u
  <2>3. l.signedIn = SignedIn
    BY <2>2 DEF Lists
  <2> QED
    BY <2>1, <2>3, OneListBars, SameListBars
<1>9. CASE FoundUnwind
  <2> DEFINE u == Unwound(details[tab].isLostItem)
             l == RowRemoved(u, SelectedRow)
  <2>1. list' = [list EXCEPT ![tab] = l] \/ list' = list
    BY <1>9 DEF FoundUnwind, Trap, screenVars
  <2>2. u \in Lists /\ u.signedIn = SignedIn
    BY <1>6, <1>9, UnwoundOK, UnwoundBars DEF FoundUnwind, OnDetails
  <2> HIDE DEF u
  <2>3. l.signedIn = SignedIn
    BY <2>2 DEF Lists, RowRemoved
  <2> QED
    BY <2>1, <2>3, OneListBars, SameListBars
<1> QED
  BY <1>1, <1>2, <1>3, <1>4, <1>5, <1>7, <1>8, <1>9

\* Saving a new item refreshes the list, or shows a new root.
LEMMA SaveNewBars ==
    ASSUME AppInv, SessionTypeOK, StaleBarsAnnounced, SaveNew
    PROVE  StaleBarsAnnounced'
<1> DEFINE item == NewItem(Last(modals).lost)
           u == Unwound(TRUE)
           l == [u EXCEPT !.items = Append(@, item)]
<1>1. UNCHANGED <<user, replies>>
  BY DEF SaveNew, sessionVars
<1>2. CASE ~SignedIn
  <2>1. list' = list
    BY <1>2 DEF SaveNew, Trap, screenVars
  <2> QED
    BY <1>1, <2>1, SameListBars, ScreenStepBars
<1>3. CASE SignedIn /\ u.isLostList /\ ~item.found
  <2>1. list' = [list EXCEPT ![tab] = l]
    BY <1>3 DEF SaveNew
  <2>2. u \in Lists /\ u.signedIn = SignedIn
    BY UnwoundOK, UnwoundBars
  <2> HIDE DEF item, u
  <2>3. l.signedIn = SignedIn
    BY <2>2 DEF Lists
  <2> QED
    BY <1>1, <2>1, <2>3, OneListBars, ScreenStepBars
<1>4. CASE SignedIn /\ ~(u.isLostList /\ ~item.found)
  <2>1. FreshRoot(db', user')
    BY <1>1, <1>4 DEF SaveNew
  <2>2. AppInv'
    BY SaveNewStep
  <2> QED
    BY <2>1, <2>2, FreshRootBars DEF AppInv, AppTypes, StoreOK
<1> QED
  BY <1>2, <1>3, <1>4

\* No step leaves stale bar buttons without a success in the queue.
LEMMA StaleBarsStep ==
    ASSUME AppInv, SessionTypeOK, StaleBarsAnnounced, [Next]_vars
    PROVE  StaleBarsAnnounced'
<1>1. CASE \/ \E t \in Tabs : SelectTab(t)
           \/ \E r \in 1..MaxPosts : ShowDelete(r)
           \/ HideDelete \/ CommitDelete \/ CancelForm \/ CancelDetails
           \/ SaveDetails \/ FoundUnwind
  <2>1. BarsKept
    BY <1>1, ScreenStepsKeepBars
  <2>2. UNCHANGED <<user, replies>>
    BY <1>1 DEF SelectTab, ShowDelete, HideDelete, CommitDelete, CancelForm,
                CancelDetails, SaveDetails, FoundUnwind, sessionVars
  <2> QED
    BY <2>1, <2>2, ScreenStepBars
<1>2. CASE \/ PopDetails \/ SwitchForm \/ DismissAlert \/ UNCHANGED vars
           \/ \E r \in 1..MaxPosts : OpenDetails(r)
           \/ \E kind \in {"add", "login", "register"} : OpenForm(kind)
           \/ \E valid \in BOOLEAN : EditNew(valid) \/ EditDetails(valid)
           \/ \E c \in Calls, email \in Users : SubmitForm(c, email)
  <2>1. list' = list
    BY <1>2 DEF PopDetails, SwitchForm, DismissAlert, OpenDetails, OpenForm, EditNew,
                EditDetails, SubmitForm, Trap, vars, appVars, screenVars
  <2>2. UNCHANGED <<user, replies>>
    BY <1>2 DEF PopDetails, SwitchForm, DismissAlert, OpenDetails, OpenForm, EditNew,
                EditDetails, SubmitForm, SubmitCall, vars, sessionVars
  <2> QED
    BY <2>1, <2>2, SameListBars, ScreenStepBars
<1>3. CASE SaveNew
  BY <1>3, SaveNewBars
<1>4. CASE Callback
  BY <1>4, CallbackBars
<1>5. CASE \E c \in Calls : Decide(c)
  BY <1>5, DecideBars
<1>6. CASE LogOut \/ Relaunch
  BY <1>6, FreshRootBars DEF LogOut, Relaunch, AppInv, AppTypes, StoreOK
<1> QED
  BY <1>1, <1>2, <1>3, <1>4, <1>5, <1>6 DEF Next

\* Bar buttons contradict the session only while the success that changed it
\* waits in the main queue, however many calls are under way.
THEOREM StaleBarsAreAnnounced == Spec => []StaleBarsAnnounced
<1>1. ASSUME Init PROVE StaleBarsAnnounced
  <2>1. PICK first \in Loaded("lost", {}, None) :
            list = [t \in Tabs |-> IF t = "lost" THEN first ELSE None]
    BY <1>1 DEF Init
  <2>2. first.signedIn = FALSE
    <3>1. {} \subseteq Items /\ IsFiniteSet({}) /\ "lost" \in Tabs
      BY FS_EmptySet DEF Tabs
    <3>2. first.signedIn = (None # None)
      BY <2>1, <3>1, LoadedOK
    <3> QED
      BY <3>2
  <2> QED
    BY <1>1, <2>1, <2>2 DEF Init, SessionInit, StaleBarsAnnounced, SignedIn
<1>2. Spec => []SessionTypeOK
  BY AppUsesSession, SessionTypes, PTL
<1> QED
  BY <1>1, <1>2, AppInvariant, StaleBarsStep, PTL DEF Spec

-----------------------------------------------------------------------------
(* What a step may do to the store *)

\* Objects leave the store only as the item on the details screen or as the
\* row that shows Delete.
LEMMA RemovalStep ==
    ASSUME AppInv, [Next]_vars, NEW i \in db \ db'
    PROVE  \/ details[tab] # None /\ i = details[tab].item
           \/ /\ details[tab] = None /\ list[tab].swiped # 0
              /\ i = list[tab].items[list[tab].swiped]
<1>1. CASE CommitDelete
  BY <1>1 DEF CommitDelete, OnList, Trap
<1>2. CASE FoundUnwind
  BY <1>2 DEF FoundUnwind, OnDetails, Trap
<1>3. CASE SaveDetails
  <2>1. details[tab] # None
    BY <1>3 DEF SaveDetails, OnDetails
  <2>2. list[tab].items[SelectedRow] = details[tab].item
    BY <2>1, ShownItem DEF SelectedRow
  <2>3. i = list[tab].items[SelectedRow]
    BY <1>3 DEF SaveDetails, Trap
  <2> QED
    BY <2>1, <2>2, <2>3
<1>4. CASE SaveNew
  BY <1>4 DEF SaveNew, Trap
<1>5. CASE \/ \E t \in Tabs : SelectTab(t)
           \/ \E r \in 1..MaxPosts : OpenDetails(r) \/ ShowDelete(r)
           \/ \E kind \in {"add", "login", "register"} : OpenForm(kind)
           \/ \E valid \in BOOLEAN : EditNew(valid) \/ EditDetails(valid)
           \/ \E c \in Calls, email \in Users : SubmitForm(c, email)
  BY <1>5 DEF SelectTab, OpenDetails, ShowDelete, OpenForm, EditNew, EditDetails,
              SubmitForm, Trap
<1>6. CASE \/ PopDetails \/ HideDelete \/ SwitchForm \/ CancelForm \/ CancelDetails
           \/ DismissAlert \/ LogOut \/ Callback \/ Relaunch \/ UNCHANGED vars
           \/ \E c \in Calls : Decide(c)
  BY <1>6 DEF PopDetails, HideDelete, SwitchForm, CancelForm, CancelDetails,
              DismissAlert, LogOut, Callback, Relaunch, Decide, vars, appVars
<1> QED
  BY <1>1, <1>2, <1>3, <1>4, <1>5, <1>6 DEF Next

\* What leaves the store is what the viewer was looking at: neither the order
\* of the rows nor a stale selection makes a step remove another item.
THEOREM RemovalsAreShown == Spec => RemovesWhatIsShown
<1>1. ASSUME AppInv, [Next]_vars
      PROVE  [\A i \in db \ db' :
                 \/ details[tab] # None /\ i = details[tab].item
                 \/ /\ details[tab] = None /\ list[tab].swiped # 0
                    /\ i = list[tab].items[list[tab].swiped]]_vars
  BY <1>1, RemovalStep
<1> QED
  BY <1>1, AppInvariant, PTL DEF Spec, RemovesWhatIsShown

\* A step that removes an object and adds another one is Save on a details
\* screen, and the new object is of the kind of the screen.
LEMMA ReplacementStep ==
    ASSUME AppInv, [Next]_vars, NEW i \in db \ db', NEW j \in db' \ db
    PROVE  j.found = i.found
<1>1. CASE SaveDetails
  <2>1. details[tab] # None
    BY <1>1 DEF SaveDetails, OnDetails
  <2>2. /\ list[tab].items[SelectedRow] = details[tab].item
        /\ details[tab].item \in OfKind(tab, db)
        /\ details[tab].isLostItem = (tab = "lost")
        /\ tab \in Tabs
    BY <2>1, ShownItem DEF SelectedRow, AppInv, AppTypes
  <2>3. i = details[tab].item /\ j = NewItem(details[tab].isLostItem)
    BY <1>1, <2>2 DEF SaveDetails, Trap
  <2> QED
    BY <2>2, <2>3 DEF NewItem, OfKind, Tabs
<1>2. CASE CommitDelete \/ FoundUnwind \/ SaveNew
  BY <1>2 DEF CommitDelete, FoundUnwind, SaveNew, Trap
<1>3. CASE \/ \E t \in Tabs : SelectTab(t)
           \/ \E r \in 1..MaxPosts : OpenDetails(r) \/ ShowDelete(r)
           \/ \E kind \in {"add", "login", "register"} : OpenForm(kind)
           \/ \E valid \in BOOLEAN : EditNew(valid) \/ EditDetails(valid)
           \/ \E c \in Calls, email \in Users : SubmitForm(c, email)
  BY <1>3 DEF SelectTab, OpenDetails, ShowDelete, OpenForm, EditNew, EditDetails,
              SubmitForm, Trap
<1>4. CASE \/ PopDetails \/ HideDelete \/ SwitchForm \/ CancelForm \/ CancelDetails
           \/ DismissAlert \/ LogOut \/ Callback \/ Relaunch \/ UNCHANGED vars
           \/ \E c \in Calls : Decide(c)
  BY <1>4 DEF PopDetails, HideDelete, SwitchForm, CancelForm, CancelDetails,
              DismissAlert, LogOut, Callback, Relaunch, Decide, vars, appVars
<1> QED
  BY <1>1, <1>2, <1>3, <1>4 DEF Next

\* An edit never moves an item from the lost to the found list or back.
THEOREM EditsKeepKinds == Spec => EditKeepsKind
<1>1. ASSUME AppInv, [Next]_vars
      PROVE  [\A i \in db \ db', j \in db' \ db : j.found = i.found]_vars
  BY <1>1, ReplacementStep
<1> QED
  BY <1>1, AppInvariant, PTL DEF Spec, EditKeepsKind

-----------------------------------------------------------------------------
(* One call at a time: while no two calls of the session are under way at once,
   nobody edits what is not theirs, no form is up without a user, and no handler
   runs into a nil.  The number of slots for calls, of users, posts and forms is
   arbitrary; that calls do not overlap is a hypothesis, since no code enforces
   it. *)


\* A call is under way from its submission until its callback has run; at
\* most one is.
OneCall == \A c, d \in Calls : ~Free(c) /\ ~Free(d) => c = d

\* Bar buttons of a session are never shown without one: only the opposite,
\* login and register buttons for a session that has just begun, occurs.
ClaimsHold == \A t \in Tabs : list[t] # None /\ list[t].signedIn => SignedIn

\* The forms are those that the buttons of the list beneath them offer.
FormsOffered ==
    \A i \in DOMAIN modals : (modals[i].kind = "add") = list[tab].signedIn

\* A details screen whose Save is enabled is one that may be edited.
SaveIsEditing ==
    \A t \in Tabs : details[t] # None /\ details[t].save => details[t].editing

OneCallInv ==
    /\ WaitingMeansSignedOut
    /\ ClaimsHold
    /\ FormsOffered
    /\ EditorsOwn
    /\ SaveIsEditing

-----------------------------------------------------------------------------
(* The invariant is preserved: one lemma for each way the screens change *)

\* The session, the lists, the details screens and the forms stay.
LEMMA SameScreens ==
    ASSUME OneCallInv, UNCHANGED <<user, calls, tab, list, details, modals>>
    PROVE  OneCallInv'
BY DEF OneCallInv, WaitingMeansSignedOut, ClaimsHold, FormsOffered, EditorsOwn,
       SaveIsEditing, SignedIn

\* A new root has no forms and no details screen, and reads the session.
LEMMA NewRoot ==
    ASSUME NEW store, store \subseteq Items, IsFiniteSet(store),
           FreshRoot(store, user'), WaitingMeansSignedOut'
    PROVE  OneCallInv'
<1>1. PICK first \in Loaded("lost", store, user') : list' = NewTabs(first)
  BY DEF FreshRoot
<1>2. first.swiped = 0 /\ first.signedIn = (user' # None)
  <2>1. "lost" \in Tabs
    BY DEF Tabs
  <2> QED
    BY <2>1, LoadedOK
<1>3. \A t \in Tabs : list'[t] # None => list'[t] = first
  BY <1>1 DEF NewTabs
<1>4. ClaimsHold'
  BY <1>2, <1>3 DEF ClaimsHold, SignedIn
<1>5. FormsOffered'
  BY DEF FreshRoot, FormsOffered
<1>6. EditorsOwn' /\ SaveIsEditing'
  BY <1>2, <1>3 DEF FreshRoot, EditorsOwn, SaveIsEditing
<1> QED
  BY <1>4, <1>5, <1>6 DEF OneCallInv

\* One tab, selected from now on, gets a list and a details screen of which
\* the viewer owns what is offered to be changed; no form is left.
LEMMA TabScreens ==
    ASSUME AppInv, OneCallInv, NEW t \in Tabs, NEW l, NEW d,
           UNCHANGED <<user, calls>>, modals' = <<>>,
           list' = [list EXCEPT ![t] = l],
           details' = [details EXCEPT ![t] = d],
           l # None /\ l.signedIn => SignedIn,
           l # None /\ l.swiped # 0 => user = l.items[l.swiped].userEmail,
           d # None /\ d.editing => user = d.item.userEmail,
           d # None /\ d.save => d.editing
    PROVE  OneCallInv'
<1>1. \A v \in Tabs : /\ list'[v] = IF v = t THEN l ELSE list[v]
                      /\ details'[v] = IF v = t THEN d ELSE details[v]
  BY DEF AppInv, AppTypes
<1>2. WaitingMeansSignedOut'
  BY DEF OneCallInv, WaitingMeansSignedOut
<1>3. ClaimsHold'
  BY <1>1 DEF OneCallInv, ClaimsHold, SignedIn
<1>4. FormsOffered'
  BY DEF FormsOffered
<1>5. EditorsOwn'
  BY <1>1 DEF OneCallInv, EditorsOwn
<1>6. SaveIsEditing'
  BY <1>1 DEF OneCallInv, SaveIsEditing
<1> QED
  BY <1>2, <1>3, <1>4, <1>5, <1>6 DEF OneCallInv

\* What the selected tab offers to change belongs to the viewer.
LEMMA CurrentTab ==
    ASSUME AppInv, OneCallInv
    PROVE  /\ list[tab].signedIn => SignedIn
           /\ list[tab].swiped # 0 => user = list[tab].items[list[tab].swiped].userEmail
           /\ details[tab] # None /\ details[tab].editing
                 => user = details[tab].item.userEmail
           /\ details[tab] # None /\ details[tab].save => details[tab].editing
BY DEF AppInv, AppTypes, OneCallInv, ClaimsHold, EditorsOwn, SaveIsEditing

\* Selecting a tab loads a list that reads the session, or finds the old one.
LEMMA SelectTabOneCall ==
    ASSUME AppInv, OneCallInv, NEW t \in Tabs, SelectTab(t)
    PROVE  OneCallInv'
<1>1. /\ UNCHANGED <<user, calls, details, db>> /\ modals' = <<>>
      /\ details' = [details EXCEPT ![t] = details[t]]
  BY DEF SelectTab, OnTabs, sessionVars, AppInv, AppTypes
<1>2. /\ details[t] # None /\ details[t].editing => user = details[t].item.userEmail
      /\ details[t] # None /\ details[t].save => details[t].editing
  BY DEF OneCallInv, EditorsOwn, SaveIsEditing
<1>3. CASE Unloaded(t)
  <2>1. PICK l \in Loaded(t, db, user) : list' = [list EXCEPT ![t] = l]
    BY <1>3 DEF SelectTab
  <2>2. l.swiped = 0 /\ l.signedIn = SignedIn
    BY LoadedOK DEF AppInv, AppTypes, StoreOK, SignedIn
  <2> QED
    BY <1>1, <1>2, <2>1, <2>2, TabScreens
<1>4. CASE ~Unloaded(t)
  <2>1. list' = [list EXCEPT ![t] = list[t]]
    BY <1>4 DEF SelectTab, AppInv, AppTypes
  <2>2. /\ list[t] # None /\ list[t].signedIn => SignedIn
        /\ list[t] # None /\ list[t].swiped # 0
              => user = list[t].items[list[t].swiped].userEmail
    BY DEF OneCallInv, ClaimsHold, EditorsOwn
  <2> QED
    BY <1>1, <1>2, <2>1, <2>2, TabScreens
<1> QED
  BY <1>3, <1>4

\* A handler of the selected tab's screens leaves the session and that tab.
LEMMA CurrentTabScreens ==
    ASSUME AppInv, OneCallInv, NEW l \in Lists, NEW d,
           UNCHANGED <<user, calls, tab>>, modals' = <<>>,
           list' = [list EXCEPT ![tab] = l],
           details' = [details EXCEPT ![tab] = d],
           l.signedIn => SignedIn,
           l.swiped # 0 => user = l.items[l.swiped].userEmail,
           d # None /\ d.editing => user = d.item.userEmail,
           d # None /\ d.save => d.editing
    PROVE  OneCallInv'
<1>1. tab \in Tabs
  BY CurrentList
<1> QED
  BY <1>1, TabScreens

\* The list stays and a details screen is put on top of it, or popped.
LEMMA DetailsOneCall ==
    ASSUME AppInv, OneCallInv, NEW d,
           UNCHANGED <<user, calls, tab, list>>, modals' = <<>>,
           details' = [details EXCEPT ![tab] = d],
           d # None /\ d.editing => user = d.item.userEmail,
           d # None /\ d.save => d.editing
    PROVE  OneCallInv'
<1>1. list' = [list EXCEPT ![tab] = list[tab]] /\ list[tab] \in Lists
  BY SelfAssign
<1> QED
  BY <1>1, CurrentTab, CurrentTabScreens

LEMMA PopDetailsOneCall ==
    ASSUME AppInv, OneCallInv, PopDetails
    PROVE  OneCallInv'
<1>1. /\ UNCHANGED <<user, calls, tab, list>> /\ modals' = <<>>
      /\ details' = [details EXCEPT ![tab] = None]
  BY DEF PopDetails, OnDetails, OnTabs, sessionVars
<1> QED
  BY <1>1, DetailsOneCall

\* The details screen is opened for editing by its owner only.
LEMMA OpenDetailsOneCall ==
    ASSUME AppInv, OneCallInv, NEW r \in 1..MaxPosts, OpenDetails(r)
    PROVE  OneCallInv'
<1> DEFINE item == list[tab].items[r]
           d == [row |-> r, item |-> item, isLostItem |-> ~item.found,
                 editing |-> Owns(user, item), save |-> Owns(user, item)]
<1>1. UNCHANGED <<user, calls>> /\ modals = <<>>
  BY DEF OpenDetails, OnList, OnTabs, sessionVars
<1>2. CASE item \in db
  <2>1. /\ UNCHANGED <<tab, list, modals>>
        /\ details' = [details EXCEPT ![tab] = d]
    BY <1>2 DEF OpenDetails
  <2>2. d.editing = Owns(user, item) /\ d.save = d.editing /\ d.item = item
    OBVIOUS
  <2>3. d.editing => user = d.item.userEmail
    BY <2>2 DEF Owns
  <2> HIDE DEF d
  <2> QED
    BY <1>1, <2>1, <2>2, <2>3, DetailsOneCall
<1>3. CASE item \notin db
  BY <1>1, <1>3, SameScreens DEF OpenDetails, Trap, screenVars
<1> QED
  BY <1>2, <1>3

\* Typing into a details screen that may be edited enables its Save.
LEMMA EditDetailsOneCall ==
    ASSUME AppInv, OneCallInv, NEW valid \in BOOLEAN, EditDetails(valid)
    PROVE  OneCallInv'
<1> DEFINE d == [details[tab] EXCEPT !.save = valid /\ SignedIn]
<1>1. /\ UNCHANGED <<user, calls, tab, list>> /\ modals' = <<>>
      /\ details' = [details EXCEPT ![tab] = d]
      /\ details[tab].editing /\ details[tab] # None
  BY DEF EditDetails, OnDetails, OnTabs, sessionVars
<1>2. details[tab] \in DetailScreens
  BY <1>1, SelfAssign
<1>3. d.editing = details[tab].editing /\ d.item = details[tab].item
  BY <1>2 DEF DetailScreens
<1> HIDE DEF d
<1>4. user = d.item.userEmail /\ d.editing
  BY <1>1, <1>3, CurrentTab
<1> QED
  BY <1>1, <1>4, DetailsOneCall

\* The details screen stays and its list is assigned.
LEMMA ListOneCall ==
    ASSUME AppInv, OneCallInv, NEW l \in Lists,
           UNCHANGED <<user, calls, tab, details>>, modals' = <<>>,
           list' = [list EXCEPT ![tab] = l],
           l.signedIn => SignedIn,
           l.swiped # 0 => user = l.items[l.swiped].userEmail
    PROVE  OneCallInv'
<1>1. details' = [details EXCEPT ![tab] = details[tab]]
  BY SelfAssign
<1> QED
  BY <1>1, CurrentTab, CurrentTabScreens

\* Delete is shown on the viewer's own rows.
LEMMA ShowDeleteOneCall ==
    ASSUME AppInv, OneCallInv, NEW r \in 1..MaxPosts, ShowDelete(r)
    PROVE  OneCallInv'
<1> DEFINE l == [list[tab] EXCEPT !.swiped = r]
<1>1. /\ UNCHANGED <<user, calls, tab, details>> /\ modals' = <<>>
      /\ list' = [list EXCEPT ![tab] = l]
      /\ Owns(user, list[tab].items[r])
  BY DEF ShowDelete, OnList, OnTabs, sessionVars, AppInv, AppTypes
<1>2. /\ l \in Lists /\ l.swiped = r /\ l.items = list[tab].items
      /\ l.signedIn = list[tab].signedIn
  BY CurrentList, BoundsAssumption DEF Lists
<1> HIDE DEF l
<1>3. l.swiped # 0 => user = l.items[l.swiped].userEmail
  BY <1>1, <1>2 DEF Owns
<1> QED
  BY <1>1, <1>2, <1>3, CurrentTab, ListOneCall

LEMMA HideDeleteOneCall ==
    ASSUME AppInv, OneCallInv, HideDelete
    PROVE  OneCallInv'
<1> DEFINE l == [list[tab] EXCEPT !.swiped = 0]
<1>1. /\ UNCHANGED <<user, calls, tab, details>> /\ modals' = <<>>
      /\ list' = [list EXCEPT ![tab] = l]
  BY DEF HideDelete, OnList, OnTabs, sessionVars, AppInv, AppTypes
<1>2. l \in Lists /\ l.swiped = 0 /\ l.signedIn = list[tab].signedIn
  BY CurrentList DEF Lists
<1> HIDE DEF l
<1> QED
  BY <1>1, <1>2, CurrentTab, ListOneCall

\* A list from which a row was removed shows no Delete.
LEMMA RowRemovedFields ==
    ASSUME NEW l \in Lists, NEW r \in DOMAIN l.items
    PROVE  /\ RowRemoved(l, r) \in Lists
           /\ RowRemoved(l, r).swiped = 0
           /\ RowRemoved(l, r).signedIn = l.signedIn
<1>1. RemoveAt(l.items, r) \in Seq(Items)
  BY RemoveAtProperties DEF Lists
<1> QED
  BY <1>1 DEF RowRemoved, Lists

LEMMA CommitDeleteOneCall ==
    ASSUME AppInv, OneCallInv, CommitDelete
    PROVE  OneCallInv'
<1> DEFINE r == list[tab].swiped
           l == RowRemoved(list[tab], r)
<1>1. UNCHANGED <<user, calls>> /\ modals = <<>>
  BY DEF CommitDelete, OnList, OnTabs, sessionVars
<1>2. CASE list[tab].items[r] \in db
  <2>1. UNCHANGED <<tab, details, modals>> /\ list' = [list EXCEPT ![tab] = l]
    BY <1>2 DEF CommitDelete
  <2>2. r \in DOMAIN list[tab].items /\ list[tab] \in Lists
    <3>1. r \in 0..Len(list[tab].items) /\ r # 0
      BY CurrentList DEF ListOK, CommitDelete
    <3> QED
      BY <3>1, CurrentList
  <2>3. l \in Lists /\ l.swiped = 0 /\ l.signedIn = list[tab].signedIn
    BY <2>2, RowRemovedFields
  <2> HIDE DEF l
  <2> QED
    BY <1>1, <2>1, <2>3, CurrentTab, ListOneCall
<1>3. CASE list[tab].items[r] \notin db
  BY <1>1, <1>3, SameScreens DEF CommitDelete, Trap, screenVars
<1> QED
  BY <1>2, <1>3

\* An unwind reads the session for the bar buttons.
LEMMA UnwoundOneCall ==
    ASSUME AppInv, OneCallInv, NEW lost \in BOOLEAN
    PROVE  /\ Unwound(lost) \in Lists
           /\ Unwound(lost).items = list[tab].items
           /\ Unwound(lost).signedIn = SignedIn
           /\ Unwound(lost).swiped # 0
                 => user = Unwound(lost).items[Unwound(lost).swiped].userEmail
BY UnwoundOK, UnwoundBars, CurrentTab

LEMMA CancelFormOneCall ==
    ASSUME AppInv, OneCallInv, CancelForm
    PROVE  OneCallInv'
<1>1. /\ UNCHANGED <<user, calls, tab, details>> /\ modals' = <<>>
      /\ list' = [list EXCEPT ![tab] = Unwound(Last(modals).lost)]
  BY DEF CancelForm, DismissForms, sessionVars
<1>2. Last(modals).lost \in BOOLEAN
  BY TopForm DEF CancelForm, OnForm, Forms
<1> QED
  BY <1>1, <1>2, UnwoundOneCall, ListOneCall

LEMMA CancelDetailsOneCall ==
    ASSUME AppInv, OneCallInv, CancelDetails
    PROVE  OneCallInv'
<1>1. /\ UNCHANGED <<user, calls, tab>> /\ modals' = <<>>
      /\ list' = [list EXCEPT ![tab] = Unwound(details[tab].isLostItem)]
      /\ details' = [details EXCEPT ![tab] = None]
  BY DEF CancelDetails, OnDetails, OnTabs, sessionVars
<1>2. details[tab].isLostItem \in BOOLEAN
  BY ShownItem DEF CancelDetails, OnDetails
<1> QED
  BY <1>1, <1>2, UnwoundOneCall, CurrentTabScreens

-----------------------------------------------------------------------------
(* Saving *)

LEMMA SaveNewOneCall ==
    ASSUME AppInv, SessionTypeOK, OneCallInv, SaveNew
    PROVE  OneCallInv'
<1> DEFINE item == NewItem(Last(modals).lost)
           u == Unwound(TRUE)
           l == [u EXCEPT !.items = Append(@, item)]
<1>1. UNCHANGED <<user, calls>>
  BY DEF SaveNew, sessionVars
<1>2. CASE ~SignedIn
  BY <1>1, <1>2, SameScreens DEF SaveNew, Trap, screenVars
<1>3. CASE SignedIn /\ u.isLostList /\ ~item.found
  <2>1. /\ list' = [list EXCEPT ![tab] = l] /\ modals' = <<>>
        /\ UNCHANGED <<tab, details>>
    BY <1>3 DEF SaveNew, DismissForms
  <2>2. /\ u \in Lists /\ u.signedIn = SignedIn /\ u.items = list[tab].items
        /\ u.swiped = list[tab].swiped
    BY UnwoundOneCall, UnwoundOK
  <2>3. item \in Items
    <3>1. Last(modals).lost \in BOOLEAN /\ clock < MaxPosts
      BY TopForm DEF SaveNew, OnForm, Forms
    <3> QED
      BY <1>3, <3>1, NewItemOK
  <2> HIDE DEF u, item
  <2>4. Append(u.items, item) \in Seq(Items)
    BY <2>2, <2>3 DEF Lists
  <2>5. /\ l \in Lists /\ l.signedIn = u.signedIn /\ l.swiped = u.swiped
        /\ l.items = Append(u.items, item)
    BY <2>2, <2>4 DEF Lists
  <2>6. l.swiped # 0 => l.items[l.swiped] = list[tab].items[list[tab].swiped]
    <3>1. list[tab].swiped \in 0..Len(list[tab].items) /\ u.items \in Seq(Items)
      BY <2>2, CurrentList DEF ListOK
    <3> QED
      BY <2>2, <2>3, <2>5, <3>1, AppendProperties, LenProperties
  <2> HIDE DEF l
  <2> QED
    BY <1>1, <1>3, <2>1, <2>2, <2>5, <2>6, CurrentTab, ListOneCall
<1>4. CASE SignedIn /\ ~(u.isLostList /\ ~item.found)
  <2>1. FreshRoot(db', user')
    BY <1>1, <1>4 DEF SaveNew
  <2>2. db' \subseteq Items /\ IsFiniteSet(db')
    BY SaveNewStep DEF AppInv, AppTypes, StoreOK
  <2>3. WaitingMeansSignedOut'
    BY <1>1 DEF OneCallInv, WaitingMeansSignedOut
  <2> QED
    BY <2>1, <2>2, <2>3, NewRoot
<1> QED
  BY <1>2, <1>3, <1>4

\* The row that Save replaces was the viewer's and stays the viewer's.
LEMMA SaveDetailsOneCall ==
    ASSUME AppInv, SessionTypeOK, OneCallInv, SaveDetails
    PROVE  OneCallInv'
<1> DEFINE lost == details[tab].isLostItem
           item == NewItem(lost)
           u == Unwound(lost)
           l == [u EXCEPT !.items[SelectedRow] = item]
<1>1. UNCHANGED <<user, calls>> /\ modals = <<>> /\ details[tab] # None
  BY DEF SaveDetails, OnDetails, OnTabs, sessionVars
<1>2. CASE Trap
  BY <1>1, <1>2, SameScreens DEF Trap, screenVars
<1>3. CASE ~Trap
  <2>1. /\ SignedIn
        /\ list' = [list EXCEPT ![tab] = l]
        /\ details' = [details EXCEPT ![tab] = None]
        /\ UNCHANGED <<tab, modals>>
    BY <1>3 DEF SaveDetails
  <2>2. lost \in BOOLEAN
    BY <1>1, ShownItem
  <2>3. /\ u \in Lists /\ u.signedIn = SignedIn /\ u.items = list[tab].items
        /\ u.swiped = list[tab].swiped
    BY <2>2, UnwoundOneCall, UnwoundOK
  <2>4. item \in Items /\ item.userEmail = user
    <3>1. clock < MaxPosts
      BY DEF SaveDetails
    <3> QED
      BY <2>1, <2>2, <3>1, NewItemOK DEF NewItem
  <2> HIDE DEF u, item
  <2> DEFINE rows == [u.items EXCEPT ![SelectedRow] = item]
  <2>5. rows \in Seq(Items) /\ u.items \in Seq(Items)
    <3>1. u.items \in Seq(Items) /\ SelectedRow \in DOMAIN u.items
      BY <1>1, <2>3, ShownItem DEF Lists, SelectedRow
    <3> QED
      BY <2>4, <3>1, ExceptSeq
  <2>6. l \in Lists /\ l.signedIn = u.signedIn /\ l.swiped = u.swiped /\ l.items = rows
    BY <2>3, <2>5 DEF Lists
  <2>7. l.swiped # 0 => user = l.items[l.swiped].userEmail
    <3>1. l.swiped # 0 => l.swiped \in DOMAIN u.items
      BY <2>3, <2>6, CurrentList DEF ListOK
    <3>2. l.swiped # 0 => user = u.items[l.swiped].userEmail
      BY <2>3, <2>6, CurrentTab
    <3> QED
      BY <2>4, <2>6, <3>1, <3>2
  <2> HIDE DEF l
  <2> QED
    BY <1>1, <2>1, <2>3, <2>6, <2>7, CurrentTabScreens
<1> QED
  BY <1>2, <1>3

LEMMA FoundUnwindOneCall ==
    ASSUME AppInv, OneCallInv, FoundUnwind
    PROVE  OneCallInv'
<1> DEFINE lost == details[tab].isLostItem
           u == Unwound(lost)
           l == RowRemoved(u, SelectedRow)
<1>1. UNCHANGED <<user, calls>> /\ modals = <<>> /\ details[tab] # None
  BY DEF FoundUnwind, OnDetails, OnTabs, sessionVars
<1>2. CASE Trap
  BY <1>1, <1>2, SameScreens DEF Trap, screenVars
<1>3. CASE ~Trap
  <2>1. /\ list' = [list EXCEPT ![tab] = l]
        /\ details' = [details EXCEPT ![tab] = None]
        /\ UNCHANGED <<tab, modals>>
    BY <1>3 DEF FoundUnwind
  <2>2. /\ u \in Lists /\ u.signedIn = SignedIn /\ SelectedRow \in DOMAIN u.items
    BY <1>1, ShownItem, UnwoundOneCall DEF SelectedRow
  <2>3. l \in Lists /\ l.swiped = 0 /\ l.signedIn = SignedIn
    BY <2>2, RowRemovedFields
  <2> HIDE DEF l
  <2> QED
    BY <1>1, <2>1, <2>3, CurrentTabScreens
<1> QED
  BY <1>2, <1>3

-----------------------------------------------------------------------------
(* Forms *)

\* Only the forms change, and they stay those that the bar buttons offer.
LEMMA FormsOneCall ==
    ASSUME OneCallInv, FormsOffered', UNCHANGED <<user, calls, list, details>>
    PROVE  OneCallInv'
BY DEF OneCallInv, WaitingMeansSignedOut, ClaimsHold, EditorsOwn, SaveIsEditing, SignedIn

LEMMA OpenFormOneCall ==
    ASSUME AppInv, OneCallInv, NEW kind \in {"add", "login", "register"}, OpenForm(kind)
    PROVE  OneCallInv'
<1>1. /\ modals' = <<NewForm(kind)>> /\ UNCHANGED <<user, calls, tab, list, details>>
      /\ list[tab].signedIn <=> kind = "add"
  BY DEF OpenForm, Offered, sessionVars
<1>2. \A i \in DOMAIN modals' : modals'[i].kind = kind
  BY <1>1 DEF NewForm
<1>3. list[tab].signedIn \in BOOLEAN
  BY CurrentList DEF Lists
<1>4. FormsOffered'
  BY <1>1, <1>2, <1>3 DEF FormsOffered
<1> QED
  BY <1>1, <1>4, FormsOneCall

LEMMA SwitchFormOneCall ==
    ASSUME AppInv, OneCallInv, SwitchForm
    PROVE  OneCallInv'
<1> DEFINE form == [Last(modals) EXCEPT !.kind = IF @ = "login" THEN "register" ELSE "login"]
<1>1. /\ modals' = Append(modals, form) /\ UNCHANGED <<user, calls, tab, list, details>>
      /\ modals # <<>> /\ Last(modals).kind \in {"login", "register"}
  BY DEF SwitchForm, OnForm, sessionVars
<1>2. /\ Last(modals) \in Forms /\ Last(modals) = modals[Len(modals)]
      /\ Len(modals) \in DOMAIN modals /\ DOMAIN modals = 1..Len(modals)
      /\ modals \in Seq(Forms)
  BY <1>1, TopForm DEF AppInv, AppTypes
<1>3. (Last(modals).kind = "add") = list[tab].signedIn /\ form.kind # "add"
  BY <1>1, <1>2 DEF OneCallInv, FormsOffered, Forms
<1> HIDE DEF form
<1>4. \A i \in DOMAIN modals' :
          \/ modals'[i] = form
          \/ i \in DOMAIN modals /\ modals'[i] = modals[i]
  BY <1>1, <1>2, AppendProperties, LenProperties
<1>5. (form.kind = "add") = list[tab].signedIn
  BY <1>1, <1>3
<1>6. FormsOffered'
  BY <1>1, <1>4, <1>5 DEF OneCallInv, FormsOffered
<1> QED
  BY <1>1, <1>6, FormsOneCall

LEMMA EditNewOneCall ==
    ASSUME AppInv, OneCallInv, NEW valid \in BOOLEAN, EditNew(valid)
    PROVE  OneCallInv'
<1> DEFINE n == Len(modals)
           form == [modals[n] EXCEPT !.save = valid /\ SignedIn]
<1>1. /\ UNCHANGED <<user, calls, tab, list, details>>
      /\ modals' = [modals EXCEPT ![n] = form]
      /\ modals # <<>>
  BY DEF EditNew, OnForm, sessionVars
<1>2. modals[n] \in Forms /\ n \in DOMAIN modals
  BY <1>1, TopForm
<1>3. form.kind = modals[n].kind
  BY <1>2 DEF Forms
<1> HIDE DEF form
<1>4. FormsOffered'
  BY <1>1, <1>2, <1>3 DEF OneCallInv, FormsOffered
<1> QED
  BY <1>1, <1>4, FormsOneCall

-----------------------------------------------------------------------------
(* The session *)

\* The only call under way is made by a form over a list that shows login and
\* register; nothing is queued that could contradict these buttons.
LEMMA SubmitFormOneCall ==
    ASSUME AppInv, OneCallInv, SessionTypeOK, StaleBarsAnnounced, OneCall',
           NEW c \in Calls, NEW email \in Users, SubmitForm(c, email)
    PROVE  OneCallInv'
<1> DEFINE req == [kind |-> IF Last(modals).kind = "login" THEN "signIn" ELSE "createUser",
                   email |-> email]
<1>1. /\ UNCHANGED <<user, replies, tab, list, details, modals>>
      /\ Free(c) /\ calls' = [calls EXCEPT ![c] = req]
      /\ modals # <<>> /\ Last(modals).kind \in {"login", "register"}
  BY DEF SubmitForm, SubmitCall, OnForm
<1>2. req \in Requests /\ calls'[c] # None
  BY <1>1, NoneAssumption DEF Requests, Kinds, SessionTypeOK
<1>3. DOMAIN replies = {}
  <2> SUFFICES ASSUME NEW i \in DOMAIN replies PROVE FALSE
    OBVIOUS
  <2>1. replies[i] \in [call : Calls, ok : BOOLEAN]
    BY ElementOfSeq, LenProperties DEF SessionTypeOK
  <2>2. PICK d \in Calls : replies[i].call = d /\ d # c
    BY <1>1, <2>1 DEF Free
  <2>3. ~Free(c)' /\ ~Free(d)'
    BY <1>1, <1>2, <2>2 DEF Free
  <2> QED
    BY <2>2, <2>3 DEF OneCall
<1>4. ~list[tab].signedIn
  <2>1. modals[Len(modals)].kind # "add" /\ Len(modals) \in DOMAIN modals
    BY <1>1, TopForm
  <2> QED
    BY <2>1, CurrentList DEF OneCallInv, FormsOffered, Lists
<1>5. user = None
  BY <1>3, <1>4, CurrentList DEF StaleBarsAnnounced, SignedIn, AppInv, Lists
<1>6. WaitingMeansSignedOut'
  BY <1>1, <1>5 DEF WaitingMeansSignedOut
<1> QED
  BY <1>1, <1>6 DEF OneCallInv, ClaimsHold, FormsOffered, EditorsOwn, SaveIsEditing, SignedIn

\* While nobody is signed in, nothing is offered to be changed.
LEMMA NobodyEdits ==
    ASSUME AppInv, OneCallInv, user = None, NEW t \in Tabs
    PROVE  /\ list[t] # None => ~list[t].signedIn /\ list[t].swiped = 0
           /\ details[t] # None => ~details[t].editing /\ ~details[t].save
<1>1. ASSUME list[t] # None
      PROVE  ~list[t].signedIn /\ list[t].swiped = 0
  <2>1. list[t].items \in Seq(Items) /\ list[t].swiped \in 0..Len(list[t].items)
    BY <1>1 DEF AppInv, AppTypes, TabsOK, ListOK, Lists
  <2>2. list[t].swiped # 0 => list[t].items[list[t].swiped] \in Items
    BY <2>1, ElementOfSeq, LenProperties
  <2>3. list[t].swiped # 0 => list[t].items[list[t].swiped].userEmail \in Users
    BY <2>2 DEF Items
  <2> QED
    BY <1>1, <2>3, NoneAssumption DEF OneCallInv, ClaimsHold, EditorsOwn, SignedIn
<1>2. ASSUME details[t] # None
      PROVE  ~details[t].editing /\ ~details[t].save
  <2>1. details[t].item.userEmail \in Users
    BY <1>2 DEF AppInv, AppTypes, DetailScreens, Items
  <2> QED
    BY <1>2, <2>1, NoneAssumption DEF OneCallInv, EditorsOwn, SaveIsEditing
<1> QED
  BY <1>1, <1>2

\* The session changes behind screens on which nobody is signed in.
LEMMA DecideOneCall ==
    ASSUME AppInv, OneCallInv, SessionTypeOK, OneCall, NEW c \in Calls, Decide(c)
    PROVE  OneCallInv'
<1>1. /\ UNCHANGED <<tab, list, details, modals>>
      /\ calls[c] # None /\ calls' = [calls EXCEPT ![c] = None]
  BY DEF Decide, DecideCall, SignInCall, RejectCall, SignInNobody, Reply, appVars, screenVars
<1>2. user = None
  BY <1>1 DEF OneCallInv, WaitingMeansSignedOut
<1>3. \A d \in Calls : calls'[d] = None
  <2>1. \A d \in Calls : d # c => calls[d] = None
    BY <1>1 DEF OneCall, Free
  <2> QED
    BY <1>1, <2>1 DEF SessionTypeOK
<1>4. WaitingMeansSignedOut'
  BY <1>3 DEF WaitingMeansSignedOut
<1>5. ClaimsHold' /\ EditorsOwn' /\ SaveIsEditing'
  BY <1>1, <1>2, NobodyEdits DEF ClaimsHold, EditorsOwn, SaveIsEditing
<1>6. FormsOffered'
  BY <1>1 DEF OneCallInv, FormsOffered
<1> QED
  BY <1>4, <1>5, <1>6 DEF OneCallInv

LEMMA RootOneCall ==
    ASSUME AppInv, OneCallInv, LogOut \/ Relaunch \/ Callback
    PROVE  OneCallInv'
<1>1. db \subseteq Items /\ IsFiniteSet(db)
  BY DEF AppInv, AppTypes, StoreOK
<1>2. CASE LogOut
  <2>1. calls' = calls /\ (user' = user \/ user' = None) /\ FreshRoot(db, user')
    BY <1>2 DEF LogOut, SignOutUser, SignOutFails, sessionVars
  <2>2. WaitingMeansSignedOut'
    BY <2>1 DEF OneCallInv, WaitingMeansSignedOut
  <2> QED
    BY <1>1, <2>1, <2>2, NewRoot
<1>3. CASE Relaunch
  <2>1. FreshRoot(db, user') /\ WaitingMeansSignedOut'
    BY <1>3 DEF Relaunch, RelaunchSession, WaitingMeansSignedOut
  <2> QED
    BY <1>1, <2>1, NewRoot
<1>4. CASE Callback /\ Head(replies).ok
  <2>1. UNCHANGED <<user, calls>> /\ FreshRoot(db, user')
    BY <1>4 DEF Callback, DeliverReply
  <2>2. WaitingMeansSignedOut'
    BY <2>1 DEF OneCallInv, WaitingMeansSignedOut
  <2> QED
    BY <1>1, <2>1, <2>2, NewRoot
<1>5. CASE Callback /\ ~Head(replies).ok
  BY <1>5, SameScreens DEF Callback, DeliverReply
<1> QED
  BY <1>2, <1>3, <1>4, <1>5

-----------------------------------------------------------------------------
(* The invariant, and what it says *)

LEMMA OneCallStep ==
    ASSUME AppInv, SessionTypeOK, StaleBarsAnnounced, OneCallInv, OneCall, OneCall',
           [Next]_vars
    PROVE  OneCallInv'
<1>1. CASE UNCHANGED vars \/ DismissAlert
  BY <1>1, SameScreens DEF vars, appVars, screenVars, sessionVars, DismissAlert
<1>2. CASE \/ \E t \in Tabs : SelectTab(t)
           \/ \E r \in 1..MaxPosts : OpenDetails(r) \/ ShowDelete(r)
           \/ \E valid \in BOOLEAN : EditDetails(valid)
           \/ PopDetails \/ HideDelete \/ CommitDelete \/ CancelForm \/ CancelDetails
  BY <1>2, SelectTabOneCall, OpenDetailsOneCall, ShowDeleteOneCall, EditDetailsOneCall,
     PopDetailsOneCall, HideDeleteOneCall, CommitDeleteOneCall, CancelFormOneCall,
     CancelDetailsOneCall
<1>3. CASE SaveNew \/ SaveDetails \/ FoundUnwind
  BY <1>3, SaveNewOneCall, SaveDetailsOneCall, FoundUnwindOneCall
<1>4. CASE \/ \E kind \in {"add", "login", "register"} : OpenForm(kind)
           \/ \E valid \in BOOLEAN : EditNew(valid)
           \/ SwitchForm
  BY <1>4, OpenFormOneCall, EditNewOneCall, SwitchFormOneCall
<1>5. CASE \/ \E c \in Calls, email \in Users : SubmitForm(c, email)
           \/ \E c \in Calls : Decide(c)
  BY <1>5, SubmitFormOneCall, DecideOneCall
<1>6. CASE LogOut \/ Relaunch \/ Callback
  BY <1>6, RootOneCall
<1> QED
  BY <1>1, <1>2, <1>3, <1>4, <1>5, <1>6 DEF Next

LEMMA OneCallInit == ASSUME Init PROVE OneCallInv
<1>1. PICK first \in Loaded("lost", {}, None) :
          list = [t \in Tabs |-> IF t = "lost" THEN first ELSE None]
  BY DEF Init
<1>2. first.swiped = 0 /\ ~first.signedIn
  <2>1. {} \subseteq Items /\ IsFiniteSet({}) /\ "lost" \in Tabs
    BY FS_EmptySet DEF Tabs
  <2>2. first.swiped = 0 /\ first.signedIn = (None # None)
    BY <1>1, <2>1, LoadedOK
  <2> QED
    BY <2>2
<1>3. /\ modals = <<>> /\ details = [t \in Tabs |-> None]
      /\ calls = [c \in Calls |-> None]
  BY DEF Init, SessionInit
<1>4. \A t \in Tabs : list[t] # None => list[t] = first
  BY <1>1
<1>5. WaitingMeansSignedOut /\ FormsOffered /\ SaveIsEditing
  BY <1>3 DEF WaitingMeansSignedOut, FormsOffered, SaveIsEditing
<1>6. ClaimsHold /\ EditorsOwn
  BY <1>2, <1>3, <1>4 DEF ClaimsHold, EditorsOwn
<1> QED
  BY <1>5, <1>6 DEF OneCallInv

\* What the invariants of the screens and of the session know of the app.
Known == AppInv /\ SessionTypeOK /\ StaleBarsAnnounced

LEMMA AppKnown == Spec => []Known
<1>1. Spec => []SessionTypeOK
  BY AppUsesSession, SessionTypes, PTL
<1> QED
  BY <1>1, AppInvariant, StaleBarsAreAnnounced, PTL DEF Known

\* The screens agree with the session as long as calls do not overlap.
LEMMA OneCallInvariant == Spec /\ []OneCall => [](Known /\ OneCallInv)
<1>1. Known /\ OneCallInv /\ OneCall /\ OneCall' /\ [Next]_vars => OneCallInv'
  BY OneCallStep DEF Known
<1> QED
  BY <1>1, OneCallInit, AppKnown, PTL DEF Spec

\* While a sign-in or sign-up is under way nobody is signed in: a success
\* never replaces another user's session under the screens.
THEOREM WaitersAreSignedOut == Spec /\ []OneCall => []WaitingMeansSignedOut
BY OneCallInvariant, PTL DEF OneCallInv

\* What viewDidLoad and canEditRowAt have found out about the owner still
\* holds when Save, Found or Delete relies on it.
THEOREM EditorsAreOwners == Spec /\ []OneCall => []EditorsOwn
BY OneCallInvariant, PTL DEF OneCallInv

\* The topmost add form, and a details screen that may be edited, have a user.
LEMMA UserBehindForms ==
    ASSUME AppInv, OneCallInv
    PROVE  FormHasUser
<1>1. ASSUME modals # <<>>, Last(modals).kind = "add"
      PROVE  SignedIn
  <2>1. modals[Len(modals)].kind = "add" /\ Len(modals) \in DOMAIN modals
    BY <1>1, TopForm
  <2>2. list[tab].signedIn
    BY <2>1 DEF OneCallInv, FormsOffered
  <2> QED
    BY <2>2, CurrentTab
<1>2. ASSUME NEW t \in Tabs, details[t] # None, details[t].editing
      PROVE  SignedIn
  BY <1>2, NobodyEdits DEF SignedIn
<1> QED
  BY <1>1, <1>2 DEF FormHasUser

\* The check that the code calls "purely an extra layer of safety" is one:
\* nobody can fill in a form without being signed in.
THEOREM FormsHaveUsers == Spec /\ []OneCall => []FormHasUser
<1>1. Known /\ OneCallInv => FormHasUser
  BY UserBehindForms DEF Known
<1> QED
  BY <1>1, OneCallInvariant, PTL

\* No handler takes the branch that traps.
LEMMA NoTrap ==
    ASSUME AppInv, OneCallInv, NoCrash, [Next]_vars
    PROVE  NoCrash'
<1>1. ASSUME NEW r \in 1..MaxPosts, OpenDetails(r)
      PROVE  crashed' = crashed
  <2>1. r \in DOMAIN list[tab].items
    BY <1>1 DEF OpenDetails
  <2>2. list[tab].items[r] \in db
    BY <2>1, CurrentList DEF OfKind
  <2> QED
    BY <1>1, <2>2 DEF OpenDetails
<1>2. CASE CommitDelete
  <2>1. list[tab].swiped \in DOMAIN list[tab].items
    <3>1. list[tab].swiped \in 0..Len(list[tab].items) /\ list[tab].swiped # 0
      BY <1>2, CurrentList DEF CommitDelete, ListOK
    <3> QED
      BY <3>1, CurrentList
  <2>2. list[tab].items[list[tab].swiped] \in db
    BY <2>1, CurrentList DEF OfKind
  <2> QED
    BY <1>2, <2>2 DEF CommitDelete, NoCrash
<1>3. CASE SaveNew
  <2>1. SignedIn
    BY <1>3, UserBehindForms DEF FormHasUser, SaveNew, OnForm
  <2> QED
    BY <1>3, <2>1 DEF SaveNew, NoCrash
<1>4. ASSUME details[tab] # None
      PROVE  /\ SelectedRow \in DOMAIN list[tab].items
             /\ list[tab].items[SelectedRow] = details[tab].item
             /\ details[tab].item \in db
  BY <1>4, ShownItem DEF SelectedRow, OfKind
<1>5. CASE SaveDetails
  <2>1. details[tab] # None /\ details[tab].save
    BY <1>5 DEF SaveDetails, OnDetails
  <2>2. SignedIn
    BY <2>1, CurrentTab, CurrentList, UserBehindForms DEF FormHasUser
  <2> QED
    BY <1>4, <1>5, <2>1, <2>2 DEF SaveDetails, NoCrash
<1>6. CASE FoundUnwind
  BY <1>4, <1>6 DEF FoundUnwind, OnDetails, NoCrash
<1>7. CASE \/ \E t \in Tabs : SelectTab(t)
           \/ \E r \in 1..MaxPosts : ShowDelete(r)
           \/ \E kind \in {"add", "login", "register"} : OpenForm(kind)
           \/ \E valid \in BOOLEAN : EditNew(valid) \/ EditDetails(valid)
           \/ \E c \in Calls, email \in Users : SubmitForm(c, email)
  BY <1>7 DEF SelectTab, ShowDelete, OpenForm, EditNew, EditDetails, SubmitForm, NoCrash
<1>8. CASE \/ PopDetails \/ HideDelete \/ SwitchForm \/ CancelForm \/ CancelDetails
           \/ DismissAlert \/ LogOut \/ Callback \/ Relaunch \/ UNCHANGED vars
           \/ \E c \in Calls : Decide(c)
  BY <1>8 DEF PopDetails, HideDelete, SwitchForm, CancelForm, CancelDetails, DismissAlert,
              LogOut, Callback, Relaunch, Decide, vars, appVars, NoCrash
<1> QED
  BY <1>1, <1>2, <1>3, <1>5, <1>6, <1>7, <1>8 DEF Next, NoCrash

\* No force-unwrapped nil and no object that has left the store.
THEOREM NeverCrashes == Spec /\ []OneCall => []NoCrash
<1>1. Init => NoCrash
  BY DEF Init, NoCrash
<1>2. Known /\ OneCallInv /\ NoCrash /\ [Next]_vars => NoCrash'
  BY NoTrap DEF Known
<1> QED
  BY <1>1, <1>2, OneCallInvariant, PTL DEF Spec

\* What leaves the store, and what Save puts in its place, is the viewer's.
LEMMA OwnerStep ==
    ASSUME AppInv, OneCallInv, [Next]_vars, NEW i \in db \ db'
    PROVE  i.userEmail = user /\ \A j \in db' \ db : j.userEmail = user
<1>1. CASE CommitDelete
  <2>1. i = list[tab].items[list[tab].swiped] /\ list[tab].swiped # 0 /\ db' \subseteq db
    BY <1>1 DEF CommitDelete, Trap
  <2> QED
    BY <2>1, CurrentTab
<1>2. CASE SaveDetails
  <2>1. details[tab] # None /\ details[tab].save
    BY <1>2 DEF SaveDetails, OnDetails
  <2>2. /\ i = list[tab].items[SelectedRow]
        /\ \A j \in db' \ db : j = NewItem(details[tab].isLostItem)
    BY <1>2 DEF SaveDetails, Trap
  <2>3. user = details[tab].item.userEmail
    BY <2>1, CurrentTab
  <2> QED
    BY <2>1, <2>2, <2>3, ShownItem DEF SelectedRow, NewItem
<1>3. CASE FoundUnwind
  <2>1. details[tab] # None /\ details[tab].editing
    BY <1>3 DEF FoundUnwind, OnDetails
  <2>2. i = details[tab].item /\ db' \subseteq db
    BY <1>3 DEF FoundUnwind, Trap
  <2> QED
    BY <2>1, <2>2, CurrentTab
<1>4. CASE ~(CommitDelete \/ SaveDetails \/ FoundUnwind)
  <2>1. db \subseteq db'
    <3>1. CASE \/ \E t \in Tabs : SelectTab(t)
               \/ \E r \in 1..MaxPosts : OpenDetails(r) \/ ShowDelete(r)
               \/ \E kind \in {"add", "login", "register"} : OpenForm(kind)
               \/ \E valid \in BOOLEAN : EditNew(valid) \/ EditDetails(valid)
               \/ \E c \in Calls, email \in Users : SubmitForm(c, email)
               \/ SaveNew
      BY <3>1 DEF SelectTab, OpenDetails, ShowDelete, OpenForm, EditNew, EditDetails,
                  SubmitForm, SaveNew, Trap
    <3>2. CASE \/ PopDetails \/ HideDelete \/ SwitchForm \/ CancelForm \/ CancelDetails
               \/ DismissAlert \/ LogOut \/ Callback \/ Relaunch \/ UNCHANGED vars
               \/ \E c \in Calls : Decide(c)
      BY <3>2 DEF PopDetails, HideDelete, SwitchForm, CancelForm, CancelDetails,
                  DismissAlert, LogOut, Callback, Relaunch, Decide, vars, appVars
    <3> QED
      BY <1>4, <3>1, <3>2 DEF Next
  <2> QED
    BY <2>1
<1> QED
  BY <1>1, <1>2, <1>3, <1>4

\* Only the owner of an item removes or replaces it, and stays its owner.
THEOREM OwnersOnlyChange == Spec /\ []OneCall => OwnerOnlyChanges
<1>1. ASSUME Known, OneCallInv, [Next]_vars
      PROVE  [\A i \in db \ db' :
                 /\ i.userEmail = user
                 /\ \A j \in db' \ db : j.userEmail = i.userEmail]_vars
  BY <1>1, OwnerStep DEF Known
<1> QED
  BY <1>1, OneCallInvariant, PTL DEF Spec, OwnerOnlyChanges
=============================================================================
