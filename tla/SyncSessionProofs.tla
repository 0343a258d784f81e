-------------------------- MODULE SyncSessionProofs --------------------------
(***************************************************************************)
(* SyncSession keeps its types, calls a completion callback at most once,  *)
(* and ends a dying session only after it uploaded what it was told of,    *)
(* for any threads, sessions, callbacks and close policy.                  *)
(***************************************************************************)
EXTENDS SyncSession, SequenceTheorems, FiniteSetTheorems, TLAPS

(* The types of TypeOK, where a frame other than log_out's last names a session. *)
SessionRecords ==
    [st : States, open : BOOLEAN, bound : BOOLEAN, deferClose : BOOLEAN, deaths : Nat,
     commit : Nat, told : Nat, queue : SUBSET Waits, waits : SUBSET Waits,
     uploads : SUBSET [n : Nat, v : Nat]]
SessionFrames == {f \in Frames : f.do # "forget" => f.s \in Sessions}
Types ==
    /\ sess \in [Sessions -> SessionRecords]
    /\ made \subseteq Sessions /\ requests \subseteq Sessions
    /\ registry \in Sessions \cup {None}
    /\ live \in Sessions \cup {None} /\ waiting \in Sessions \cup {None}
    /\ user \in {"Active", "LoggedOut", "Error"}
    /\ mgr \in Actors \cup {None} /\ usr \in Actors \cup {None}
    /\ stack \in [Actors -> Seq(SessionFrames)]
    /\ borrow \in [Actors -> Sessions \cup {None}]
    /\ realm \in [Threads -> Sessions \cup {None}]
    /\ answered \in [Waits -> Nat]
    /\ version \in Nat /\ uploaded \in Nat /\ calls \in Nat
    /\ crashed \in BOOLEAN /\ overlap \in BOOLEAN

-----------------------------------------------------------------------------
(* Entering a state. *)

(* What q, made from r, does with the callbacks: it has none r did not have, and
   never one twice; one that goes inactive has left its queue to its caller. *)
Keeps(r, q) == /\ q.queue \cup q.waits \subseteq r.queue \cup r.waits
               /\ r.queue \cap r.waits = {} => q.queue \cap q.waits = {}
Falls(r, q) == q.st = "inactive" /\ r.st # "inactive" => q.queue = {} /\ q.waits = r.waits

LEMMA ToInactiveProperties ==
    ASSUME NEW r \in SessionRecords
    PROVE  /\ ToInactive(r) \in SessionRecords
           /\ ToInactive(r).queue = {} /\ ToInactive(r).waits = r.waits
<1>1. ASSUME NEW x \in r.uploads
      PROVE  [x EXCEPT !.v = 0] \in [n : Nat, v : Nat]
  BY DEF SessionRecords
<1> DEFINE U == {[x EXCEPT !.v = 0] : x \in r.uploads}
<1>2. U \subseteq [n : Nat, v : Nat]
  BY <1>1
<1>3. ToInactive(r) = [r EXCEPT !.st = "inactive", !.open = FALSE, !.queue = {}, !.uploads = U]
  BY DEF ToInactive, SessionRecords
<1> HIDE DEF U
<1> QED
  BY <1>2, <1>3 DEF SessionRecords, States

LEMMA ToWaitingProperties ==
    ASSUME NEW r \in SessionRecords
    PROVE  /\ ToWaiting(r) \in SessionRecords /\ ToWaiting(r).st = "waiting"
           /\ Keeps(r, ToWaiting(r))
BY DEF ToWaiting, SessionRecords, States, Keeps

LEMMA ToDyingProperties ==
    ASSUME NEW r \in SessionRecords
    PROVE  /\ ToDying(r) \in SessionRecords
           /\ Keeps(r, ToDying(r)) /\ Falls(r, ToDying(r))
<1>1. CASE r.open
  <2> DEFINE d == r.deaths + 1
             U == r.uploads \cup {[n |-> d, v |-> r.told]}
  <2>1. d \in Nat /\ U \subseteq [n : Nat, v : Nat]
    BY DEF SessionRecords
  <2>2. ToDying(r) = [r EXCEPT !.st = "dying", !.deaths = d, !.uploads = U]
    BY <1>1 DEF ToDying, SessionRecords
  <2> HIDE DEF d, U
  <2>3. ToDying(r) \in SessionRecords
    BY <2>1, <2>2 DEF SessionRecords, States
  <2>4. /\ ToDying(r).queue = r.queue /\ ToDying(r).waits = r.waits
        /\ ToDying(r).st = "dying"
    BY <2>2 DEF SessionRecords
  <2> QED
    BY <2>3, <2>4 DEF Keeps, Falls
<1>2. CASE ~r.open
  BY <1>2, ToInactiveProperties DEF ToDying, Keeps, Falls
<1> QED
  BY <1>1, <1>2

LEMMA ClosedProperties ==
    ASSUME NEW r \in SessionRecords
    PROVE  Closed(r) \in SessionRecords /\ Keeps(r, Closed(r)) /\ Falls(r, Closed(r))
<1>1. [r EXCEPT !.deferClose = TRUE] \in SessionRecords
      /\ Keeps(r, [r EXCEPT !.deferClose = TRUE]) /\ Falls(r, [r EXCEPT !.deferClose = TRUE])
  BY DEF SessionRecords, Keeps, Falls
<1>2. Keeps(r, r) /\ Falls(r, r) /\ Keeps(r, ToInactive(r)) /\ Falls(r, ToInactive(r))
  BY ToInactiveProperties DEF Keeps, Falls
<1>3. Closed(r) \in {ToInactive(r), ToDying(r), r, [r EXCEPT !.deferClose = TRUE]}
  BY DEF Closed
<1> QED
  BY <1>1, <1>2, <1>3, ToInactiveProperties, ToDyingProperties

LEMMA RevivedProperties ==
    ASSUME NEW r \in SessionRecords
    PROVE  /\ Revived(r) \in SessionRecords /\ Keeps(r, Revived(r))
           /\ Revived(r).st # "inactive"
<1>1. ASSUME r.st = "waiting"
      PROVE  LET q == [r EXCEPT !.deferClose = FALSE] IN
             q \in SessionRecords /\ Keeps(r, q) /\ q.st = "waiting"
  BY <1>1 DEF SessionRecords, Keeps
<1>2. LET q == [r EXCEPT !.st = "active"] IN
      q \in SessionRecords /\ Keeps(r, q) /\ q.st = "active"
  BY DEF SessionRecords, States, Keeps
<1>3. Keeps(r, r) /\ r.st \in States
  BY DEF Keeps, SessionRecords
<1>4. CASE r.st = "waiting"
  BY <1>1, <1>4 DEF Revived
<1>5. CASE r.st = "dying"
  BY <1>2, <1>5 DEF Revived
<1>6. CASE r.st = "inactive"
  BY <1>6, ToWaitingProperties DEF Revived
<1>7. CASE r.st = "active"
  BY <1>3, <1>7 DEF Revived
<1> QED
  BY <1>3, <1>4, <1>5, <1>6, <1>7 DEF States

LEMMA BoundProperties ==
    ASSUME NEW r \in SessionRecords, version \in Nat
    PROVE  Bound(r) \in SessionRecords /\ Keeps(r, Bound(r))
<1>1. Tells(r) \in Nat
  BY DEF Tells, SessionRecords
<1> DEFINE k == Tells(r)
           W == r.waits \cup r.queue
           z == 0
<1>2. Bound(r) = [r EXCEPT !.st = "active", !.open = TRUE, !.bound = TRUE, !.told = k,
                           !.commit = z, !.waits = W, !.queue = {}]
  BY DEF Bound, BoundWith
<1>3. W \subseteq Waits /\ W = r.waits \cup r.queue
  BY DEF SessionRecords
<1>4. k \in Nat /\ z \in Nat
  BY <1>1
<1> HIDE DEF k, W, z
<1>5. Bound(r) \in SessionRecords
  BY <1>2, <1>3, <1>4 DEF SessionRecords, States
<1>6. Bound(r).queue = {} /\ Bound(r).waits = W
  BY <1>2 DEF SessionRecords
<1> QED
  BY <1>3, <1>5, <1>6 DEF Keeps

LEMMA RefreshedProperties ==
    ASSUME NEW r \in SessionRecords, version \in Nat
    PROVE  Refreshed(r) \in SessionRecords /\ Keeps(r, Refreshed(r))
<1>1. Bound(r) \in SessionRecords /\ Keeps(r, Bound(r))
  BY BoundProperties
<1>2. Closed(Bound(r)) \in SessionRecords /\ Keeps(Bound(r), Closed(Bound(r)))
  BY <1>1, ClosedProperties
<1> QED
  BY <1>1, <1>2 DEF Refreshed, Keeps

LEMMA LoggedOutProperties ==
    ASSUME NEW r \in SessionRecords
    PROVE  LoggedOut(r) \in SessionRecords /\ Keeps(r, LoggedOut(r)) /\ Falls(r, LoggedOut(r))
BY ToInactiveProperties DEF LoggedOut, Keeps, Falls

LEMMA NotifiedProperties ==
    ASSUME NEW r \in SessionRecords, NEW v \in Nat
    PROVE  Notified(r, v) \in SessionRecords /\ Keeps(r, Notified(r, v))
<1>1. LET q == [r EXCEPT !.commit = v] IN q \in SessionRecords /\ Keeps(r, q)
  BY DEF SessionRecords, Keeps
<1>2. LET q == [r EXCEPT !.told = v] IN q \in SessionRecords /\ Keeps(r, q)
  BY DEF SessionRecords, Keeps
<1> QED
  BY <1>1, <1>2 DEF Notified, Keeps

-----------------------------------------------------------------------------
(* Stacks of frames and the callbacks in them. *)

Has(q, w) == \E i \in 1..Len(q) : w \in q[i].ws
OnceIn(q) == \A i, j \in 1..Len(q) : (\E w \in q[i].ws : w \in q[j].ws) => i = j

\* Taking the first frame off takes its callbacks off.
LEMMA TailFrames ==
    ASSUME NEW q \in Seq(SessionFrames), q # << >>
    PROVE  /\ Head(q) \in SessionFrames /\ Tail(q) \in Seq(SessionFrames)
           /\ \A w : Has(Tail(q), w) => Has(q, w)
           /\ \A w : w \in Head(q).ws => Has(q, w)
           /\ OnceIn(q) => OnceIn(Tail(q)) /\ \A w : Has(Tail(q), w) => w \notin Head(q).ws
<1>1. /\ Head(q) \in SessionFrames /\ Tail(q) \in Seq(SessionFrames)
      /\ Len(q) \in Nat /\ Len(Tail(q)) = Len(q) - 1 /\ Len(q) > 0
      /\ \A i \in 1..Len(Tail(q)) : Tail(q)[i] = q[i + 1]
      /\ Head(q) = q[1]
  BY HeadTailProperties, LenProperties, EmptySeq
<1>2. \A i \in 1..Len(Tail(q)) : i \in Int /\ i + 1 \in 1..Len(q) /\ i + 1 # 1
  BY <1>1
<1>3. 1 \in 1..Len(q)
  BY <1>1
<1>4. \A w : Has(Tail(q), w) => Has(q, w)
  BY <1>1, <1>2 DEF Has
<1>5. \A w : w \in Head(q).ws => Has(q, w)
  BY <1>1, <1>3 DEF Has
<1>6. ASSUME OnceIn(q)
      PROVE  OnceIn(Tail(q))
  <2> SUFFICES ASSUME NEW i \in 1..Len(Tail(q)), NEW j \in 1..Len(Tail(q)),
                      NEW w, w \in Tail(q)[i].ws, w \in Tail(q)[j].ws
               PROVE  i = j
    BY DEF OnceIn
  <2>1. w \in q[i + 1].ws /\ w \in q[j + 1].ws
    BY <1>1
  <2>2. i + 1 = j + 1
    BY <1>2, <1>6, <2>1 DEF OnceIn
  <2> QED
    BY <1>2, <2>2
<1>7. ASSUME OnceIn(q), NEW w, Has(Tail(q), w)
      PROVE  w \notin Head(q).ws
  <2>1. PICK i \in 1..Len(Tail(q)) : w \in Tail(q)[i].ws
    BY <1>7 DEF Has
  <2>2. w \in q[i + 1].ws
    BY <1>1, <2>1
  <2> QED
    BY <1>1, <1>2, <1>3, <1>7, <2>2 DEF OnceIn
<1> QED
  BY <1>1, <1>4, <1>5, <1>6, <1>7

\* Putting frames on a stack puts their callbacks on it.
LEMMA ConcatFrames ==
    ASSUME NEW p \in Seq(SessionFrames), NEW q \in Seq(SessionFrames)
    PROVE  /\ p \o q \in Seq(SessionFrames)
           /\ \A w : Has(p \o q, w) <=> Has(p, w) \/ Has(q, w)
           /\ OnceIn(p) /\ OnceIn(q) /\ (\A w : ~(Has(p, w) /\ Has(q, w))) => OnceIn(p \o q)
<1> DEFINE c == p \o q
           m == Len(p)
           n == Len(q)
<1>1. /\ c \in Seq(SessionFrames) /\ Len(c) = m + n /\ m \in Nat /\ n \in Nat
      /\ \A i \in 1..(m + n) : c[i] = IF i <= m THEN p[i] ELSE q[i - m]
  BY ConcatProperties, LenProperties
<1> HIDE DEF c, m, n
<1>2. ASSUME NEW i \in 1..(m + n)
      PROVE  \/ i \in 1..m /\ c[i] = p[i]
             \/ i - m \in 1..n /\ i \in Int /\ c[i] = q[i - m]
  BY <1>1
<1>3. ASSUME NEW w, Has(c, w)
      PROVE  Has(p, w) \/ Has(q, w)
  BY <1>1, <1>2, <1>3 DEF Has, m, n
<1>4. ASSUME NEW w, Has(p, w)
      PROVE  Has(c, w)
  <2>1. PICK i \in 1..m : w \in p[i].ws
    BY <1>4 DEF Has, m
  <2>2. i \in 1..(m + n) /\ c[i] = p[i]
    BY <1>1
  <2> QED
    BY <1>1, <2>1, <2>2 DEF Has
<1>5. ASSUME NEW w, Has(q, w)
      PROVE  Has(c, w)
  <2>1. PICK i \in 1..n : w \in q[i].ws
    BY <1>5 DEF Has, n
  <2>2. i + m \in 1..(m + n) /\ ~(i + m <= m) /\ (i + m) - m = i
    BY <1>1
  <2>3. c[i + m] = q[i]
    BY <1>1, <2>2
  <2> QED
    BY <1>1, <2>1, <2>2, <2>3 DEF Has
<1>6. ASSUME OnceIn(p), OnceIn(q), \A w : ~(Has(p, w) /\ Has(q, w))
      PROVE  OnceIn(c)
  <2> SUFFICES ASSUME NEW i \in 1..(m + n), NEW j \in 1..(m + n),
                      NEW w, w \in c[i].ws, w \in c[j].ws
               PROVE  i = j
    BY <1>1 DEF OnceIn
  <2>1. CASE i \in 1..m /\ c[i] = p[i]
    <3>1. Has(p, w)
      BY <2>1 DEF Has, m
    <3>2. j \in 1..m /\ c[j] = p[j]
      BY <1>2, <1>6, <3>1 DEF Has, n
    <3> QED
      BY <1>6, <2>1, <3>2 DEF OnceIn, m
  <2>2. CASE i - m \in 1..n /\ i \in Int /\ c[i] = q[i - m]
    <3>1. Has(q, w)
      BY <2>2 DEF Has, n
    <3>2. j - m \in 1..n /\ j \in Int /\ c[j] = q[j - m]
      BY <1>2, <1>6, <3>1 DEF Has, m
    <3>3. i - m = j - m
      BY <1>6, <2>2, <3>2 DEF OnceIn, n
    <3> QED
      BY <1>1, <2>2, <3>2, <3>3
  <2> QED
    BY <1>2, <2>1, <2>2
<1> QED
  BY <1>1, <1>3, <1>4, <1>5, <1>6 DEF c

\* Frames without callbacks add none.
LEMMA BareFrames ==
    ASSUME NEW p \in Seq(SessionFrames), \A i \in 1..Len(p) : p[i].ws = {},
           NEW q \in Seq(SessionFrames)
    PROVE  /\ p \o q \in Seq(SessionFrames)
           /\ \A w : Has(p \o q, w) <=> Has(q, w)
           /\ OnceIn(q) => OnceIn(p \o q)
<1>1. OnceIn(p) /\ \A w : ~Has(p, w)
  BY DEF OnceIn, Has
<1> QED
  BY <1>1, ConcatFrames

-----------------------------------------------------------------------------
(* A callback that was not called is in one place at most: a queue, the sync
   client, or a frame of one thread. *)
Holds(s) == sess[s].queue \cup sess[s].waits
WaitInv ==
    /\ \A s \in Sessions : sess[s].queue \cap sess[s].waits = {}
    /\ \A s, u \in Sessions : \A w \in Holds(s) : w \in Holds(u) => s = u
    /\ \A t \in Actors : OnceIn(stack[t])
    /\ \A t, u \in Actors : \A w : Has(stack[t], w) /\ Has(stack[u], w) => t = u
    /\ \A s \in Sessions, t \in Actors : \A w \in Holds(s) : ~Has(stack[t], w)
    /\ \A w \in Waits : answered[w] <= 1
    /\ \A s \in Sessions : \A w \in Holds(s) : answered[w] = 0
    /\ \A t \in Actors : \A w \in Waits : Has(stack[t], w) => answered[w] = 0

\* Callbacks leave sessions, and only those that left one are new on t's stack.
LEMMA MoveWaits ==
    ASSUME Types, WaitInv, NEW t \in Actors,
           \A s \in Sessions : sess'[s].queue \cap sess'[s].waits = {},
           \A s \in Sessions : Holds(s)' \subseteq Holds(s),
           \A u \in Actors : u # t => stack'[u] = stack[u],
           OnceIn(stack'[t]),
           \A w : Has(stack'[t], w) => \/ Has(stack[t], w)
                                       \/ \E s \in Sessions : w \in Holds(s) /\ w \notin Holds(s)',
           answered' = answered
    PROVE  WaitInv'
<1>1. \A s, u \in Sessions : \A w \in Holds(s)' : w \in Holds(u)' => s = u
  BY DEF WaitInv
<1>2. \A u \in Actors : OnceIn(stack'[u])
  BY DEF WaitInv
<1>3. ASSUME NEW u \in Actors, u # t, NEW w, Has(stack'[t], w)
      PROVE  ~Has(stack'[u], w)
  BY <1>3 DEF WaitInv
<1>4. \A u, v \in Actors : \A w : Has(stack'[u], w) /\ Has(stack'[v], w) => u = v
  <2> SUFFICES ASSUME NEW u \in Actors, NEW v \in Actors, NEW w,
                      Has(stack'[u], w), Has(stack'[v], w)
               PROVE  u = v
    OBVIOUS
  <2>1. CASE u = t \/ v = t
    BY <1>3, <2>1
  <2>2. CASE u # t /\ v # t
    BY <2>2 DEF WaitInv
  <2> QED
    BY <2>1, <2>2
<1>5. ASSUME NEW s \in Sessions, NEW u \in Actors, NEW w \in Holds(s)'
      PROVE  ~Has(stack'[u], w)
  <2>1. w \in Holds(s)
    OBVIOUS
  <2>2. CASE u # t
    BY <2>1, <2>2 DEF WaitInv
  <2>3. CASE u = t
    <3> SUFFICES ASSUME Has(stack'[t], w) PROVE FALSE
      BY <2>3
    <3>1. ~Has(stack[t], w)
      BY <2>1 DEF WaitInv
    <3>2. PICK v \in Sessions : w \in Holds(v) /\ w \notin Holds(v)'
      BY <3>1
    <3> QED
      BY <1>5, <2>1, <3>2 DEF WaitInv
  <2> QED
    BY <2>2, <2>3
<1>6. /\ \A w \in Waits : answered'[w] <= 1
      /\ \A s \in Sessions : \A w \in Holds(s)' : answered'[w] = 0
  BY DEF WaitInv
<1>7. ASSUME NEW u \in Actors, NEW w \in Waits, Has(stack'[u], w)
      PROVE  answered'[w] = 0
  <2>1. CASE u # t
    BY <1>7, <2>1 DEF WaitInv
  <2>2. CASE u = t
    BY <1>7, <2>2 DEF WaitInv
  <2> QED
    BY <2>1, <2>2
<1> QED
  BY <1>1, <1>2, <1>4, <1>5, <1>6, <1>7 DEF WaitInv

\* A call that leaves the sessions alone and puts frames without callbacks on its stack.
LEMMA StackStep ==
    ASSUME Types, WaitInv, NEW t \in Actors, NEW q \in Seq(SessionFrames),
           OnceIn(q), \A w : Has(q, w) => Has(stack[t], w),
           stack' = [stack EXCEPT ![t] = q], sess' = sess, answered' = answered
    PROVE  stack' \in [Actors -> Seq(SessionFrames)] /\ WaitInv'
<1>1. /\ stack' \in [Actors -> Seq(SessionFrames)]
      /\ stack'[t] = q /\ \A u \in Actors : u # t => stack'[u] = stack[u]
  BY DEF Types
<1>2. \A s \in Sessions : Holds(s)' = Holds(s) /\ sess'[s].queue \cap sess'[s].waits = {}
  BY DEF Holds, WaitInv
<1> QED
  BY <1>1, <1>2, MoveWaits

LEMMA PushStep ==
    ASSUME Types, WaitInv, NEW t \in Actors, ~Idle(t),
           NEW p \in Seq(SessionFrames), \A i \in 1..Len(p) : p[i].ws = {}, Push(t, p),
           sess' = sess, answered' = answered
    PROVE  stack' \in [Actors -> Seq(SessionFrames)] /\ WaitInv'
<1> DEFINE q == p \o Tail(stack[t])
<1>1. stack[t] \in Seq(SessionFrames) /\ stack[t] # << >> /\ OnceIn(stack[t])
  BY DEF Types, Idle, WaitInv
<1>2. /\ Tail(stack[t]) \in Seq(SessionFrames) /\ OnceIn(Tail(stack[t]))
      /\ \A w : Has(Tail(stack[t]), w) => Has(stack[t], w)
  BY <1>1, TailFrames
<1>3. q \in Seq(SessionFrames) /\ OnceIn(q) /\ \A w : Has(q, w) => Has(stack[t], w)
  BY <1>2, BareFrames
<1>4. stack' = [stack EXCEPT ![t] = q]
  BY DEF Push
<1> HIDE DEF q
<1> QED
  BY <1>3, <1>4, StackStep

\* A call begins.
LEMMA StartStep ==
    ASSUME Types, WaitInv, NEW t \in Actors,
           NEW p \in Seq(SessionFrames), \A i \in 1..Len(p) : p[i].ws = {},
           stack' = [stack EXCEPT ![t] = p],
           sess' = sess, answered' = answered
    PROVE  stack' \in [Actors -> Seq(SessionFrames)] /\ WaitInv'
<1>1. OnceIn(p) /\ \A w : ~Has(p, w)
  BY DEF OnceIn, Has
<1> QED
  BY <1>1, StackStep

\* A section of a session's mutex that changes the session only.
LEMMA RecordStep ==
    ASSUME Types, WaitInv, Actors # {}, NEW s \in Sessions, NEW r \in SessionRecords,
           Keeps(sess[s], r), sess' = [sess EXCEPT ![s] = r],
           stack' = stack, answered' = answered
    PROVE  sess' \in [Sessions -> SessionRecords] /\ WaitInv'
<1>1. /\ sess' \in [Sessions -> SessionRecords]
      /\ sess'[s] = r /\ \A u \in Sessions : u # s => sess'[u] = sess[u]
  BY DEF Types
<1>2. \A u \in Sessions : sess'[u].queue \cap sess'[u].waits = {} /\ Holds(u)' \subseteq Holds(u)
  BY <1>1 DEF Holds, Keeps, WaitInv
<1>3. PICK t \in Actors : TRUE
  OBVIOUS
<1>4. OnceIn(stack'[t])
  BY DEF WaitInv
<1> QED
  BY <1>1, <1>2, <1>3, <1>4, MoveWaits

\* The frames a session that goes inactive leaves behind.
LEMMA FallFrames ==
    ASSUME NEW s \in Sessions, NEW W \in SUBSET Waits
    PROVE  LET p == <<Frame("unregister", s), [do |-> "cancel", s |-> s, ws |-> W]>> IN
           /\ p \in Seq(SessionFrames) /\ OnceIn(p) /\ \A w : Has(p, w) <=> w \in W
<1> DEFINE f == Frame("unregister", s)
           g == [do |-> "cancel", s |-> s, ws |-> W]
           p == <<f, g>>
<1>1. f \in SessionFrames /\ f.ws = {} /\ g \in SessionFrames /\ g.ws = W
  BY DEF Frame, SessionFrames, Frames
<1> HIDE DEF f, g
<1>2. p \in Seq(SessionFrames) /\ Len(p) = 2 /\ p[1] = f /\ p[2] = g
  BY <1>1
<1> HIDE DEF p
<1>3. 1..Len(p) = {1, 2}
  BY <1>2
<1>4. OnceIn(p)
  BY <1>1, <1>2, <1>3 DEF OnceIn
<1>5. \A w : Has(p, w) <=> w \in W
  BY <1>1, <1>2, <1>3 DEF Has
<1> QED
  BY <1>2, <1>4, <1>5 DEF p, f, g

\* A section that changes a session: its queue moves to t's stack if it goes inactive.
LEMMA SectionStep ==
    ASSUME Types, WaitInv, NEW t \in Actors, NEW s \in Sessions, NEW r \in SessionRecords,
           Keeps(sess[s], r), Falls(sess[s], r),
           NEW rest \in Seq(SessionFrames), OnceIn(rest), \A w : Has(rest, w) => Has(stack[t], w),
           Section(t, s, r, rest), answered' = answered
    PROVE  /\ sess' \in [Sessions -> SessionRecords]
           /\ stack' \in [Actors -> Seq(SessionFrames)]
           /\ WaitInv'
<1> DEFINE W == sess[s].queue
           p == <<Frame("unregister", s), [do |-> "cancel", s |-> s, ws |-> W]>>
           fell == r.st = "inactive" /\ sess[s].st # "inactive"
           q == IF fell THEN p \o rest ELSE rest
<1>1. /\ sess' \in [Sessions -> SessionRecords]
      /\ sess'[s] = r /\ \A u \in Sessions : u # s => sess'[u] = sess[u]
  BY DEF Types, Section
<1>2. \A u \in Sessions : sess'[u].queue \cap sess'[u].waits = {} /\ Holds(u)' \subseteq Holds(u)
  BY <1>1 DEF Holds, Keeps, WaitInv
<1>3. W \in SUBSET Waits
  BY DEF Types, SessionRecords
<1>4. p \in Seq(SessionFrames) /\ OnceIn(p) /\ \A w : Has(p, w) <=> w \in W
  BY <1>3, FallFrames
<1>5. stack' = [stack EXCEPT ![t] = q]
  BY DEF Section
<1> HIDE DEF p
<1>6. ASSUME NEW w \in W
      PROVE  ~Has(rest, w)
  BY DEF WaitInv, Holds
<1>7. q \in Seq(SessionFrames) /\ OnceIn(q)
  BY <1>4, <1>6, ConcatFrames
<1>8. ASSUME NEW w, Has(q, w)
      PROVE  Has(stack[t], w) \/ (w \in Holds(s) /\ w \notin Holds(s)')
  <2>1. CASE ~fell
    BY <1>8, <2>1
  <2>2. CASE fell
    <3>1. Has(p, w) \/ Has(rest, w)
      BY <1>4, <1>8, <2>2, ConcatFrames
    <3>2. ASSUME w \in W
          PROVE  w \in Holds(s) /\ w \notin Holds(s)'
      BY <1>1, <2>2, <3>2 DEF Holds, Falls, WaitInv
    <3> QED
      BY <1>4, <3>1, <3>2
  <2> QED
    BY <2>1, <2>2
<1> HIDE DEF q
<1>9. /\ stack' \in [Actors -> Seq(SessionFrames)]
      /\ stack'[t] = q /\ \A u \in Actors : u # t => stack'[u] = stack[u]
  BY <1>5, <1>7 DEF Types
<1> QED
  BY <1>1, <1>2, <1>7, <1>8, <1>9, MoveWaits

-----------------------------------------------------------------------------
(* The steps. *)

Names == {"register", "revive", "external", "release", "drop", "unregister", "giveback",
          "cancel", "keep", "invalidate"} \cup AllErrors

LEMMA SomeFrames ==
    ASSUME NEW s \in Sessions, NEW a \in Names, NEW b \in Names
    PROVE  /\ <<Frame(a, s)>> \in Seq(SessionFrames)
           /\ \A i \in 1..Len(<<Frame(a, s)>>) : <<Frame(a, s)>>[i].ws = {}
           /\ <<Frame(a, s), Frame(b, s)>> \in Seq(SessionFrames)
           /\ \A i \in 1..Len(<<Frame(a, s), Frame(b, s)>>) :
                <<Frame(a, s), Frame(b, s)>>[i].ws = {}
<1> DEFINE f == Frame(a, s)
           g == Frame(b, s)
<1>1. f \in SessionFrames /\ f.ws = {} /\ g \in SessionFrames /\ g.ws = {}
  BY DEF Frame, SessionFrames, Frames, Names, AllErrors
<1> HIDE DEF f, g
<1>2. <<f>> \in Seq(SessionFrames) /\ \A i \in 1..Len(<<f>>) : <<f>>[i].ws = {}
  BY <1>1
<1>3. <<f, g>> \in Seq(SessionFrames) /\ Len(<<f, g>>) = 2
  BY <1>1
<1>4. \A i \in 1..2 : <<f, g>>[i].ws = {}
  BY <1>1
<1> QED
  BY <1>2, <1>3, <1>4 DEF f, g

LEMMA NoFrames ==
    /\ << >> \in Seq(SessionFrames) /\ OnceIn(<< >>)
    /\ \A i \in 1..Len(<< >>) : << >>[i].ws = {}
    /\ \A w : ~Has(<< >>, w)
BY DEF OnceIn, Has

LEMMA TopSession ==
    ASSUME Types, NEW t \in Actors, NEW do, do # "forget", Runs(t, do)
    PROVE  /\ Top(t) \in Sessions /\ ~Idle(t)
           /\ stack[t] \in Seq(SessionFrames) /\ stack[t] # << >>
           /\ Head(stack[t]) \in SessionFrames /\ Tail(stack[t]) \in Seq(SessionFrames)
<1>1. stack[t] \in Seq(SessionFrames) /\ stack[t] # << >>
  BY DEF Types, Runs, Idle
<1>2. Head(stack[t]) \in SessionFrames /\ Tail(stack[t]) \in Seq(SessionFrames)
  BY <1>1, TailFrames
<1> QED
  BY <1>1, <1>2 DEF Runs, Top, SessionFrames

LEMMA GetSessionStep ==
    ASSUME Types, WaitInv, NEW t \in Threads, GetSession(t)
    PROVE  Types' /\ WaitInv'
<1>1. t \in Actors
  BY DEF Actors
<1>2. PICK s \in Sessions, a \in {"external", "release"} :
        /\ stack' = [stack EXCEPT ![t] = <<Frame("register", s), Frame(a, s)>>]
        /\ registry' \in Sessions \cup {None} /\ made' \subseteq Sessions
        /\ realm' \in [Threads -> Sessions \cup {None}]
  <2>1. CASE registry # None
    BY <2>1 DEF GetSession, Types
  <2>2. CASE registry = None
    BY <2>2 DEF GetSession, Types
  <2> QED
    BY <2>1, <2>2
<1>3. sess' = sess /\ answered' = answered
  BY DEF GetSession, asks
<1>4. "register" \in Names /\ a \in Names
  BY DEF Names
<1>5. stack' \in [Actors -> Seq(SessionFrames)] /\ WaitInv'
  BY <1>1, <1>2, <1>3, <1>4, SomeFrames, StartStep
<1>6. mgr' \in Actors \cup {None} /\ calls' \in Nat
  BY <1>1 DEF GetSession, Types
<1> QED
  BY <1>2, <1>3, <1>5, <1>6 DEF GetSession, Types, users, asks, data

\* What is left of Types' when a step only changes sessions and stacks.
LEMMA OtherTypes ==
    ASSUME Types, sess' \in [Sessions -> SessionRecords],
           stack' \in [Actors -> Seq(SessionFrames)],
           UNCHANGED <<made, calls, overlap, crashed>>,
           UNCHANGED <<registry, users, locks, refs, asks, data>>
    PROVE  Types'
BY DEF Types, users, locks, refs, asks, data

LEMMA RegisterStep ==
    ASSUME Types, WaitInv, NEW t \in Actors, Register(t)
    PROVE  Types' /\ WaitInv'
<1>1. Top(t) \in Sessions /\ ~Idle(t)
  BY TopSession DEF Register
<1>2. Push(t, <<Frame("revive", Top(t))>>) \/ Push(t, << >>)
  BY DEF Register
<1>3. live' \in Sessions \cup {None} /\ waiting' \in Sessions \cup {None}
  BY <1>1 DEF Register, Types
<1>4. sess' = sess /\ answered' = answered
  BY DEF Register, asks
<1>5. "revive" \in Names
  BY DEF Names
<1>6. stack' \in [Actors -> Seq(SessionFrames)] /\ WaitInv'
  BY <1>1, <1>2, <1>4, <1>5, SomeFrames, NoFrames, PushStep
<1> QED
  BY <1>3, <1>4, <1>6 DEF Register, Types, fixed, locks, refs, asks, data

LEMMA ReviveStep ==
    ASSUME Types, WaitInv, NEW t \in Actors, Revive(t)
    PROVE  Types' /\ WaitInv'
<1> DEFINE s == Top(t)
<1>1. /\ s \in Sessions /\ stack[t] \in Seq(SessionFrames) /\ stack[t] # << >>
      /\ Tail(stack[t]) \in Seq(SessionFrames)
  BY TopSession DEF Revive
<1>2. sess[s] \in SessionRecords
  BY <1>1 DEF Types
<1>3. /\ Revived(sess[s]) \in SessionRecords /\ Keeps(sess[s], Revived(sess[s]))
      /\ Falls(sess[s], Revived(sess[s]))
  BY <1>2, RevivedProperties DEF Falls
<1>4. OnceIn(Tail(stack[t])) /\ \A w : Has(Tail(stack[t]), w) => Has(stack[t], w)
  BY <1>1, TailFrames DEF WaitInv
<1>5. Section(t, s, Revived(sess[s]), Tail(stack[t])) /\ answered' = answered
  BY DEF Revive
<1>6. /\ sess' \in [Sessions -> SessionRecords] /\ stack' \in [Actors -> Seq(SessionFrames)]
      /\ WaitInv'
  BY <1>1, <1>3, <1>4, <1>5, SectionStep
<1>7. requests' \subseteq Sessions
  BY <1>1 DEF Revive, Types
<1> QED
  BY <1>6, <1>7 DEF Revive, Types, fixed, users, locks, refs, data

LEMMA DidDropStep ==
    ASSUME Types, WaitInv, NEW t \in Actors, DidDrop(t)
    PROVE  Types' /\ WaitInv'
<1> DEFINE s == Top(t)
           r == IF Expired(s) THEN Closed(sess[s]) ELSE sess[s]
<1>1. /\ s \in Sessions /\ stack[t] \in Seq(SessionFrames) /\ stack[t] # << >>
      /\ Tail(stack[t]) \in Seq(SessionFrames)
  BY TopSession DEF DidDrop
<1>2. sess[s] \in SessionRecords
  BY <1>1 DEF Types
<1>3. Keeps(sess[s], sess[s]) /\ Falls(sess[s], sess[s])
  BY DEF Keeps, Falls
<1>4. r \in SessionRecords /\ Keeps(sess[s], r) /\ Falls(sess[s], r)
  BY <1>2, <1>3, ClosedProperties
<1>5. OnceIn(Tail(stack[t])) /\ \A w : Has(Tail(stack[t]), w) => Has(stack[t], w)
  BY <1>1, TailFrames DEF WaitInv
<1>6. Section(t, s, r, Tail(stack[t])) /\ answered' = answered
  BY DEF DidDrop, asks
<1> HIDE DEF r
<1>7. /\ sess' \in [Sessions -> SessionRecords] /\ stack' \in [Actors -> Seq(SessionFrames)]
      /\ WaitInv'
  BY <1>1, <1>4, <1>5, <1>6, SectionStep
<1> QED
  BY <1>7, OtherTypes DEF DidDrop, fixed

LEMMA TakeOrReleaseStep ==
    ASSUME Types, WaitInv, NEW t \in Actors, TakeReference(t) \/ Release(t)
    PROVE  Types' /\ WaitInv'
<1>1. Top(t) \in Sessions /\ ~Idle(t)
  BY TopSession DEF TakeReference, Release
<1>2. Push(t, << >>) /\ sess' = sess /\ answered' = answered
  BY DEF TakeReference, Release, asks
<1>3. stack' \in [Actors -> Seq(SessionFrames)] /\ WaitInv'
  BY <1>1, <1>2, NoFrames, PushStep
<1>4. realm' \in [Threads -> Sessions \cup {None}] /\ mgr' \in Actors \cup {None}
  BY <1>1 DEF TakeReference, Release, refs, Types
<1> QED
  BY <1>2, <1>3, <1>4 DEF TakeReference, Release, Types, fixed, users, refs, asks, data

LEMMA LetGoStep ==
    ASSUME Types, WaitInv, NEW t \in Threads, LetGo(t)
    PROVE  Types' /\ WaitInv'
<1>1. t \in Actors /\ realm[t] \in Sessions
  BY DEF Actors, Types, LetGo
<1>2. \/ stack' = [stack EXCEPT ![t] = << >>]
      \/ stack' = [stack EXCEPT ![t] = <<Frame("drop", realm[t])>>]
  BY DEF LetGo
<1>3. sess' = sess /\ answered' = answered /\ "drop" \in Names
  BY DEF LetGo, asks, Names
<1>4. stack' \in [Actors -> Seq(SessionFrames)] /\ WaitInv'
  BY <1>1, <1>2, <1>3, SomeFrames, NoFrames, StartStep
<1>5. realm' \in [Threads -> Sessions \cup {None}]
  BY DEF LetGo, Types
<1> QED
  BY <1>3, <1>4, <1>5 DEF LetGo, Types, fixed, users, locks, asks, data

LEMMA UnregisterStep ==
    ASSUME Types, WaitInv, NEW t \in Actors, Unregister(t)
    PROVE  Types' /\ WaitInv'
<1>1. ~Idle(t) /\ sess' = sess /\ answered' = answered /\ "giveback" \in Names
  BY DEF Unregister, Runs, asks, Names
<1>2. CASE registry # None /\ ~Expired(registry)
  <2>1. registry \in Sessions /\ Push(t, <<Frame("giveback", registry)>>)
    BY <1>2 DEF Unregister, Types
  <2>2. stack' \in [Actors -> Seq(SessionFrames)] /\ WaitInv'
    BY <1>1, <2>1, SomeFrames, PushStep
  <2>3. borrow' \in [Actors -> Sessions \cup {None}] /\ mgr' \in Actors \cup {None}
        /\ UNCHANGED <<registry, crashed>>
    BY <1>2, <2>1 DEF Unregister, Types
  <2> QED
    BY <1>1, <2>2, <2>3 DEF Unregister, Types, users, asks, data
<1>3. CASE ~(registry # None /\ ~Expired(registry))
  <2>1. Push(t, << >>) /\ registry' = None /\ crashed' \in BOOLEAN /\ UNCHANGED <<borrow, mgr>>
    BY <1>3 DEF Unregister
  <2>2. stack' \in [Actors -> Seq(SessionFrames)] /\ WaitInv'
    BY <1>1, <2>1, NoFrames, PushStep
  <2> QED
    BY <1>1, <2>1, <2>2 DEF Unregister, Types, users, asks, data
<1> QED
  BY <1>2, <1>3

LEMMA GiveBackStep ==
    ASSUME Types, WaitInv, NEW t \in Actors, GiveBack(t)
    PROVE  Types' /\ WaitInv'
<1>1. Top(t) \in Sessions /\ ~Idle(t)
  BY TopSession DEF GiveBack
<1>2. \/ Push(t, <<Frame("drop", Top(t)), Frame("release", Top(t))>>)
      \/ Push(t, <<Frame("release", Top(t))>>)
  BY DEF GiveBack
<1>3. sess' = sess /\ answered' = answered /\ "drop" \in Names /\ "release" \in Names
  BY DEF GiveBack, asks, Names
<1>4. stack' \in [Actors -> Seq(SessionFrames)] /\ WaitInv'
  BY <1>1, <1>2, <1>3, SomeFrames, PushStep
<1>5. borrow' \in [Actors -> Sessions \cup {None}]
  BY DEF GiveBack, Types
<1> QED
  BY <1>3, <1>4, <1>5 DEF GiveBack, Types, fixed, users, locks, asks, data

\* The callbacks in C are called, wherever they were; they are nowhere after.
LEMMA CalledStep ==
    ASSUME Types, WaitInv, NEW C \in SUBSET Waits, \A w \in C : answered[w] = 0,
           answered' = [w \in Waits |-> answered[w] + (IF w \in C THEN 1 ELSE 0)],
           \A s \in Sessions : sess'[s].queue \cap sess'[s].waits = {},
           \A s \in Sessions : Holds(s)' \subseteq Holds(s) \ C,
           \A t \in Actors : OnceIn(stack'[t]),
           \A t \in Actors : \A w : Has(stack'[t], w) => Has(stack[t], w) /\ w \notin C
    PROVE  answered' \in [Waits -> Nat] /\ WaitInv'
<1>1. \A w \in Waits : /\ answered[w] \in Nat
                       /\ answered'[w] = answered[w] + (IF w \in C THEN 1 ELSE 0)
  BY DEF Types
<1>2. answered' \in [Waits -> Nat]
  BY <1>1
<1>3. \A w \in Waits : answered'[w] <= 1
  BY <1>1 DEF WaitInv
<1>4. \A w \in Waits : w \notin C => answered'[w] = answered[w]
  BY <1>1
<1>5. \A s \in Sessions : Holds(s) \subseteq Waits
  BY DEF Holds, Types, SessionRecords
<1>6. \A s \in Sessions : \A w \in Holds(s)' : answered'[w] = 0
  BY <1>4, <1>5 DEF WaitInv
<1>7. \A t \in Actors : \A w \in Waits : Has(stack'[t], w) => answered'[w] = 0
  BY <1>4 DEF WaitInv
<1>8. \A s, u \in Sessions : \A w \in Holds(s)' : w \in Holds(u)' => s = u
  BY DEF WaitInv
<1>9. \A t, u \in Actors : \A w : Has(stack'[t], w) /\ Has(stack'[u], w) => t = u
  BY DEF WaitInv
<1>10. \A s \in Sessions, t \in Actors : \A w \in Holds(s)' : ~Has(stack'[t], w)
  BY DEF WaitInv
<1> QED
  BY <1>2, <1>3, <1>6, <1>7, <1>8, <1>9, <1>10 DEF WaitInv

LEMMA CancelStep ==
    ASSUME Types, WaitInv, NEW t \in Actors, Cancel(t)
    PROVE  Types' /\ WaitInv'
<1> DEFINE C == Head(stack[t]).ws
           q == Tail(stack[t])
<1>1. /\ stack[t] \in Seq(SessionFrames) /\ stack[t] # << >>
      /\ Head(stack[t]) \in SessionFrames /\ q \in Seq(SessionFrames)
  BY TopSession DEF Cancel
<1>2. /\ OnceIn(q) /\ \A w : Has(q, w) => Has(stack[t], w) /\ w \notin C
      /\ \A w \in C : Has(stack[t], w)
  BY <1>1, TailFrames DEF WaitInv
<1>3. C \in SUBSET Waits
  BY <1>1 DEF SessionFrames, Frames
<1>4. /\ answered' = [w \in Waits |-> answered[w] + (IF w \in C THEN 1 ELSE 0)]
      /\ sess' = sess
  BY DEF Cancel
<1>5. stack' = [stack EXCEPT ![t] = q]
  BY <1>1, ConcatEmptySeq DEF Cancel, Push
<1> HIDE DEF C, q
<1>6. /\ stack' \in [Actors -> Seq(SessionFrames)]
      /\ stack'[t] = q /\ \A u \in Actors : u # t => stack'[u] = stack[u]
  BY <1>1, <1>5 DEF Types
<1>7. \A w \in C : answered[w] = 0
  BY <1>2, <1>3 DEF WaitInv
<1>8. \A s \in Sessions : Holds(s)' \subseteq Holds(s) \ C
  BY <1>2, <1>4 DEF Holds, WaitInv
<1>9. \A u \in Actors : OnceIn(stack'[u]) /\ \A w : Has(stack'[u], w) => Has(stack[u], w) /\ w \notin C
  <2> SUFFICES ASSUME NEW u \in Actors
               PROVE  OnceIn(stack'[u]) /\ \A w : Has(stack'[u], w) => Has(stack[u], w) /\ w \notin C
    OBVIOUS
  <2>1. CASE u = t
    BY <1>2, <1>6, <2>1
  <2>2. CASE u # t
    BY <1>2, <1>6, <2>2 DEF WaitInv
  <2> QED
    BY <2>1, <2>2
<1>10. \A s \in Sessions : sess'[s].queue \cap sess'[s].waits = {}
  BY <1>4 DEF WaitInv
<1>11. answered' \in [Waits -> Nat] /\ WaitInv'
  BY <1>3, <1>4, <1>7, <1>8, <1>9, <1>10, CalledStep
<1> QED
  BY <1>4, <1>6, <1>11 DEF Cancel, Types, fixed, users, locks, refs, data

LEMMA LogOutStep ==
    ASSUME Types, WaitInv, NEW t \in Threads, LogOut(t)
    PROVE  Types' /\ WaitInv'
<1>1. t \in Actors /\ answered' = answered
  BY DEF Actors, LogOut, asks
<1>2. sess' \in [Sessions -> SessionRecords] /\ stack' \in [Actors -> Seq(SessionFrames)] /\ WaitInv'
  <2>1. CASE live # None /\ Alive(live)
    <3>1. live \in Sessions /\ sess[live] \in SessionRecords
      BY <2>1 DEF Types
    <3>2. Section(t, live, LoggedOut(sess[live]), <<Frame("keep", live)>>)
      BY <2>1 DEF LogOut
    <3>3. "keep" \in Names
      BY DEF Names
    <3>4. /\ <<Frame("keep", live)>> \in Seq(SessionFrames) /\ OnceIn(<<Frame("keep", live)>>)
          /\ \A w : ~Has(<<Frame("keep", live)>>, w)
      <4> DEFINE q == <<Frame("keep", live)>>
      <4>1. q \in Seq(SessionFrames) /\ \A i \in 1..Len(q) : q[i].ws = {}
        BY <3>1, <3>3, SomeFrames
      <4> HIDE DEF q
      <4>2. OnceIn(q) /\ \A w : ~Has(q, w)
        BY <4>1 DEF OnceIn, Has
      <4> QED
        BY <4>1, <4>2 DEF q
    <3> QED
      BY <1>1, <3>1, <3>2, <3>4, LoggedOutProperties, SectionStep
  <2>2. CASE ~(live # None /\ Alive(live))
    <3> DEFINE f == Frame("forget", None)
    <3>1. f \in SessionFrames /\ f.ws = {}
      BY DEF SessionFrames, Frames, Frame
    <3>2. sess' = sess /\ stack' = [stack EXCEPT ![t] = <<f>>]
      BY <2>2 DEF LogOut
    <3> HIDE DEF f
    <3>3. <<f>> \in Seq(SessionFrames) /\ \A i \in 1..Len(<<f>>) : <<f>>[i].ws = {}
      BY <3>1
    <3> QED
      BY <1>1, <3>2, <3>3, StartStep DEF Types
  <2> QED
    BY <2>1, <2>2
<1>3. usr' \in Actors \cup {None} /\ calls' \in Nat /\ user' = "LoggedOut"
  BY <1>1 DEF LogOut, Types
<1> QED
  BY <1>2, <1>3 DEF LogOut, Types, refs, asks, data

LEMMA LogOutEndsStep ==
    ASSUME Types, WaitInv, NEW t \in Actors, LogOutEnds(t)
    PROVE  Types' /\ WaitInv'
<1>1. ~Idle(t) /\ Push(t, << >>) /\ sess' = sess /\ answered' = answered
  BY DEF LogOutEnds, Runs, asks
<1>2. stack' \in [Actors -> Seq(SessionFrames)] /\ WaitInv'
  BY <1>1, NoFrames, PushStep
<1>3. waiting' \in Sessions \cup {None}
  <2>1. Runs(t, "keep") => Top(t) \in Sessions
    BY TopSession
  <2> QED
    BY <2>1 DEF LogOutEnds, Types
<1> QED
  BY <1>1, <1>2, <1>3 DEF LogOutEnds, Types, fixed, refs, asks, data

LEMMA LogInStep ==
    ASSUME Types, WaitInv, NEW t \in Threads, LogIn(t)
    PROVE  Types' /\ WaitInv'
<1>1. t \in Actors /\ answered' = answered /\ sess' = sess
  BY DEF Actors, LogIn, asks
<1>2. stack' \in [Actors -> Seq(SessionFrames)] /\ WaitInv' /\ live' \in Sessions \cup {None}
  <2>1. CASE waiting # None /\ Alive(waiting)
    <3>1. waiting \in Sessions /\ "revive" \in Names
      BY <2>1 DEF Types, Names
    <3>2. stack' = [stack EXCEPT ![t] = <<Frame("revive", waiting)>>] /\ live' = waiting
      BY <2>1 DEF LogIn
    <3> QED
      BY <1>1, <3>1, <3>2, SomeFrames, StartStep
  <2>2. CASE ~(waiting # None /\ Alive(waiting))
    <3>1. stack' = stack /\ live' = live
      BY <2>2 DEF LogIn
    <3> QED
      BY <1>1, <3>1 DEF WaitInv, Types, Holds
  <2> QED
    BY <2>1, <2>2
<1> QED
  BY <1>1, <1>2 DEF LogIn, Types, locks, refs, asks, data

LEMMA CommitStep ==
    ASSUME Types, WaitInv, NEW t \in Threads, Commit(t)
    PROVE  Types' /\ WaitInv'
<1> DEFINE s == realm[t]
           v == version + 1
           r == Notified(sess[s], v)
<1>1. s \in Sessions /\ v \in Nat /\ version' = v /\ sess[s] \in SessionRecords
  BY DEF Commit, Types
<1>2. sess' = [sess EXCEPT ![s] = r] /\ stack' = stack /\ answered' = answered
  BY <1>1 DEF Commit, asks
<1>3. r \in SessionRecords /\ Keeps(sess[s], r)
  BY <1>1, NotifiedProperties
<1> HIDE DEF r, v
<1>4. sess' \in [Sessions -> SessionRecords] /\ WaitInv'
  BY <1>1, <1>2, <1>3, RecordStep DEF Actors
<1> QED
  BY <1>1, <1>2, <1>4 DEF Commit, Types, fixed, users, locks, refs, asks

LEMMA WaitForCompletionStep ==
    ASSUME Types, WaitInv, NEW t \in Threads, NEW w \in Waits, WaitForCompletion(t, w)
    PROVE  Types' /\ WaitInv'
<1>0. PICK s \in Sessions : s = realm[t]
  BY DEF WaitForCompletion, Types
<1> DEFINE x == sess[s]
           r == WithWait(x, w)
<1>1. x \in SessionRecords
  BY DEF Types
<1>2. sess' = [sess EXCEPT ![s] = r]
  BY <1>0 DEF WaitForCompletion
<1>3. stack' = stack /\ answered' = answered /\ answered[w] = 0
  BY DEF WaitForCompletion, asks
<1>4. \A u \in Sessions : w \notin Holds(u)
  BY DEF WaitForCompletion, Holds
<1>5. \A u \in Actors : ~Has(stack[u], w)
  <2> SUFFICES ASSUME NEW u \in Actors, NEW i \in 1..Len(stack[u]) PROVE w \notin stack[u][i].ws
    BY DEF Has
  <2>1. stack[u] \in Seq(SessionFrames)
    BY DEF Types
  <2>2. DOMAIN stack[u] = 1..Len(stack[u])
    BY <2>1, LenProperties
  <2> QED
    BY <2>2 DEF WaitForCompletion
<1>6. w \notin x.queue /\ w \notin x.waits /\ x.queue \cap x.waits = {}
  BY <1>1, <1>4 DEF Holds, WaitInv
<1>7. r \in SessionRecords
  BY <1>1 DEF SessionRecords, WithWait
<1>8. r.queue \cup r.waits = x.queue \cup x.waits \cup {w} /\ r.queue \cap r.waits = {}
  BY <1>1, <1>6 DEF SessionRecords, WithWait
<1>9. x = sess[s]
  OBVIOUS
<1> HIDE DEF r, x
<1>10. /\ sess' \in [Sessions -> SessionRecords]
       /\ sess'[s] = r /\ \A u \in Sessions : u # s => sess'[u] = sess[u]
  BY <1>1, <1>2, <1>7 DEF Types
<1>11. Holds(s)' = Holds(s) \cup {w} /\ sess'[s].queue \cap sess'[s].waits = {}
  BY <1>8, <1>9, <1>10 DEF Holds
<1>12. \A u \in Sessions : u # s => Holds(u)' = Holds(u)
  BY <1>10 DEF Holds
<1>13. \A u \in Sessions : sess'[u].queue \cap sess'[u].waits = {}
  BY <1>10, <1>11 DEF WaitInv
<1>14. \A u \in Sessions : \A y \in Holds(u)' : y \in Holds(u) \/ (u = s /\ y = w)
  BY <1>11, <1>12
<1>15. \A u, v \in Sessions : \A y \in Holds(u)' : y \in Holds(v)' => u = v
  <2> SUFFICES ASSUME NEW u \in Sessions, NEW v \in Sessions, NEW y, y \in Holds(u)', y \in Holds(v)'
               PROVE  u = v
    OBVIOUS
  <2>1. CASE y = w
    BY <1>4, <1>14, <2>1
  <2>2. CASE y # w
    <3>1. y \in Holds(u) /\ y \in Holds(v)
      BY <1>14, <2>2
    <3> QED
      BY <3>1 DEF WaitInv
  <2> QED
    BY <2>1, <2>2
<1>16. \A u \in Sessions, a \in Actors : \A y \in Holds(u)' : ~Has(stack'[a], y)
  BY <1>3, <1>5, <1>14 DEF WaitInv
<1>17. \A u \in Sessions : \A y \in Holds(u)' : answered'[y] = 0
  BY <1>3, <1>14 DEF WaitInv
<1>18. WaitInv'
  BY <1>3, <1>13, <1>15, <1>16, <1>17 DEF WaitInv
<1> QED
  BY <1>3, <1>10, <1>18, OtherTypes DEF Types, WaitForCompletion, fixed

\* The binding's answers and the network.
LEMMA BindingStep ==
    ASSUME Types, WaitInv, NEW s \in Sessions, Token(s) \/ TokenLost(s) \/ Reconnect
    PROVE  Types' /\ WaitInv'
<1>1. stack' = stack /\ answered' = answered /\ requests' \subseteq Sessions
  BY DEF Token, TokenLost, Reconnect, Types
<1>2. sess' \in [Sessions -> SessionRecords] /\ WaitInv'
  <2>1. CASE Token(s)
    <3> DEFINE r == Refreshed(sess[s])
    <3>1. sess[s] \in SessionRecords /\ version \in Nat /\ sess' = [sess EXCEPT ![s] = r]
      BY <2>1 DEF Types, Token
    <3>2. r \in SessionRecords /\ Keeps(sess[s], r)
      BY <3>1, RefreshedProperties
    <3> HIDE DEF r
    <3> QED
      BY <1>1, <3>1, <3>2, RecordStep DEF Actors
  <2>2. CASE TokenLost(s) \/ Reconnect
    BY <1>1, <2>2 DEF TokenLost, Reconnect, WaitInv, Types, Holds
  <2> QED
    BY <2>1, <2>2
<1> QED
  BY <1>1, <1>2 DEF Token, TokenLost, Reconnect, Types, fixed, users, locks, refs, data

LEMMA UploadStep ==
    ASSUME Types, WaitInv, NEW s \in Sessions, Upload(s)
    PROVE  Types' /\ WaitInv'
<1>1. sess' = sess /\ stack' = stack /\ answered' = answered
  BY DEF Upload, asks
<1>2. uploaded' \in Nat
  BY DEF Upload, Types, SessionRecords
<1>3. WaitInv'
  BY <1>1 DEF WaitInv, Holds
<1> QED
  BY <1>1, <1>2, <1>3 DEF Upload, Types, fixed, users, locks, refs, asks

LEMMA UploadedStep ==
    ASSUME Types, WaitInv, NEW s \in Sessions, NEW u \in sess[s].uploads, Uploaded(s, u)
    PROVE  Types' /\ WaitInv'
<1> DEFINE x == sess[s]
           y == [x EXCEPT !.uploads = x.uploads \ {u}]
           r == IF y.st = "dying" /\ y.deaths = u.n THEN ToInactive(y) ELSE y
<1>1. x \in SessionRecords
  BY DEF Types
<1>2. y \in SessionRecords /\ y.st = x.st /\ y.queue = x.queue /\ y.waits = x.waits
  BY <1>1 DEF SessionRecords
<1> HIDE DEF x, y
<1>3. r \in SessionRecords /\ Keeps(x, r) /\ Falls(x, r)
  BY <1>2, ToInactiveProperties DEF Keeps, Falls
<1>4. Section(Client, s, r, << >>) /\ answered' = answered
  BY DEF Uploaded, asks, x, y
<1>5. Client \in Actors /\ x = sess[s]
  BY DEF Actors, x
<1> HIDE DEF r
<1>6. /\ sess' \in [Sessions -> SessionRecords] /\ stack' \in [Actors -> Seq(SessionFrames)]
      /\ WaitInv'
  BY <1>3, <1>4, <1>5, NoFrames, SectionStep
<1> QED
  BY <1>6, OtherTypes DEF Uploaded, fixed

LEMMA CompleteStep ==
    ASSUME Types, WaitInv, NEW s \in Sessions, NEW w \in Waits, Complete(s, w)
    PROVE  Types' /\ WaitInv'
<1> DEFINE x == sess[s]
           W == x.waits \ {w}
           r == [x EXCEPT !.waits = W]
<1>1. /\ x \in SessionRecords /\ w \in x.waits
      /\ sess' = [sess EXCEPT ![s] = r] /\ stack' = stack
      /\ answered' = [answered EXCEPT ![w] = @ + 1]
  BY DEF Types, Complete
<1>2. r \in SessionRecords /\ r.queue = x.queue /\ r.waits = W
  BY <1>1 DEF SessionRecords
<1>3. x = sess[s]
  OBVIOUS
<1> HIDE DEF r, x
<1>4. /\ sess' \in [Sessions -> SessionRecords]
      /\ sess'[s] = r /\ \A u \in Sessions : u # s => sess'[u] = sess[u]
  BY <1>1, <1>2 DEF Types
<1>5. w \in Holds(s)
  BY <1>1, <1>3 DEF Holds
<1>6. \A u \in Sessions : /\ Holds(u)' \subseteq Holds(u) \ {w}
                          /\ sess'[u].queue \cap sess'[u].waits = {}
  <2> SUFFICES ASSUME NEW u \in Sessions
               PROVE  /\ Holds(u)' \subseteq Holds(u) \ {w}
                      /\ sess'[u].queue \cap sess'[u].waits = {}
    OBVIOUS
  <2>1. CASE u = s
    BY <1>1, <1>2, <1>3, <1>4, <2>1 DEF Holds, WaitInv
  <2>2. CASE u # s
    <3>1. w \notin Holds(u) /\ sess'[u] = sess[u]
      BY <1>4, <1>5, <2>2 DEF WaitInv
    <3> QED
      BY <3>1 DEF Holds, WaitInv
  <2> QED
    BY <2>1, <2>2
<1>7. answered[w] = 0
  BY <1>5 DEF WaitInv
<1>8. answered' = [v \in Waits |-> answered[v] + (IF v \in {w} THEN 1 ELSE 0)]
  <2>1. answered \in [Waits -> Nat]
    BY DEF Types
  <2>2. \A v \in Waits : v # w => answered[v] + 0 = answered[v]
    BY <2>1
  <2>3. answered' \in [Waits -> Nat]
        /\ \A v \in Waits : answered'[v] = answered[v] + (IF v \in {w} THEN 1 ELSE 0)
    BY <1>1, <2>1, <2>2
  <2> QED
    BY <2>3
<1>9. \A t \in Actors : OnceIn(stack'[t]) /\ \A v : Has(stack'[t], v) => Has(stack[t], v) /\ v \notin {w}
  BY <1>1, <1>5 DEF WaitInv
<1>10. answered' \in [Waits -> Nat] /\ WaitInv'
  BY <1>6, <1>7, <1>8, <1>9, CalledStep
<1> QED
  BY <1>1, <1>4, <1>10 DEF Complete, Types, fixed, users, locks, refs, data

LEMMA ErrorStep ==
    ASSUME Types, WaitInv, NEW s \in Sessions, NEW e \in AllErrors, Error(s, e)
    PROVE  Types' /\ WaitInv'
<1> DEFINE x == sess[s]
<1>1. x \in SessionRecords /\ Client \in Actors /\ answered' = answered /\ e \in Names
  BY DEF Types, Actors, Error, asks, Names
<1>2. sess' \in [Sessions -> SessionRecords] /\ stack' \in [Actors -> Seq(SessionFrames)] /\ WaitInv'
  <2>1. CASE x.st = "dying"
    <3>1. PICK r \in {x, ToInactive(x)} : Section(Client, s, r, << >>)
      BY <2>1 DEF Error
    <3>2. r \in SessionRecords /\ Keeps(x, r) /\ Falls(x, r)
      BY <1>1, ToInactiveProperties DEF Keeps, Falls
    <3> QED
      BY <1>1, <3>1, <3>2, NoFrames, SectionStep
  <2>2. CASE x.st # "dying"
    <3>1. /\ sess' = sess
          /\ \/ stack' = [stack EXCEPT ![Client] = << >>]
             \/ stack' = [stack EXCEPT ![Client] = <<Frame(e, s)>>]
      BY <2>2 DEF Error
    <3> QED
      BY <1>1, <3>1, SomeFrames, NoFrames, StartStep DEF Types
  <2> QED
    BY <2>1, <2>2
<1> QED
  BY <1>2, OtherTypes DEF Error, fixed

LEMMA TokenExpiredStep ==
    ASSUME Types, WaitInv, TokenExpired
    PROVE  Types' /\ WaitInv'
<1> DEFINE s == Top(Client)
           r == IF sess[s].st = "active" THEN ToWaiting(sess[s]) ELSE sess[s]
<1>1. Client \in Actors
  BY DEF Actors
<1>2. s \in Sessions
  BY <1>1, TopSession DEF TokenExpired
<1>3. sess[s] \in SessionRecords
  BY <1>2 DEF Types
<1>4. r \in SessionRecords /\ Keeps(sess[s], r) /\ Falls(sess[s], r)
  BY <1>3, ToWaitingProperties DEF Keeps, Falls
<1>5. Section(Client, s, r, << >>) /\ answered' = answered /\ requests' \subseteq Sessions
  BY <1>2 DEF TokenExpired, Types
<1> HIDE DEF r
<1>6. /\ sess' \in [Sessions -> SessionRecords] /\ stack' \in [Actors -> Seq(SessionFrames)]
      /\ WaitInv'
  BY <1>1, <1>2, <1>4, <1>5, NoFrames, SectionStep
<1> QED
  BY <1>5, <1>6 DEF TokenExpired, Types, fixed, users, locks, refs, data

\* The client's thread takes a session's queue over, to call it.
LEMMA DropQueueStep ==
    ASSUME Types, WaitInv, ~Idle(Client), NEW s \in Sessions, NEW r \in SessionRecords,
           r.queue = {}, r.waits = sess[s].waits, sess' = [sess EXCEPT ![s] = r],
           NEW p \in Seq(SessionFrames), OnceIn(p), \A w : Has(p, w) <=> w \in sess[s].queue,
           Push(Client, p), answered' = answered
    PROVE  /\ sess' \in [Sessions -> SessionRecords]
           /\ stack' \in [Actors -> Seq(SessionFrames)]
           /\ WaitInv'
<1> DEFINE t == Client
           q == p \o Tail(stack[t])
<1>1. t \in Actors
  BY DEF Actors
<1>2. stack[t] \in Seq(SessionFrames) /\ stack[t] # << >> /\ OnceIn(stack[t])
  BY <1>1 DEF Types, Idle, WaitInv
<1>3. /\ Tail(stack[t]) \in Seq(SessionFrames) /\ OnceIn(Tail(stack[t]))
      /\ \A w : Has(Tail(stack[t]), w) => Has(stack[t], w)
  BY <1>2, TailFrames
<1>4. \A w \in sess[s].queue : ~Has(stack[t], w)
  BY <1>1 DEF WaitInv, Holds
<1>5. q \in Seq(SessionFrames) /\ OnceIn(q) /\ \A w : Has(q, w) => w \in sess[s].queue \/ Has(stack[t], w)
  BY <1>3, <1>4, ConcatFrames
<1>6. stack' = [stack EXCEPT ![t] = q]
  BY DEF Push
<1> HIDE DEF q, t
<1>7. /\ stack' \in [Actors -> Seq(SessionFrames)]
      /\ stack'[t] = q /\ \A u \in Actors : u # t => stack'[u] = stack[u]
  BY <1>1, <1>5, <1>6 DEF Types
<1>8. /\ sess' \in [Sessions -> SessionRecords]
      /\ sess'[s] = r /\ \A u \in Sessions : u # s => sess'[u] = sess[u]
  BY DEF Types
<1>9. \A u \in Sessions : sess'[u].queue \cap sess'[u].waits = {} /\ Holds(u)' \subseteq Holds(u)
  BY <1>8 DEF Holds, WaitInv
<1>10. \A w \in sess[s].queue : w \in Holds(s) /\ w \notin Holds(s)'
  BY <1>8 DEF Holds, WaitInv
<1> QED
  BY <1>1, <1>5, <1>7, <1>8, <1>9, <1>10, MoveWaits

LEMMA CancelWaitsStep ==
    ASSUME Types, WaitInv, CancelWaits
    PROVE  Types' /\ WaitInv'
<1> DEFINE s == Top(Client)
           W == sess[s].queue
           r == [sess[s] EXCEPT !.queue = {}]
           c == [do |-> "cancel", s |-> s, ws |-> W]
           f == Frame("invalidate", s)
<1>1. Client \in Actors /\ "auth" # "forget" /\ "fatal" # "forget"
  BY DEF Actors
<1>2. s \in Sessions /\ ~Idle(Client)
  BY <1>1, TopSession DEF CancelWaits
<1>3. /\ r \in SessionRecords /\ r.queue = {} /\ r.waits = sess[s].waits
      /\ W \subseteq Waits
  BY <1>2 DEF Types, SessionRecords
<1>4. sess' = [sess EXCEPT ![s] = r] /\ answered' = answered
  BY <1>2 DEF CancelWaits, Types, asks
<1>5. c \in SessionFrames /\ c.ws = W /\ f \in SessionFrames /\ f.ws = {}
  BY <1>2, <1>3 DEF SessionFrames, Frames, Frame
<1>6. Push(Client, <<c>> \o <<f>>) \/ Push(Client, <<c>> \o << >>)
  BY DEF CancelWaits
<1> HIDE DEF c, f, r
<1>7. /\ <<c>> \in Seq(SessionFrames) /\ OnceIn(<<c>>)
      /\ \A w : Has(<<c>>, w) <=> w \in W
  <2>1. <<c>> \in Seq(SessionFrames) /\ Len(<<c>>) = 1 /\ <<c>>[1] = c
    BY <1>5
  <2>2. 1..1 = {1}
    OBVIOUS
  <2> QED
    BY <1>5, <2>1, <2>2 DEF OnceIn, Has
<1>8. <<f>> \in Seq(SessionFrames) /\ OnceIn(<<f>>) /\ \A w : ~Has(<<f>>, w)
  <2>1. <<f>> \in Seq(SessionFrames) /\ \A i \in 1..Len(<<f>>) : <<f>>[i].ws = {}
    BY <1>5
  <2>2. Len(<<f>>) = 1 /\ 1..1 = {1}
    OBVIOUS
  <2> QED
    BY <2>1, <2>2 DEF OnceIn, Has
<1>9. \E p \in Seq(SessionFrames) : /\ OnceIn(p) /\ \A w : Has(p, w) <=> w \in W
                                    /\ Push(Client, p)
  <2>1. CASE Push(Client, <<c>> \o <<f>>)
    BY <1>7, <1>8, <2>1, ConcatFrames
  <2>2. CASE Push(Client, <<c>> \o << >>)
    BY <1>7, <2>2, ConcatEmptySeq
  <2> QED
    BY <1>6, <2>1, <2>2
<1>10. /\ sess' \in [Sessions -> SessionRecords] /\ stack' \in [Actors -> Seq(SessionFrames)]
       /\ WaitInv'
  BY <1>2, <1>3, <1>4, <1>9, DropQueueStep
<1> QED
  BY <1>10, OtherTypes DEF CancelWaits, fixed

LEMMA DeniedStep ==
    ASSUME Types, WaitInv, Denied
    PROVE  Types' /\ WaitInv'
<1> DEFINE s == Top(Client)
           W == sess[s].queue
           p == <<Frame("unregister", s), [do |-> "cancel", s |-> s, ws |-> W]>>
<1>1. Client \in Actors
  BY DEF Actors
<1>2. s \in Sessions /\ ~Idle(Client)
  BY <1>1, TopSession DEF Denied
<1>3. sess[s] \in SessionRecords /\ W \in SUBSET Waits
  BY <1>2 DEF Types, SessionRecords
<1>4. p \in Seq(SessionFrames) /\ OnceIn(p) /\ \A w : Has(p, w) <=> w \in W
  BY <1>2, <1>3, FallFrames
<1>5. /\ sess' = [sess EXCEPT ![s] = ToInactive(sess[s])] /\ Push(Client, p)
      /\ answered' = answered
  BY DEF Denied, asks
<1> HIDE DEF p
<1>6. /\ sess' \in [Sessions -> SessionRecords] /\ stack' \in [Actors -> Seq(SessionFrames)]
      /\ WaitInv'
  BY <1>2, <1>3, <1>4, <1>5, ToInactiveProperties, DropQueueStep
<1> QED
  BY <1>6, OtherTypes DEF Denied, fixed

LEMMA InvalidateStep ==
    ASSUME Types, WaitInv, Invalidate
    PROVE  Types' /\ WaitInv'
<1>1. Client \in Actors /\ ~Idle(Client) /\ Push(Client, << >>) /\ sess' = sess /\ answered' = answered
  BY DEF Actors, Invalidate, Runs, asks
<1>2. stack' \in [Actors -> Seq(SessionFrames)] /\ WaitInv'
  BY <1>1, NoFrames, PushStep
<1> QED
  BY <1>1, <1>2 DEF Invalidate, Types, fixed, locks, refs, asks, data

-----------------------------------------------------------------------------
(* The theorems. *)

LEMMA SyncInit ==
    ASSUME Init
    PROVE  Types /\ WaitInv
<1>1. \A s \in Sessions : /\ sess[s] \in SessionRecords
                          /\ sess[s].queue = {} /\ sess[s].waits = {}
  BY DEF Init, NewSession, SessionRecords, States
<1>2. stack = [t \in Actors |-> << >>] /\ answered = [w \in Waits |-> 0]
  BY DEF Init
<1>3. sess \in [Sessions -> SessionRecords] /\ stack \in [Actors -> Seq(SessionFrames)]
  BY <1>1, <1>2, NoFrames DEF Init
<1>4. calls \in Nat /\ overlap \in BOOLEAN
  BY SyncSessionAssumption DEF Init
<1>5. Types
  BY <1>3, <1>4 DEF Init, Types
<1>6. \A t \in Actors : OnceIn(stack[t]) /\ \A w : ~Has(stack[t], w)
  BY <1>2, NoFrames
<1> QED
  BY <1>1, <1>2, <1>5, <1>6 DEF WaitInv, Holds

LEMMA SyncStep ==
    ASSUME Types, WaitInv, [Next]_vars
    PROVE  Types' /\ WaitInv'
<1>1. ASSUME NEW t \in Threads, AppStep(t)
      PROVE  Types' /\ WaitInv'
  BY <1>1, GetSessionStep, LetGoStep, LogOutStep, LogInStep, CommitStep, WaitForCompletionStep
     DEF AppStep
<1>2. ASSUME NEW t \in Actors, Continue(t)
      PROVE  Types' /\ WaitInv'
  BY <1>2, RegisterStep, ReviveStep, TakeOrReleaseStep, DidDropStep, UnregisterStep, GiveBackStep,
     CancelStep, LogOutEndsStep DEF Continue
<1>3. CASE ClientStep
  BY <1>3, UploadStep, UploadedStep, CompleteStep, TokenExpiredStep, CancelWaitsStep,
     InvalidateStep, DeniedStep DEF ClientStep
<1>4. ASSUME NEW s \in Sessions, Token(s) \/ TokenLost(s) \/ \E e \in AllErrors : Error(s, e)
      PROVE  Types' /\ WaitInv'
  BY <1>4, BindingStep, ErrorStep
<1>5. CASE Reconnect
  <2>1. registry \in Sessions
    BY <1>5 DEF Reconnect, Types
  <2> QED
    BY <1>5, <2>1, BindingStep
<1>6. CASE UNCHANGED vars
  BY <1>6 DEF vars, Types, WaitInv, Holds
<1> QED
  BY <1>1, <1>2, <1>3, <1>4, <1>5, <1>6 DEF Next

LEMMA SyncInvariant == Spec => [](Types /\ WaitInv)
BY SyncInit, SyncStep, PTL DEF Spec

(* Every variable has its type, for any threads, sessions, policy and bounds. *)
THEOREM TypesHold == Spec => []TypeOK
<1>1. Types => TypeOK
  <2> SUFFICES ASSUME Types PROVE TypeOK
    OBVIOUS
  <2>1. \A s \in Sessions : sess[s] \in SessionRecords
    BY DEF Types
  <2>2. ASSUME NEW t \in Actors
        PROVE  stack[t] \in Seq(Frames)
    <3>1. SessionFrames \subseteq Frames
      BY DEF SessionFrames
    <3>2. stack[t] \in Seq(SessionFrames)
      BY DEF Types
    <3> HIDE DEF SessionFrames, Frames
    <3> QED
      BY <3>1, <3>2
  <2> QED
    BY <2>1, <2>2 DEF Types, TypeOK, SessionRecords
<1> QED
  BY <1>1, SyncInvariant, PTL

(* A completion callback is called once at most, whether the queue it waits in is
   emptied by a token, an error, a log-out or the last close, and however calls
   overlap (sync_session.cpp:156-159, :367-384, :612, :754-764). *)
THEOREM CallbacksAnsweredOnce == Spec => []AnsweredOnce
<1>1. WaitInv => AnsweredOnce
  BY DEF WaitInv, AnsweredOnce
<1> QED
  BY <1>1, SyncInvariant, PTL

-----------------------------------------------------------------------------
(* The upload completions a dying session waits for. *)

(* A session has one for each death at most, none for a death to come, and the
   one for its present death stands for all it was told of. *)
UploadFits(r) ==
    /\ IsFiniteSet(r.uploads)
    /\ \A u, x \in r.uploads : u.n = x.n => u = x
    /\ \A u \in r.uploads : u.n <= r.deaths
    /\ r.st = "dying" => \A u \in r.uploads : u.n = r.deaths => u.v = r.told
UploadInv == \A s \in Sessions : UploadFits(sess[s])

(* q, made from r, fits, and if it is the end of a dying r it keeps as many. *)
EndsWhole(r, q) ==
    /\ UploadFits(q)
    /\ r.st = "dying" /\ q.st = "inactive" => Cardinality(q.uploads) = Cardinality(r.uploads)

\* The body of UploadedBeforeEnd.
EndsUploaded ==
    \A s \in Sessions :
        /\ sess[s].st = "dying" /\ sess'[s].st = "inactive"
        /\ Cardinality(sess'[s].uploads) < Cardinality(sess[s].uploads)
        => sess[s].told <= uploaded

LEMMA SameUploads ==
    ASSUME NEW r, NEW q, UploadFits(r), q.uploads = r.uploads, q.deaths = r.deaths,
           q.st = "dying" => r.st = "dying" /\ q.told = r.told
    PROVE  EndsWhole(r, q)
BY DEF UploadFits, EndsWhole

LEMMA ToWaitingSame ==
    ASSUME NEW r \in SessionRecords
    PROVE  /\ ToWaiting(r).uploads = r.uploads /\ ToWaiting(r).deaths = r.deaths
           /\ ToWaiting(r).st = "waiting"
BY DEF SessionRecords, ToWaiting

\* An aborted session keeps its completions: only what they wait for changes.
LEMMA ToInactiveEndsWhole ==
    ASSUME NEW r \in SessionRecords, UploadFits(r)
    PROVE  EndsWhole(r, ToInactive(r)) /\ ToInactive(r).st = "inactive"
<1> DEFINE f == [u \in r.uploads |-> [u EXCEPT !.v = 0]]
           U == {[u EXCEPT !.v = 0] : u \in r.uploads}
<1>1. ASSUME NEW u \in r.uploads
      PROVE  f[u] \in U /\ f[u].n = u.n
  BY DEF SessionRecords
<1>2. \A y \in U : \E u \in r.uploads : f[u] = y
  OBVIOUS
<1>3. ToInactive(r) = [r EXCEPT !.st = "inactive", !.open = FALSE, !.queue = {}, !.uploads = U]
  BY DEF ToInactive, SessionRecords
<1>4. f \in [r.uploads -> U]
  OBVIOUS
<1> HIDE DEF f, U
<1>5. \A u, x \in r.uploads : f[u] = f[x] => u = x
  BY <1>1 DEF UploadFits
<1>6. ExistsBijection(r.uploads, U)
  <2>1. f \in Surjection(r.uploads, U)
    BY <1>2, <1>4 DEF Surjection
  <2>2. f \in Injection(r.uploads, U)
    BY <1>4, <1>5 DEF Injection, IsInjective
  <2> QED
    BY <2>1, <2>2 DEF ExistsBijection, Bijection
<1>7. IsFiniteSet(U) /\ Cardinality(U) = Cardinality(r.uploads)
  BY <1>6, FS_Bijection DEF UploadFits
<1>8. \A u, x \in U : u.n = x.n => u = x
  BY <1>1, <1>2 DEF UploadFits
<1>9. \A u \in U : u.n <= r.deaths
  BY <1>1, <1>2 DEF UploadFits
<1>10. /\ ToInactive(r).uploads = U /\ ToInactive(r).deaths = r.deaths
       /\ ToInactive(r).st = "inactive"
  BY <1>3 DEF SessionRecords
<1> QED
  BY <1>7, <1>8, <1>9, <1>10 DEF EndsWhole, UploadFits

\* A death adds a completion of its own.
LEMMA ToDyingFits ==
    ASSUME NEW r \in SessionRecords, UploadFits(r)
    PROVE  UploadFits(ToDying(r))
<1>1. CASE r.open
  <2> DEFINE d == r.deaths + 1
             e == [n |-> d, v |-> r.told]
             U == r.uploads \cup {e}
  <2>1. d \in Nat /\ r.deaths \in Nat /\ r.uploads \subseteq [n : Nat, v : Nat]
    BY DEF SessionRecords
  <2>2. ToDying(r) = [r EXCEPT !.st = "dying", !.deaths = d, !.uploads = U]
    BY <1>1 DEF ToDying, SessionRecords
  <2>3. e.n = d /\ e.v = r.told
    OBVIOUS
  <2>4. \A u \in r.uploads : u.n \in Nat /\ u.n <= r.deaths
    BY <2>1 DEF UploadFits
  <2>5. \A u \in r.uploads : u.n < d
    BY <2>1, <2>4
  <2> HIDE DEF e
  <2>6. IsFiniteSet(U)
    BY FS_AddElement DEF UploadFits
  <2>7. \A u, x \in U : u.n = x.n => u = x
    BY <2>1, <2>3, <2>4, <2>5 DEF UploadFits
  <2>8. \A u \in U : u.n <= d /\ (u.n = d => u.v = r.told)
    BY <2>1, <2>3, <2>4, <2>5
  <2> HIDE DEF U, d
  <2>9. /\ ToDying(r).uploads = U /\ ToDying(r).deaths = d /\ ToDying(r).told = r.told
    BY <2>2 DEF SessionRecords
  <2> QED
    BY <2>6, <2>7, <2>8, <2>9 DEF UploadFits
<1>2. CASE ~r.open
  BY <1>2, ToInactiveEndsWhole DEF ToDying, EndsWhole
<1> QED
  BY <1>1, <1>2

LEMMA ClosedEndsWhole ==
    ASSUME NEW r \in SessionRecords, UploadFits(r)
    PROVE  EndsWhole(r, Closed(r))
<1>1. EndsWhole(r, r)
  BY SameUploads
<1>2. EndsWhole(r, [r EXCEPT !.deferClose = TRUE])
  BY SameUploads DEF SessionRecords
<1>3. r.st = "active" => EndsWhole(r, ToDying(r))
  BY ToDyingFits DEF EndsWhole
<1>4. EndsWhole(r, ToInactive(r))
  BY ToInactiveEndsWhole
<1>5. \/ Closed(r) \in {r, [r EXCEPT !.deferClose = TRUE], ToInactive(r)}
      \/ r.st = "active" /\ Closed(r) = ToDying(r)
  BY DEF Closed
<1> QED
  BY <1>1, <1>2, <1>3, <1>4, <1>5

LEMMA RevivedEndsWhole ==
    ASSUME NEW r \in SessionRecords, UploadFits(r)
    PROVE  EndsWhole(r, Revived(r))
<1>1. EndsWhole(r, r)
  BY SameUploads
<1>2. r.st = "waiting" => EndsWhole(r, [r EXCEPT !.deferClose = FALSE])
  BY SameUploads DEF SessionRecords
<1>3. EndsWhole(r, [r EXCEPT !.st = "active"])
  BY SameUploads DEF SessionRecords
<1>4. EndsWhole(r, ToWaiting(r))
  BY ToWaitingSame, SameUploads
<1>5. \/ Revived(r) \in {r, [r EXCEPT !.st = "active"], ToWaiting(r)}
      \/ r.st = "waiting" /\ Revived(r) = [r EXCEPT !.deferClose = FALSE]
  BY DEF Revived
<1> QED
  BY <1>1, <1>2, <1>3, <1>4, <1>5

LEMMA RefreshedEndsWhole ==
    ASSUME NEW r \in SessionRecords, UploadFits(r), version \in Nat
    PROVE  EndsWhole(r, Refreshed(r))
<1>1. CASE r.st # "waiting"
  BY <1>1, SameUploads DEF Refreshed
<1>2. CASE r.st = "waiting"
  <2>1. Bound(r) \in SessionRecords
    BY BoundProperties
  <2>2. /\ Bound(r).uploads = r.uploads /\ Bound(r).deaths = r.deaths
        /\ Bound(r).st = "active"
    <3> DEFINE k == Tells(r)
               W == r.waits \cup r.queue
               z == 0
    <3>1. Bound(r) = [r EXCEPT !.st = "active", !.open = TRUE, !.bound = TRUE, !.told = k,
                               !.commit = z, !.waits = W, !.queue = {}]
      BY DEF Bound, BoundWith
    <3> HIDE DEF k, W, z
    <3> QED
      BY <3>1 DEF SessionRecords
  <2>3. UploadFits(Bound(r)) /\ EndsWhole(r, Bound(r))
    BY <2>2, SameUploads DEF EndsWhole
  <2>4. UploadFits(Closed(Bound(r)))
    BY <2>1, <2>3, ClosedEndsWhole DEF EndsWhole
  <2>5. EndsWhole(r, Closed(Bound(r)))
    BY <1>2, <2>4 DEF EndsWhole
  <2> QED
    BY <1>2, <2>3, <2>5 DEF Refreshed
<1> QED
  BY <1>1, <1>2

LEMMA NotifiedEndsWhole ==
    ASSUME NEW r \in SessionRecords, UploadFits(r), NEW v \in Nat
    PROVE  EndsWhole(r, Notified(r, v))
<1>1. EndsWhole(r, r)
  BY SameUploads
<1>2. EndsWhole(r, [r EXCEPT !.commit = v])
  BY SameUploads DEF SessionRecords
<1>3. r.st = "active" => EndsWhole(r, [r EXCEPT !.told = v])
  BY SameUploads DEF SessionRecords
<1> QED
  BY <1>1, <1>2, <1>3 DEF Notified

LEMMA WithWaitEndsWhole ==
    ASSUME NEW r \in SessionRecords, UploadFits(r), NEW w
    PROVE  EndsWhole(r, WithWait(r, w))
<1> DEFINE Q == r.queue \cup {w}
           W == r.waits \cup {w}
<1>1. WithWait(r, w) \in {[r EXCEPT !.queue = Q], [r EXCEPT !.waits = W]}
  BY DEF WithWait
<1> HIDE DEF Q, W
<1>2. EndsWhole(r, [r EXCEPT !.queue = Q]) /\ EndsWhole(r, [r EXCEPT !.waits = W])
  BY SameUploads DEF SessionRecords
<1> QED
  BY <1>1, <1>2

\* One session changes, and ends whole.
LEMMA OneEndsWhole ==
    ASSUME Types, UploadInv, NEW s \in Sessions, NEW q,
           sess' = [sess EXCEPT ![s] = q], EndsWhole(sess[s], q)
    PROVE  UploadInv' /\ EndsUploaded
<1>1. sess'[s] = q /\ \A u \in Sessions : u # s => sess'[u] = sess[u]
  BY DEF Types
<1>2. UploadInv'
  BY <1>1 DEF UploadInv, EndsWhole
<1>3. Cardinality(q.uploads) = Cardinality(sess[s].uploads) =>
        ~(Cardinality(q.uploads) < Cardinality(sess[s].uploads))
  <2>1. IsFiniteSet(sess[s].uploads)
    BY DEF UploadInv, UploadFits
  <2>2. Cardinality(sess[s].uploads) \in Nat
    BY <2>1, FS_CardinalityType
  <2> QED
    BY <2>2
<1>4. EndsUploaded
  BY <1>1, <1>3 DEF EndsWhole, EndsUploaded
<1> QED
  BY <1>2, <1>4

LEMMA NoneEnds ==
    ASSUME Types, UploadInv, sess' = sess
    PROVE  UploadInv' /\ EndsUploaded
BY DEF UploadInv, UploadFits, EndsUploaded

LEMMA ThreadsEndWhole ==
    ASSUME Types, UploadInv, NEW t \in Threads, AppStep(t)
    PROVE  UploadInv' /\ EndsUploaded
<1>1. \A s \in Sessions : sess[s] \in SessionRecords /\ UploadFits(sess[s])
  BY DEF Types, UploadInv
<1>2. CASE LogOut(t)
  <2>1. CASE live # None /\ Alive(live)
    <3>1. live \in Sessions /\ sess' = [sess EXCEPT ![live] = LoggedOut(sess[live])]
      BY <1>2, <2>1 DEF Types, LogOut, Section
    <3>2. EndsWhole(sess[live], LoggedOut(sess[live]))
      BY <1>1, <3>1, ToInactiveEndsWhole, SameUploads DEF LoggedOut
    <3> QED
      BY <3>1, <3>2, OneEndsWhole
  <2>2. CASE ~(live # None /\ Alive(live))
    BY <1>2, <2>2, NoneEnds DEF LogOut
  <2> QED
    BY <2>1, <2>2
<1>3. CASE Commit(t)
  <2>1. realm[t] \in Sessions /\ version' \in Nat
    BY <1>3 DEF Types, Commit
  <2>2. sess' = [sess EXCEPT ![realm[t]] = Notified(sess[realm[t]], version')]
    BY <1>3 DEF Commit
  <2> QED
    BY <1>1, <2>1, <2>2, NotifiedEndsWhole, OneEndsWhole
<1>4. ASSUME NEW w \in Waits, WaitForCompletion(t, w)
      PROVE  UploadInv' /\ EndsUploaded
  <2>1. realm[t] \in Sessions
    BY <1>4 DEF Types, WaitForCompletion
  <2>2. sess' = [sess EXCEPT ![realm[t]] = WithWait(sess[realm[t]], w)]
    BY <1>4 DEF WaitForCompletion
  <2> QED
    BY <1>1, <2>1, <2>2, WithWaitEndsWhole, OneEndsWhole
<1>5. CASE GetSession(t) \/ LetGo(t) \/ LogIn(t)
  BY <1>5, NoneEnds DEF GetSession, LetGo, LogIn
<1> QED
  BY <1>2, <1>3, <1>4, <1>5 DEF AppStep

LEMMA ContinuedEndsWhole ==
    ASSUME Types, UploadInv, NEW t \in Actors, Continue(t)
    PROVE  UploadInv' /\ EndsUploaded
<1>1. \A s \in Sessions : sess[s] \in SessionRecords /\ UploadFits(sess[s])
  BY DEF Types, UploadInv
<1>2. CASE Revive(t)
  <2>1. Top(t) \in Sessions
    BY <1>2, TopSession DEF Revive
  <2>2. sess' = [sess EXCEPT ![Top(t)] = Revived(sess[Top(t)])]
    BY <1>2 DEF Revive, Section
  <2> QED
    BY <1>1, <2>1, <2>2, RevivedEndsWhole, OneEndsWhole
<1>3. CASE DidDrop(t)
  <2> DEFINE r == IF Expired(Top(t)) THEN Closed(sess[Top(t)]) ELSE sess[Top(t)]
  <2>1. Top(t) \in Sessions
    BY <1>3, TopSession DEF DidDrop
  <2>2. sess' = [sess EXCEPT ![Top(t)] = r]
    BY <1>3 DEF DidDrop, Section
  <2>3. EndsWhole(sess[Top(t)], r)
    BY <1>1, <2>1, ClosedEndsWhole, SameUploads
  <2> QED
    BY <2>1, <2>2, <2>3, OneEndsWhole
<1>4. CASE Register(t) \/ TakeReference(t) \/ Release(t) \/ Unregister(t) \/ GiveBack(t)
           \/ Cancel(t) \/ LogOutEnds(t)
  BY <1>4, NoneEnds DEF Register, TakeReference, Release, Unregister, GiveBack, Cancel, LogOutEnds
<1> QED
  BY <1>2, <1>3, <1>4 DEF Continue

\* The one end that counts: the completion of the present death.
LEMMA UploadedEnds ==
    ASSUME Types, UploadInv, NEW s \in Sessions, NEW u \in sess[s].uploads, Uploaded(s, u)
    PROVE  UploadInv' /\ EndsUploaded
<1> DEFINE x == sess[s]
           U == x.uploads \ {u}
           y == [x EXCEPT !.uploads = U]
           r == IF y.st = "dying" /\ y.deaths = u.n THEN ToInactive(y) ELSE y
<1>1. x \in SessionRecords /\ UploadFits(x) /\ u \in x.uploads
  BY DEF Types, UploadInv
<1>2. U \subseteq x.uploads /\ IsFiniteSet(U)
  BY <1>1, FS_RemoveElement DEF UploadFits
<1>3. sess' = [sess EXCEPT ![s] = r] /\ u.v <= uploaded
  BY DEF Uploaded, Section
<1>4. x = sess[s]
  OBVIOUS
<1> HIDE DEF x, U
<1>5. y \in SessionRecords /\ y.uploads = U /\ y.st = x.st /\ y.deaths = x.deaths /\ y.told = x.told
  BY <1>1, <1>2 DEF SessionRecords
<1>6. UploadFits(y)
  BY <1>1, <1>2, <1>5 DEF UploadFits
<1> HIDE DEF y
<1>7. UploadFits(r)
  BY <1>5, <1>6, ToInactiveEndsWhole DEF EndsWhole
<1>8. x.st = "dying" /\ r.st = "inactive" => u.v = x.told
  BY <1>1, <1>5 DEF UploadFits
<1> HIDE DEF r
<1>9. sess'[s] = r /\ \A z \in Sessions : z # s => sess'[z] = sess[z]
  BY <1>3 DEF Types
<1>10. UploadInv'
  BY <1>7, <1>9 DEF UploadInv
<1>11. ASSUME NEW z \in Sessions, sess[z].st = "dying", sess'[z].st = "inactive"
       PROVE  sess[z].told <= uploaded
  BY <1>3, <1>4, <1>8, <1>9, <1>11
<1> QED
  BY <1>10, <1>11 DEF EndsUploaded

LEMMA ClientEndsWhole ==
    ASSUME Types, UploadInv, ClientStep
    PROVE  UploadInv' /\ EndsUploaded
<1>1. \A s \in Sessions : sess[s] \in SessionRecords /\ UploadFits(sess[s])
  BY DEF Types, UploadInv
<1>2. Client \in Actors
  BY DEF Actors
<1>3. ASSUME NEW s \in Sessions, NEW w \in Waits, Complete(s, w)
      PROVE  UploadInv' /\ EndsUploaded
  <2> DEFINE W == sess[s].waits \ {w}
             r == [sess[s] EXCEPT !.waits = W]
  <2>1. sess' = [sess EXCEPT ![s] = r]
    BY <1>3 DEF Complete, Types
  <2> HIDE DEF W
  <2>2. EndsWhole(sess[s], r)
    BY <1>1, SameUploads DEF SessionRecords
  <2> QED
    BY <2>1, <2>2, OneEndsWhole
<1>4. CASE TokenExpired
  <2> DEFINE s == Top(Client)
             r == IF sess[s].st = "active" THEN ToWaiting(sess[s]) ELSE sess[s]
  <2>1. s \in Sessions
    BY <1>2, <1>4, TopSession DEF TokenExpired
  <2>2. sess' = [sess EXCEPT ![s] = r]
    BY <1>4 DEF TokenExpired, Section
  <2>3. EndsWhole(sess[s], ToWaiting(sess[s])) /\ EndsWhole(sess[s], sess[s])
    BY <1>1, <2>1, ToWaitingSame, SameUploads
  <2> QED
    BY <2>1, <2>2, <2>3, OneEndsWhole
<1>5. CASE CancelWaits
  <2> DEFINE s == Top(Client)
             r == [sess[s] EXCEPT !.queue = {}]
  <2>1. s \in Sessions
    <3>1. "auth" # "forget" /\ "fatal" # "forget"
      OBVIOUS
    <3> QED
      BY <1>2, <1>5, <3>1, TopSession DEF CancelWaits
  <2>2. sess' = [sess EXCEPT ![s] = r]
    BY <1>5, <2>1 DEF CancelWaits, Types
  <2>3. EndsWhole(sess[s], r)
    BY <1>1, <2>1, SameUploads DEF SessionRecords
  <2> QED
    BY <2>1, <2>2, <2>3, OneEndsWhole
<1>6. CASE Denied
  <2>1. Top(Client) \in Sessions
    BY <1>2, <1>6, TopSession DEF Denied
  <2>2. sess' = [sess EXCEPT ![Top(Client)] = ToInactive(sess[Top(Client)])]
    BY <1>6 DEF Denied
  <2> QED
    BY <1>1, <2>1, <2>2, ToInactiveEndsWhole, OneEndsWhole
<1>7. ASSUME NEW s \in Sessions, Upload(s)
      PROVE  UploadInv' /\ EndsUploaded
  BY <1>7, NoneEnds DEF Upload
<1>8. CASE Invalidate
  BY <1>8, NoneEnds DEF Invalidate
<1> QED
  BY <1>3, <1>4, <1>5, <1>6, <1>7, <1>8, UploadedEnds DEF ClientStep

LEMMA AnswersEndWhole ==
    ASSUME Types, UploadInv, NEW s \in Sessions,
           Token(s) \/ TokenLost(s) \/ \E e \in AllErrors : Error(s, e)
    PROVE  UploadInv' /\ EndsUploaded
<1>1. sess[s] \in SessionRecords /\ UploadFits(sess[s]) /\ version \in Nat
  BY DEF Types, UploadInv
<1>2. CASE Token(s)
  <2>1. sess' = [sess EXCEPT ![s] = Refreshed(sess[s])]
    BY <1>2 DEF Token
  <2> QED
    BY <1>1, <2>1, RefreshedEndsWhole, OneEndsWhole
<1>3. CASE TokenLost(s)
  BY <1>3, NoneEnds DEF TokenLost
<1>4. ASSUME NEW e \in AllErrors, Error(s, e)
      PROVE  UploadInv' /\ EndsUploaded
  <2>1. \/ sess' = sess
        \/ \E r \in {sess[s], ToInactive(sess[s])} : sess' = [sess EXCEPT ![s] = r]
    BY <1>4 DEF Error, Section
  <2>2. EndsWhole(sess[s], sess[s]) /\ EndsWhole(sess[s], ToInactive(sess[s]))
    BY <1>1, SameUploads, ToInactiveEndsWhole
  <2> QED
    BY <2>1, <2>2, NoneEnds, OneEndsWhole
<1> QED
  BY <1>2, <1>3, <1>4

(* A dying session that a completed upload ends has uploaded all it was told of,
   for any overlap of calls, any errors and any number of revivals
   (sync_session.cpp:302-323). *)
THEOREM EndsAfterUpload == Spec => UploadedBeforeEnd
<1>1. ASSUME Init
      PROVE  UploadInv
  <2>1. \A s \in Sessions : sess[s].uploads = {} /\ sess[s].st = "inactive"
    BY <1>1 DEF Init, NewSession
  <2> QED
    BY <2>1, FS_EmptySet DEF UploadInv, UploadFits
<1>2. ASSUME Types, UploadInv, [Next]_vars
      PROVE  UploadInv' /\ EndsUploaded
  <2>1. CASE Reconnect \/ UNCHANGED vars
    BY <1>2, <2>1, NoneEnds DEF Reconnect, vars
  <2> QED
    BY <1>2, <2>1, ThreadsEndWhole, ContinuedEndsWhole, ClientEndsWhole, AnswersEndWhole DEF Next
<1>3. [][EndsUploaded]_vars => UploadedBeforeEnd
  BY PTL DEF EndsUploaded, UploadedBeforeEnd
<1> QED
  BY <1>1, <1>2, <1>3, SyncInvariant, PTL DEF Spec
=============================================================================
