--------------------------- MODULE SyncSerialProofs ---------------------------
(***************************************************************************)
(* What SyncSession promises while calls do not overlap: one session open  *)
(* on the file, none up after a log-out, every commit announced, and the   *)
(* session of an open Realm kept up.                                       *)
(***************************************************************************)
EXTENDS SyncSessionProofs

(* One call runs at a time, so its frames are the system's: the first one, and
   those below it. *)
First(f, do, s) == f.do = do /\ f.s = s
At(do, s) == \E t \in Actors : stack[t] # << >> /\ First(stack[t][1], do, s)
Below(do, s) == \E t \in Actors : \E i \in 2..Len(stack[t]) : First(stack[t][i], do, s)
Pending(do, s) == At(do, s) \/ Below(do, s)

OneRunner == \A t, u \in Actors : stack[t] # << >> /\ stack[u] # << >> => t = u

Entering == {"register", "revive"}
Leaving == {"external", "release", "cancel", "keep", "invalidate"}

(* Only what ends a call lies below the first frame; get_session takes its
   reference last, from the session it registered. *)
Shape(q) ==
    /\ \A i \in 2..Len(q) : /\ q[i].do \in Leaving
                            /\ q[i].do = "external" => q[1].do \in Entering
    /\ q # << >> /\ q[1].do \in Entering => Len(q) <= 2
    /\ \A i \in 2..Len(q) : q[1].do \in Entering => q[i].s = q[1].s
Shapes == OneRunner /\ \A t \in Actors : Shape(stack[t])

(* How a step changes the frames. *)
Popped == \A do, s : /\ At(do, s)' => Below(do, s)
                     /\ Below(do, s)' => Below(do, s)
                     /\ Below(do, s) => Pending(do, s)'
Topped(d, v) == \A do, s : /\ At(do, s)' <=> do = d /\ s = v
                           /\ Below(do, s)' <=> Below(do, s)
ToppedTwice(d, v, e, w) == \A do, s : /\ At(do, s)' <=> do = d /\ s = v
                                      /\ Below(do, s)' <=> Below(do, s) \/ (do = e /\ s = w)

Resting == \A t \in Actors : Idle(t)
Rest(t) == IF Idle(t) THEN << >> ELSE Tail(stack[t])

\* The thread that runs is alone.
LEMMA RunnerFrames ==
    ASSUME Types, Shapes, NEW t \in Actors, ~Idle(t) \/ Resting
    PROVE  /\ Rest(t) \in Seq(SessionFrames) /\ Len(Rest(t)) \in Nat
           /\ \A u \in Actors : u # t => stack[u] = << >>
           /\ \A do, s : Below(do, s) <=> \E i \in 1..Len(Rest(t)) : First(Rest(t)[i], do, s)
           /\ \A do, s : At(do, s) <=> ~Idle(t) /\ First(Head(stack[t]), do, s)
           /\ ~Idle(t) => /\ stack[t][1] = Head(stack[t])
                          /\ Len(stack[t]) = Len(Rest(t)) + 1
                          /\ \A i \in 1..Len(Rest(t)) : Rest(t)[i] = stack[t][i + 1]
<1> DEFINE q == stack[t]
           r == Rest(t)
<1>1. q \in Seq(SessionFrames) /\ Len(q) \in Nat
  BY DEF Types
<1>2. \A u \in Actors : u # t => stack[u] = << >>
  BY DEF Idle, Resting, Shapes, OneRunner
<1>3. r \in Seq(SessionFrames) /\ Len(r) \in Nat
  BY <1>1, TailFrames DEF Rest, Idle
<1>4. CASE Idle(t)
  <2>1. r = << >> /\ Len(r) = 0 /\ 1..Len(r) = {}
    BY <1>4 DEF Rest
  <2>2. \A u \in Actors : stack[u] = << >> /\ 2..Len(stack[u]) = {}
    BY <1>2, <1>4 DEF Idle
  <2> QED
    BY <1>2, <1>3, <1>4, <2>1, <2>2 DEF At, Below
<1>5. CASE ~Idle(t)
  <2>1. r = Tail(q) /\ q # << >> /\ Head(q) = q[1]
    BY <1>1, <1>5, HeadTailProperties DEF Rest, Idle
  <2>2. Len(r) = Len(q) - 1 /\ \A i \in 1..Len(r) : r[i] = q[i + 1]
    BY <1>1, <2>1, HeadTailProperties
  <2>3. \A u \in Actors : u # t => 2..Len(stack[u]) = {}
    BY <1>2
  <2>4. \A do, s : At(do, s) <=> First(Head(q), do, s)
    BY <1>2, <2>1 DEF At
  <2>5. ASSUME NEW do, NEW s
        PROVE  Below(do, s) <=> \E i \in 1..Len(r) : First(r[i], do, s)
    <3>1. Below(do, s) <=> \E i \in 2..Len(q) : First(q[i], do, s)
      BY <2>3 DEF Below
    <3>2. ASSUME NEW i \in 2..Len(q), First(q[i], do, s)
          PROVE  \E j \in 1..Len(r) : First(r[j], do, s)
      <4>1. i - 1 \in 1..Len(r) /\ (i - 1) + 1 = i
        BY <1>1, <2>2
      <4> QED
        BY <2>2, <3>2, <4>1
    <3>3. ASSUME NEW i \in 1..Len(r), First(r[i], do, s)
          PROVE  \E j \in 2..Len(q) : First(q[j], do, s)
      <4>1. i + 1 \in 2..Len(q)
        BY <1>1, <2>2
      <4> QED
        BY <2>2, <3>3, <4>1
    <3> QED
      BY <3>1, <3>2, <3>3
  <2>6. Len(q) = Len(r) + 1
    BY <1>1, <2>2
  <2> HIDE DEF r
  <2> QED
    BY <1>2, <1>3, <1>5, <2>1, <2>2, <2>4, <2>5, <2>6 DEF r
<1> QED
  BY <1>4, <1>5

\* New frames on top of the rest.
LEMMA NewFrames ==
    ASSUME Types, Shapes, NEW t \in Actors, ~Idle(t) \/ Resting,
           NEW p \in Seq(SessionFrames), p # << >>, stack' = [stack EXCEPT ![t] = p \o Rest(t)]
    PROVE  /\ OneRunner'
           /\ stack'[t] \in Seq(SessionFrames) /\ stack'[t] = p \o Rest(t)
           /\ \A u \in Actors : u # t => stack'[u] = << >>
           /\ \A do, s : At(do, s)' <=> First(p[1], do, s)
           /\ \A do, s : Below(do, s)' <=> Below(do, s) \/ \E i \in 2..Len(p) : First(p[i], do, s)
<1> DEFINE r == Rest(t)
           q == p \o r
<1>1. /\ r \in Seq(SessionFrames) /\ Len(r) \in Nat /\ Len(p) \in Nat /\ Len(p) > 0
      /\ \A u \in Actors : u # t => stack[u] = << >>
      /\ \A do, s : Below(do, s) <=> \E i \in 1..Len(r) : First(r[i], do, s)
  BY RunnerFrames, EmptySeq, LenProperties
<1>2. /\ q \in Seq(SessionFrames) /\ Len(q) = Len(p) + Len(r)
      /\ \A i \in 1..(Len(p) + Len(r)) : q[i] = IF i <= Len(p) THEN p[i] ELSE r[i - Len(p)]
  BY <1>1, ConcatProperties
<1> HIDE DEF q, r
<1>3. /\ stack'[t] = q /\ \A u \in Actors : u # t => stack'[u] = << >> /\ 2..Len(stack'[u]) = {}
  BY <1>1 DEF Types, q, r
<1>4. q # << >> /\ q[1] = p[1]
  BY <1>1, <1>2
<1>5. \A do, s : At(do, s)' <=> First(p[1], do, s)
  BY <1>3, <1>4 DEF At
<1>6. ASSUME NEW do, NEW s
      PROVE  Below(do, s)' <=> Below(do, s) \/ \E i \in 2..Len(p) : First(p[i], do, s)
  <2>1. Below(do, s)' <=> \E i \in 2..Len(q) : First(q[i], do, s)
    BY <1>3 DEF Below
  <2>2. ASSUME NEW i \in 2..Len(q), First(q[i], do, s)
        PROVE  Below(do, s) \/ \E j \in 2..Len(p) : First(p[j], do, s)
    <3>1. CASE i <= Len(p)
      BY <1>1, <1>2, <2>2, <3>1
    <3>2. CASE ~(i <= Len(p))
      <4>1. i - Len(p) \in 1..Len(r) /\ q[i] = r[i - Len(p)]
        BY <1>1, <1>2, <3>2
      <4> QED
        BY <1>1, <2>2, <4>1
    <3> QED
      BY <3>1, <3>2
  <2>3. ASSUME NEW i \in 2..Len(p), First(p[i], do, s)
        PROVE  \E j \in 2..Len(q) : First(q[j], do, s)
    <3>1. i \in 2..Len(q) /\ q[i] = p[i]
      BY <1>1, <1>2
    <3> QED
      BY <2>3, <3>1
  <2>4. ASSUME NEW i \in 1..Len(r), First(r[i], do, s)
        PROVE  \E j \in 2..Len(q) : First(q[j], do, s)
    <3>1. i + Len(p) \in 2..Len(q) /\ ~(i + Len(p) <= Len(p)) /\ (i + Len(p)) - Len(p) = i
      BY <1>1, <1>2
    <3>2. q[i + Len(p)] = r[i]
      BY <1>1, <1>2, <3>1
    <3> QED
      BY <2>4, <3>1, <3>2
  <2> QED
    BY <1>1, <2>1, <2>2, <2>3, <2>4
<1> QED
  BY <1>2, <1>3, <1>5, <1>6 DEF OneRunner, q, r

\* What lies below the first frame of the thread that runs.
LEMMA RestFrames ==
    ASSUME Types, Shapes, NEW t \in Actors, ~Idle(t) \/ Resting
    PROVE  \A i \in 1..Len(Rest(t)) :
             /\ Rest(t)[i].do \in Leaving
             /\ Rest(t)[i].do = "external" => ~Idle(t) /\ Head(stack[t]).do \in Entering
             /\ ~Idle(t) /\ Head(stack[t]).do \in Entering =>
                  i = 1 /\ Len(Rest(t)) = 1 /\ Rest(t)[i].s = Top(t)
<1> SUFFICES ASSUME NEW i \in 1..Len(Rest(t))
             PROVE  /\ Rest(t)[i].do \in Leaving
                    /\ Rest(t)[i].do = "external" => ~Idle(t) /\ Head(stack[t]).do \in Entering
                    /\ ~Idle(t) /\ Head(stack[t]).do \in Entering =>
                         i = 1 /\ Len(Rest(t)) = 1 /\ Rest(t)[i].s = Top(t)
  OBVIOUS
<1>1. ~Idle(t)
  <2>1. Len(<< >>) = 0
    OBVIOUS
  <2> QED
    BY <2>1 DEF Rest
<1>2. /\ stack[t][1] = Head(stack[t]) /\ Len(Rest(t)) \in Nat
      /\ Len(stack[t]) = Len(Rest(t)) + 1 /\ Rest(t)[i] = stack[t][i + 1]
  BY <1>1, RunnerFrames
<1>3. i + 1 \in 2..Len(stack[t])
  BY <1>2
<1>4. Shape(stack[t]) /\ stack[t] # << >>
  BY <1>1 DEF Shapes, Idle
<1> DEFINE f == stack[t][i + 1]
<1>5. /\ f.do \in Leaving /\ (f.do = "external" => stack[t][1].do \in Entering)
      /\ stack[t][1].do \in Entering => Len(stack[t]) <= 2 /\ f.s = stack[t][1].s
  BY <1>3, <1>4 DEF Shape
<1>6. Rest(t)[i] = f
  BY <1>2
<1> HIDE DEF f
<1> DEFINE n == Len(Rest(t))
           m == Len(stack[t])
<1>7. m <= 2 => i = 1 /\ n = 1
  <2>1. i \in 1..n /\ n \in Nat /\ m = n + 1
    BY <1>2
  <2> HIDE DEF n, m
  <2> QED
    BY <2>1
<1> QED
  BY <1>1, <1>2, <1>5, <1>6, <1>7 DEF Top

\* A frame is done.
LEMMA PopFrames ==
    ASSUME Types, Shapes, NEW t \in Actors, ~Idle(t), stack' = [stack EXCEPT ![t] = Rest(t)]
    PROVE  Shapes' /\ Popped
<1> DEFINE r == Rest(t)
<1>1. /\ r \in Seq(SessionFrames) /\ Len(r) \in Nat
      /\ \A u \in Actors : u # t => stack[u] = << >>
      /\ \A do, s : Below(do, s) <=> \E i \in 1..Len(r) : First(r[i], do, s)
  BY RunnerFrames
<1>2. \A i \in 1..Len(r) : /\ r[i].do \in Leaving
                           /\ r[i].do = "external" => Len(r) = 1
  BY RestFrames
<1> HIDE DEF r
<1>3. stack'[t] = r /\ \A u \in Actors : u # t => stack'[u] = << >> /\ 2..Len(stack'[u]) = {}
  BY <1>1 DEF Types, r
<1>4. r # << >> => 1 \in 1..Len(r)
  BY <1>1, EmptySeq
<1>5. Shape(r) /\ Shape(<< >>)
  BY <1>1, <1>2, <1>4 DEF Shape, Entering, Leaving
<1>6. Shapes'
  BY <1>3, <1>5 DEF Shapes, OneRunner
<1>7. ASSUME NEW do, NEW s
      PROVE  /\ At(do, s)' => Below(do, s)
             /\ Below(do, s)' => Below(do, s)
             /\ Below(do, s) => Pending(do, s)'
  <2>1. At(do, s)' <=> r # << >> /\ First(r[1], do, s)
    BY <1>3 DEF At
  <2>2. Below(do, s)' <=> \E i \in 2..Len(r) : First(r[i], do, s)
    BY <1>3 DEF Below
  <2>3. \A i \in 1..Len(r) : i = 1 \/ i \in 2..Len(r)
    BY <1>1
  <2>4. \A i \in 2..Len(r) : i \in 1..Len(r)
    BY <1>1
  <2>5. (\E i \in 1..Len(r) : First(r[i], do, s)) => r # << >>
    <3>1. Len(<< >>) = 0
      OBVIOUS
    <3> QED
      BY <3>1
  <2> QED
    BY <1>1, <1>4, <2>1, <2>2, <2>3, <2>4, <2>5 DEF Pending
<1> QED
  BY <1>6, <1>7 DEF Popped

\* A call goes on, or begins, with frames that do not enter a session.
LEMMA GoesOn ==
    ASSUME Types, Shapes, NEW t \in Actors, ~Idle(t) \/ Resting,
           ~Idle(t) => Head(stack[t]).do \notin Entering,
           NEW p \in Seq(SessionFrames), p # << >>, p[1].do \notin Entering,
           \A i \in 2..Len(p) : p[i].do \in Leaving \ {"external"},
           stack' = [stack EXCEPT ![t] = p \o Rest(t)]
    PROVE  Shapes'
<1> DEFINE r == Rest(t)
           q == p \o r
<1>1. OneRunner' /\ stack'[t] = q /\ \A u \in Actors : u # t => stack'[u] = << >>
  BY NewFrames
<1>2. /\ r \in Seq(SessionFrames) /\ Len(r) \in Nat /\ Len(p) \in Nat /\ Len(p) > 0
      /\ \A i \in 1..Len(r) : r[i].do \in Leaving \ {"external"}
  BY RunnerFrames, RestFrames, EmptySeq, LenProperties
<1>3. /\ Len(q) = Len(p) + Len(r)
      /\ \A i \in 1..(Len(p) + Len(r)) : q[i] = IF i <= Len(p) THEN p[i] ELSE r[i - Len(p)]
  BY <1>2, ConcatProperties
<1> HIDE DEF q, r
<1>4. ASSUME NEW i \in 2..Len(q)
      PROVE  q[i].do \in Leaving \ {"external"}
  <2>1. CASE i <= Len(p)
    BY <1>2, <1>3, <2>1
  <2>2. CASE ~(i <= Len(p))
    <3>1. i - Len(p) \in 1..Len(r) /\ q[i] = r[i - Len(p)]
      BY <1>2, <1>3, <2>2
    <3> QED
      BY <1>2, <3>1
  <2> QED
    BY <2>1, <2>2
<1>5. q[1].do \notin Entering
  BY <1>2, <1>3
<1>6. Shape(q) /\ Shape(<< >>)
  BY <1>4, <1>5 DEF Shape
<1> QED
  BY <1>1, <1>6 DEF Shapes

\* One frame, or two, on top of the rest.
LEMMA GoesOnOnce ==
    ASSUME Types, Shapes, NEW t \in Actors, ~Idle(t) \/ Resting,
           ~Idle(t) => Head(stack[t]).do \notin Entering,
           NEW f \in SessionFrames, f.do \notin Entering,
           stack' = [stack EXCEPT ![t] = <<f>> \o Rest(t)]
    PROVE  Shapes' /\ Topped(f.do, f.s)
<1> DEFINE p == <<f>>
<1>1. p \in Seq(SessionFrames) /\ p # << >> /\ Len(p) = 1 /\ p[1] = f
  OBVIOUS
<1>2. stack' = [stack EXCEPT ![t] = p \o Rest(t)]
  OBVIOUS
<1> HIDE DEF p
<1>3. 2..Len(p) = {}
  BY <1>1
<1>4. Shapes'
  BY <1>1, <1>2, <1>3, GoesOn
<1>5. /\ \A do, s : At(do, s)' <=> First(p[1], do, s)
      /\ \A do, s : Below(do, s)' <=> Below(do, s) \/ \E i \in 2..Len(p) : First(p[i], do, s)
  BY <1>1, <1>2, NewFrames
<1> QED
  BY <1>1, <1>3, <1>4, <1>5 DEF Topped, First

LEMMA GoesOnTwice ==
    ASSUME Types, Shapes, NEW t \in Actors, ~Idle(t) \/ Resting,
           ~Idle(t) => Head(stack[t]).do \notin Entering,
           NEW f \in SessionFrames, f.do \notin Entering,
           NEW g \in SessionFrames, g.do \in Leaving \ {"external"},
           stack' = [stack EXCEPT ![t] = <<f, g>> \o Rest(t)]
    PROVE  Shapes' /\ ToppedTwice(f.do, f.s, g.do, g.s)
<1> DEFINE p == <<f, g>>
<1>1. p \in Seq(SessionFrames) /\ p # << >> /\ Len(p) = 2 /\ p[1] = f /\ p[2] = g
  OBVIOUS
<1>2. stack' = [stack EXCEPT ![t] = p \o Rest(t)]
  OBVIOUS
<1> HIDE DEF p
<1>3. 2..Len(p) = {2}
  BY <1>1
<1>4. Shapes'
  BY <1>1, <1>2, <1>3, GoesOn
<1>5. /\ \A do, s : At(do, s)' <=> First(p[1], do, s)
      /\ \A do, s : Below(do, s)' <=> Below(do, s) \/ \E i \in 2..Len(p) : First(p[i], do, s)
  BY <1>1, <1>2, NewFrames
<1> QED
  BY <1>1, <1>3, <1>4, <1>5 DEF ToppedTwice, First

\* A call enters a session: nothing but its own end lies below.
LEMMA EntersOnce ==
    ASSUME Types, Shapes, NEW t \in Actors, NEW f \in SessionFrames, f.do \in Entering,
           \/ Resting
           \/ ~Idle(t) /\ Head(stack[t]).do \in Entering /\ f.s = Top(t),
           stack' = [stack EXCEPT ![t] = <<f>> \o Rest(t)]
    PROVE  Shapes' /\ Topped(f.do, f.s)
<1> DEFINE p == <<f>>
           r == Rest(t)
           q == p \o r
<1>1. p \in Seq(SessionFrames) /\ p # << >> /\ Len(p) = 1 /\ p[1] = f
  OBVIOUS
<1>2. stack' = [stack EXCEPT ![t] = p \o Rest(t)]
  OBVIOUS
<1> HIDE DEF p
<1>3. 2..Len(p) = {}
  BY <1>1
<1>4. ~Idle(t) \/ Resting
  OBVIOUS
<1>5. /\ OneRunner' /\ stack'[t] = q /\ \A u \in Actors : u # t => stack'[u] = << >>
      /\ \A do, s : At(do, s)' <=> First(p[1], do, s)
      /\ \A do, s : Below(do, s)' <=> Below(do, s) \/ \E i \in 2..Len(p) : First(p[i], do, s)
  BY <1>1, <1>2, <1>4, NewFrames
<1>6. Topped(f.do, f.s)
  BY <1>1, <1>3, <1>5 DEF Topped, First
<1>7. r \in Seq(SessionFrames) /\ Len(r) \in Nat
  BY <1>4, RunnerFrames
<1>8. /\ Len(r) <= 1
      /\ \A i \in 1..Len(r) : r[i].do \in Leaving /\ r[i].s = f.s
  <2>1. CASE Idle(t)
    <3>1. r = << >> /\ Len(<< >>) = 0 /\ 1..0 = {}
      BY <2>1 DEF Rest
    <3> HIDE DEF r
    <3> QED
      BY <3>1
  <2>2. CASE ~Idle(t) /\ Head(stack[t]).do \in Entering /\ f.s = Top(t)
    <3>1. \A i \in 1..Len(r) : /\ r[i].do \in Leaving /\ r[i].s = f.s
                               /\ Len(r) = 1
      BY <2>2, RestFrames
    <3> HIDE DEF r
    <3>2. Len(r) <= 1
      <4>1. CASE Len(r) = 0
        BY <4>1
      <4>2. CASE 1 \in 1..Len(r)
        BY <3>1, <4>2
      <4> QED
        BY <1>7, <4>1, <4>2
    <3> QED
      BY <3>1, <3>2
  <2> QED
    BY <2>1, <2>2 DEF Resting
<1>9. /\ Len(q) = 1 + Len(r)
      /\ \A i \in 1..(1 + Len(r)) : q[i] = IF i <= 1 THEN p[i] ELSE r[i - 1]
  <2>1. /\ Len(q) = Len(p) + Len(r)
        /\ \A i \in 1..(Len(p) + Len(r)) : q[i] = IF i <= Len(p) THEN p[i] ELSE r[i - Len(p)]
    BY <1>1, <1>7, ConcatProperties
  <2> HIDE DEF q, r
  <2> QED
    BY <1>1, <2>1
<1> HIDE DEF q, r
<1>10. q[1] = f /\ Len(q) <= 2
  BY <1>1, <1>7, <1>8, <1>9
<1>11. ASSUME NEW i \in 2..Len(q)
       PROVE  q[i].do \in Leaving /\ q[i].s = f.s
  <2>1. i - 1 \in 1..Len(r) /\ q[i] = r[i - 1]
    BY <1>7, <1>9
  <2> QED
    BY <1>8, <2>1
<1>12. Shape(q) /\ Shape(<< >>)
  BY <1>10, <1>11 DEF Shape
<1> QED
  BY <1>5, <1>6, <1>12 DEF Shapes

LEMMA EntersTwice ==
    ASSUME Types, Shapes, NEW t \in Actors, NEW f \in SessionFrames, f.do \in Entering,
           NEW g \in SessionFrames, g.do \in Leaving, g.s = f.s, Resting,
           stack' = [stack EXCEPT ![t] = <<f, g>>]
    PROVE  Shapes' /\ ToppedTwice(f.do, f.s, g.do, g.s)
<1> DEFINE p == <<f, g>>
<1>1. p \in Seq(SessionFrames) /\ p # << >> /\ Len(p) = 2 /\ p[1] = f /\ p[2] = g
  OBVIOUS
<1>2. p \o Rest(t) = p
  BY <1>1, ConcatEmptySeq DEF Rest, Resting
<1>3. stack' = [stack EXCEPT ![t] = p \o Rest(t)]
  BY <1>2
<1> HIDE DEF p
<1>4. 2..Len(p) = {2}
  BY <1>1
<1>5. /\ OneRunner' /\ stack'[t] = p /\ \A u \in Actors : u # t => stack'[u] = << >>
      /\ \A do, s : At(do, s)' <=> First(p[1], do, s)
      /\ \A do, s : Below(do, s)' <=> Below(do, s) \/ \E i \in 2..Len(p) : First(p[i], do, s)
  BY <1>1, <1>2, <1>3, NewFrames
<1>6. ToppedTwice(f.do, f.s, g.do, g.s)
  BY <1>1, <1>4, <1>5 DEF ToppedTwice, First
<1>7. Shape(p) /\ Shape(<< >>)
  BY <1>1, <1>4 DEF Shape
<1> QED
  BY <1>5, <1>6, <1>7 DEF Shapes

-----------------------------------------------------------------------------
(* What holds while calls do not overlap. *)

Up(s) == sess[s].st # "inactive"
Kept(s) == sess[s].st # "dying" /\ (sess[s].st = "waiting" => ~sess[s].deferClose)
OffRegistry == registry = None \/ sess[registry].st = "inactive"

RecordFits(r) ==
    /\ r.st = "inactive" => ~r.open
    /\ r.st \in {"active", "dying"} => r.open /\ r.commit = 0
    /\ r.open => r.bound
(* An active session, and one that will be active when its token comes, has been
   told of the newest commit or will be. *)
Told(r, v, active) ==
    /\ r.st = "active" \/ (r.st = "dying" /\ active) => r.told = v
    /\ r.st = "waiting" /\ r.open => (IF r.commit > 0 THEN r.commit ELSE r.told) = v

(* A log-out keeps the session for the next log-in, an error invalidates a user
   who is logged in. *)
Outcome(s) == /\ Pending("keep", s) => user = "LoggedOut"
              /\ Pending("invalidate", s) => user # "LoggedOut"
EndsWith(s, as) == /\ Below("keep", s) => as = "LoggedOut"
                   /\ Below("invalidate", s) => as # "LoggedOut"

FramesFit ==
    \A s \in Sessions :
      /\ At("register", s) \/ Pending("external", s) \/ At("drop", s) \/ At("giveback", s) => s = registry
      /\ At("revive", s) => user = "Active" /\ live = s /\ (s = registry \/ OffRegistry)
      /\ At("external", s) /\ user = "Active" => Up(s) /\ Kept(s)
      /\ At("unregister", s) => OffRegistry
      /\ \A e \in AllErrors : At(e, s) => s = registry /\ sess[s].open
      /\ Outcome(s)
ForgetFits == \A s : Pending("forget", s) => user = "LoggedOut"
Records == \A s \in Sessions : RecordFits(sess[s])
MadeOnly == \A s \in Sessions : /\ Alive(s) => s \in made
                                /\ s \notin made => ~Up(s) /\ ~sess[s].open
(* Only the registered session is referred to, and only it is open. *)
Held == /\ \A t \in Threads : realm[t] # None => realm[t] = registry
        /\ \A t \in Actors : borrow[t] # None => borrow[t] = registry
OpenIsRegistered == \A s \in Sessions : Alive(s) /\ sess[s].open => s = registry
(* A session that is up and no longer registered only waits for its token, and
   then the registered one is not up. *)
Asked == \A s \in requests : sess[s].st \in {"waiting", "inactive"}
StrayWaits == \A s \in Sessions : Alive(s) /\ Up(s) /\ s # registry => s \in requests /\ OffRegistry
(* The user's list has the session that is up, unless another one is about to
   take its place. *)
UpIsLive == \A s \in Sessions : Alive(s) /\ Up(s) =>
    live = s \/ (s # registry /\ registry # None /\ At("revive", registry))
OutMeansDown == user = "LoggedOut" => \A s \in Sessions : Alive(s) => ~Up(s)
HeldIsKept == user = "Active" => \A t \in Threads : realm[t] # None => Kept(realm[t])
Announced == \A s \in Sessions : Alive(s) => Told(sess[s], version, user = "Active")

SessionsFit == /\ Records /\ MadeOnly /\ Held /\ OpenIsRegistered /\ Asked /\ StrayWaits
               /\ UpIsLive /\ OutMeansDown /\ HeldIsKept /\ Announced
SerialInv == Shapes /\ FramesFit /\ ForgetFits /\ SessionsFit

\* What owns a session.
LEMMA AliveMeans ==
    ASSUME Types, Held, NEW s \in Sessions
    PROVE  Alive(s) <=> s = registry \/ s \in requests \/ \E do : Pending(do, s)
<1>1. ~Expired(s) => s = registry
  BY SyncSessionAssumption DEF Expired, Held
<1>2. ASSUME NEW t \in Actors, NEW i \in DOMAIN stack[t], stack[t][i].s = s
      PROVE  \E do : Pending(do, s)
  <2>1. stack[t] \in Seq(SessionFrames) /\ DOMAIN stack[t] = 1..Len(stack[t]) /\ Len(stack[t]) \in Nat
    BY LenProperties DEF Types
  <2>2. stack[t] # << >>
    <3>1. DOMAIN << >> = {}
      OBVIOUS
    <3> QED
      BY <3>1
  <2>3. i = 1 \/ i \in 2..Len(stack[t])
    BY <2>1
  <2>4. Pending(stack[t][i].do, s)
    BY <1>2, <2>2, <2>3 DEF Pending, At, Below, First
  <2> QED
    BY <2>4
<1>3. ASSUME NEW do, Pending(do, s)
      PROVE  \E t \in Actors : \E i \in DOMAIN stack[t] : stack[t][i].s = s
  <2>1. \A t \in Actors : /\ stack[t] \in Seq(SessionFrames) /\ Len(stack[t]) \in Nat
                          /\ DOMAIN stack[t] = 1..Len(stack[t])
                          /\ stack[t] # << >> => Len(stack[t]) > 0
    BY LenProperties, EmptySeq DEF Types
  <2>2. \A t \in Actors : \A i \in 2..Len(stack[t]) : i \in DOMAIN stack[t]
    BY <2>1
  <2>3. \A t \in Actors : stack[t] # << >> => 1 \in DOMAIN stack[t]
    BY <2>1
  <2> QED
    BY <1>3, <2>2, <2>3 DEF Pending, At, Below, First
<1> QED
  BY <1>1, <1>2, <1>3 DEF Alive

LEMMA AliveMeansNext ==
    ASSUME Types', Held', NEW s \in Sessions
    PROVE  Alive(s)' <=> s = registry' \/ s \in requests' \/ \E do : Pending(do, s)'
<1>1. Expired(s)' \/ s = registry'
  BY SyncSessionAssumption DEF Expired, Held
<1>2. ASSUME NEW t \in Actors, NEW i \in DOMAIN stack'[t], stack'[t][i].s = s
      PROVE  \E do : Pending(do, s)'
  <2>1. /\ stack'[t] \in Seq(SessionFrames) /\ DOMAIN stack'[t] = 1..Len(stack'[t])
        /\ Len(stack'[t]) \in Nat
    BY LenProperties DEF Types
  <2>2. stack'[t] # << >>
    <3>1. DOMAIN << >> = {}
      OBVIOUS
    <3> QED
      BY <3>1
  <2>3. i = 1 \/ i \in 2..Len(stack'[t])
    BY <2>1
  <2>4. PICK do : do = stack'[t][i].do
    OBVIOUS
  <2>5. Pending(do, s)'
    BY <1>2, <2>2, <2>3, <2>4 DEF Pending, At, Below, First
  <2> QED
    BY <2>5
<1>3. ASSUME NEW do, Pending(do, s)'
      PROVE  \E t \in Actors : \E i \in DOMAIN stack'[t] : stack'[t][i].s = s
  <2>1. \A t \in Actors : /\ stack'[t] \in Seq(SessionFrames) /\ Len(stack'[t]) \in Nat
                          /\ DOMAIN stack'[t] = 1..Len(stack'[t])
                          /\ stack'[t] # << >> => Len(stack'[t]) > 0
    BY LenProperties, EmptySeq DEF Types
  <2>2. \A t \in Actors : \A i \in 2..Len(stack'[t]) : i \in DOMAIN stack'[t]
    BY <2>1
  <2>3. \A t \in Actors : stack'[t] # << >> => 1 \in DOMAIN stack'[t]
    BY <2>1
  <2> QED
    BY <1>3, <2>2, <2>3 DEF Pending, At, Below, First
<1> QED
  BY <1>1, <1>2, <1>3 DEF Alive

-----------------------------------------------------------------------------
(* What the operators on a session's record do to what the invariant reads. *)

Like(r, q) == /\ q.st = r.st /\ q.open = r.open /\ q.bound = r.bound
              /\ q.deferClose = r.deferClose /\ q.commit = r.commit /\ q.told = r.told

LEMMA ToInactiveCore ==
    ASSUME NEW r \in SessionRecords
    PROVE  ToInactive(r).st = "inactive" /\ ~ToInactive(r).open
BY DEF ToInactive, SessionRecords

LEMMA ClosedCore ==
    ASSUME NEW r \in SessionRecords, RecordFits(r)
    PROVE  LET q == Closed(r) IN
           /\ RecordFits(q) /\ q.told = r.told /\ q.commit = r.commit
           /\ (q.open => r.open) /\ (r.st = "inactive" => q = r)
           /\ \/ q.st = r.st /\ q.open = r.open
              \/ q.st = "inactive"
              \/ q.st = "dying" /\ r.st = "active"
<1> DEFINE q == [r EXCEPT !.deferClose = TRUE]
<1>1. /\ q.st = r.st /\ q.open = r.open /\ q.bound = r.bound /\ q.commit = r.commit
      /\ q.told = r.told
  BY DEF SessionRecords
<1>2. LET i == ToInactive(r) IN
      i.st = "inactive" /\ ~i.open /\ i.told = r.told /\ i.commit = r.commit
  BY DEF ToInactive, SessionRecords
<1>3. ASSUME r.st = "active"
      PROVE  LET d == ToDying(r) IN
             /\ d.st = "dying" /\ d.open = r.open /\ d.bound = r.bound
             /\ d.commit = r.commit /\ d.told = r.told
  <2>1. r.open
    BY <1>3 DEF RecordFits
  <2> QED
    BY <2>1 DEF ToDying, SessionRecords
<1> HIDE DEF q
<1>4. CASE Closed(r) = r
  BY <1>4
<1>5. CASE Closed(r) = ToInactive(r) /\ r.st # "inactive"
  BY <1>2, <1>5 DEF RecordFits
<1>6. CASE Closed(r) = q /\ r.st = "waiting"
  BY <1>1, <1>6 DEF RecordFits
<1>7. CASE Closed(r) = ToDying(r) /\ r.st = "active"
  BY <1>3, <1>7 DEF RecordFits
<1> QED
  BY <1>4, <1>5, <1>6, <1>7 DEF Closed, q

LEMMA RevivedCore ==
    ASSUME NEW r \in SessionRecords, RecordFits(r)
    PROVE  LET q == Revived(r) IN
           /\ RecordFits(q) /\ q.told = r.told /\ q.commit = r.commit /\ q.open = r.open
           /\ q.st \in {"waiting", "active"} /\ (q.st = "waiting" => ~q.deferClose)
           /\ r.st \in {"inactive", "waiting"} => q.st = "waiting"
           /\ r.st \in {"active", "dying"} => q.st = "active"
<1>1. ASSUME r.st = "waiting"
      PROVE  Revived(r) = [r EXCEPT !.deferClose = FALSE]
  BY <1>1 DEF Revived
<1>2. ASSUME r.st = "dying"
      PROVE  Revived(r) = [r EXCEPT !.st = "active"]
  BY <1>2 DEF Revived
<1>3. ASSUME r.st = "inactive"
      PROVE  Revived(r) = [r EXCEPT !.st = "waiting", !.deferClose = FALSE]
  BY <1>3 DEF Revived, ToWaiting
<1>4. ASSUME r.st = "active"
      PROVE  Revived(r) = r
  BY <1>4 DEF Revived
<1>5. r.st \in States
  BY DEF SessionRecords
<1> QED
  BY <1>1, <1>2, <1>3, <1>4, <1>5 DEF SessionRecords, States, RecordFits

\* A session that waited is told of the newest version, if it was up to date.
LEMMA RefreshedCore ==
    ASSUME NEW r \in SessionRecords, RecordFits(r), version \in Nat, r.st = "waiting",
           NEW active \in BOOLEAN, Told(r, version, active)
    PROVE  LET q == Refreshed(r) IN
           /\ RecordFits(q) /\ Told(q, version, active)
           /\ q.st \in {"active", "dying", "inactive"}
           /\ ~r.deferClose => q.st = "active"
<1> DEFINE b == Bound(r)
           k == Tells(r)
           W == r.waits \cup r.queue
           z == 0
<1>1. b \in SessionRecords
  BY BoundProperties
<1>2. b = [r EXCEPT !.st = "active", !.open = TRUE, !.bound = TRUE, !.told = k,
                    !.commit = z, !.waits = W, !.queue = {}]
  BY DEF Bound, BoundWith
<1>3. k = version
  <2>1. CASE r.open
    <3>1. r.bound /\ (IF r.commit > 0 THEN r.commit ELSE r.told) = version
      BY <2>1 DEF RecordFits, Told
    <3> QED
      BY <2>1, <3>1 DEF Tells
  <2>2. CASE ~r.open
    BY <2>2 DEF Tells
  <2> QED
    BY <2>1, <2>2
<1> HIDE DEF b, k, W
<1>4. b.st = "active" /\ b.open /\ b.bound /\ b.commit = 0 /\ b.told = version
  BY <1>2, <1>3 DEF SessionRecords
<1>5. RecordFits(b) /\ Told(b, version, active)
  BY <1>4 DEF RecordFits, Told
<1> DEFINE q == Closed(b)
<1>6. /\ RecordFits(q) /\ q.told = b.told
      /\ q.st = b.st \/ q.st = "inactive" \/ q.st = "dying"
  BY <1>1, <1>5, ClosedCore
<1> HIDE DEF q
<1>7. RecordFits(q) /\ Told(q, version, active) /\ q.st \in {"active", "dying", "inactive"}
  BY <1>4, <1>6 DEF Told
<1>8. Refreshed(r) = IF r.deferClose THEN q ELSE b
  BY DEF Refreshed, q, b
<1> QED
  BY <1>4, <1>5, <1>7, <1>8

LEMMA NotifiedCore ==
    ASSUME NEW r \in SessionRecords, RecordFits(r), NEW v \in Nat, v > 0, NEW active \in BOOLEAN,
           active => r.st # "dying"
    PROVE  LET q == Notified(r, v) IN
           /\ RecordFits(q) /\ Told(q, v, active)
           /\ q.st = r.st /\ q.open = r.open /\ q.deferClose = r.deferClose
<1>1. CASE r.st = "waiting"
  BY <1>1 DEF Notified, SessionRecords, RecordFits, Told
<1>2. CASE r.st = "active"
  BY <1>2 DEF Notified, SessionRecords, RecordFits, Told
<1>3. CASE r.st \notin {"waiting", "active"}
  BY <1>3 DEF Notified, Told
<1> QED
  BY <1>1, <1>2, <1>3

-----------------------------------------------------------------------------
(* Steps that leave the registry, the user and the requests alone, and lift no
   session. *)
Lowers(s) ==
    /\ RecordFits(sess'[s]) /\ (sess'[s].open => sess[s].open)
    /\ sess'[s].st # "inactive" => sess[s].st # "inactive"
    /\ s \in requests => sess'[s].st \in {"waiting", "inactive"}
    /\ Alive(s) => Told(sess'[s], version, user = "Active")
    /\ user = "Active" => \A t \in Threads : realm'[t] = s => Kept(s)'

LEMMA LoweringStep ==
    ASSUME Types, Types', SessionsFit, Held', \A s \in Sessions : Lowers(s),
           UNCHANGED <<registry, user, live, version, made, requests>>,
           \A s \in Sessions : \A do : Pending(do, s)' => Alive(s),
           \A s \in Sessions : At("revive", s) => At("revive", s)'
    PROVE  SessionsFit'
<1> USE DEF SessionsFit
<1>1. \A s \in Sessions : Alive(s)' => Alive(s)
  BY AliveMeans, AliveMeansNext
<1>2. Records'
  BY DEF Records, Lowers
<1>3. MadeOnly'
  BY <1>1 DEF MadeOnly, Lowers, Up
<1>4. OpenIsRegistered'
  BY <1>1 DEF OpenIsRegistered, Lowers
<1>5. Asked'
  BY DEF Asked, Lowers, Types
<1>6. registry \in Sessions \cup {None}
  BY DEF Types
<1>7. OffRegistry => OffRegistry'
  BY <1>6 DEF OffRegistry, Lowers
<1>8. StrayWaits'
  BY <1>1, <1>7 DEF StrayWaits, Lowers, Up
<1>9. UpIsLive'
  BY <1>1, <1>6 DEF UpIsLive, Lowers, Up
<1>10. OutMeansDown'
  BY <1>1 DEF OutMeansDown, Lowers, Up
<1>11. HeldIsKept'
  BY DEF HeldIsKept, Lowers, Types
<1>12. Announced'
  BY <1>1 DEF Announced, Lowers
<1> QED
  BY <1>2, <1>3, <1>4, <1>5, <1>8, <1>9, <1>10, <1>11, <1>12

\* Sessions as they were.
LEMMA LikeLowers ==
    ASSUME Types, SessionsFit, NEW s \in Sessions, Like(sess[s], sess'[s]),
           \A t \in Threads : realm'[t] \in {realm[t], None}
    PROVE  Lowers(s)
<1>1. RecordFits(sess[s])
  BY DEF SessionsFit, Records
<1>2. s \in requests => sess[s].st \in {"waiting", "inactive"}
  BY DEF SessionsFit, Asked
<1>3. Alive(s) => Told(sess[s], version, user = "Active")
  BY DEF SessionsFit, Announced
<1>4. ASSUME user = "Active", NEW t \in Threads, realm'[t] = s
      PROVE  Kept(s)'
  <2>1. realm[t] = s /\ s # None
    BY <1>4, SyncSessionAssumption
  <2> QED
    BY <1>4, <2>1 DEF SessionsFit, HeldIsKept, Kept, Like
<1> QED
  BY <1>1, <1>2, <1>3, <1>4 DEF Lowers, Like, RecordFits, Told

-----------------------------------------------------------------------------
(* The frames of the call that runs. *)

LEMMA RunnerIs ==
    ASSUME Types, Shapes, NEW t \in Actors, NEW do0, Runs(t, do0)
    PROVE  /\ ~Idle(t) /\ ~Resting /\ Rest(t) = Tail(stack[t]) /\ Head(stack[t]).do = do0
           /\ \A do, s : At(do, s) <=> do = do0 /\ s = Top(t)
           /\ \A do, s : Below(do, s) => do \in Leaving
           /\ \A s : Below("external", s) => do0 \in Entering
           /\ do0 \in Entering => \A do, s : Below(do, s) => s = Top(t)
           /\ do0 # "forget" => Top(t) \in Sessions
<1>1. ~Idle(t) /\ Head(stack[t]).do = do0
  BY DEF Runs
<1>2. Rest(t) = Tail(stack[t]) /\ ~Resting
  BY <1>1 DEF Rest, Resting
<1>3. \A do, s : At(do, s) <=> First(Head(stack[t]), do, s)
  BY <1>1, RunnerFrames
<1>4. \A do, s : Below(do, s) <=> \E i \in 1..Len(Rest(t)) : First(Rest(t)[i], do, s)
  BY <1>1, RunnerFrames
<1>5. \A i \in 1..Len(Rest(t)) :
         /\ Rest(t)[i].do \in Leaving
         /\ Rest(t)[i].do = "external" => do0 \in Entering
         /\ do0 \in Entering => Rest(t)[i].s = Top(t)
  BY <1>1, RestFrames
<1>6. do0 # "forget" => Top(t) \in Sessions
  BY TopSession
<1> QED
  BY <1>1, <1>2, <1>3, <1>4, <1>5, <1>6 DEF First, Top

LEMMA NobodyRuns ==
    ASSUME Types, Shapes, Resting
    PROVE  /\ \A do, s : ~At(do, s) /\ ~Below(do, s)
           /\ \A t \in Actors : Idle(t) /\ Rest(t) = << >>
<1>1. \A t \in Actors : stack[t] = << >> /\ 2..Len(stack[t]) = {}
  BY DEF Resting, Idle
<1> QED
  BY <1>1 DEF At, Below, Rest, Idle

\* What a call does next, in terms of Rest.
LEMMA Pushes ==
    ASSUME Types, NEW t \in Actors, ~Idle(t), NEW p \in Seq(SessionFrames), Push(t, p)
    PROVE  /\ stack' = [stack EXCEPT ![t] = p \o Rest(t)]
           /\ p = << >> => stack' = [stack EXCEPT ![t] = Rest(t)]
<1>1. stack[t] \in Seq(SessionFrames) /\ stack[t] # << >>
  BY DEF Types, Idle
<1>2. Rest(t) \in Seq(SessionFrames) /\ Rest(t) = Tail(stack[t])
  BY <1>1, TailFrames DEF Rest
<1>3. << >> \o Rest(t) = Rest(t)
  BY <1>2, ConcatEmptySeq
<1> QED
  BY <1>2, <1>3 DEF Push

\* A call's last frames fit, whatever step came before them.
LEMMA PoppedFits ==
    ASSUME Types, Shapes, FramesFit, ForgetFits, Popped,
           \A do, s : Below(do, s) => do \in Leaving,
           \A s \in Sessions : Below("external", s) =>
               registry' = registry /\ (user' = "Active" => (Up(s) /\ Kept(s))'),
           \A s \in Sessions : EndsWith(s, user')
    PROVE  FramesFit' /\ ForgetFits'
<1>1. \A do, s : At(do, s)' => Below(do, s) /\ do \in Leaving
  BY DEF Popped
<1>2. \A do, s : Pending(do, s)' => Below(do, s)
  BY DEF Popped, Pending
<1>3. \A s \in Sessions : Pending("external", s) => s = registry
  BY DEF FramesFit
<1>4. \A e \in AllErrors : e \notin Leaving
  BY DEF AllErrors, Leaving
<1>5. /\ "register" \notin Leaving /\ "revive" \notin Leaving /\ "drop" \notin Leaving
      /\ "giveback" \notin Leaving /\ "unregister" \notin Leaving /\ "forget" \notin Leaving
  BY DEF Leaving
<1>6. ForgetFits'
  BY <1>2, <1>5 DEF ForgetFits
<1>7. \A s \in Sessions : Below("external", s) => s = registry'
  BY <1>3 DEF Pending
<1>8. FramesFit'
  <2> SUFFICES ASSUME NEW s \in Sessions
               PROVE  /\ (At("register", s) \/ Pending("external", s) \/ At("drop", s) \/ At("giveback", s))' => s = registry'
                      /\ At("revive", s)' => user' = "Active" /\ live' = s /\ (s = registry' \/ OffRegistry')
                      /\ At("external", s)' /\ user' = "Active" => Up(s)' /\ Kept(s)'
                      /\ At("unregister", s)' => OffRegistry'
                      /\ \A e \in AllErrors : At(e, s)' => s = registry' /\ sess'[s].open
                      /\ Outcome(s)'
    BY DEF FramesFit
  <2>1. Outcome(s)'
    BY <1>2 DEF Outcome, EndsWith
  <2> QED
    BY <1>1, <1>2, <1>4, <1>5, <1>7, <2>1
<1> QED
  BY <1>6, <1>8

\* A thread's frames are those of sessions that exist.
LEMMA PendingAlive ==
    ASSUME Types, Held, NEW s \in Sessions
    PROVE  /\ \A do : At(do, s) \/ Below(do, s) => Alive(s)
           /\ (s = registry \/ s \in requests => Alive(s))
           /\ \A t \in Threads : realm[t] = s => Alive(s)
<1>1. \A t \in Threads : realm[t] = s => s = registry
  BY SyncSessionAssumption DEF Held
<1> QED
  BY <1>1, AliveMeans DEF Pending

\* A frame that changes nothing the invariant reads is done.
LEMMA PopStep2 ==
    ASSUME Types, Types', SerialInv, NEW t \in Actors, NEW do0, do0 \notin Entering,
           Runs(t, do0), Push(t, << >>), UNCHANGED <<sess, registry, user, live, version, made, requests>>,
           UNCHANGED <<realm, borrow>>
    PROVE  SerialInv'
<1>1. Shapes /\ FramesFit /\ ForgetFits /\ SessionsFit /\ Held
  BY DEF SerialInv, SessionsFit
<1>2. /\ ~Idle(t) /\ \A do, s : At(do, s) <=> do = do0 /\ s = Top(t)
      /\ \A do, s : Below(do, s) => do \in Leaving
      /\ \A s : ~Below("external", s)
  BY <1>1, RunnerIs
<1>3. stack' = [stack EXCEPT ![t] = Rest(t)]
  BY <1>2, NoFrames, Pushes
<1>4. Shapes' /\ Popped
  BY <1>1, <1>2, <1>3, PopFrames
<1>5. FramesFit' /\ ForgetFits'
  <2>1. \A s \in Sessions : EndsWith(s, user')
    BY <1>1 DEF FramesFit, Outcome, EndsWith, Pending
  <2> QED
    BY <1>1, <1>2, <1>4, <2>1, PoppedFits
<1>6. Held'
  BY <1>1 DEF Held
<1>7. \A s \in Sessions : \A do : Pending(do, s)' => Alive(s)
  BY <1>1, <1>4, PendingAlive DEF Popped, Pending
<1>8. \A s \in Sessions : ~At("revive", s)
  BY <1>2 DEF Entering
<1>9. \A s \in Sessions : Lowers(s)
  BY <1>1, LikeLowers DEF Like
<1>10. SessionsFit'
  BY <1>1, <1>6, <1>7, <1>8, <1>9, LoweringStep
<1> QED
  BY <1>4, <1>5, <1>10 DEF SerialInv

LEMMA ReleaseOrCancelSerial ==
    ASSUME Types, Types', SerialInv, NEW t \in Actors, Release(t) \/ Cancel(t)
    PROVE  SerialInv'
<1>1. "release" \notin Entering /\ "cancel" \notin Entering
  BY DEF Entering
<1>2. CASE Release(t)
  BY <1>1, <1>2, PopStep2 DEF Release, fixed, users, refs, asks, data
<1>3. CASE Cancel(t)
  BY <1>1, <1>3, PopStep2 DEF Cancel, fixed, users, refs, data
<1> QED
  BY <1>2, <1>3

\* The sync client uploads or calls a callback, or a callback is registered.
LEMMA SameFrames ==
    ASSUME stack' = stack
    PROVE  /\ \A do, s : (At(do, s)' <=> At(do, s)) /\ (Below(do, s)' <=> Below(do, s))
           /\ \A do, s : Pending(do, s)' <=> Pending(do, s)
           /\ Shapes => Shapes'
BY DEF At, Below, Pending, Shapes, OneRunner

LEMMA LikeStep ==
    ASSUME Types, Types', SerialInv, stack' = stack,
           \A s \in Sessions : Like(sess[s], sess'[s]),
           UNCHANGED <<registry, user, live, version, made, requests, borrow>>,
           \A t \in Threads : realm'[t] \in {realm[t], None}
    PROVE  SerialInv'
<1>1. Shapes /\ FramesFit /\ ForgetFits /\ SessionsFit /\ Held
  BY DEF SerialInv, SessionsFit
<1>2. Shapes'
  BY <1>1, SameFrames
<1>3. /\ \A s \in Sessions : (Up(s)' <=> Up(s)) /\ (Kept(s)' <=> Kept(s)) /\ sess'[s].open = sess[s].open
      /\ OffRegistry <=> OffRegistry'
  BY DEF Like, Up, Kept, OffRegistry, Types
<1>4. FramesFit' /\ ForgetFits'
  <2>1. \A s \in Sessions : Outcome(s)'
    BY <1>1, SameFrames DEF FramesFit, Outcome
  <2> QED
    BY <1>1, <1>3, <2>1, SameFrames DEF FramesFit, ForgetFits
<1>5. Held'
  BY <1>1 DEF Held
<1>6. \A s \in Sessions : \A do : Pending(do, s)' => Alive(s)
  BY <1>1, SameFrames, PendingAlive DEF Pending
<1>7. \A s \in Sessions : Lowers(s)
  BY <1>1, LikeLowers
<1>8. SessionsFit'
  BY <1>1, <1>5, <1>6, <1>7, SameFrames, LoweringStep
<1> QED
  BY <1>2, <1>4, <1>8 DEF SerialInv

LEMMA UploadSerial ==
    ASSUME Types, Types', SerialInv, NEW s \in Sessions, Upload(s)
    PROVE  SerialInv'
<1>1. \A u \in Sessions : Like(sess[u], sess'[u])
  BY DEF Upload, Like
<1> QED
  BY <1>1, LikeStep DEF Upload, fixed, users, refs, asks

LEMMA CompleteSerial ==
    ASSUME Types, Types', SerialInv, NEW s \in Sessions, NEW w \in Waits, Complete(s, w)
    PROVE  SerialInv'
<1> DEFINE W == sess[s].waits \ {w}
<1>1. sess' = [sess EXCEPT ![s] = [sess[s] EXCEPT !.waits = W]] /\ sess[s] \in SessionRecords
  BY DEF Complete, Types
<1>2. \A u \in Sessions : Like(sess[u], sess'[u])
  <2> HIDE DEF W
  <2>1. Like(sess[s], [sess[s] EXCEPT !.waits = W])
    BY <1>1 DEF Like, SessionRecords
  <2> QED
    BY <1>1, <2>1 DEF Like, Types
<1> QED
  BY <1>2, LikeStep DEF Complete, fixed, users, refs, data

LEMMA WaitForCompletionSerial ==
    ASSUME Types, Types', SerialInv, NEW t \in Threads, NEW w \in Waits, WaitForCompletion(t, w)
    PROVE  SerialInv'
<1>1. /\ realm[t] \in Sessions /\ sess' = [sess EXCEPT ![realm[t]] = WithWait(sess[realm[t]], w)]
  BY DEF WaitForCompletion, Types
<1>2. Like(sess[realm[t]], WithWait(sess[realm[t]], w))
  BY <1>1 DEF WithWait, Like, Types, SessionRecords
<1>3. \A u \in Sessions : Like(sess[u], sess'[u])
  BY <1>1, <1>2 DEF Like, Types
<1> QED
  BY <1>3, LikeStep DEF WaitForCompletion, fixed, users, refs, asks, data

\* A frame that enters no session comes on top, and perhaps the end of a call below it.
LEMMA ToppedFits ==
    ASSUME Types, FramesFit, ForgetFits, NEW d, NEW v \in Sessions,
           NEW e \in {"release", "cancel", "invalidate"},
           \A do, s : At(do, s)' <=> do = d /\ s = v,
           \A do, s : Below(do, s)' => Below(do, s) \/ (do = e /\ s = v),
           d \notin {"register", "revive", "external", "keep", "forget", "invalidate"},
           \A s \in Sessions : ~Below("external", s),
           \A s : Below("forget", s) => user' = "LoggedOut",
           \A s \in Sessions : EndsWith(s, user'),
           e = "invalidate" => user' # "LoggedOut",
           d \in {"drop", "giveback"} => v = registry',
           d = "unregister" => OffRegistry',
           d \in AllErrors => v = registry' /\ sess'[v].open
    PROVE  FramesFit' /\ ForgetFits'
<1>1. ForgetFits'
  <2> SUFFICES ASSUME NEW s, At("forget", s)' \/ Below("forget", s)'
               PROVE  user' = "LoggedOut"
    BY DEF ForgetFits, Pending
  <2> QED
    OBVIOUS
<1>2. FramesFit'
  <2> SUFFICES ASSUME NEW s \in Sessions
               PROVE  /\ (At("register", s) \/ Pending("external", s) \/ At("drop", s) \/ At("giveback", s))' => s = registry'
                      /\ At("revive", s)' => user' = "Active" /\ live' = s /\ (s = registry' \/ OffRegistry')
                      /\ At("external", s)' /\ user' = "Active" => Up(s)' /\ Kept(s)'
                      /\ At("unregister", s)' => OffRegistry'
                      /\ \A x \in AllErrors : At(x, s)' => s = registry' /\ sess'[s].open
                      /\ Outcome(s)'
    BY DEF FramesFit
  <2>1. ~Pending("external", s)' /\ Outcome(s)'
    BY DEF Pending, Outcome, EndsWith
  <2>2. ~At("register", s)' /\ ~At("revive", s)' /\ ~At("external", s)'
    BY <2>1 DEF Pending
  <2>3. At("drop", s)' \/ At("giveback", s)' => s = registry'
    OBVIOUS
  <2>4. At("unregister", s)' => OffRegistry'
    OBVIOUS
  <2>5. \A x \in AllErrors : At(x, s)' => s = registry' /\ sess'[s].open
    OBVIOUS
  <2> QED
    BY <2>1, <2>2, <2>3, <2>4, <2>5
<1> QED
  BY <1>1, <1>2

LEMMA LetGoSerial ==
    ASSUME Types, Types', SerialInv, ~overlap, NEW t \in Threads, LetGo(t)
    PROVE  SerialInv'
<1>1. Shapes /\ FramesFit /\ ForgetFits /\ SessionsFit /\ Held
  BY DEF SerialInv, SessionsFit
<1>2. t \in Actors /\ Resting
  BY DEF LetGo, MayStart, Actors, Resting
<1>3. /\ \A do, s : ~At(do, s) /\ ~Below(do, s)
      /\ Idle(t) /\ Rest(t) = << >>
  BY <1>1, <1>2, NobodyRuns
<1>4. realm[t] \in Sessions /\ realm[t] = registry
  BY <1>1 DEF LetGo, Types, Held
<1>5. \A u \in Threads : realm'[u] \in {realm[u], None}
  BY DEF LetGo, Types
<1>6. UNCHANGED <<sess, registry, user, live, version, made, requests, borrow>>
  BY DEF LetGo, fixed, users, asks, data
<1>7. CASE stack' = [stack EXCEPT ![t] = << >>]
  <2>1. stack' = stack
    BY <1>2, <1>3, <1>7 DEF Types, Idle
  <2> QED
    BY <1>5, <1>6, <2>1, LikeStep DEF Like
<1>8. CASE stack' = [stack EXCEPT ![t] = <<Frame("drop", realm[t])>>]
  <2> DEFINE f == Frame("drop", realm[t])
  <2>1. f \in SessionFrames /\ f.do = "drop" /\ f.s = realm[t] /\ f.do \notin Entering
    BY <1>4 DEF Frame, SessionFrames, Frames, Entering
  <2> HIDE DEF f
  <2>2. <<f>> \o Rest(t) = <<f>>
    BY <1>3, <2>1, ConcatEmptySeq
  <2>3. stack' = [stack EXCEPT ![t] = <<f>> \o Rest(t)]
    BY <1>8, <2>2 DEF f
  <2>4. Shapes' /\ Topped("drop", realm[t])
    BY <1>1, <1>2, <1>3, <2>1, <2>3, GoesOnOnce
  <2>5. FramesFit' /\ ForgetFits'
    <3>1. "drop" \notin AllErrors
      BY DEF AllErrors
    <3>2. \A do, s : At(do, s)' <=> do = "drop" /\ s = realm[t]
      BY <2>4 DEF Topped
    <3>3. \A do, s : Below(do, s)' => Below(do, s) \/ (do = "cancel" /\ s = realm[t])
      BY <1>3, <2>4 DEF Topped
    <3>4. \A s \in Sessions : EndsWith(s, user')
      BY <1>3 DEF EndsWith
    <3>5. "drop" \notin {"register", "revive", "external", "keep", "forget", "invalidate"}
      OBVIOUS
    <3> QED
      BY <1>1, <1>3, <1>4, <1>6, <3>1, <3>2, <3>3, <3>4, <3>5, ToppedFits
  <2>6. Held'
    BY <1>1, <1>5, <1>6 DEF Held
  <2>7. \A s \in Sessions : \A do : Pending(do, s)' => Alive(s)
    BY <1>1, <1>3, <1>4, <2>4, PendingAlive DEF Topped, Pending
  <2>8. \A s \in Sessions : Lowers(s)
    BY <1>1, <1>5, <1>6, LikeLowers DEF Like
  <2>9. SessionsFit'
    BY <1>1, <1>3, <1>6, <2>6, <2>7, <2>8, LoweringStep
  <2> QED
    BY <2>4, <2>5, <2>9 DEF SerialInv
<1> QED
  BY <1>7, <1>8 DEF LetGo

LEMMA GiveBackSerial ==
    ASSUME Types, Types', SerialInv, NEW t \in Actors, GiveBack(t)
    PROVE  SerialInv'
<1> DEFINE s == Top(t)
           d == IF stack' = [stack EXCEPT ![t] = <<Frame("drop", s), Frame("release", s)>> \o Rest(t)]
                THEN "drop" ELSE "release"
<1>1. Shapes /\ FramesFit /\ ForgetFits /\ SessionsFit /\ Held
  BY DEF SerialInv, SessionsFit
<1>2. /\ ~Idle(t) /\ s \in Sessions /\ \A do, u : At(do, u) <=> do = "giveback" /\ u = s
      /\ \A do, u : Below(do, u) => do \in Leaving
      /\ \A u : ~Below("external", u)
      /\ Head(stack[t]).do = "giveback"
  <2>1. Runs(t, "giveback") /\ "giveback" # "forget" /\ "giveback" \notin Entering
    BY DEF GiveBack, Entering
  <2> QED
    BY <1>1, <2>1, RunnerIs
<1>3. s = registry
  BY <1>1, <1>2 DEF FramesFit
<1> HIDE DEF s
<1>4. /\ Frame("drop", s) \in SessionFrames /\ Frame("release", s) \in SessionFrames
      /\ Frame("drop", s).do = "drop" /\ Frame("drop", s).s = s
      /\ Frame("release", s).do = "release" /\ Frame("release", s).s = s
  BY <1>2 DEF Frame, SessionFrames, Frames
<1>5. /\ "giveback" \notin Entering /\ "drop" \notin Entering /\ "release" \notin Entering
      /\ "release" \in Leaving \ {"external"}
      /\ "drop" \notin AllErrors /\ "release" \notin AllErrors
  BY DEF Entering, Leaving, AllErrors
<1>14. /\ <<Frame("drop", s), Frame("release", s)>> \in Seq(SessionFrames)
       /\ <<Frame("release", s)>> \in Seq(SessionFrames)
  <2>1. "drop" \in Names /\ "release" \in Names
    BY DEF Names
  <2> QED
    BY <1>2, <2>1, SomeFrames
<1>6. \/ Push(t, <<Frame("drop", s), Frame("release", s)>>)
      \/ Push(t, <<Frame("release", s)>>)
  BY DEF GiveBack, s
<1>7. /\ Shapes'
      /\ \E x \in {"drop", "release"} : \A do, u : At(do, u)' <=> do = x /\ u = s
      /\ \A do, u : Below(do, u)' => Below(do, u) \/ (do = "release" /\ u = s)
  <2>1. CASE Push(t, <<Frame("drop", s), Frame("release", s)>>)
    <3>1. stack' = [stack EXCEPT ![t] = <<Frame("drop", s), Frame("release", s)>> \o Rest(t)]
      BY <1>2, <1>14, <2>1, Pushes
    <3>2. Shapes' /\ ToppedTwice("drop", s, "release", s)
      BY <1>1, <1>2, <1>4, <1>5, <3>1, GoesOnTwice
    <3> QED
      BY <3>2 DEF ToppedTwice
  <2>2. CASE Push(t, <<Frame("release", s)>>)
    <3>1. stack' = [stack EXCEPT ![t] = <<Frame("release", s)>> \o Rest(t)]
      BY <1>2, <1>14, <2>2, Pushes
    <3>2. Shapes' /\ Topped("release", s)
      BY <1>1, <1>2, <1>4, <1>5, <3>1, GoesOnOnce
    <3> QED
      BY <3>2 DEF Topped
  <2> QED
    BY <1>6, <2>1, <2>2
<1>8. UNCHANGED <<sess, registry, user, live, version, made, requests, realm>>
  BY DEF GiveBack, fixed, users, asks, data
<1>9. FramesFit' /\ ForgetFits'
  <2>1. PICK x \in {"drop", "release"} : \A do, u : At(do, u)' <=> do = x /\ u = s
    BY <1>7
  <2>2. /\ \A u : Below("forget", u) => user' = "LoggedOut"
       /\ \A u \in Sessions : EndsWith(u, user')
    BY <1>1, <1>8 DEF FramesFit, ForgetFits, Outcome, EndsWith, Pending
  <2>3. x \notin AllErrors /\ x # "unregister"
    BY <1>5
  <2>4. x \notin {"register", "revive", "external", "keep", "forget", "invalidate"}
    OBVIOUS
  <2>5. \A do, u : Below(do, u)' => Below(do, u) \/ (do = "release" /\ u = s)
    BY <1>7
  <2> QED
    BY <1>1, <1>2, <1>3, <1>8, <2>1, <2>2, <2>3, <2>4, <2>5, ToppedFits
<1>10. Held'
  BY <1>1, <1>8 DEF Held, GiveBack, Types
<1>11. \A u \in Sessions : \A do : Pending(do, u)' => Alive(u)
  BY <1>1, <1>2, <1>3, <1>7, PendingAlive DEF Pending
<1>12. \A u \in Sessions : Lowers(u)
  BY <1>1, <1>8, LikeLowers DEF Like
<1>13. SessionsFit'
  BY <1>1, <1>2, <1>8, <1>10, <1>11, <1>12, LoweringStep
<1> QED
  BY <1>7, <1>9, <1>13 DEF SerialInv

\* A section of a session's mutex, in terms of frames.
LEMMA SectionFrames ==
    ASSUME Types, Shapes, NEW t \in Actors, ~Idle(t) \/ Resting,
           ~Idle(t) => Head(stack[t]).do \notin Entering,
           NEW s \in Sessions, NEW q \in SessionRecords, Section(t, s, q, Rest(t))
    PROVE  \/ /\ q.st = "inactive" /\ sess[s].st # "inactive"
              /\ Shapes' /\ ToppedTwice("unregister", s, "cancel", s)
           \/ /\ q.st # "inactive" \/ sess[s].st = "inactive"
              /\ IF Idle(t) THEN stack' = stack ELSE Shapes' /\ Popped
<1> DEFINE W == sess[s].queue
           f == Frame("unregister", s)
           g == [do |-> "cancel", s |-> s, ws |-> W]
<1>1. W \in SUBSET Waits
  BY DEF Types, SessionRecords
<1>2. f \in SessionFrames /\ f.do = "unregister" /\ f.s = s /\ f.do \notin Entering
  BY DEF Frame, SessionFrames, Frames, Entering
<1>3. g \in SessionFrames /\ g.do = "cancel" /\ g.s = s /\ g.do \in Leaving \ {"external"}
  BY <1>1 DEF SessionFrames, Frames, Leaving
<1>4. CASE q.st = "inactive" /\ sess[s].st # "inactive"
  <2>1. stack' = [stack EXCEPT ![t] = <<f, g>> \o Rest(t)]
    BY <1>4 DEF Section
  <2> HIDE DEF f, g
  <2>2. Shapes' /\ ToppedTwice(f.do, f.s, g.do, g.s)
    BY <1>2, <1>3, <2>1, GoesOnTwice
  <2> QED
    BY <1>2, <1>3, <1>4, <2>2
<1>5. CASE ~(q.st = "inactive" /\ sess[s].st # "inactive")
  <2>1. stack' = [stack EXCEPT ![t] = Rest(t)]
    BY <1>5 DEF Section
  <2>2. CASE Idle(t)
    BY <1>5, <2>1, <2>2 DEF Rest, Idle, Types
  <2>3. CASE ~Idle(t)
    BY <1>5, <2>1, <2>3, PopFrames
  <2> QED
    BY <2>2, <2>3
<1> QED
  BY <1>4, <1>5

\* A session is closed, logged out or ends: nobody is lifted.
LEMMA LowerSection ==
    ASSUME Types, Types', SerialInv, NEW t \in Actors, ~Idle(t) \/ Resting,
           ~Idle(t) => Head(stack[t]).do \notin Entering,
           NEW s \in Sessions, NEW q \in SessionRecords, Section(t, s, q, Rest(t)), Alive(s),
           RecordFits(q), q.open => sess[s].open,
           q.st # "inactive" => sess[s].st # "inactive",
           s \in requests => q.st \in {"waiting", "inactive"},
           Told(q, version, user = "Active"),
           user = "Active" => \A u \in Threads : realm[u] = s =>
               q.st # "dying" /\ (q.st = "waiting" => ~q.deferClose),
           UNCHANGED <<registry, user, live, version, made, requests, realm, borrow>>
    PROVE  SerialInv'
<1>1. Shapes /\ FramesFit /\ ForgetFits /\ SessionsFit /\ Held
  BY DEF SerialInv, SessionsFit
<1>2. sess'[s] = q /\ \A u \in Sessions : u # s => sess'[u] = sess[u]
  BY DEF Section, Types
<1>3. Held'
  BY <1>1 DEF Held
<1>4. /\ \A u : ~Below("external", u)
      /\ \A u : ~At("revive", u) /\ ~At("register", u)
      /\ \A do, u : Below(do, u) => do \in Leaving
  <2>1. CASE Resting
    BY <1>1, <2>1, NobodyRuns
  <2>2. CASE ~Idle(t)
    <3>1. \A i \in 1..Len(Rest(t)) : Rest(t)[i].do \in Leaving /\ Rest(t)[i].do # "external"
      BY <1>1, <2>2, RestFrames
    <3>2. /\ \A do, u : Below(do, u) <=> \E i \in 1..Len(Rest(t)) : First(Rest(t)[i], do, u)
          /\ \A do, u : At(do, u) <=> ~Idle(t) /\ First(Head(stack[t]), do, u)
      BY <1>1, <2>2, RunnerFrames
    <3> QED
      BY <2>2, <3>1, <3>2 DEF First, Entering
  <2> QED
    BY <2>1, <2>2
<1>5. \A u \in Sessions : Lowers(u)
  <2>1. Lowers(s)
    BY <1>2 DEF Lowers, Kept
  <2>2. ASSUME NEW u \in Sessions, u # s
        PROVE  Lowers(u)
    <3>1. Like(sess[u], sess'[u])
      BY <1>2, <2>2 DEF Like
    <3> QED
      BY <1>1, <3>1, LikeLowers
  <2> QED
    BY <2>1, <2>2
<1>6. \A u \in Sessions : EndsWith(u, user')
  BY <1>1 DEF FramesFit, Outcome, EndsWith, Pending
<1>7. CASE /\ q.st = "inactive" /\ sess[s].st # "inactive"
           /\ Shapes' /\ ToppedTwice("unregister", s, "cancel", s)
  <2>1. OffRegistry'
    <3>1. s # registry => OffRegistry
      BY <1>1, <1>7 DEF SessionsFit, StrayWaits, Up
    <3> QED
      BY <1>2, <1>7, <3>1 DEF OffRegistry, Types
  <2>2. /\ \A do, u : At(do, u)' <=> do = "unregister" /\ u = s
        /\ \A do, u : Below(do, u)' <=> Below(do, u) \/ (do = "cancel" /\ u = s)
    BY <1>7 DEF ToppedTwice
  <2>3. FramesFit' /\ ForgetFits'
    <3>1. /\ \A u : Below("forget", u) => user' = "LoggedOut"
         /\ \A u \in Sessions : EndsWith(u, user')
      BY <1>1, <1>6 DEF FramesFit, ForgetFits, Outcome, EndsWith, Pending
    <3>2. "unregister" \notin AllErrors
      BY DEF AllErrors
    <3> QED
      BY <1>1, <1>4, <2>1, <2>2, <3>1, <3>2, ToppedFits
  <2>4. \A u \in Sessions : \A do : Pending(do, u)' => Alive(u)
    BY <1>1, <2>2, PendingAlive DEF Pending
  <2>5. SessionsFit'
    BY <1>1, <1>3, <1>4, <1>5, <2>4, LoweringStep
  <2> QED
    BY <1>7, <2>3, <2>5 DEF SerialInv
<1>8. CASE stack' = stack /\ Idle(t)
  <2>1. \A do, u : ~At(do, u) /\ ~Below(do, u)
    BY <1>1, <1>8, NobodyRuns
  <2>2. Shapes' /\ \A do, u : ~At(do, u)' /\ ~Below(do, u)' /\ ~Pending(do, u)'
    BY <1>1, <1>8, <2>1, SameFrames DEF Pending
  <2>3. FramesFit' /\ ForgetFits'
    BY <2>2 DEF FramesFit, ForgetFits, Outcome
  <2>4. SessionsFit'
    BY <1>1, <1>3, <1>4, <1>5, <2>2, LoweringStep
  <2> QED
    BY <2>2, <2>3, <2>4 DEF SerialInv
<1>9. CASE Shapes' /\ Popped /\ ~Idle(t)
  <2>1. FramesFit' /\ ForgetFits'
    BY <1>1, <1>4, <1>6, <1>9, PoppedFits
  <2>2. \A u \in Sessions : \A do : Pending(do, u)' => Alive(u)
    BY <1>1, <1>9, PendingAlive DEF Popped, Pending
  <2>3. SessionsFit'
    BY <1>1, <1>3, <1>4, <1>5, <2>2, LoweringStep
  <2> QED
    BY <1>9, <2>1, <2>3 DEF SerialInv
<1> QED
  BY <1>1, <1>7, <1>8, <1>9, SectionFrames

LEMMA DidDropSerial ==
    ASSUME Types, Types', SerialInv, NEW t \in Actors, DidDrop(t)
    PROVE  SerialInv'
<1> DEFINE s == Top(t)
           r == sess[s]
           q == IF Expired(s) THEN Closed(r) ELSE r
<1>1. Shapes /\ FramesFit /\ SessionsFit /\ Held
  BY DEF SerialInv, SessionsFit
<1>2. Runs(t, "drop") /\ "drop" # "forget" /\ "drop" \notin Entering
  BY DEF DidDrop, Entering
<1>3. /\ ~Idle(t) /\ s \in Sessions /\ At("drop", s) /\ Head(stack[t]).do \notin Entering
      /\ Rest(t) = Tail(stack[t])
  BY <1>1, <1>2, RunnerIs
<1>4. s = registry /\ Alive(s) /\ r \in SessionRecords
  BY <1>1, <1>3, PendingAlive DEF FramesFit, Types
<1>5. Section(t, s, q, Rest(t))
  BY <1>3 DEF DidDrop
<1>6. /\ RecordFits(r) /\ Told(r, version, user = "Active")
      /\ s \in requests => r.st \in {"waiting", "inactive"}
      /\ user = "Active" => \A u \in Threads : realm[u] = s =>
           r.st # "dying" /\ (r.st = "waiting" => ~r.deferClose)
  BY <1>1, <1>3, <1>4, SyncSessionAssumption
     DEF SessionsFit, Records, Announced, Asked, HeldIsKept, Kept
<1>7. Expired(s) => \A u \in Threads : realm[u] # s
  BY DEF Expired
<1> HIDE DEF s, r
<1>8. Closed(r) \in SessionRecords
  BY <1>4, ClosedProperties
<1>9. LET c == Closed(r) IN
      /\ RecordFits(c) /\ c.told = r.told /\ c.commit = r.commit
      /\ (c.open => r.open) /\ (r.st = "inactive" => c = r)
      /\ \/ c.st = r.st /\ c.open = r.open
         \/ c.st = "inactive"
         \/ c.st = "dying" /\ r.st = "active"
  BY <1>4, <1>6, ClosedCore
<1>10. /\ q \in SessionRecords /\ RecordFits(q) /\ (q.open => r.open)
       /\ q.st # "inactive" => r.st # "inactive"
  BY <1>4, <1>6, <1>8, <1>9
<1>11. s \in requests => q.st \in {"waiting", "inactive"}
  BY <1>6, <1>9
<1>12. Told(q, version, user = "Active")
  <2>1. Told(Closed(r), version, user = "Active")
    BY <1>6, <1>9 DEF Told
  <2> QED
    BY <1>6, <2>1
<1>13. user = "Active" => \A u \in Threads : realm[u] = s =>
           q.st # "dying" /\ (q.st = "waiting" => ~q.deferClose)
  BY <1>6, <1>7
<1>14. UNCHANGED <<registry, user, live, version, made, requests, realm, borrow>>
  BY DEF DidDrop, fixed, users, refs, asks, data
<1> HIDE DEF q
<1> QED
  BY <1>3, <1>4, <1>5, <1>10, <1>11, <1>12, <1>13, <1>14, LowerSection DEF r

\* The client's thread ends a dying session, or one that is denied.
LEMMA EndSection ==
    ASSUME Types, Types', SerialInv, NEW t \in Actors, ~Idle(t) \/ Resting,
           ~Idle(t) => Head(stack[t]).do \notin Entering,
           NEW s \in Sessions, NEW q \in SessionRecords, Section(t, s, q, Rest(t)), Alive(s),
           Like(sess[s], q) \/ (q.st = "inactive" /\ ~q.open),
           UNCHANGED <<registry, user, live, version, made, requests, realm, borrow>>
    PROVE  SerialInv'
<1> DEFINE r == sess[s]
<1>1. /\ RecordFits(r) /\ Told(r, version, user = "Active")
      /\ s \in requests => r.st \in {"waiting", "inactive"}
      /\ user = "Active" => \A u \in Threads : realm[u] = s =>
           r.st # "dying" /\ (r.st = "waiting" => ~r.deferClose)
  BY SyncSessionAssumption
     DEF SerialInv, SessionsFit, Records, Announced, Asked, HeldIsKept, Kept
<1>2. CASE Like(r, q)
  <2>1. /\ RecordFits(q) /\ Told(q, version, user = "Active")
        /\ s \in requests => q.st \in {"waiting", "inactive"}
        /\ user = "Active" => \A u \in Threads : realm[u] = s =>
             q.st # "dying" /\ (q.st = "waiting" => ~q.deferClose)
        /\ (q.open => r.open) /\ (q.st # "inactive" => r.st # "inactive")
    BY <1>1, <1>2 DEF Like, RecordFits, Told
  <2> QED
    BY <2>1, LowerSection
<1>3. CASE q.st = "inactive" /\ ~q.open
  <2>1. RecordFits(q) /\ Told(q, version, user = "Active")
    BY <1>3 DEF RecordFits, Told
  <2> QED
    BY <1>3, <2>1, LowerSection
<1> QED
  BY <1>2, <1>3

LEMMA UploadedSerial ==
    ASSUME Types, Types', SerialInv, ~overlap, NEW s \in Sessions, NEW u \in sess[s].uploads,
           Uploaded(s, u)
    PROVE  SerialInv'
<1> DEFINE x == sess[s]
           y == [x EXCEPT !.uploads = x.uploads \ {u}]
           q == IF y.st = "dying" /\ y.deaths = u.n THEN ToInactive(y) ELSE y
<1>1. x \in SessionRecords
  BY DEF Types
<1>2. y \in SessionRecords /\ Like(x, y)
  BY <1>1 DEF SessionRecords, Like
<1>3. Section(Client, s, q, << >>) /\ Alive(s) /\ Client \in Actors /\ Resting
  BY DEF Uploaded, MayStart, Resting, Actors
<1>4. Rest(Client) = << >> /\ Idle(Client)
  BY <1>3, NobodyRuns DEF SerialInv
<1> HIDE DEF y
<1>5. q \in SessionRecords /\ (Like(x, q) \/ (q.st = "inactive" /\ ~q.open))
  BY <1>2, ToInactiveProperties, ToInactiveCore
<1>6. UNCHANGED <<registry, user, live, version, made, requests, realm, borrow>>
  BY DEF Uploaded, fixed, users, refs, asks, data
<1> HIDE DEF q
<1> QED
  BY <1>3, <1>4, <1>5, <1>6, EndSection

LEMMA DeniedSerial ==
    ASSUME Types, Types', SerialInv, Denied
    PROVE  SerialInv'
<1> DEFINE t == Client
           s == Top(t)
           q == ToInactive(sess[s])
<1>1. Shapes /\ FramesFit /\ SessionsFit /\ Held
  BY DEF SerialInv, SessionsFit
<1>2. Runs(t, "denied") /\ "denied" # "forget" /\ "denied" \notin Entering /\ t \in Actors
      /\ "denied" \in AllErrors
  BY DEF Denied, Entering, Actors, AllErrors
<1>3. /\ ~Idle(t) /\ s \in Sessions /\ At("denied", s) /\ Head(stack[t]).do \notin Entering
      /\ Rest(t) = Tail(stack[t])
  BY <1>1, <1>2, RunnerIs
<1>4. sess[s].open /\ Alive(s) /\ sess[s] \in SessionRecords
  BY <1>1, <1>2, <1>3, PendingAlive DEF FramesFit, Types
<1>5. sess[s].st # "inactive"
  BY <1>1, <1>3, <1>4 DEF SessionsFit, Records, RecordFits
<1>6. q \in SessionRecords /\ q.st = "inactive" /\ ~q.open
  BY <1>4, ToInactiveProperties, ToInactiveCore
<1>7. /\ sess' = [sess EXCEPT ![s] = ToInactive(@)]
      /\ Push(Client, <<Frame("unregister", s), [do |-> "cancel", s |-> s, ws |-> sess[s].queue]>>)
      /\ UNCHANGED <<registry, user, live, version, made, requests, realm, borrow>>
  BY DEF Denied, fixed, users, refs, asks, data
<1>8. sess' = [sess EXCEPT ![s] = q]
  BY <1>7
<1>9. Section(t, s, q, Rest(t))
  BY <1>3, <1>5, <1>6, <1>7, <1>8 DEF Section, Push
<1> HIDE DEF q, s, t
<1> QED
  BY <1>2, <1>3, <1>4, <1>6, <1>7, <1>9, EndSection

\* Only frames change: one on top, perhaps the end of a call below it.
LEMMA LikeTopped ==
    ASSUME Types, Types', SerialInv, Shapes', Held',
           \A s \in Sessions : Like(sess[s], sess'[s]) /\ ~At("revive", s) /\ ~Below("external", s),
           UNCHANGED <<registry, user, live, version, made, requests, realm>>,
           NEW d, NEW v \in Sessions, NEW e \in {"release", "cancel", "invalidate"},
           \A do, s : At(do, s)' <=> do = d /\ s = v,
           \A do, s : Below(do, s)' => Below(do, s) \/ (do = e /\ s = v),
           d \notin {"register", "revive", "external", "keep", "forget", "unregister", "invalidate"},
           Alive(v), e = "invalidate" => user # "LoggedOut",
           \A s : ~Below("external", s),
           d \in {"drop", "giveback"} => v = registry,
           d \in AllErrors => v = registry /\ sess[v].open
    PROVE  SerialInv'
<1>1. FramesFit /\ ForgetFits /\ SessionsFit /\ Held
  BY DEF SerialInv, SessionsFit
<1>2. FramesFit' /\ ForgetFits'
  <2>1. /\ \A u : Below("forget", u) => user' = "LoggedOut"
       /\ \A u \in Sessions : EndsWith(u, user')
    BY <1>1 DEF FramesFit, ForgetFits, Outcome, EndsWith, Pending
  <2>2. d \in AllErrors => v = registry' /\ sess'[v].open
    BY DEF Like
  <2>3. /\ e = "invalidate" => user' # "LoggedOut"
        /\ d \notin {"register", "revive", "external", "keep", "forget", "invalidate"}
        /\ d # "unregister"
        /\ d \in {"drop", "giveback"} => v = registry'
    OBVIOUS
  <2> QED
    BY <1>1, <2>1, <2>2, <2>3, ToppedFits
<1>3. \A s \in Sessions : \A do : Pending(do, s)' => Alive(s)
  BY <1>1, PendingAlive DEF Pending
<1>4. \A s \in Sessions : Lowers(s)
  BY <1>1, LikeLowers
<1>5. SessionsFit'
  BY <1>1, <1>3, <1>4, LoweringStep
<1> QED
  BY <1>2, <1>5 DEF SerialInv

LEMMA ErrorSerial ==
    ASSUME Types, Types', SerialInv, ~overlap, NEW s \in Sessions, NEW x \in AllErrors, Error(s, x)
    PROVE  SerialInv'
<1> DEFINE r == sess[s]
           t == Client
<1>1. Shapes /\ FramesFit /\ SessionsFit /\ Held
  BY DEF SerialInv, SessionsFit
<1>2. t \in Actors /\ Resting /\ Alive(s) /\ r.open /\ r \in SessionRecords
  BY DEF Error, MayStart, Resting, Actors, Types
<1>3. Rest(t) = << >> /\ Idle(t) /\ \A do, u : ~At(do, u) /\ ~Below(do, u)
  BY <1>1, <1>2, NobodyRuns
<1>4. s = registry
  BY <1>1, <1>2 DEF SessionsFit, OpenIsRegistered
<1>5. UNCHANGED <<registry, user, live, version, made, requests, realm, borrow>>
  BY DEF Error, fixed, users, refs, asks, data
<1>6. CASE r.st = "dying"
  <2>1. PICK q \in {r, ToInactive(r)} : Section(t, s, q, << >>)
    BY <1>6 DEF Error
  <2>2. q \in SessionRecords /\ (Like(r, q) \/ (q.st = "inactive" /\ ~q.open))
    BY <1>2, ToInactiveProperties, ToInactiveCore DEF Like
  <2> QED
    BY <1>2, <1>3, <1>5, <2>1, <2>2, EndSection
<1>7. CASE r.st # "dying"
  <2>1. /\ sess' = sess
        /\ \/ stack' = [stack EXCEPT ![t] = << >>]
           \/ stack' = [stack EXCEPT ![t] = <<Frame(x, s)>>]
    BY <1>7 DEF Error
  <2>2. CASE stack' = [stack EXCEPT ![t] = << >>]
    <3>1. stack' = stack
      BY <1>2, <1>3, <2>2 DEF Types, Idle
    <3> QED
      BY <1>5, <2>1, <3>1, LikeStep DEF Like
  <2>3. CASE stack' = [stack EXCEPT ![t] = <<Frame(x, s)>>]
    <3> DEFINE f == Frame(x, s)
    <3>1. f \in SessionFrames /\ f.do = x /\ f.s = s /\ x \notin Entering
      BY DEF Frame, SessionFrames, Frames, Entering, AllErrors
    <3> HIDE DEF f
    <3>2. <<f>> \o Rest(t) = <<f>>
      BY <1>3, <3>1, ConcatEmptySeq
    <3>3. stack' = [stack EXCEPT ![t] = <<f>> \o Rest(t)]
      BY <2>3, <3>2 DEF f
    <3>4. Shapes' /\ Topped(x, s)
      BY <1>1, <1>2, <1>3, <3>1, <3>3, GoesOnOnce
    <3>5. /\ x \notin {"register", "revive", "external", "keep", "forget", "unregister", "invalidate"}
          /\ x \notin {"drop", "giveback"}
      BY DEF AllErrors
    <3>6. Held'
      BY <1>1, <1>5 DEF Held
    <3>7. /\ \A do, u : At(do, u)' <=> do = x /\ u = s
          /\ \A do, u : ~Below(do, u)'
      BY <1>3, <3>4 DEF Topped
    <3>8. \A u \in Sessions : Like(sess[u], sess'[u])
      BY <2>1 DEF Like
    <3> HIDE DEF t
    <3> QED
      BY <1>2, <1>3, <1>4, <1>5, <3>4, <3>5, <3>6, <3>7, <3>8, LikeTopped
  <2> QED
    BY <2>1, <2>2, <2>3
<1> QED
  BY <1>6, <1>7

LEMMA TwoFrames ==
    ASSUME NEW f \in SessionFrames, NEW g \in SessionFrames
    PROVE  <<f>> \o <<g>> = <<f, g>> /\ <<f, g>> \in Seq(SessionFrames)
<1> DEFINE p == <<f>>
           q == <<g>>
           c == p \o q
           d == <<f, g>>
<1>1. /\ p \in Seq(SessionFrames) /\ q \in Seq(SessionFrames) /\ d \in Seq(SessionFrames)
      /\ Len(p) = 1 /\ p[1] = f /\ Len(q) = 1 /\ q[1] = g
      /\ Len(d) = 2 /\ d[1] = f /\ d[2] = g
  OBVIOUS
<1> HIDE DEF p, q, d
<1>2. /\ c \in Seq(SessionFrames) /\ Len(c) = Len(p) + Len(q)
      /\ \A i \in 1..(Len(p) + Len(q)) : c[i] = IF i <= Len(p) THEN p[i] ELSE q[i - Len(p)]
  BY <1>1, ConcatProperties
<1> HIDE DEF c
<1>3. Len(c) = 2 /\ c[1] = f /\ c[2] = g
  BY <1>1, <1>2
<1>4. 1..2 = {1, 2}
  OBVIOUS
<1>5. \A i \in 1..Len(c) : c[i] = d[i]
  BY <1>1, <1>3, <1>4
<1>6. c = d
  BY <1>1, <1>2, <1>3, <1>5, SeqEqual
<1> QED
  BY <1>1, <1>6 DEF c, d, p, q

LEMMA ThreeFrames ==
    ASSUME NEW f \in SessionFrames, NEW g \in SessionFrames, NEW h \in SessionFrames
    PROVE  LET p == <<f, g>> \o <<h>> IN
           /\ p \in Seq(SessionFrames) /\ p # << >> /\ Len(p) = 3
           /\ p[1] = f /\ p[2] = g /\ p[3] = h
<1> DEFINE q == <<f, g>>
           r == <<h>>
           p == q \o r
<1>1. /\ q \in Seq(SessionFrames) /\ Len(q) = 2 /\ q[1] = f /\ q[2] = g
      /\ r \in Seq(SessionFrames) /\ Len(r) = 1 /\ r[1] = h
  OBVIOUS
<1> HIDE DEF q, r
<1>2. /\ p \in Seq(SessionFrames) /\ Len(p) = Len(q) + Len(r)
      /\ \A i \in 1..(Len(q) + Len(r)) : p[i] = IF i <= Len(q) THEN q[i] ELSE r[i - Len(q)]
  BY <1>1, ConcatProperties
<1> HIDE DEF p
<1>3. Len(p) = 3 /\ p[1] = f /\ p[2] = g /\ p[3] = h
  BY <1>1, <1>2
<1>4. p # << >>
  BY <1>3
<1> QED
  BY <1>2, <1>3, <1>4 DEF p, q, r

LEMMA CancelWaitsSerial ==
    ASSUME Types, Types', SerialInv, CancelWaits
    PROVE  SerialInv'
<1> DEFINE t == Client
           s == Top(t)
           W == sess[s].queue
           r == [sess[s] EXCEPT !.queue = {}]
           c == [do |-> "cancel", s |-> s, ws |-> W]
           f == Frame("invalidate", s)
<1>1. Shapes /\ FramesFit /\ SessionsFit /\ Held
  BY DEF SerialInv, SessionsFit
<1>2. PICK d \in {"auth", "fatal"} : Runs(t, d)
  BY DEF CancelWaits
<1>3. d # "forget" /\ d \notin Entering /\ t \in Actors /\ d # "revive"
  BY DEF Entering, Actors
<1>4. /\ ~Idle(t) /\ s \in Sessions /\ At(d, s) /\ Head(stack[t]).do \notin Entering
      /\ \A u : ~At("revive", u) /\ ~Below("external", u)
  BY <1>1, <1>2, <1>3, RunnerIs
<1>14. user # "LoggedOut"
  <2>1. d \in AllErrors
    BY DEF AllErrors
  <2>2. sess[s].open
    BY <1>1, <1>4, <2>1 DEF FramesFit
  <2> QED
    BY <1>1, <1>4, <2>2, PendingAlive DEF SessionsFit, OutMeansDown, Up, Records, RecordFits
<1>5. Alive(s) /\ sess[s] \in SessionRecords /\ W \in SUBSET Waits
  BY <1>1, <1>4, PendingAlive DEF Types, SessionRecords
<1>6. sess' = [sess EXCEPT ![s] = r]
  BY <1>4 DEF CancelWaits, Types
<1>7. \A u \in Sessions : Like(sess[u], sess'[u])
  BY <1>4, <1>5, <1>6 DEF Like, Types, SessionRecords
<1>8. /\ c \in SessionFrames /\ c.do = "cancel" /\ c.s = s
      /\ f \in SessionFrames /\ f.do = "invalidate" /\ f.s = s
      /\ "cancel" \notin Entering /\ "invalidate" \in Leaving \ {"external"}
  BY <1>4, <1>5 DEF Frame, SessionFrames, Frames, Entering, Leaving
<1>9. Push(t, <<c>> \o <<f>>) \/ Push(t, <<c>> \o << >>)
  BY DEF CancelWaits
<1>10. UNCHANGED <<registry, user, live, version, made, requests, realm, borrow>>
  BY DEF CancelWaits, fixed, users, refs, asks, data
<1> HIDE DEF c, f, s, t
<1>11. /\ Shapes' /\ \A do, u : At(do, u)' <=> do = "cancel" /\ u = s
       /\ \A do, u : Below(do, u)' => Below(do, u) \/ (do = "invalidate" /\ u = s)
  <2>1. CASE Push(t, <<c>> \o <<f>>)
    <3>1. <<c>> \o <<f>> = <<c, f>> /\ <<c, f>> \in Seq(SessionFrames)
      BY <1>8, TwoFrames
    <3>2. stack' = [stack EXCEPT ![t] = <<c, f>> \o Rest(t)]
      BY <1>3, <1>4, <2>1, <3>1, Pushes
    <3>3. Shapes' /\ ToppedTwice(c.do, c.s, f.do, f.s)
      BY <1>1, <1>3, <1>4, <1>8, <3>2, GoesOnTwice
    <3> QED
      BY <1>8, <3>3 DEF ToppedTwice
  <2>2. CASE Push(t, <<c>> \o << >>)
    <3>1. <<c>> \o << >> = <<c>> /\ <<c>> \in Seq(SessionFrames)
      BY <1>8, ConcatEmptySeq
    <3>2. stack' = [stack EXCEPT ![t] = <<c>> \o Rest(t)]
      BY <1>3, <1>4, <2>2, <3>1, Pushes
    <3>3. Shapes' /\ Topped(c.do, c.s)
      BY <1>1, <1>3, <1>4, <1>8, <3>2, GoesOnOnce
    <3> QED
      BY <1>8, <3>3 DEF Topped
  <2> QED
    BY <1>9, <2>1, <2>2
<1>12. Held'
  BY <1>1, <1>10 DEF Held
<1>13. "cancel" \notin AllErrors
  BY DEF AllErrors
<1> QED
  BY <1>4, <1>5, <1>7, <1>10, <1>11, <1>12, <1>13, <1>14, LikeTopped

LEMMA UnregisterSerial ==
    ASSUME Types, Types', SerialInv, NEW t \in Actors, Unregister(t)
    PROVE  SerialInv'
<1>1. Shapes /\ FramesFit /\ ForgetFits /\ SessionsFit /\ Held
  BY DEF SerialInv, SessionsFit
<1>2. Runs(t, "unregister") /\ "unregister" # "forget" /\ "unregister" \notin Entering
  BY DEF Unregister, Entering
<1>3. /\ ~Idle(t) /\ Top(t) \in Sessions /\ At("unregister", Top(t))
      /\ Head(stack[t]).do \notin Entering
      /\ \A u : ~At("revive", u) /\ ~Below("external", u)
      /\ \A do, u : Below(do, u) => do \in Leaving
  BY <1>1, <1>2, RunnerIs
<1>4. OffRegistry
  BY <1>1, <1>3 DEF FramesFit
<1>5. UNCHANGED <<sess, user, live, version, made, requests, realm>>
  BY DEF Unregister, users, asks, data
<1>6. CASE registry # None /\ ~Expired(registry)
  <2> DEFINE s == registry
             f == Frame("giveback", s)
  <2>1. s \in Sessions /\ Push(t, <<f>>) /\ borrow' = [borrow EXCEPT ![t] = registry] /\ registry' = registry
    BY <1>6 DEF Unregister, Types
  <2>2. f \in SessionFrames /\ f.do = "giveback" /\ f.s = s /\ "giveback" \notin Entering
    BY <2>1 DEF Frame, SessionFrames, Frames, Entering
  <2> HIDE DEF f
  <2>9. <<f>> \in Seq(SessionFrames)
    BY <2>2
  <2>3. stack' = [stack EXCEPT ![t] = <<f>> \o Rest(t)]
    BY <1>3, <2>1, <2>9, Pushes
  <2>4. Shapes' /\ Topped("giveback", s)
    BY <1>1, <1>3, <2>2, <2>3, GoesOnOnce
  <2>5. Held'
    BY <1>1, <1>5, <2>1 DEF Held, Types
  <2>6. \A u \in Sessions : Like(sess[u], sess'[u])
    BY <1>5 DEF Like
  <2>7. Alive(s) /\ "giveback" \notin AllErrors
    BY <1>1, <2>1, PendingAlive DEF AllErrors
  <2>8. /\ \A do, u : At(do, u)' <=> do = "giveback" /\ u = s
        /\ \A do, u : Below(do, u)' => Below(do, u)
    BY <2>4 DEF Topped
  <2> HIDE DEF s
  <2> QED
    BY <1>3, <1>5, <2>1, <2>4, <2>5, <2>6, <2>7, <2>8, LikeTopped DEF s
<1>7. CASE ~(registry # None /\ ~Expired(registry))
  <2>1. Push(t, << >>) /\ registry' = None /\ borrow' = borrow
    BY <1>7 DEF Unregister
  <2>2. stack' = [stack EXCEPT ![t] = Rest(t)]
    BY <1>3, <2>1, NoFrames, Pushes
  <2>3. Shapes' /\ Popped
    BY <1>1, <1>3, <2>2, PopFrames
  <2>4. FramesFit' /\ ForgetFits'
    <3>1. \A u \in Sessions : EndsWith(u, user')
      BY <1>1, <1>5 DEF FramesFit, Outcome, EndsWith, Pending
    <3> QED
      BY <1>1, <1>3, <2>3, <3>1, PoppedFits
  <2>5. Held'
    <3>1. (\A u \in Threads : realm[u] = None) /\ (\A u \in Actors : borrow[u] = None)
      BY <1>1, <1>7 DEF Held, Expired
    <3> QED
      BY <1>5, <2>1, <3>1 DEF Held
  <2>6. \A u \in Sessions : \A do : Pending(do, u)' => Alive(u)
    BY <1>1, <2>3, PendingAlive DEF Popped, Pending
  <2>7. \A u \in Sessions : Alive(u)' => Alive(u) /\ u # None
    BY <1>1, <1>5, <2>1, <2>5, <2>6, AliveMeansNext, PendingAlive, SyncSessionAssumption
  <2>8. \A u \in Sessions : Up(u) /\ Alive(u) => u # registry /\ u \in requests
    BY <1>1, <1>4, SyncSessionAssumption DEF OffRegistry, Up, SessionsFit, StrayWaits
  <2>9. \A u \in Sessions : sess[u].open => Up(u)
    BY <1>1 DEF SessionsFit, Records, RecordFits, Up
  <2> USE <1>1 DEF SessionsFit
  <2>10. Records' /\ MadeOnly' /\ Asked'
    BY <1>5, <2>7 DEF Records, MadeOnly, Asked, Up
  <2>11. OpenIsRegistered' /\ StrayWaits'
    BY <1>5, <2>1, <2>7, <2>8, <2>9 DEF OpenIsRegistered, StrayWaits, Up, OffRegistry
  <2>12. UpIsLive' /\ OutMeansDown'
    BY <1>3, <1>5, <2>7 DEF UpIsLive, OutMeansDown, Up
  <2>13. HeldIsKept' /\ Announced'
    BY <1>5, <2>7 DEF HeldIsKept, Kept, Announced
  <2> QED
    BY <2>3, <2>4, <2>5, <2>10, <2>11, <2>12, <2>13 DEF SerialInv
<1> QED
  BY <1>6, <1>7

\* A step that makes no session alive.
LEMMA AliveBefore ==
    ASSUME Types, Types', Held, Held', registry' \in {registry, None}, requests' \subseteq requests,
           \A s \in Sessions : \A do : Pending(do, s)' => Alive(s)
    PROVE  \A s \in Sessions : Alive(s)' => Alive(s)
BY AliveMeans, AliveMeansNext, SyncSessionAssumption

\* Sessions stay as they are; who refers to them, or the user's list, may change.
LEMMA SameSessions ==
    ASSUME Types, Types', SessionsFit, Held', UNCHANGED <<sess, registry, user, version, made, requests>>,
           \A s \in Sessions : \A do : Pending(do, s)' => Alive(s),
           user = "Active" => \A t \in Threads : realm'[t] # None => Kept(realm'[t]),
           UpIsLive'
    PROVE  SessionsFit'
<1>1. \A s \in Sessions : Alive(s)' => Alive(s)
  BY AliveBefore DEF SessionsFit
<1> USE <1>1 DEF SessionsFit
<1>2. Records' /\ MadeOnly' /\ Asked'
  BY DEF Records, MadeOnly, Asked, Up
<1>3. OpenIsRegistered' /\ StrayWaits' /\ OutMeansDown'
  BY DEF OpenIsRegistered, StrayWaits, OutMeansDown, Up, OffRegistry
<1>4. HeldIsKept' /\ Announced'
  BY DEF HeldIsKept, Kept, Announced
<1> QED
  BY <1>2, <1>3, <1>4

LEMMA RegisterSerial ==
    ASSUME Types, Types', SerialInv, NEW t \in Actors, Register(t)
    PROVE  SerialInv'
<1> DEFINE s == Top(t)
<1>1. Shapes /\ FramesFit /\ ForgetFits /\ SessionsFit /\ Held
  BY DEF SerialInv, SessionsFit
<1>2. Runs(t, "register") /\ "register" # "forget" /\ "register" \in Entering
  BY DEF Register, Entering
<1>3. /\ ~Idle(t) /\ s \in Sessions /\ At("register", s)
      /\ Head(stack[t]).do \in Entering
      /\ \A u : ~At("revive", u)
      /\ \A do, u : Below(do, u) => do \in Leaving
  BY <1>1, <1>2, RunnerIs
<1>4. s = registry /\ Alive(s)
  BY <1>1, <1>3, PendingAlive DEF FramesFit
<1>5. UNCHANGED <<sess, registry, user, version, made, requests, realm, borrow>>
  BY DEF Register, fixed, refs, asks, data
<1>6. Held'
  BY <1>1, <1>5 DEF Held
<1>7. user = "Active" => \A u \in Threads : realm'[u] # None => Kept(realm'[u])
  BY <1>1, <1>5 DEF SessionsFit, HeldIsKept
<1>8. CASE user = "Active"
  <2> DEFINE f == Frame("revive", s)
  <2>1. Push(t, <<f>>) /\ live' = s
    BY <1>8 DEF Register
  <2>2. f \in SessionFrames /\ f.do = "revive" /\ f.s = s /\ "revive" \in Entering
    BY <1>3 DEF Frame, SessionFrames, Frames, Entering
  <2> HIDE DEF f
  <2>3. <<f>> \in Seq(SessionFrames)
    BY <2>2
  <2>4. stack' = [stack EXCEPT ![t] = <<f>> \o Rest(t)]
    BY <1>3, <2>1, <2>3, Pushes
  <2>5. Shapes' /\ Topped("revive", s)
    BY <1>1, <1>3, <2>2, <2>4, EntersOnce
  <2> HIDE DEF s
  <2>6. /\ \A do, u : At(do, u)' <=> do = "revive" /\ u = s
        /\ \A do, u : Below(do, u)' <=> Below(do, u)
    BY <2>5 DEF Topped
  <2>7. ForgetFits'
    BY <1>1, <1>3, <2>6 DEF ForgetFits, Pending, Leaving
  <2>8. FramesFit'
    <3>1. \A u \in Sessions : (Pending("external", u)' => u = registry') /\ Outcome(u)'
      BY <1>1, <1>5, <2>6 DEF FramesFit, Outcome, Pending
    <3>2. \A u : /\ ~At("register", u)' /\ ~At("external", u)' /\ ~At("drop", u)'
                 /\ ~At("giveback", u)' /\ ~At("unregister", u)'
                 /\ \A e \in AllErrors : ~At(e, u)'
      BY <2>6 DEF AllErrors
    <3>3. \A u \in Sessions : At("revive", u)' => user' = "Active" /\ live' = u /\ u = registry'
      BY <1>4, <1>5, <1>8, <2>1, <2>6
    <3> QED
      BY <3>1, <3>2, <3>3 DEF FramesFit
  <2>9. \A u \in Sessions : \A do : Pending(do, u)' => Alive(u)
    BY <1>1, <1>4, <2>6, PendingAlive DEF Pending
  <2>10. UpIsLive'
    BY <1>3, <1>4, <1>5, <2>1, <2>6, SyncSessionAssumption DEF UpIsLive
  <2>11. SessionsFit'
    BY <1>1, <1>5, <1>6, <1>7, <2>9, <2>10, SameSessions
  <2> QED
    BY <2>5, <2>7, <2>8, <2>11 DEF SerialInv
<1>9. CASE user # "Active"
  <2>1. Push(t, << >>) /\ live' = live
    BY <1>9 DEF Register
  <2>2. stack' = [stack EXCEPT ![t] = Rest(t)]
    BY <1>3, <2>1, NoFrames, Pushes
  <2>3. Shapes' /\ Popped
    BY <1>1, <1>3, <2>2, PopFrames
  <2>4. FramesFit' /\ ForgetFits'
    <3>1. \A u \in Sessions : EndsWith(u, user')
      BY <1>1, <1>5 DEF FramesFit, Outcome, EndsWith, Pending
    <3> QED
      BY <1>1, <1>3, <1>5, <1>9, <2>3, <3>1, PoppedFits
  <2>5. \A u \in Sessions : \A do : Pending(do, u)' => Alive(u)
    BY <1>1, <2>3, PendingAlive DEF Popped, Pending
  <2>6. \A u \in Sessions : Alive(u)' => Alive(u)
    BY <1>1, <1>5, <1>6, <2>5, AliveBefore
  <2>7. UpIsLive'
    BY <1>1, <1>3, <1>5, <2>1, <2>6 DEF SessionsFit, UpIsLive, Up
  <2>8. SessionsFit'
    BY <1>1, <1>5, <1>6, <1>7, <2>5, <2>7, SameSessions
  <2> QED
    BY <2>3, <2>4, <2>8 DEF SerialInv
<1> QED
  BY <1>8, <1>9

LEMMA TakeReferenceSerial ==
    ASSUME Types, Types', SerialInv, NEW t \in Actors, TakeReference(t)
    PROVE  SerialInv'
<1> DEFINE s == Top(t)
<1>1. Shapes /\ FramesFit /\ ForgetFits /\ SessionsFit /\ Held
  BY DEF SerialInv, SessionsFit
<1>2. Runs(t, "external") /\ "external" # "forget" /\ "external" \notin Entering
  BY DEF TakeReference, Entering
<1>3. /\ ~Idle(t) /\ s \in Sessions /\ At("external", s)
      /\ \A u : ~At("revive", u) /\ ~Below("external", u)
      /\ \A do, u : Below(do, u) => do \in Leaving
  BY <1>1, <1>2, RunnerIs
<1>4. s = registry /\ (user = "Active" => Kept(s))
  BY <1>1, <1>3 DEF FramesFit, Pending
<1>5. /\ UNCHANGED <<sess, registry, user, live, version, made, requests, borrow>>
      /\ realm' = [realm EXCEPT ![t] = s] /\ Push(t, << >>)
  BY DEF TakeReference, fixed, users, asks, data
<1> HIDE DEF s
<1>6. Held' /\ (user = "Active" => \A u \in Threads : realm'[u] # None => Kept(realm'[u]))
  <2>1. \A u \in Threads : realm'[u] \in {realm[u], s}
    BY <1>5 DEF Types
  <2> QED
    BY <1>1, <1>4, <1>5, <2>1 DEF Held, SessionsFit, HeldIsKept
<1>7. Shapes' /\ Popped
  <2>1. stack' = [stack EXCEPT ![t] = Rest(t)]
    BY <1>3, <1>5, NoFrames, Pushes
  <2> QED
    BY <1>1, <1>3, <2>1, PopFrames
<1>8. FramesFit' /\ ForgetFits'
  <2>1. \A u \in Sessions : EndsWith(u, user')
    BY <1>1, <1>5 DEF FramesFit, Outcome, EndsWith, Pending
  <2> QED
    BY <1>1, <1>3, <1>7, <2>1, PoppedFits
<1>9. \A u \in Sessions : \A do : Pending(do, u)' => Alive(u)
  BY <1>1, <1>7, PendingAlive DEF Popped, Pending
<1>10. \A u \in Sessions : Alive(u)' => Alive(u)
  BY <1>1, <1>5, <1>6, <1>9, AliveBefore
<1>11. UpIsLive'
  BY <1>1, <1>3, <1>5, <1>10 DEF SessionsFit, UpIsLive, Up
<1>12. SessionsFit'
  BY <1>1, <1>5, <1>6, <1>9, <1>11, SameSessions
<1> QED
  BY <1>7, <1>8, <1>12 DEF SerialInv

LEMMA ReviveSerial ==
    ASSUME Types, Types', SerialInv, NEW t \in Actors, Revive(t)
    PROVE  SerialInv'
<1> DEFINE s == Top(t)
           r == sess[s]
           q == Revived(r)
<1>1. Shapes /\ FramesFit /\ ForgetFits /\ SessionsFit /\ Held
  BY DEF SerialInv, SessionsFit
<1>2. Runs(t, "revive") /\ "revive" # "forget" /\ "revive" \in Entering
  BY DEF Revive, Entering
<1>3. /\ ~Idle(t) /\ s \in Sessions /\ At("revive", s) /\ Rest(t) = Tail(stack[t])
      /\ \A u : At("revive", u) => u = s
      /\ \A do, u : Below(do, u) => do \in Leaving /\ u = s
  BY <1>1, <1>2, RunnerIs
<1>4. /\ user = "Active" /\ live = s /\ (s = registry \/ OffRegistry)
      /\ Alive(s) /\ r \in SessionRecords /\ RecordFits(r) /\ Told(r, version, TRUE)
  <2>1. user = "Active" /\ live = s /\ (s = registry \/ OffRegistry)
    BY <1>1, <1>3 DEF FramesFit
  <2>2. Alive(s) /\ r \in SessionRecords
    BY <1>1, <1>3, PendingAlive DEF Types
  <2> QED
    BY <1>1, <1>3, <2>1, <2>2 DEF SessionsFit, Records, Announced
<1>5. /\ RecordFits(q) /\ q.told = r.told /\ q.commit = r.commit /\ q.open = r.open
      /\ q.st \in {"waiting", "active"} /\ (q.st = "waiting" => ~q.deferClose)
      /\ r.st \in {"inactive", "waiting"} => q.st = "waiting"
      /\ r.st \in {"active", "dying"} => q.st = "active"
  BY <1>4, RevivedCore
<1>6. r.st \in {"waiting", "active", "dying", "inactive"}
  BY <1>4 DEF SessionRecords, States
<1>7. Section(t, s, q, Rest(t)) /\ requests' = IF r.st = "inactive" THEN {s} ELSE requests
  BY <1>3 DEF Revive
<1>8. UNCHANGED <<registry, user, live, version, made, realm, borrow>>
  BY DEF Revive, fixed, users, refs, data
<1> HIDE DEF q
<1>9. stack' = [stack EXCEPT ![t] = Rest(t)]
  BY <1>5, <1>7 DEF Section
<1> HIDE DEF s, r
<1>10. sess'[s] = q /\ \A u \in Sessions : u # s => sess'[u] = sess[u]
  BY <1>3, <1>7 DEF Section, Types
<1>11. Shapes' /\ Popped
  BY <1>1, <1>3, <1>9, PopFrames
<1>12. \A do, u : Pending(do, u)' => u = s
  BY <1>3, <1>11 DEF Popped, Pending
<1>13. FramesFit' /\ ForgetFits'
  <2>1. \A u \in Sessions : EndsWith(u, user')
    BY <1>1, <1>8 DEF FramesFit, Outcome, EndsWith, Pending
  <2>2. \A u \in Sessions : u = s => Up(u)' /\ Kept(u)'
    BY <1>5, <1>10 DEF Up, Kept
  <2> QED
    BY <1>1, <1>3, <1>8, <1>11, <2>1, <2>2, PoppedFits
<1>14. Held'
  BY <1>1, <1>8 DEF Held
<1>15. \A u \in Sessions : Alive(u)' => Alive(u) /\ (r.st = "inactive" => u \in {s, registry})
  BY <1>1, <1>3, <1>4, <1>7, <1>8, <1>12, <1>14, AliveMeansNext, PendingAlive
<1>16. r = sess[s]
  BY DEF r
<1>17. s \in requests => r.st \in {"waiting", "inactive"}
  BY <1>1, <1>16 DEF SessionsFit, Asked
<1>18. StrayWaits'
  <2> SUFFICES ASSUME NEW u \in Sessions, Alive(u)', Up(u)', u # registry
               PROVE  u \in requests' /\ OffRegistry'
    BY <1>8 DEF StrayWaits
  <2>1. registry # s /\ OffRegistry => OffRegistry'
    BY <1>8, <1>10 DEF OffRegistry, Types
  <2>2. CASE u = s
    <3>1. OffRegistry'
      BY <1>4, <2>1, <2>2
    <3>2. u \in requests'
      BY <1>1, <1>4, <1>7, <1>16, <2>2 DEF SessionsFit, StrayWaits, Up
    <3> QED
      BY <3>1, <3>2
  <2>3. CASE u # s
    <3>1. r.st # "inactive"
      BY <1>15, <2>3
    <3>2. u \in requests /\ OffRegistry
      BY <1>1, <1>10, <1>15, <2>3 DEF SessionsFit, StrayWaits, Up
    <3>3. registry # s
      BY <1>3, <1>16, <3>1, <3>2, SyncSessionAssumption DEF OffRegistry
    <3> QED
      BY <1>7, <2>1, <3>1, <3>2, <3>3
  <2> QED
    BY <2>2, <2>3
<1>19. UpIsLive'
  <2> SUFFICES ASSUME NEW u \in Sessions, Alive(u)', Up(u)', u # s
               PROVE  FALSE
    BY <1>4, <1>8 DEF UpIsLive
  <2>1. Alive(u) /\ Up(u)
    BY <1>10, <1>15 DEF Up
  <2>2. CASE r.st = "inactive"
    <3>1. u = registry /\ OffRegistry
      BY <1>4, <1>15, <2>2
    <3> QED
      BY <2>1, <3>1, SyncSessionAssumption DEF OffRegistry, Up
  <2>3. CASE r.st # "inactive"
    <3>1. u # registry /\ registry = s
      BY <1>1, <1>3, <1>4, <2>1 DEF SessionsFit, UpIsLive
    <3>2. OffRegistry
      BY <1>1, <2>1, <3>1 DEF SessionsFit, StrayWaits
    <3> QED
      BY <1>3, <1>16, <2>3, <3>1, <3>2, SyncSessionAssumption DEF OffRegistry
  <2> QED
    BY <2>2, <2>3
<1>20. Records' /\ MadeOnly' /\ OpenIsRegistered' /\ OutMeansDown'
  <2>1. Records'
    BY <1>1, <1>5, <1>10 DEF SessionsFit, Records
  <2>2. s \in made
    BY <1>1, <1>3, <1>4 DEF SessionsFit, MadeOnly
  <2>3. MadeOnly'
    BY <1>1, <1>8, <1>10, <1>15, <2>2 DEF SessionsFit, MadeOnly, Up
  <2>4. OpenIsRegistered'
    BY <1>1, <1>5, <1>8, <1>10, <1>15, <1>16 DEF SessionsFit, OpenIsRegistered
  <2> QED
    BY <1>4, <1>8, <2>1, <2>3, <2>4 DEF OutMeansDown
<1>21. Asked'
  BY <1>1, <1>5, <1>7, <1>10, <1>17, <1>16 DEF SessionsFit, Asked, Types
<1>22. HeldIsKept'
  BY <1>1, <1>4, <1>5, <1>8, <1>10 DEF SessionsFit, HeldIsKept, Kept, Types
<1>23. Announced'
  <2>1. Told(q, version, TRUE)
    BY <1>4, <1>5, <1>6 DEF Told, RecordFits
  <2> QED
    BY <1>1, <1>4, <1>8, <1>10, <1>15, <2>1 DEF SessionsFit, Announced
<1> QED
  BY <1>11, <1>13, <1>14, <1>18, <1>19, <1>20, <1>21, <1>22, <1>23 DEF SerialInv, SessionsFit

LEMMA LogOutEndsSerial ==
    ASSUME Types, Types', SerialInv, NEW t \in Actors, LogOutEnds(t)
    PROVE  SerialInv'
<1>1. Shapes /\ FramesFit /\ ForgetFits /\ SessionsFit /\ Held
  BY DEF SerialInv, SessionsFit
<1>2. PICK d \in {"keep", "forget"} : Runs(t, d)
  BY DEF LogOutEnds
<1>3. d \notin Entering
  BY DEF Entering
<1>4. /\ ~Idle(t) /\ At(d, Top(t))
      /\ \A u : ~Below("external", u)
      /\ \A do, u : Below(do, u) => do \in Leaving
      /\ d = "keep" => Top(t) \in Sessions
  BY <1>1, <1>2, <1>3, RunnerIs
<1>5. user = "LoggedOut"
  BY <1>1, <1>4 DEF FramesFit, Outcome, ForgetFits, Pending
<1>6. /\ UNCHANGED <<sess, registry, user, version, made, requests, realm, borrow>>
      /\ Push(t, << >>)
  BY DEF LogOutEnds, fixed, refs, asks, data
<1>7. Held'
  BY <1>1, <1>6 DEF Held
<1>8. Shapes' /\ Popped
  <2>1. stack' = [stack EXCEPT ![t] = Rest(t)]
    BY <1>4, <1>6, NoFrames, Pushes
  <2> QED
    BY <1>1, <1>4, <2>1, PopFrames
<1>9. FramesFit' /\ ForgetFits'
  <2>1. \A u \in Sessions : EndsWith(u, user')
    BY <1>1, <1>6 DEF FramesFit, Outcome, EndsWith, Pending
  <2> QED
    BY <1>1, <1>4, <1>6, <1>8, <2>1, PoppedFits
<1>10. \A u \in Sessions : \A do : Pending(do, u)' => Alive(u)
  BY <1>1, <1>8, PendingAlive DEF Popped, Pending
<1>11. \A u \in Sessions : Alive(u)' => Alive(u)
  BY <1>1, <1>6, <1>7, <1>10, AliveBefore
<1>12. UpIsLive'
  BY <1>1, <1>5, <1>6, <1>11 DEF SessionsFit, OutMeansDown, UpIsLive, Up
<1>13. SessionsFit'
  BY <1>1, <1>5, <1>6, <1>7, <1>10, <1>12, SameSessions
<1> QED
  BY <1>8, <1>9, <1>13 DEF SerialInv

LEMMA TokenExpiredSerial ==
    ASSUME Types, Types', SerialInv, TokenExpired
    PROVE  SerialInv'
<1> DEFINE t == Client
           s == Top(t)
           r == sess[s]
           q == IF r.st = "active" THEN ToWaiting(r) ELSE r
<1>1. Shapes /\ FramesFit /\ ForgetFits /\ SessionsFit /\ Held
  BY DEF SerialInv, SessionsFit
<1>2. /\ Runs(t, "expired") /\ "expired" # "forget" /\ "expired" \notin Entering /\ t \in Actors
      /\ "expired" \in AllErrors
  BY DEF TokenExpired, Entering, Actors, AllErrors
<1>3. /\ ~Idle(t) /\ s \in Sessions /\ At("expired", s)
      /\ \A u : ~At("revive", u) /\ ~Below("external", u)
      /\ \A do, u : Below(do, u) => do \in Leaving
      /\ Head(stack[t]).do \notin Entering
  BY <1>1, <1>2, RunnerIs
<1>4. s = registry /\ r.open /\ Alive(s) /\ r \in SessionRecords
  BY <1>1, <1>2, <1>3, PendingAlive DEF FramesFit, Types
<1>5. RecordFits(r) /\ Told(r, version, user = "Active") /\ r.st # "inactive"
  <2>1. RecordFits(r) /\ Told(r, version, user = "Active")
    BY <1>1, <1>3, <1>4 DEF SessionsFit, Records, Announced
  <2> QED
    BY <1>4, <2>1 DEF RecordFits
<1>6. /\ RecordFits(q) /\ Told(q, version, user = "Active") /\ q.open = r.open
      /\ q.st # "inactive" /\ (r.st = "active" => q.st = "waiting" /\ ~q.deferClose)
      /\ r.st # "active" => q = r
  <2>1. CASE r.st = "active"
    <3>1. /\ ToWaiting(r).st = "waiting" /\ ToWaiting(r).open = r.open
          /\ ToWaiting(r).bound = r.bound /\ ~ToWaiting(r).deferClose
          /\ ToWaiting(r).commit = r.commit /\ ToWaiting(r).told = r.told
      BY <1>4 DEF ToWaiting, SessionRecords
    <3>2. r.commit = 0 /\ r.told = version /\ ~(0 > 0)
      BY <1>5, <2>1 DEF RecordFits, Told
    <3> QED
      BY <1>5, <2>1, <3>1, <3>2 DEF RecordFits, Told
  <2>2. CASE r.st # "active"
    BY <1>5, <2>2
  <2> QED
    BY <2>1, <2>2
<1>7. /\ UNCHANGED <<registry, user, live, version, made, realm, borrow>>
      /\ Section(t, s, q, << >>)
      /\ requests' = IF r.st = "active" THEN {s} ELSE requests
  BY DEF TokenExpired, fixed, users, refs, data
<1> HIDE DEF q
<1>8. /\ sess' = [sess EXCEPT ![s] = q] /\ stack' = [stack EXCEPT ![t] = << >>]
  BY <1>6, <1>7 DEF Section
<1>9. r = sess[s]
  OBVIOUS
<1> HIDE DEF s, r, t
<1>10. sess'[s] = q /\ \A u \in Sessions : u # s => sess'[u] = sess[u]
  BY <1>3, <1>8 DEF Types
<1>11. \A do, u : ~At(do, u)' /\ ~Below(do, u)' /\ ~Pending(do, u)'
  <2>1. \A u \in Actors : stack'[u] = << >> /\ 2..Len(stack'[u]) = {}
    BY <1>1, <1>2, <1>3, <1>8, RunnerFrames DEF Types
  <2> QED
    BY <2>1 DEF At, Below, Pending
<1>12. Shapes'
  <2>1. \A u \in Actors : stack'[u] = << >> /\ 2..Len(stack'[u]) = {}
    BY <1>1, <1>2, <1>3, <1>8, RunnerFrames DEF Types
  <2> QED
    BY <2>1 DEF Shapes, OneRunner, Shape
<1>13. FramesFit' /\ ForgetFits' /\ Held'
  BY <1>1, <1>7, <1>11 DEF FramesFit, ForgetFits, Held, Outcome
<1>14. \A u \in Sessions : Alive(u)' => Alive(u)
  BY <1>1, <1>4, <1>7, <1>11, <1>13, AliveMeansNext, PendingAlive
<1>15. \A u \in Sessions : Alive(u) /\ Up(u) => u = s /\ live = s
  <2>1. ~OffRegistry
    BY <1>3, <1>4, <1>5, <1>9, SyncSessionAssumption DEF OffRegistry
  <2> QED
    BY <1>1, <1>3, <1>4, <2>1 DEF SessionsFit, StrayWaits, UpIsLive
<1>16. Records' /\ MadeOnly' /\ OpenIsRegistered' /\ OutMeansDown'
  <2>1. Records'
    BY <1>1, <1>6, <1>10 DEF SessionsFit, Records
  <2>2. s \in made /\ Up(s)
    BY <1>1, <1>3, <1>4, <1>5, <1>9 DEF SessionsFit, MadeOnly, Up
  <2>3. MadeOnly'
    BY <1>1, <1>7, <1>10, <1>14, <2>2 DEF SessionsFit, MadeOnly, Up
  <2>4. OpenIsRegistered'
    BY <1>1, <1>4, <1>7, <1>10, <1>14 DEF SessionsFit, OpenIsRegistered
  <2>5. user # "LoggedOut"
    BY <1>1, <1>3, <1>4, <2>2 DEF SessionsFit, OutMeansDown
  <2> QED
    BY <1>7, <2>1, <2>3, <2>4, <2>5 DEF OutMeansDown
<1>17. StrayWaits' /\ UpIsLive'
  <2>1. \A u \in Sessions : Alive(u)' /\ Up(u)' => u = s /\ live = s
    BY <1>3, <1>4, <1>5, <1>9, <1>10, <1>14, <1>15 DEF Up
  <2> QED
    BY <1>4, <1>7, <2>1 DEF StrayWaits, UpIsLive
<1>18. Asked'
  <2>1. \A u \in requests' : u # s => u \in requests
    BY <1>7
  <2>2. s \in requests => r.st \in {"waiting", "inactive"}
    BY <1>1, <1>9 DEF SessionsFit, Asked
  <2> QED
    BY <1>1, <1>6, <1>7, <1>10, <2>1, <2>2 DEF SessionsFit, Asked, Types
<1>19. HeldIsKept'
  <2>1. /\ UNCHANGED <<user, realm>> /\ \A u \in Threads : realm[u] \in Sessions \cup {None}
    BY <1>1, <1>7 DEF SessionsFit, Types
  <2>2. \A u \in Sessions : Kept(u) => Kept(u)'
    BY <1>6, <1>9, <1>10 DEF Kept
  <2> QED
    BY <1>1, <2>1, <2>2 DEF SessionsFit, HeldIsKept
<1>20. Announced'
  BY <1>1, <1>6, <1>7, <1>10, <1>14 DEF SessionsFit, Announced
<1> QED
  BY <1>12, <1>13, <1>16, <1>17, <1>18, <1>19, <1>20 DEF SerialInv, SessionsFit

LEMMA InvalidateSerial ==
    ASSUME Types, Types', SerialInv, Invalidate
    PROVE  SerialInv'
<1> DEFINE t == Client
<1>1. Shapes /\ FramesFit /\ ForgetFits /\ SessionsFit /\ Held
  BY DEF SerialInv, SessionsFit
<1>2. Runs(t, "invalidate") /\ "invalidate" \notin Entering /\ t \in Actors
  BY DEF Invalidate, Entering, Actors
<1>3. /\ ~Idle(t) /\ \A u : ~At("revive", u) /\ ~Below("external", u)
      /\ \A do, u : Below(do, u) => do \in Leaving
      /\ At("invalidate", Top(t)) /\ Top(t) \in Sessions
  BY <1>1, <1>2, RunnerIs
<1>4. /\ UNCHANGED <<sess, registry, live, version, made, requests, realm, borrow>>
      /\ user' = "Error" /\ Push(t, << >>)
  BY DEF Invalidate, fixed, refs, asks, data
<1>5. Shapes' /\ Popped
  <2>1. stack' = [stack EXCEPT ![t] = Rest(t)]
    BY <1>2, <1>3, <1>4, NoFrames, Pushes
  <2> QED
    BY <1>1, <1>2, <1>3, <2>1, PopFrames
<1>6. FramesFit' /\ ForgetFits'
  <2>1. user # "LoggedOut"
    BY <1>1, <1>3 DEF FramesFit, Outcome, Pending
  <2>2. \A u \in Sessions : EndsWith(u, user')
    BY <1>1, <1>4, <2>1 DEF FramesFit, Outcome, EndsWith, Pending
  <2> QED
    BY <1>1, <1>3, <1>5, <2>2, PoppedFits
<1>7. Held'
  BY <1>1, <1>4 DEF Held
<1>8. \A u \in Sessions : \A do : Pending(do, u)' => Alive(u)
  BY <1>1, <1>5, PendingAlive DEF Popped, Pending
<1>9. \A u \in Sessions : Alive(u)' => Alive(u)
  BY <1>1, <1>4, <1>7, <1>8, AliveBefore
<1> USE <1>1 DEF SessionsFit
<1>10. Records' /\ MadeOnly' /\ Asked' /\ OpenIsRegistered'
  BY <1>4, <1>9 DEF Records, MadeOnly, Asked, OpenIsRegistered, Up
<1>11. StrayWaits' /\ UpIsLive'
  BY <1>3, <1>4, <1>9 DEF StrayWaits, UpIsLive, Up, OffRegistry
<1>12. OutMeansDown' /\ HeldIsKept' /\ Announced'
  BY <1>4, <1>9 DEF OutMeansDown, HeldIsKept, Announced, Told
<1> QED
  BY <1>5, <1>6, <1>7, <1>10, <1>11, <1>12 DEF SerialInv

\* Between calls there are no frames to fit.
LEMMA NoFramesFit ==
    ASSUME Types, Shapes, Resting, stack' = stack
    PROVE  /\ Shapes' /\ FramesFit' /\ ForgetFits'
           /\ \A do, s : ~At(do, s) /\ ~Below(do, s) /\ ~Pending(do, s)'
<1>1. \A do, s : ~At(do, s) /\ ~Below(do, s)
  BY NobodyRuns
<1>2. Shapes' /\ \A do, s : ~At(do, s)' /\ ~Below(do, s)' /\ ~Pending(do, s)'
  BY <1>1, SameFrames DEF Pending
<1> QED
  BY <1>1, <1>2 DEF FramesFit, ForgetFits, Outcome

LEMMA TokenSerial ==
    ASSUME Types, Types', SerialInv, ~overlap, NEW s \in Sessions, Token(s) \/ TokenLost(s)
    PROVE  SerialInv'
<1> DEFINE r == sess[s]
<1>1. Shapes /\ FramesFit /\ ForgetFits /\ SessionsFit /\ Held
  BY DEF SerialInv, SessionsFit
<1>2. Resting /\ s \in requests /\ requests' = requests \ {s} /\ stack' = stack
  BY DEF Token, TokenLost, BetweenCalls, Resting
<1>3. UNCHANGED <<registry, user, live, version, made, realm, borrow>>
  BY DEF Token, TokenLost, fixed, users, refs, data
<1>4. Shapes' /\ FramesFit' /\ ForgetFits' /\ \A do, u : ~At(do, u) /\ ~Pending(do, u)'
  BY <1>1, <1>2, NoFramesFit
<1>5. Held'
  BY <1>1, <1>3 DEF Held
<1>6. \A u \in Sessions : Alive(u)' => Alive(u) /\ (u = s => s = registry)
  BY <1>1, <1>2, <1>3, <1>4, <1>5, AliveMeansNext, PendingAlive
<1>7. /\ r \in SessionRecords /\ RecordFits(r) /\ Alive(s) /\ version \in Nat
      /\ Told(r, version, user = "Active")
  BY <1>1, <1>2, PendingAlive DEF SessionsFit, Records, Announced, Types
<1>8. PICK q \in {r, Refreshed(r)} : sess' = [sess EXCEPT ![s] = q]
  BY DEF Token, TokenLost, Types
<1>9. /\ RecordFits(q) /\ Told(q, version, user = "Active")
      /\ q.st # "inactive" => r.st # "inactive"
      /\ q = r \/ (r.st = "waiting" /\ (~r.deferClose => q.st = "active"))
  <2>1. CASE q = r
    BY <1>7, <2>1
  <2>2. CASE q # r
    <3>1. q = Refreshed(r) /\ r.st = "waiting"
      BY <2>2 DEF Refreshed
    <3>2. (user = "Active") \in BOOLEAN
      OBVIOUS
    <3>3. /\ RecordFits(Refreshed(r)) /\ Told(Refreshed(r), version, user = "Active")
          /\ ~r.deferClose => Refreshed(r).st = "active"
      BY <1>7, <3>1, <3>2, RefreshedCore
    <3> QED
      BY <3>1, <3>3
  <2> QED
    BY <2>1, <2>2
<1>10. sess'[s] = q /\ \A u \in Sessions : u # s => sess'[u] = sess[u]
  BY <1>8 DEF Types
<1>11. r = sess[s]
  OBVIOUS
<1> HIDE DEF r
<1>12. \A u \in Sessions : Up(u)' => Up(u)
  BY <1>9, <1>10, <1>11 DEF Up
<1> USE <1>1 DEF SessionsFit
<1>13. Records' /\ MadeOnly' /\ OpenIsRegistered' /\ Asked'
  <2>1. Records'
    BY <1>9, <1>10 DEF Records
  <2>2. s \in made
    BY <1>7 DEF MadeOnly
  <2>3. MadeOnly'
    BY <1>3, <1>6, <1>10, <1>12, <2>2 DEF MadeOnly
  <2>4. OpenIsRegistered'
    BY <1>3, <1>6, <1>10 DEF OpenIsRegistered
  <2>5. Asked'
    BY <1>2, <1>10 DEF Asked, Types
  <2> QED
    BY <2>1, <2>3, <2>4, <2>5
<1>14. StrayWaits' /\ UpIsLive' /\ OutMeansDown'
  <2>1. OffRegistry => OffRegistry'
    BY <1>3, <1>9, <1>10, <1>11 DEF OffRegistry, Types
  <2> QED
    BY <1>2, <1>3, <1>4, <1>6, <1>12, <2>1 DEF StrayWaits, UpIsLive, OutMeansDown
<1>15. HeldIsKept'
  BY <1>3, <1>9, <1>10, <1>11 DEF HeldIsKept, Kept, Types
<1>16. Announced'
  BY <1>3, <1>6, <1>9, <1>10 DEF Announced
<1> QED
  BY <1>4, <1>5, <1>13, <1>14, <1>15, <1>16 DEF SerialInv

LEMMA ReconnectSerial ==
    ASSUME Types, Types', SerialInv, ~overlap, Reconnect
    PROVE  SerialInv'
<1>1. Shapes /\ FramesFit /\ ForgetFits /\ SessionsFit /\ Held
  BY DEF SerialInv, SessionsFit
<1>2. /\ Resting /\ registry \in Sessions /\ sess[registry].st = "waiting"
      /\ requests' = {registry} /\ stack' = stack
  BY DEF Reconnect, BetweenCalls, Resting, Types
<1>3. UNCHANGED <<sess, registry, user, live, version, made, realm, borrow>>
  BY DEF Reconnect, fixed, users, refs, data
<1>4. Shapes' /\ FramesFit' /\ ForgetFits' /\ \A do, u : ~At(do, u) /\ ~Pending(do, u)'
  BY <1>1, <1>2, NoFramesFit
<1>5. Held'
  BY <1>1, <1>3 DEF Held
<1>6. \A u \in Sessions : Alive(u)' => Alive(u) /\ u = registry
  BY <1>1, <1>2, <1>3, <1>4, <1>5, AliveMeansNext, PendingAlive
<1> USE <1>1 DEF SessionsFit
<1>7. Records' /\ MadeOnly' /\ OpenIsRegistered' /\ Asked' /\ OutMeansDown'
  BY <1>2, <1>3, <1>6 DEF Records, MadeOnly, OpenIsRegistered, Asked, OutMeansDown, Up
<1>8. StrayWaits' /\ UpIsLive' /\ HeldIsKept' /\ Announced'
  BY <1>3, <1>4, <1>6 DEF StrayWaits, UpIsLive, HeldIsKept, Kept, Announced, Up
<1> QED
  BY <1>4, <1>5, <1>7, <1>8 DEF SerialInv

LEMMA CommitSerial ==
    ASSUME Types, Types', SerialInv, ~overlap, NEW t \in Threads, Commit(t)
    PROVE  SerialInv'
<1> DEFINE s == realm[t]
           r == sess[s]
           v == version + 1
           q == Notified(r, v)
<1>1. Shapes /\ FramesFit /\ ForgetFits /\ SessionsFit /\ Held
  BY DEF SerialInv, SessionsFit
<1>2. Resting /\ s \in Sessions /\ s = registry /\ stack' = stack /\ version' = v
  BY <1>1 DEF Commit, MayStart, Resting, Types, Held
<1>3. UNCHANGED <<registry, user, live, requests, made, realm, borrow>>
  BY DEF Commit, fixed, users, refs, asks
<1>4. sess' = [sess EXCEPT ![s] = q]
  BY <1>2 DEF Commit, Types
<1>5. Shapes' /\ FramesFit' /\ ForgetFits' /\ \A do, u : ~At(do, u) /\ ~Pending(do, u)'
  BY <1>1, <1>2, NoFramesFit
<1>6. Held'
  BY <1>1, <1>3 DEF Held
<1>7. \A u \in Sessions : Alive(u)' => Alive(u)
  BY <1>1, <1>3, <1>5, <1>6, AliveBefore
<1>8. /\ r \in SessionRecords /\ RecordFits(r) /\ v \in Nat /\ v > 0
      /\ user = "Active" => r.st # "dying"
  BY <1>1, <1>2, SyncSessionAssumption DEF SessionsFit, Records, Types, HeldIsKept, Kept
<1>9. r = sess[s]
  OBVIOUS
<1> HIDE DEF r, v
<1>10. /\ RecordFits(q) /\ Told(q, v, user = "Active")
       /\ q.st = r.st /\ q.open = r.open /\ q.deferClose = r.deferClose
  BY <1>8, NotifiedCore
<1> HIDE DEF q, s
<1>11. sess'[s] = q /\ \A u \in Sessions : u # s => sess'[u] = sess[u]
  BY <1>2, <1>4 DEF Types
<1>12. \A u \in Sessions : (Up(u)' <=> Up(u)) /\ (Kept(u)' <=> Kept(u)) /\ sess'[u].st = sess[u].st
                           /\ sess'[u].open = sess[u].open
  BY <1>9, <1>10, <1>11 DEF Up, Kept
<1>13. OffRegistry <=> OffRegistry'
  BY <1>2, <1>3, <1>12 DEF OffRegistry
<1> USE <1>1 DEF SessionsFit
<1>14. Records' /\ MadeOnly' /\ OpenIsRegistered' /\ Asked'
  <2>1. Records'
    BY <1>10, <1>11 DEF Records
  <2> QED
    BY <1>3, <1>7, <1>12, <2>1 DEF MadeOnly, OpenIsRegistered, Asked, Types
<1>15. StrayWaits' /\ UpIsLive' /\ OutMeansDown'
  BY <1>3, <1>5, <1>7, <1>12, <1>13 DEF StrayWaits, UpIsLive, OutMeansDown
<1>16. HeldIsKept'
  BY <1>3, <1>12 DEF HeldIsKept, Types
<1>17. Announced'
  <2> SUFFICES ASSUME NEW u \in Sessions, Alive(u)
               PROVE  Told(sess'[u], v, user = "Active")
    BY <1>2, <1>3, <1>7 DEF Announced
  <2>1. CASE u = s
    BY <1>10, <1>11, <2>1
  <2>2. CASE u # s
    <3>1. ~sess[u].open /\ RecordFits(sess[u])
      BY <1>2, <2>2 DEF OpenIsRegistered, Records
    <3> QED
      BY <1>11, <2>2, <3>1 DEF RecordFits, Told
  <2> QED
    BY <2>1, <2>2
<1> QED
  BY <1>5, <1>6, <1>14, <1>15, <1>16, <1>17 DEF SerialInv

\* The first frames of a call.
LEMMA LogInFrames ==
    ASSUME Types, Shapes, Resting, NEW t \in Actors, NEW s \in Sessions,
           stack' = [stack EXCEPT ![t] = <<Frame("revive", s)>>]
    PROVE  /\ Shapes'
           /\ \A do, u : At(do, u)' <=> do = "revive" /\ u = s
           /\ \A do, u : ~Below(do, u)'
           /\ \A do, u : Pending(do, u)' => do = "revive" /\ u = s
<1> DEFINE f == Frame("revive", s)
<1>1. Rest(t) = << >> /\ \A do, u : ~At(do, u) /\ ~Below(do, u)
  BY NobodyRuns
<1>2. f \in SessionFrames /\ f.do = "revive" /\ f.s = s /\ "revive" \in Entering
  BY DEF Frame, SessionFrames, Frames, Entering
<1> HIDE DEF f
<1>3. <<f>> \o Rest(t) = <<f>>
  BY <1>1, <1>2, ConcatEmptySeq
<1>4. stack' = [stack EXCEPT ![t] = <<f>> \o Rest(t)]
  BY <1>3 DEF f
<1>5. Shapes' /\ Topped("revive", s)
  BY <1>2, <1>4, EntersOnce
<1> QED
  BY <1>1, <1>5 DEF Topped, Pending

LEMMA GetSessionFrames ==
    ASSUME Types, Shapes, Resting, NEW t \in Actors, NEW s \in Sessions,
           NEW e \in {"external", "release"},
           stack' = [stack EXCEPT ![t] = <<Frame("register", s), Frame(e, s)>>]
    PROVE  /\ Shapes'
           /\ \A do, u : At(do, u)' <=> do = "register" /\ u = s
           /\ \A do, u : Pending(do, u)' => do \in {"register", "external", "release"} /\ u = s
<1> DEFINE f == Frame("register", s)
           g == Frame(e, s)
<1>1. /\ f \in SessionFrames /\ f.do = "register" /\ f.s = s /\ "register" \in Entering
      /\ g \in SessionFrames /\ g.do = e /\ g.s = s /\ e \in Leaving
  BY DEF Frame, SessionFrames, Frames, Entering, Leaving
<1> HIDE DEF f, g
<1>2. stack' = [stack EXCEPT ![t] = <<f, g>>]
  BY DEF f, g
<1>3. f.do \in Entering /\ g.do \in Leaving /\ g.s = f.s
  BY <1>1
<1>4. Shapes' /\ ToppedTwice(f.do, f.s, g.do, g.s)
  BY <1>1, <1>2, <1>3, EntersTwice
<1>5. \A do, u : ~At(do, u) /\ ~Below(do, u)
  BY NobodyRuns
<1> QED
  BY <1>1, <1>4, <1>5 DEF ToppedTwice, Pending

\* log_out keeps the session it met, once that is unregistered if it fell.
LEMMA LogOutFrames ==
    ASSUME Types, Shapes, Resting, NEW t \in Actors, NEW s \in Sessions, NEW q \in SessionRecords,
           q.st = "inactive", Section(t, s, q, <<Frame("keep", s)>>)
    PROVE  /\ Shapes' /\ Pending("keep", s)'
           /\ \A do, u : Pending(do, u)' => do \in {"keep", "unregister", "cancel"} /\ u = s
<1> DEFINE r == sess[s]
           k == Frame("keep", s)
           a == Frame("unregister", s)
           c == [do |-> "cancel", s |-> s, ws |-> r.queue]
<1>1. /\ k \in SessionFrames /\ k.do = "keep" /\ k.s = s
      /\ a \in SessionFrames /\ a.do = "unregister" /\ a.s = s
      /\ c \in SessionFrames /\ c.do = "cancel" /\ c.s = s
      /\ "keep" \in Leaving \ {"external"} /\ "cancel" \in Leaving \ {"external"}
      /\ "keep" \notin Entering /\ "unregister" \notin Entering
  <2>1. r \in SessionRecords
    BY DEF Types
  <2> QED
    BY <2>1 DEF Frame, SessionFrames, Frames, Leaving, Entering, SessionRecords
<1>2. stack' = [stack EXCEPT ![t] = IF r.st # "inactive" THEN <<a, c>> \o <<k>> ELSE <<k>>]
  BY DEF Section
<1>3. Idle(t) /\ Rest(t) = << >> /\ \A do, u : ~At(do, u) /\ ~Below(do, u)
  BY NobodyRuns
<1> HIDE DEF a, c, k
<1>4. CASE r.st = "inactive"
  <2>1. <<k>> \o Rest(t) = <<k>>
    BY <1>1, <1>3, ConcatEmptySeq
  <2>2. stack' = [stack EXCEPT ![t] = <<k>> \o Rest(t)]
    BY <1>2, <1>4, <2>1
  <2>3. Shapes' /\ Topped("keep", s)
    BY <1>1, <1>3, <2>2, GoesOnOnce
  <2> QED
    BY <1>3, <2>3 DEF Topped, Pending
<1>5. CASE r.st # "inactive"
  <2> DEFINE p == <<a, c>> \o <<k>>
  <2>1. /\ p \in Seq(SessionFrames) /\ p # << >> /\ Len(p) = 3
        /\ p[1] = a /\ p[2] = c /\ p[3] = k
    BY <1>1, ThreeFrames
  <2> HIDE DEF p
  <2>2. p \o Rest(t) = p
    BY <1>3, <2>1, ConcatEmptySeq
  <2>3. stack' = [stack EXCEPT ![t] = p \o Rest(t)]
    BY <1>2, <1>5, <2>2 DEF p
  <2>4. 2..Len(p) = {2, 3}
    BY <2>1
  <2>5. Shapes'
    BY <1>1, <1>3, <2>1, <2>3, <2>4, GoesOn
  <2>6. /\ \A do, u : At(do, u)' <=> First(p[1], do, u)
        /\ \A do, u : Below(do, u)' <=> Below(do, u) \/ \E i \in 2..Len(p) : First(p[i], do, u)
    BY <2>1, <2>3, NewFrames
  <2> QED
    BY <1>1, <1>3, <2>1, <2>4, <2>5, <2>6 DEF Pending, First
<1> QED
  BY <1>4, <1>5

LEMMA LogInSerial ==
    ASSUME Types, Types', SerialInv, ~overlap, NEW t \in Threads, LogIn(t)
    PROVE  SerialInv'
<1>1. Shapes /\ FramesFit /\ ForgetFits /\ SessionsFit /\ Held
  BY DEF SerialInv, SessionsFit
<1>2. t \in Actors /\ Resting /\ user = "LoggedOut" /\ user' = "Active"
  BY DEF LogIn, MayStart, Actors, Resting
<1>3. Idle(t) /\ Rest(t) = << >> /\ \A do, u : ~At(do, u) /\ ~Below(do, u)
  BY <1>1, <1>2, NobodyRuns
<1>4. UNCHANGED <<sess, registry, version, made, requests, realm, borrow>>
  BY DEF LogIn, refs, asks, data
<1>5. \A u \in Sessions : Alive(u) => sess[u].st = "inactive"
  BY <1>1, <1>2 DEF SessionsFit, OutMeansDown, Up
<1>6. OffRegistry'
  BY <1>1, <1>4, <1>5, PendingAlive DEF OffRegistry, Types
<1>7. Held'
  BY <1>1, <1>4 DEF Held
<1>8. /\ Shapes' /\ FramesFit' /\ ForgetFits'
      /\ \A u \in Sessions : \A do : Pending(do, u)' => Alive(u)
  <2>1. CASE UNCHANGED <<live, stack>>
    BY <1>1, <1>2, <2>1, NoFramesFit
  <2>2. CASE /\ waiting # None /\ Alive(waiting) /\ live' = waiting
             /\ stack' = [stack EXCEPT ![t] = <<Frame("revive", waiting)>>]
    <3> DEFINE s == waiting
    <3>1. s \in Sessions
      BY <2>2 DEF Types
    <3>2. /\ Shapes' /\ \A do, u : At(do, u)' <=> do = "revive" /\ u = s
          /\ \A do, u : Pending(do, u)' => do = "revive" /\ u = s
      BY <1>1, <1>2, <2>2, <3>1, LogInFrames
    <3>3. "revive" \notin AllErrors
      BY DEF AllErrors
    <3>4. ForgetFits' /\ \A u \in Sessions : Outcome(u)'
      BY <3>2 DEF ForgetFits, Outcome
    <3>5. FramesFit'
      BY <1>2, <1>6, <2>2, <3>2, <3>3, <3>4 DEF FramesFit
    <3> QED
      BY <2>2, <3>2, <3>4, <3>5
  <2> QED
    BY <2>1, <2>2 DEF LogIn
<1>9. \A u \in Sessions : Alive(u)' => Alive(u) /\ sess'[u].st = "inactive"
  BY <1>1, <1>4, <1>5, <1>7, <1>8, AliveBefore
<1> USE <1>1 DEF SessionsFit
<1>10. Records' /\ MadeOnly' /\ OpenIsRegistered' /\ Asked'
  BY <1>4, <1>9 DEF Records, MadeOnly, OpenIsRegistered, Asked, Up
<1>11. StrayWaits' /\ UpIsLive' /\ OutMeansDown' /\ Announced'
  BY <1>9 DEF StrayWaits, UpIsLive, OutMeansDown, Announced, Up, Told
<1>12. HeldIsKept'
  BY <1>4, <1>5, PendingAlive DEF HeldIsKept, Kept, Types
<1> QED
  BY <1>7, <1>8, <1>10, <1>11, <1>12 DEF SerialInv

LEMMA LogOutSerial ==
    ASSUME Types, Types', SerialInv, ~overlap, NEW t \in Threads, LogOut(t)
    PROVE  SerialInv'
<1>1. Shapes /\ FramesFit /\ ForgetFits /\ SessionsFit /\ Held
  BY DEF SerialInv, SessionsFit
<1>2. t \in Actors /\ Resting /\ user' = "LoggedOut"
  BY DEF LogOut, MayStart, Actors, Resting
<1>3. Idle(t) /\ Rest(t) = << >> /\ \A do, u : ~At(do, u) /\ ~Below(do, u)
  BY <1>1, <1>2, NobodyRuns
<1>4. UNCHANGED <<registry, live, version, made, requests, realm, borrow>>
  BY DEF LogOut, refs, asks, data
<1>5. \A u \in Sessions : Alive(u) /\ Up(u) => u = live
  BY <1>1, <1>3 DEF SessionsFit, UpIsLive
<1>6. Held'
  BY <1>1, <1>4 DEF Held
(* Whoever it meets, nobody who is alive is up afterwards, and the frames say so. *)
<1>7. /\ \A u \in Sessions : sess'[u] = sess[u] \/ (RecordFits(sess'[u]) /\ sess'[u].st = "inactive")
      /\ \A u \in Sessions : Alive(u) => sess'[u].st = "inactive"
      /\ Shapes' /\ \A do, u : Pending(do, u)' => do \in {"keep", "forget", "unregister", "cancel"}
      /\ \A u \in Sessions : \A do : Pending(do, u)' => Alive(u)
  <2>1. CASE live # None /\ Alive(live)
    <3> DEFINE s == live
               r == sess[s]
               q == LoggedOut(r)
    <3>1. s \in Sessions /\ r \in SessionRecords /\ q \in SessionRecords
      BY <2>1, LoggedOutProperties DEF Types
    <3>2. Section(t, s, q, <<Frame("keep", s)>>)
      BY <2>1 DEF LogOut
    <3>3. q.st = "inactive" /\ RecordFits(q)
      BY <1>1, <3>1, ToInactiveCore DEF LoggedOut, RecordFits, SessionsFit, Records
    <3> HIDE DEF q
    <3>4. /\ Shapes'
          /\ \A do, u : Pending(do, u)' => do \in {"keep", "unregister", "cancel"} /\ u = s
      BY <1>1, <1>2, <3>1, <3>2, <3>3, LogOutFrames
    <3>5. sess'[s] = q /\ \A u \in Sessions : u # s => sess'[u] = sess[u]
      BY <3>1, <3>2 DEF Section, Types
    <3> QED
      BY <1>5, <2>1, <3>1, <3>3, <3>4, <3>5 DEF Up
  <2>2. CASE ~(live # None /\ Alive(live))
    <3> DEFINE f == Frame("forget", None)
    <3>1. stack' = [stack EXCEPT ![t] = <<f>>] /\ sess' = sess
      BY <2>2 DEF LogOut
    <3>2. /\ f \in SessionFrames /\ f.do = "forget" /\ f.s = None /\ "forget" \notin Entering
          /\ None \notin Sessions
      BY SyncSessionAssumption DEF Frame, SessionFrames, Frames, Entering
    <3> HIDE DEF f
    <3>3. <<f>> \o Rest(t) = <<f>>
      BY <1>3, <3>2, ConcatEmptySeq
    <3>4. stack' = [stack EXCEPT ![t] = <<f>> \o Rest(t)]
      BY <3>1, <3>3
    <3>5. Shapes' /\ Topped("forget", None)
      BY <1>1, <1>2, <1>3, <3>2, <3>4, GoesOnOnce
    <3>6. \A do, u : Pending(do, u)' => do = "forget" /\ u = None
      BY <1>3, <3>5 DEF Topped, Pending
    <3> QED
      BY <1>5, <2>2, <3>1, <3>2, <3>5, <3>6 DEF Up
  <2> QED
    BY <2>1, <2>2
<1>8. OffRegistry'
  BY <1>1, <1>4, <1>7, PendingAlive DEF OffRegistry, Types
<1>9. FramesFit' /\ ForgetFits'
  <2>1. \A do, u : At(do, u)' => do \in {"keep", "forget", "unregister", "cancel"}
    BY <1>7 DEF Pending
  <2>2. /\ \A e \in AllErrors : e \notin {"keep", "forget", "unregister", "cancel"}
        /\ ForgetFits'
    BY <1>2 DEF AllErrors, ForgetFits
  <2>3. \A u \in Sessions : Outcome(u)' /\ ~Pending("external", u)'
    BY <1>2, <1>7 DEF Outcome
  <2>4. \A u \in Sessions : /\ ~At("register", u)' /\ ~At("drop", u)' /\ ~At("giveback", u)'
                            /\ ~At("revive", u)' /\ ~At("external", u)'
                            /\ \A e \in AllErrors : ~At(e, u)'
    BY <2>1, <2>2
  <2> QED
    BY <1>8, <2>2, <2>3, <2>4 DEF FramesFit
<1>10. \A u \in Sessions : Alive(u)' => Alive(u) /\ sess'[u].st = "inactive"
  BY <1>1, <1>4, <1>6, <1>7, AliveBefore
<1> USE <1>1 DEF SessionsFit
<1>11. Records' /\ MadeOnly' /\ Asked'
  BY <1>4, <1>7, <1>10 DEF Records, MadeOnly, Asked, Up, Types, RecordFits
<1>12. OpenIsRegistered'
  BY <1>10, <1>11 DEF OpenIsRegistered, Records, RecordFits
<1>13. StrayWaits' /\ UpIsLive' /\ OutMeansDown' /\ Announced' /\ HeldIsKept'
  BY <1>2, <1>10 DEF StrayWaits, UpIsLive, OutMeansDown, Announced, HeldIsKept, Up, Told
<1> QED
  BY <1>6, <1>7, <1>9, <1>11, <1>12, <1>13 DEF SerialInv

LEMMA GetSessionSerial ==
    ASSUME Types, Types', SerialInv, ~overlap, NEW t \in Threads, GetSession(t)
    PROVE  SerialInv'
<1>1. Shapes /\ FramesFit /\ ForgetFits /\ SessionsFit /\ Held
  BY DEF SerialInv, SessionsFit
<1>2. t \in Actors /\ Resting
  BY DEF GetSession, MayStart, Actors, Resting
<1>3. Idle(t) /\ \A do, u : ~At(do, u) /\ ~Below(do, u)
  BY <1>1, <1>2, NobodyRuns
<1>4. UNCHANGED <<sess, user, live, version, requests, borrow>>
  BY DEF GetSession, users, asks, data
<1>5. ASSUME NEW s \in Sessions, NEW e \in {"external", "release"}, registry' = s,
             stack' = [stack EXCEPT ![t] = <<Frame("register", s), Frame(e, s)>>]
      PROVE  /\ Shapes' /\ FramesFit' /\ ForgetFits' /\ \A do, u : At(do, u)' => do = "register"
             /\ \A do, u : Pending(do, u)' => u = s
  <2>1. /\ Shapes' /\ \A do, u : At(do, u)' <=> do = "register" /\ u = s
        /\ \A do, u : Pending(do, u)' => do \in {"register", "external", "release"} /\ u = s
    BY <1>1, <1>2, <1>5, GetSessionFrames
  <2>2. "register" \notin AllErrors
    BY DEF AllErrors
  <2>3. ForgetFits' /\ \A u \in Sessions : Outcome(u)'
    BY <2>1 DEF ForgetFits, Outcome
  <2>4. FramesFit'
    BY <1>5, <2>1, <2>2, <2>3 DEF FramesFit
  <2> QED
    BY <2>1, <2>3, <2>4
<1>6. CASE registry # None
  <2> DEFINE s == registry
  <2>1. /\ s \in Sessions /\ UNCHANGED <<made, registry, realm>>
        /\ stack' = [stack EXCEPT ![t] = <<Frame("register", s), Frame("external", s)>>]
    BY <1>6 DEF GetSession, Types
  <2>2. /\ Shapes' /\ FramesFit' /\ ForgetFits' /\ \A do, u : At(do, u)' => do = "register"
        /\ \A do, u : Pending(do, u)' => u = s
    BY <1>5, <2>1
  <2>3. Held'
    BY <1>1, <1>4, <2>1 DEF Held
  <2>4. \A u \in Sessions : \A do : Pending(do, u)' => Alive(u)
    BY <1>1, <2>2, PendingAlive
  <2>5. \A u \in Sessions : Alive(u)' => Alive(u)
    BY <1>1, <1>4, <2>1, <2>3, <2>4, AliveBefore
  <2>6. UpIsLive'
    BY <1>1, <1>3, <1>4, <2>5 DEF SessionsFit, UpIsLive, Up
  <2>7. user = "Active" => \A u \in Threads : realm'[u] # None => Kept(realm'[u])
    BY <1>1, <2>1 DEF SessionsFit, HeldIsKept
  <2>8. SessionsFit'
    BY <1>1, <1>4, <2>1, <2>3, <2>4, <2>6, <2>7, SameSessions
  <2> QED
    BY <2>2, <2>8 DEF SerialInv
<1>7. CASE registry = None
  <2>1. PICK s \in Sessions \ made :
             /\ made' = made \cup {s} /\ registry' = s
             /\ realm' = [realm EXCEPT ![t] = s]
             /\ stack' = [stack EXCEPT ![t] = <<Frame("register", s), Frame("release", s)>>]
    BY <1>7 DEF GetSession
  <2>2. /\ Shapes' /\ FramesFit' /\ ForgetFits' /\ \A do, u : At(do, u)' => do = "register"
        /\ \A do, u : Pending(do, u)' => u = s
    BY <1>5, <2>1
  <2>3. Held' /\ \A u \in Threads : realm'[u] \in {s, None}
    BY <1>1, <1>4, <1>7, <2>1 DEF Held, Types
  <2>4. \A u \in Sessions : Alive(u)' => Alive(u) \/ u = s
    BY <1>1, <1>4, <2>1, <2>2, <2>3, AliveMeansNext, PendingAlive
  <2>5. ~Alive(s) /\ sess[s].st = "inactive" /\ ~sess[s].open
    BY <1>1, <2>1 DEF SessionsFit, MadeOnly, Up
  <2> USE <1>1 DEF SessionsFit
  <2>6. Records' /\ MadeOnly' /\ Asked'
    BY <1>4, <2>1, <2>4 DEF Records, MadeOnly, Asked, Up
  <2>7. OpenIsRegistered' /\ OutMeansDown'
    BY <1>4, <1>7, <2>1, <2>4, <2>5, SyncSessionAssumption DEF OpenIsRegistered, OutMeansDown, Up
  <2>8. StrayWaits'
    BY <1>4, <1>7, <2>1, <2>4, <2>5, SyncSessionAssumption DEF StrayWaits, Up, OffRegistry
  <2>9. UpIsLive'
    BY <1>3, <1>4, <2>4, <2>5 DEF UpIsLive, Up
  <2>10. HeldIsKept' /\ Announced'
    BY <1>4, <2>1, <2>3, <2>4, <2>5 DEF HeldIsKept, Kept, Announced, Told
  <2> QED
    BY <2>2, <2>3, <2>6, <2>7, <2>8, <2>9, <2>10 DEF SerialInv
<1> QED
  BY <1>6, <1>7

-----------------------------------------------------------------------------
(* The invariant, and what it says of the system. *)

LEMMA SerialInit ==
    ASSUME Init
    PROVE  SerialInv
<1>1. \A t \in Actors : stack[t] = << >> /\ 2..Len(stack[t]) = {}
  BY DEF Init
<1>2. \A do, s : ~At(do, s) /\ ~Below(do, s) /\ ~Pending(do, s)
  BY <1>1 DEF At, Below, Pending
<1>3. Shapes
  BY <1>1 DEF Shapes, OneRunner, Shape
<1>4. FramesFit /\ ForgetFits
  BY <1>2 DEF FramesFit, ForgetFits, Outcome
<1>5. \A s \in Sessions : sess[s].st = "inactive" /\ ~sess[s].open
  BY DEF Init, NewSession
<1>6. \A s \in Sessions : ~Alive(s)
  BY <1>1, SyncSessionAssumption DEF Init, Alive, Expired
<1>7. SessionsFit
  BY <1>5, <1>6 DEF Init, SessionsFit, Records, RecordFits, MadeOnly, Held, OpenIsRegistered,
     Asked, StrayWaits, UpIsLive, OutMeansDown, HeldIsKept, Announced, Up
<1> QED
  BY <1>3, <1>4, <1>7 DEF SerialInv

LEMMA OverlapStays ==
    ASSUME Next
    PROVE  overlap' = overlap
<1>1. ASSUME NEW t \in Threads, AppStep(t)
      PROVE  overlap' = overlap
  BY <1>1 DEF AppStep, GetSession, LetGo, LogOut, LogIn, Commit, WaitForCompletion, fixed
<1>2. ASSUME NEW t \in Actors, Continue(t)
      PROVE  overlap' = overlap
  BY <1>2 DEF Continue, Register, Revive, TakeReference, Release, DidDrop, Unregister, GiveBack,
     Cancel, LogOutEnds, fixed
<1>3. ASSUME ClientStep
      PROVE  overlap' = overlap
  BY <1>3 DEF ClientStep, Upload, Uploaded, Complete, TokenExpired, CancelWaits, Invalidate,
     Denied, fixed
<1>4. ASSUME NEW s \in Sessions, Token(s) \/ TokenLost(s) \/ \E e \in AllErrors : Error(s, e)
      PROVE  overlap' = overlap
  BY <1>4 DEF Token, TokenLost, Error, fixed
<1>5. Reconnect => overlap' = overlap
  BY DEF Reconnect, fixed
<1> QED
  BY <1>1, <1>2, <1>3, <1>4, <1>5 DEF Next

LEMMA SerialStep ==
    ASSUME Types, Types', ~overlap => SerialInv, [Next]_vars
    PROVE  ~overlap' => SerialInv'
<1> SUFFICES ASSUME ~overlap'
             PROVE  SerialInv'
  OBVIOUS
<1>1. CASE UNCHANGED vars
  <2>1. ~overlap /\ SerialInv
    BY <1>1 DEF vars
  <2>2. /\ UNCHANGED <<sess, registry, user, live, version, made, requests, borrow>>
        /\ realm' = realm /\ stack' = stack
    BY <1>1 DEF vars
  <2> QED
    BY <2>1, <2>2, LikeStep DEF Like
<1>2. CASE Next
  <2>1. ~overlap /\ SerialInv
    BY <1>2, OverlapStays
  <2>2. ASSUME NEW t \in Threads, AppStep(t)
        PROVE  SerialInv'
    <3>1. ASSUME NEW w \in Waits, WaitForCompletion(t, w)
          PROVE  SerialInv'
      BY <2>1, <3>1, WaitForCompletionSerial
    <3> QED
      BY <2>1, <2>2, <3>1, GetSessionSerial, LetGoSerial, LogOutSerial, LogInSerial, CommitSerial
         DEF AppStep
  <2>3. ASSUME NEW t \in Actors, Continue(t)
        PROVE  SerialInv'
    BY <2>1, <2>3, RegisterSerial, ReviveSerial, TakeReferenceSerial, ReleaseOrCancelSerial,
       DidDropSerial, UnregisterSerial, GiveBackSerial, LogOutEndsSerial DEF Continue
  <2>4. ASSUME ClientStep
        PROVE  SerialInv'
    <3>1. ASSUME NEW s \in Sessions, NEW w \in Waits, Complete(s, w)
          PROVE  SerialInv'
      BY <2>1, <3>1, CompleteSerial
    <3>2. ASSUME NEW s \in Sessions, Upload(s)
          PROVE  SerialInv'
      BY <2>1, <3>2, UploadSerial
    <3>3. ASSUME NEW s \in Sessions, NEW u \in sess[s].uploads, Uploaded(s, u)
          PROVE  SerialInv'
      BY <2>1, <3>3, UploadedSerial
    <3> QED
      BY <2>1, <2>4, <3>1, <3>2, <3>3, TokenExpiredSerial, CancelWaitsSerial, InvalidateSerial,
         DeniedSerial DEF ClientStep
  <2>5. ASSUME NEW s \in Sessions, Token(s) \/ TokenLost(s)
        PROVE  SerialInv'
    BY <2>1, <2>5, TokenSerial
  <2>6. ASSUME NEW s \in Sessions, NEW e \in AllErrors, Error(s, e)
        PROVE  SerialInv'
    BY <2>1, <2>6, ErrorSerial
  <2>7. CASE Reconnect
    BY <2>1, <2>7, ReconnectSerial
  <2> QED
    BY <1>2, <2>2, <2>3, <2>4, <2>5, <2>6, <2>7 DEF Next
<1> QED
  BY <1>1, <1>2

LEMMA SerialInvariant == Spec => [](Types /\ (~overlap => SerialInv))
<1>1. Init => (~overlap => SerialInv)
  BY SerialInit
<1>2. Types /\ Types' /\ (~overlap => SerialInv) /\ [Next]_vars => (~overlap => SerialInv)'
  BY SerialStep
<1> QED
  BY <1>1, <1>2, SyncInvariant, PTL DEF Spec

(* After calls that did not overlap - opening and closing Realms, log-outs and
   log-ins, tokens and errors in any order - the sync client has one session open
   on the Realm file at most: a session that closes is unregistered before
   get_session makes another (sync_session.cpp:364-386, :628-667, :699-705;
   sync_manager.cpp:451-487). *)
THEOREM OneSessionOpen == Spec => []OneOpenSession
<1>1. SerialInv => \A s, u \in Sessions :
          Alive(s) /\ sess[s].open /\ Alive(u) /\ sess[u].open => s = u
  BY DEF SerialInv, SessionsFit, OpenIsRegistered
<1>2. (~overlap => SerialInv) => OneOpenSession
  BY <1>1 DEF OneOpenSession
<1> QED
  BY <1>2, SerialInvariant, PTL

(* After such calls a user who is logged out has no session that is up: log_out
   goes through the list the session that is up is in, and nothing brings one up
   until the next log-in (sync_user.cpp:148-185, :213-230; sync_session.cpp:342-345). *)
THEOREM LogOutQuiesces == Spec => []LoggedOutQuiesces
<1>1. SerialInv => (user = "LoggedOut" => \A s \in Sessions : Alive(s) => sess[s].st = "inactive")
  BY DEF SerialInv, SessionsFit, OutMeansDown, Up
<1>2. (~overlap => SerialInv) => LoggedOutQuiesces
  BY <1>1 DEF LoggedOutQuiesces
<1> QED
  BY <1>2, SerialInvariant, PTL

(* After such calls an active session has told the sync client of the newest
   commit, the ones made while it waited for a token included
   (sync_session.cpp:133-166, :192-198, :256-261). *)
THEOREM ActiveSessionsAreTold == Spec => []CommitsAnnounced
<1>1. SerialInv => \A s \in Sessions : Alive(s) /\ sess[s].st = "active" => sess[s].told = version
  BY DEF SerialInv, SessionsFit, Announced, Told
<1>2. (~overlap => SerialInv) => CommitsAnnounced
  BY <1>1 DEF CommitsAnnounced
<1> QED
  BY <1>2, SerialInvariant, PTL

-----------------------------------------------------------------------------
(* The session of an open Realm, when the server reports no error that ends the
   session or the user. *)

NoErrors == /\ user # "Error"
            /\ \A s : ~Pending("auth", s) /\ ~Pending("denied", s) /\ ~Pending("invalidate", s)
(* It is up, or the call that runs is about to bring it up. *)
HeldIsUp == user = "Active" => \A t \in Threads : realm[t] # None =>
    Up(realm[t]) \/ At("register", realm[t]) \/ At("revive", realm[t])
(* After a log-out it is in the list of the sessions the next log-in revives, or
   the call that runs puts it there. *)
HeldWaits == user = "LoggedOut" => \A t \in Threads : realm[t] # None =>
    /\ waiting = realm[t] \/ Pending("keep", realm[t]) \/ At("register", realm[t])
    /\ \A s : Pending("keep", s) => s = realm[t]
ExternalEnds == \A s : At("external", s) =>
    /\ user = "LoggedOut" => waiting = s
    /\ \A u : ~Pending("keep", u)
KeptInv == NoErrors /\ HeldIsUp /\ HeldWaits /\ ExternalEnds

(* Frames that neither bring a session up nor end a log-out. *)
Plain == {"release", "drop", "unregister", "giveback", "cancel", "expired", "fatal", "info"}
PlainStep ==
    /\ \A s : ~At("register", s) /\ ~At("revive", s) /\ ~At("external", s)'
    /\ user = "LoggedOut" => \A s : Pending("keep", s)' <=> Pending("keep", s)
    /\ \A s : /\ Pending("auth", s)' => Pending("auth", s)
              /\ Pending("denied", s)' => Pending("denied", s)
              /\ Pending("invalidate", s)' => Pending("invalidate", s)

LEMMA PlainFrames ==
    ASSUME Types, Shapes, NEW t \in Actors, ~Idle(t) \/ Resting,
           ~Idle(t) => Head(stack[t]).do \notin Entering \cup {"keep"},
           NEW p \in Seq(SessionFrames), \A i \in 1..Len(p) : p[i].do \in Plain,
           stack' = [stack EXCEPT ![t] = p \o Rest(t)]
    PROVE  PlainStep
<1>1. /\ \A do, s : At(do, s) => do \notin Entering \cup {"keep"}
      /\ \A s : ~Below("external", s)
  <2>1. CASE Resting
    BY <2>1, NobodyRuns
  <2>2. CASE ~Idle(t)
    <3>1. \A i \in 1..Len(Rest(t)) : Rest(t)[i].do # "external"
      BY <2>2, RestFrames
    <3>2. /\ \A do, s : Below(do, s) <=> \E i \in 1..Len(Rest(t)) : First(Rest(t)[i], do, s)
          /\ \A do, s : At(do, s) <=> ~Idle(t) /\ First(Head(stack[t]), do, s)
      BY <2>2, RunnerFrames
    <3> QED
      BY <2>2, <3>1, <3>2 DEF First
  <2> QED
    BY <2>1, <2>2
<1>2. \A s : ~At("register", s) /\ ~At("revive", s) /\ ~At("keep", s)
  BY <1>1 DEF Entering
<1>3. ASSUME \A do, s : At(do, s)' => Below(do, s) \/ do \in Plain,
             \A do, s : Pending(do, s)' => Below(do, s) \/ do \in Plain,
             \A do, s : Below(do, s) => Pending(do, s)'
      PROVE  PlainStep
  <2>1. \A s : ~At("external", s)'
    BY <1>1, <1>3 DEF Plain
  <2>2. \A s : /\ Pending("auth", s)' => Pending("auth", s)
               /\ Pending("denied", s)' => Pending("denied", s)
               /\ Pending("invalidate", s)' => Pending("invalidate", s)
    BY <1>3 DEF Plain, Pending
  <2>3. \A s : Pending("keep", s)' => Pending("keep", s)
    BY <1>3 DEF Plain, Pending
  <2>4. \A s : Pending("keep", s) => Pending("keep", s)'
    BY <1>2, <1>3 DEF Pending
  <2> QED
    BY <1>2, <2>1, <2>2, <2>3, <2>4 DEF PlainStep
<1>4. CASE p = << >>
  <2>1. Rest(t) \in Seq(SessionFrames)
    BY RunnerFrames
  <2>2. stack' = [stack EXCEPT ![t] = Rest(t)]
    BY <1>4, <2>1, ConcatEmptySeq
  <2>3. CASE ~Idle(t)
    <3>1. Popped
      BY <2>2, <2>3, PopFrames
    <3> QED
      BY <1>3, <3>1 DEF Popped, Pending
  <2>4. CASE Idle(t)
    <3>1. stack' = stack
      BY <2>2, <2>4 DEF Rest, Idle, Types
    <3>2. \A do, s : ~At(do, s) /\ ~Below(do, s)
      BY <2>4, NobodyRuns
    <3> QED
      BY <1>3, <3>1, <3>2, SameFrames DEF Pending
  <2> QED
    BY <2>3, <2>4
<1>5. CASE p # << >>
  <2>1. /\ \A do, s : At(do, s)' <=> First(p[1], do, s)
        /\ \A do, s : Below(do, s)' <=> Below(do, s) \/ \E i \in 2..Len(p) : First(p[i], do, s)
    BY <1>5, NewFrames
  <2>2. 1 \in 1..Len(p) /\ \A i \in 2..Len(p) : i \in 1..Len(p)
    BY <1>5, EmptySeq, LenProperties
  <2>3. /\ \A do, s : First(p[1], do, s) => do \in Plain
        /\ \A i \in 2..Len(p) : \A do, s : First(p[i], do, s) => do \in Plain
    BY <2>2 DEF First
  <2> QED
    BY <1>3, <2>1, <2>3 DEF Pending
<1> QED
  BY <1>4, <1>5

\* One frame at most on top of the rest.
LEMMA PlainFrame ==
    ASSUME Types, Shapes, NEW t \in Actors, ~Idle(t) \/ Resting,
           ~Idle(t) => Head(stack[t]).do \notin Entering \cup {"keep"},
           \/ stack' = [stack EXCEPT ![t] = Rest(t)]
           \/ \E f \in SessionFrames : f.do \in Plain /\ stack' = [stack EXCEPT ![t] = <<f>> \o Rest(t)]
    PROVE  PlainStep
<1>1. CASE stack' = [stack EXCEPT ![t] = Rest(t)]
  <2>1. Rest(t) \in Seq(SessionFrames)
    BY RunnerFrames
  <2>2. stack' = [stack EXCEPT ![t] = << >> \o Rest(t)]
    BY <1>1, <2>1, ConcatEmptySeq
  <2>3. << >> \in Seq(SessionFrames) /\ 1..Len(<< >>) = {}
    OBVIOUS
  <2> QED
    BY <2>2, <2>3, PlainFrames
<1>2. ASSUME NEW f \in SessionFrames, f.do \in Plain,
             stack' = [stack EXCEPT ![t] = <<f>> \o Rest(t)]
      PROVE  PlainStep
  <2> DEFINE p == <<f>>
  <2>1. p \in Seq(SessionFrames) /\ Len(p) = 1 /\ p[1] = f /\ 1..1 = {1}
    OBVIOUS
  <2>2. stack' = [stack EXCEPT ![t] = p \o Rest(t)]
    BY <1>2
  <2> HIDE DEF p
  <2>3. \A i \in 1..Len(p) : p[i].do \in Plain
    BY <1>2, <2>1
  <2> QED
    BY <2>1, <2>2, <2>3, PlainFrames
<1> QED
  BY <1>1, <1>2

LEMMA PlainFramesTwo ==
    ASSUME Types, Shapes, NEW t \in Actors, ~Idle(t) \/ Resting,
           ~Idle(t) => Head(stack[t]).do \notin Entering \cup {"keep"},
           NEW f \in SessionFrames, f.do \in Plain, NEW g \in SessionFrames, g.do \in Plain,
           stack' = [stack EXCEPT ![t] = <<f, g>> \o Rest(t)]
    PROVE  PlainStep
<1> DEFINE p == <<f, g>>
<1>1. p \in Seq(SessionFrames) /\ Len(p) = 2 /\ p[1] = f /\ p[2] = g /\ 1..2 = {1, 2}
  OBVIOUS
<1>2. stack' = [stack EXCEPT ![t] = p \o Rest(t)]
  OBVIOUS
<1> HIDE DEF p
<1>3. \A i \in 1..Len(p) : p[i].do \in Plain
  BY <1>1
<1> QED
  BY <1>1, <1>2, <1>3, PlainFrames

\* A section of a session's mutex, as such a step.
LEMMA PlainSection ==
    ASSUME Types, Shapes, NEW t \in Actors, ~Idle(t) \/ Resting,
           ~Idle(t) => Head(stack[t]).do \notin Entering \cup {"keep"},
           NEW s \in Sessions, NEW q \in SessionRecords, Section(t, s, q, Rest(t))
    PROVE  PlainStep
<1> DEFINE W == sess[s].queue
           f == Frame("unregister", s)
           g == [do |-> "cancel", s |-> s, ws |-> W]
<1>1. W \in SUBSET Waits
  BY DEF Types, SessionRecords
<1>2. /\ f \in SessionFrames /\ f.do \in Plain
      /\ g \in SessionFrames /\ g.do \in Plain
  BY <1>1 DEF Frame, SessionFrames, Frames, Plain
<1>3. \/ stack' = [stack EXCEPT ![t] = <<f, g>> \o Rest(t)]
      \/ stack' = [stack EXCEPT ![t] = Rest(t)]
  BY DEF Section
<1> HIDE DEF f, g
<1> QED
  BY <1>2, <1>3, PlainFrame, PlainFramesTwo

\* Such a step keeps the invariant, unless it brings the session of an open Realm down.
LEMMA PlainKept ==
    ASSUME Types, KeptInv, PlainStep, user' = user, waiting' = waiting,
           \A t \in Threads : realm'[t] \in {realm[t], None},
           \A s \in Sessions : user = "Active" /\ Up(s) /\ (\E t \in Threads : realm'[t] = s) => Up(s)'
    PROVE  KeptInv'
<1> USE DEF KeptInv
<1>1. NoErrors'
  BY DEF NoErrors, PlainStep
<1>2. HeldIsUp'
  <2> SUFFICES ASSUME user = "Active", NEW t \in Threads, realm'[t] # None
               PROVE  sess'[realm'[t]].st # "inactive"
    BY DEF HeldIsUp, Up
  <2>1. realm'[t] = realm[t] /\ realm[t] \in Sessions
    BY DEF Types
  <2>2. Up(realm[t])
    BY <2>1 DEF HeldIsUp, PlainStep
  <2> QED
    BY <2>1, <2>2 DEF Up
<1>3. HeldWaits'
  BY DEF HeldWaits, PlainStep
<1>4. ExternalEnds'
  BY DEF ExternalEnds, PlainStep
<1> QED
  BY <1>1, <1>2, <1>3, <1>4

LEMMA AppKept ==
    ASSUME Types, Types', SerialInv, KeptInv, ~overlap, NEW t \in Threads,
           \/ LetGo(t) \/ Commit(t) \/ \E w \in Waits : WaitForCompletion(t, w)
    PROVE  KeptInv'
<1>1. Shapes /\ SessionsFit /\ Held
  BY DEF SerialInv, SessionsFit
<1>2. t \in Actors /\ Resting
  BY DEF LetGo, Commit, WaitForCompletion, MayStart, Actors, Resting
<1>3. Rest(t) = << >> /\ Idle(t)
  BY <1>1, <1>2, NobodyRuns
<1>4. CASE LetGo(t)
  <2> DEFINE f == Frame("drop", realm[t])
  <2>1. /\ f \in SessionFrames /\ f.do \in Plain
    BY <1>4 DEF LetGo, Frame, SessionFrames, Frames, Plain, Types
  <2>2. \/ stack' = [stack EXCEPT ![t] = << >>]
        \/ stack' = [stack EXCEPT ![t] = <<f>>]
    BY <1>4 DEF LetGo
  <2> HIDE DEF f
  <2>3. <<f>> \o Rest(t) = <<f>>
    BY <1>3, <2>1, ConcatEmptySeq
  <2>4. \/ stack' = [stack EXCEPT ![t] = Rest(t)]
        \/ \E g \in SessionFrames : g.do \in Plain /\ stack' = [stack EXCEPT ![t] = <<g>> \o Rest(t)]
    BY <1>3, <2>1, <2>2, <2>3
  <2>5. PlainStep
    BY <1>1, <1>2, <1>3, <2>4, PlainFrame
  <2>6. \A u \in Threads : realm'[u] \in {realm[u], None}
    BY <1>4 DEF LetGo, Types
  <2> QED
    BY <1>4, <2>5, <2>6, PlainKept DEF LetGo, users, Up
<1>5. CASE Commit(t) \/ \E w \in Waits : WaitForCompletion(t, w)
  <2> DEFINE s == realm[t]
  <2>1. stack' = stack /\ s \in Sessions /\ UNCHANGED <<user, waiting, realm>>
    BY <1>5 DEF Commit, WaitForCompletion, users, refs, Types
  <2>2. PlainStep
    <3>1. stack' = [stack EXCEPT ![t] = Rest(t)]
      BY <1>2, <1>3, <2>1 DEF Types, Idle
    <3> QED
      BY <1>1, <1>2, <1>3, <3>1, PlainFrame
  <2>3. /\ \A u \in Sessions : u # s => sess'[u] = sess[u]
        /\ \/ sess'[s] = Notified(sess[s], version')
           \/ \E w \in Waits : sess'[s] = WithWait(sess[s], w)
    BY <1>5, <2>1 DEF Commit, WaitForCompletion, Types
  <2>4. sess'[s].st = sess[s].st
    <3>1. sess[s] \in SessionRecords
      BY <2>1 DEF Types
    <3> QED
      BY <2>3, <3>1 DEF Notified, WithWait, SessionRecords
  <2>5. \A u \in Sessions : Up(u) => Up(u)'
    BY <2>3, <2>4 DEF Up
  <2> HIDE DEF s
  <2> QED
    BY <2>1, <2>2, <2>5, PlainKept
<1> QED
  BY <1>4, <1>5

\* The binding's answers and the client's callbacks: no thread does anything.
LEMMA AnswersKept ==
    ASSUME Types, Types', SerialInv, KeptInv, stack' = stack, UNCHANGED <<user, waiting, realm>>,
           \A s \in Sessions : user = "Active" /\ Up(s) /\ (\E t \in Threads : realm[t] = s) => Up(s)'
    PROVE  KeptInv'
<1> USE SameFrames DEF KeptInv
<1>1. NoErrors' /\ HeldWaits' /\ ExternalEnds'
  BY DEF NoErrors, HeldWaits, ExternalEnds
<1>2. HeldIsUp'
  BY DEF HeldIsUp, Up, Types
<1> QED
  BY <1>1, <1>2

LEMMA BindingKept ==
    ASSUME Types, Types', SerialInv, KeptInv, ~overlap, NEW s \in Sessions,
           Token(s) \/ TokenLost(s) \/ Reconnect
    PROVE  KeptInv'
<1> DEFINE r == sess[s]
<1>1. Shapes /\ SessionsFit
  BY DEF SerialInv
<1>2. Resting /\ stack' = stack /\ UNCHANGED <<user, waiting, realm>>
  BY DEF Token, TokenLost, Reconnect, BetweenCalls, Resting, users, refs
<1>3. /\ r \in SessionRecords /\ RecordFits(r) /\ version \in Nat
      /\ Alive(s) => Told(r, version, user = "Active")
      /\ user = "Active" /\ (\E t \in Threads : realm[t] = s) => Kept(s)
  BY <1>1, SyncSessionAssumption DEF SessionsFit, Records, Announced, HeldIsKept, Types
<1>4. PICK q \in {r, Refreshed(r)} : sess' = [sess EXCEPT ![s] = q] /\ (s \in requests \/ q = r)
  BY DEF Token, TokenLost, Reconnect, Types
<1>5. user = "Active" /\ Up(s) /\ (\E t \in Threads : realm[t] = s) => q.st # "inactive"
  <2> SUFFICES ASSUME user = "Active", Up(s), \E t \in Threads : realm[t] = s, q # r
               PROVE  q.st # "inactive"
    BY DEF Up
  <2>1. Alive(s) /\ q = Refreshed(r) /\ r.st = "waiting" /\ ~r.deferClose
    BY <1>1, <1>3, <1>4, PendingAlive DEF Refreshed, Kept, SessionsFit
  <2>2. TRUE \in BOOLEAN /\ Told(r, version, TRUE)
    BY <1>3, <2>1
  <2>3. Refreshed(r).st = "active"
    BY <1>3, <2>1, <2>2, RefreshedCore
  <2> QED
    BY <2>1, <2>3
<1>6. sess'[s] = q /\ \A u \in Sessions : u # s => sess'[u] = sess[u]
  BY <1>4 DEF Types
<1>7. \A u \in Sessions : user = "Active" /\ Up(u) /\ (\E t \in Threads : realm[t] = u) => Up(u)'
  BY <1>5, <1>6 DEF Up
<1> QED
  BY <1>2, <1>7, AnswersKept

LEMMA ClientKept ==
    ASSUME Types, Types', SerialInv, KeptInv, NEW s \in Sessions,
           Upload(s) \/ \E w \in Waits : Complete(s, w)
    PROVE  KeptInv'
<1>1. stack' = stack /\ UNCHANGED <<user, waiting, realm>>
  BY DEF Upload, Complete, users, refs
<1>2. \A u \in Sessions : sess'[u].st = sess[u].st
  <2>1. ASSUME NEW w \in Waits, Complete(s, w), NEW u \in Sessions
        PROVE  sess'[u].st = sess[u].st
    <3> DEFINE W == sess[s].waits \ {w}
    <3>1. sess' = [sess EXCEPT ![s] = [sess[s] EXCEPT !.waits = W]] /\ sess[s] \in SessionRecords
      BY <2>1 DEF Complete, Types
    <3> HIDE DEF W
    <3> QED
      BY <3>1 DEF Types, SessionRecords
  <2> QED
    BY <2>1 DEF Upload
<1> QED
  BY <1>1, <1>2, AnswersKept DEF Up

\* The session of an open Realm falls when nobody refers to it any more, or when it is dying.
LEMMA SectionKept ==
    ASSUME Types, Types', SerialInv, KeptInv, NEW t \in Actors, ~Idle(t) \/ Resting,
           ~Idle(t) => Head(stack[t]).do \notin Entering \cup {"keep"},
           NEW s \in Sessions, NEW q \in SessionRecords, Section(t, s, q, Rest(t)),
           UNCHANGED <<user, waiting, realm>>,
           q.st # "inactive" \/ sess[s].st = "dying" \/ Expired(s) \/ sess[s].st = "inactive"
    PROVE  KeptInv'
<1>1. Shapes /\ SessionsFit
  BY DEF SerialInv
<1>2. PlainStep
  BY <1>1, PlainSection
<1>3. ASSUME NEW u \in Sessions, user = "Active", Up(u), NEW v \in Threads, realm[v] = u
      PROVE  Up(u)'
  <2>1. Kept(u) /\ ~Expired(u)
    BY <1>1, <1>3, SyncSessionAssumption DEF SessionsFit, HeldIsKept, Expired
  <2>2. sess'[s] = q /\ (u # s => sess'[u] = sess[u])
    BY DEF Section, Types
  <2> QED
    BY <1>3, <2>1, <2>2 DEF Up, Kept
<1> QED
  BY <1>2, <1>3, PlainKept

LEMMA UploadedKept ==
    ASSUME Types, Types', SerialInv, KeptInv, ~overlap, NEW s \in Sessions,
           NEW u \in sess[s].uploads, Uploaded(s, u)
    PROVE  KeptInv'
<1> DEFINE x == sess[s]
           y == [x EXCEPT !.uploads = x.uploads \ {u}]
           q == IF y.st = "dying" /\ y.deaths = u.n THEN ToInactive(y) ELSE y
<1>1. x \in SessionRecords
  BY DEF Types
<1>2. y \in SessionRecords /\ y.st = x.st
  BY <1>1 DEF SessionRecords
<1>3. Section(Client, s, q, << >>) /\ Client \in Actors /\ Resting
  BY DEF Uploaded, MayStart, Resting, Actors
<1>4. Rest(Client) = << >> /\ Idle(Client)
  BY <1>3, NobodyRuns DEF SerialInv
<1> HIDE DEF y
<1>5. q \in SessionRecords /\ (q.st # "inactive" \/ x.st = "dying" \/ x.st = "inactive")
  BY <1>2, ToInactiveProperties
<1>6. UNCHANGED <<user, waiting, realm>>
  BY DEF Uploaded, users, refs
<1> HIDE DEF q
<1> QED
  BY <1>3, <1>4, <1>5, <1>6, SectionKept

LEMMA DidDropKept ==
    ASSUME Types, Types', SerialInv, KeptInv, NEW t \in Actors, DidDrop(t)
    PROVE  KeptInv'
<1> DEFINE s == Top(t)
           r == sess[s]
           q == IF Expired(s) THEN Closed(r) ELSE r
<1>1. Shapes
  BY DEF SerialInv
<1>2. Runs(t, "drop") /\ "drop" # "forget" /\ "drop" \notin Entering \cup {"keep"}
  BY DEF DidDrop, Entering
<1>3. /\ ~Idle(t) /\ s \in Sessions /\ Head(stack[t]).do \notin Entering \cup {"keep"}
      /\ Rest(t) = Tail(stack[t])
  BY <1>1, <1>2, RunnerIs
<1>4. Section(t, s, q, Rest(t)) /\ UNCHANGED <<user, waiting, realm>>
  BY <1>3 DEF DidDrop, users, refs
<1>5. r \in SessionRecords /\ Closed(r) \in SessionRecords
  BY <1>3, ClosedProperties DEF Types
<1>6. q \in SessionRecords /\ (q.st # "inactive" \/ Expired(s) \/ r.st = "inactive")
  BY <1>5
<1> HIDE DEF q, s
<1> QED
  BY <1>3, <1>4, <1>6, SectionKept

LEMMA PoppedKept ==
    ASSUME Types, Types', SerialInv, KeptInv, NEW t \in Actors, Release(t) \/ Cancel(t)
    PROVE  KeptInv'
<1>1. PICK d \in {"release", "cancel"} : Runs(t, d)
  BY DEF Release, Cancel
<1>2. d \notin Entering \cup {"keep"} /\ Shapes
  BY DEF Entering, SerialInv
<1>3. ~Idle(t) /\ Head(stack[t]).do \notin Entering \cup {"keep"}
  BY <1>1, <1>2, RunnerIs
<1>4. Push(t, << >>) /\ UNCHANGED <<sess, user, waiting, realm>>
  BY DEF Release, Cancel, users, refs
<1>5. stack' = [stack EXCEPT ![t] = Rest(t)]
  BY <1>3, <1>4, NoFrames, Pushes
<1>6. PlainStep
  BY <1>2, <1>3, <1>5, PlainFrame
<1> QED
  BY <1>4, <1>6, PlainKept DEF Up

LEMMA UnregisterKept ==
    ASSUME Types, Types', SerialInv, KeptInv, NEW t \in Actors, Unregister(t)
    PROVE  KeptInv'
<1> DEFINE f == Frame("giveback", registry)
<1>1. Runs(t, "unregister") /\ "unregister" \notin Entering \cup {"keep"} /\ Shapes
  BY DEF Unregister, Entering, SerialInv
<1>2. ~Idle(t) /\ Head(stack[t]).do \notin Entering \cup {"keep"}
  BY <1>1, RunnerIs
<1>3. /\ Push(t, << >>) \/ (registry # None /\ Push(t, <<f>>))
      /\ UNCHANGED <<sess, user, waiting, realm>>
  BY DEF Unregister, users
<1>4. registry # None => f \in SessionFrames /\ <<f>> \in Seq(SessionFrames) /\ f.do \in Plain
  BY DEF Frame, SessionFrames, Frames, Plain, Types
<1> HIDE DEF f
<1>5. \/ stack' = [stack EXCEPT ![t] = Rest(t)]
      \/ \E g \in SessionFrames : g.do \in Plain /\ stack' = [stack EXCEPT ![t] = <<g>> \o Rest(t)]
  BY <1>2, <1>3, <1>4, NoFrames, Pushes
<1>6. PlainStep
  BY <1>1, <1>2, <1>5, PlainFrame
<1> QED
  BY <1>3, <1>6, PlainKept DEF Up

LEMMA GiveBackKept ==
    ASSUME Types, Types', SerialInv, KeptInv, NEW t \in Actors, GiveBack(t)
    PROVE  KeptInv'
<1> DEFINE s == Top(t)
           f == Frame("drop", s)
           g == Frame("release", s)
<1>1. /\ Runs(t, "giveback") /\ "giveback" \notin Entering \cup {"keep"} /\ Shapes
      /\ "giveback" # "forget"
  BY DEF GiveBack, Entering, SerialInv
<1>2. ~Idle(t) /\ Head(stack[t]).do \notin Entering \cup {"keep"} /\ s \in Sessions
  BY <1>1, RunnerIs
<1>3. /\ Push(t, <<f, g>>) \/ Push(t, <<g>>)
      /\ UNCHANGED <<sess, user, waiting, realm>>
  BY DEF GiveBack, users
<1>4. /\ f \in SessionFrames /\ f.do \in Plain
      /\ g \in SessionFrames /\ g.do \in Plain
  BY <1>2 DEF Frame, SessionFrames, Frames, Plain
<1> HIDE DEF f, g
<1>5. <<f, g>> \in Seq(SessionFrames) /\ <<g>> \in Seq(SessionFrames)
  BY <1>4
<1>6. \/ stack' = [stack EXCEPT ![t] = <<f, g>> \o Rest(t)]
      \/ stack' = [stack EXCEPT ![t] = <<g>> \o Rest(t)]
  BY <1>2, <1>3, <1>5, Pushes
<1>7. PlainStep
  BY <1>1, <1>2, <1>4, <1>6, PlainFrame, PlainFramesTwo
<1> QED
  BY <1>3, <1>7, PlainKept DEF Up

LEMMA ErrorKept ==
    ASSUME Types, Types', SerialInv, KeptInv, ~overlap, Errors \cap {"auth", "denied"} = {},
           NEW s \in Sessions, NEW x \in AllErrors, Error(s, x)
    PROVE  KeptInv'
<1> DEFINE r == sess[s]
           t == Client
           f == Frame(x, s)
<1>1. /\ t \in Actors /\ Resting /\ r \in SessionRecords /\ Shapes
      /\ UNCHANGED <<user, waiting, realm>>
      /\ x \in {"expired", "fatal", "info"}
  BY DEF Error, MayStart, Resting, Actors, Types, SerialInv, users, refs, AllErrors
<1>2. Rest(t) = << >> /\ Idle(t)
  BY <1>1, NobodyRuns
<1>3. CASE r.st = "dying"
  <2>1. PICK q \in {r, ToInactive(r)} : Section(t, s, q, << >>)
    BY <1>3 DEF Error
  <2>2. q \in SessionRecords
    BY <1>1, ToInactiveProperties
  <2> QED
    BY <1>1, <1>2, <1>3, <2>1, <2>2, SectionKept
<1>4. CASE r.st # "dying"
  <2>1. /\ sess' = sess
        /\ \/ stack' = [stack EXCEPT ![t] = << >>]
           \/ stack' = [stack EXCEPT ![t] = <<f>>]
    BY <1>4 DEF Error
  <2>2. f \in SessionFrames /\ f.do \in Plain
    BY <1>1 DEF Frame, SessionFrames, Frames, Plain, AllErrors
  <2> HIDE DEF f
  <2>3. <<f>> \o Rest(t) = <<f>>
    BY <1>2, <2>2, ConcatEmptySeq
  <2>4. \/ stack' = [stack EXCEPT ![t] = Rest(t)]
        \/ \E g \in SessionFrames : g.do \in Plain /\ stack' = [stack EXCEPT ![t] = <<g>> \o Rest(t)]
    BY <1>2, <2>1, <2>2, <2>3
  <2>5. PlainStep
    BY <1>1, <1>2, <2>4, PlainFrame
  <2> QED
    BY <1>1, <2>1, <2>5, PlainKept DEF Up
<1> QED
  BY <1>3, <1>4

LEMMA TokenExpiredKept ==
    ASSUME Types, Types', SerialInv, KeptInv, TokenExpired
    PROVE  KeptInv'
<1> DEFINE t == Client
           s == Top(t)
           r == sess[s]
           q == IF r.st = "active" THEN ToWaiting(r) ELSE r
<1>1. Shapes /\ FramesFit /\ SessionsFit /\ Held
  BY DEF SerialInv, SessionsFit
<1>2. /\ Runs(t, "expired") /\ "expired" # "forget" /\ "expired" \notin Entering /\ t \in Actors
      /\ "expired" \in AllErrors
  BY DEF TokenExpired, Entering, Actors, AllErrors
<1>3. /\ ~Idle(t) /\ s \in Sessions /\ At("expired", s)
      /\ \A u : ~At("revive", u) /\ ~At("register", u)
  BY <1>1, <1>2, RunnerIs DEF Entering
<1>4. r \in SessionRecords /\ r.open /\ Alive(s) /\ r.st # "inactive"
  <2>1. r.open /\ Alive(s) /\ RecordFits(r)
    BY <1>1, <1>2, <1>3, PendingAlive DEF FramesFit, SessionsFit, Records
  <2> QED
    BY <1>3, <2>1 DEF RecordFits, Types
<1>5. user # "LoggedOut"
  BY <1>1, <1>3, <1>4 DEF SessionsFit, OutMeansDown, Up
<1>6. q.st # "inactive" /\ Section(t, s, q, << >>) /\ UNCHANGED <<user, waiting, realm>>
  BY <1>4, ToWaitingProperties DEF TokenExpired, users, refs
<1> HIDE DEF q
<1>7. sess' = [sess EXCEPT ![s] = q] /\ stack' = [stack EXCEPT ![t] = << >>]
  BY <1>6 DEF Section
<1>8. PlainStep
  <2>1. \A u \in Actors : stack'[u] = << >> /\ 2..Len(stack'[u]) = {}
    BY <1>1, <1>2, <1>3, <1>7, RunnerFrames DEF Types
  <2>2. \A do, u : ~At(do, u)' /\ ~Pending(do, u)'
    BY <2>1 DEF At, Below, Pending
  <2> QED
    BY <1>3, <1>5, <2>2 DEF PlainStep
<1>9. \A u \in Sessions : Up(u) => Up(u)'
  <2> HIDE DEF s
  <2> QED
    BY <1>3, <1>6, <1>7 DEF Up, Types
<1> QED
  BY <1>6, <1>8, <1>9, PlainKept

\* A server without such errors: the callbacks are cancelled, the user stays.
LEMMA CancelWaitsKept ==
    ASSUME Types, Types', SerialInv, KeptInv, CancelWaits
    PROVE  KeptInv'
<1> DEFINE t == Client
           s == Top(t)
           W == sess[s].queue
           r == [sess[s] EXCEPT !.queue = {}]
           c == [do |-> "cancel", s |-> s, ws |-> W]
<1>1. Shapes /\ t \in Actors
  BY DEF SerialInv, Actors
<1>2. ~Runs(t, "auth")
  <2>1. Runs(t, "auth") => At("auth", s)
    BY <1>1, RunnerIs
  <2> QED
    BY <2>1 DEF KeptInv, NoErrors, Pending
<1>3. Runs(t, "fatal") /\ "fatal" # "forget" /\ "fatal" \notin Entering \cup {"keep"}
  BY <1>2 DEF CancelWaits, Entering
<1>4. ~Idle(t) /\ s \in Sessions /\ Head(stack[t]).do \notin Entering \cup {"keep"}
  BY <1>1, <1>3, RunnerIs
<1>5. /\ sess' = [sess EXCEPT ![s] = r] /\ Push(t, <<c>> \o << >>)
      /\ UNCHANGED <<user, waiting, realm>>
  BY <1>2, <1>4 DEF CancelWaits, Types, users, refs
<1>6. c \in SessionFrames /\ c.do \in Plain /\ sess[s] \in SessionRecords
  BY <1>4 DEF SessionFrames, Frames, Plain, Types, SessionRecords
<1>7. \A u \in Sessions : sess'[u].st = sess[u].st
  BY <1>4, <1>5, <1>6 DEF Types, SessionRecords
<1> HIDE DEF c, s
<1>8. <<c>> \o << >> = <<c>> /\ <<c>> \in Seq(SessionFrames)
  BY <1>6, ConcatEmptySeq
<1>9. stack' = [stack EXCEPT ![t] = <<c>> \o Rest(t)]
  BY <1>1, <1>4, <1>5, <1>8, Pushes
<1>10. PlainStep
  BY <1>1, <1>4, <1>6, <1>9, PlainFrame
<1> QED
  BY <1>5, <1>7, <1>10, PlainKept DEF Up

LEMMA NoEnding ==
    ASSUME Types, SerialInv, KeptInv
    PROVE  ~Denied /\ ~Invalidate
<1>1. Shapes /\ Client \in Actors
  BY DEF SerialInv, Actors
<1>2. Runs(Client, "denied") => At("denied", Top(Client))
  BY <1>1, RunnerIs
<1>3. Runs(Client, "invalidate") => At("invalidate", Top(Client))
  BY <1>1, RunnerIs
<1> QED
  BY <1>2, <1>3 DEF Denied, Invalidate, KeptInv, NoErrors, Pending

\* One frame at most lies below one that enters a session.
LEMMA LoneEnd ==
    ASSUME Types, Shapes, NEW t \in Actors, NEW do0 \in Entering, Runs(t, do0)
    PROVE  \A d, e, s, u : Below(d, s) /\ Below(e, u) => d = e
<1>1. ~Idle(t) /\ Head(stack[t]).do \in Entering
  BY DEF Runs
<1>2. \A i \in 1..Len(Rest(t)) : i = 1
  BY <1>1, RestFrames
<1>3. \A do, s : Below(do, s) <=> \E i \in 1..Len(Rest(t)) : First(Rest(t)[i], do, s)
  BY <1>1, RunnerFrames
<1> QED
  BY <1>2, <1>3 DEF First

\* No new error is pending when a frame is done.
LEMMA PoppedNoErrors ==
    ASSUME NoErrors, Popped, user' \in {user, "LoggedOut", "Active"}
    PROVE  NoErrors'
BY DEF NoErrors, Popped, Pending

LEMMA RegisterKept ==
    ASSUME Types, Types', SerialInv, KeptInv, NEW t \in Actors, Register(t)
    PROVE  KeptInv'
<1> DEFINE s == Top(t)
<1>1. Shapes /\ FramesFit /\ Held
  BY DEF SerialInv, SessionsFit
<1>2. Runs(t, "register") /\ "register" # "forget" /\ "register" \in Entering
  BY DEF Register, Entering
<1>3. /\ ~Idle(t) /\ s \in Sessions /\ At("register", s) /\ Head(stack[t]).do \in Entering
      /\ \A do, u : Below(do, u) => u = s
  BY <1>1, <1>2, RunnerIs
<1>4. s = registry /\ \A u \in Threads : realm[u] # None => realm[u] = s
  BY <1>1, <1>3 DEF FramesFit, Held
<1>5. UNCHANGED <<user, realm>>
  BY DEF Register, refs
<1>6. NoErrors
  BY DEF KeptInv
<1>7. CASE user = "Active"
  <2> DEFINE f == Frame("revive", s)
  <2>1. Push(t, <<f>>)
    BY <1>7 DEF Register
  <2>2. f \in SessionFrames /\ f.do = "revive" /\ f.s = s /\ "revive" \in Entering
    BY <1>3 DEF Frame, SessionFrames, Frames, Entering
  <2> HIDE DEF f
  <2>3. <<f>> \in Seq(SessionFrames)
    BY <2>2
  <2>4. stack' = [stack EXCEPT ![t] = <<f>> \o Rest(t)]
    BY <1>3, <2>1, <2>3, Pushes
  <2>5. Topped("revive", s)
    BY <1>1, <1>3, <2>2, <2>4, EntersOnce
  <2> HIDE DEF s
  <2>6. NoErrors'
    BY <1>5, <1>6, <2>5 DEF NoErrors, Topped, Pending
  <2>7. HeldIsUp'
    BY <1>4, <1>5, <2>5 DEF HeldIsUp, Topped
  <2>8. HeldWaits' /\ ExternalEnds'
    BY <1>5, <1>7, <2>5 DEF HeldWaits, ExternalEnds, Topped
  <2> QED
    BY <2>6, <2>7, <2>8 DEF KeptInv
<1>8. CASE user = "LoggedOut"
  <2>1. Push(t, << >>) /\ waiting' = s
    BY <1>8 DEF Register
  <2>2. stack' = [stack EXCEPT ![t] = Rest(t)]
    BY <1>3, <2>1, NoFrames, Pushes
  <2>3. Popped
    BY <1>1, <1>3, <2>2, PopFrames
  <2> HIDE DEF s
  <2>4. NoErrors'
    BY <1>5, <1>6, <2>3, PoppedNoErrors
  <2>5. HeldIsUp'
    BY <1>5, <1>8 DEF HeldIsUp
  <2>6. \A do, u : Pending(do, u)' => Below(do, u)
    BY <2>3 DEF Popped, Pending
  <2>7. HeldWaits'
    BY <1>3, <1>4, <1>5, <2>1, <2>6 DEF HeldWaits
  <2>8. ExternalEnds'
    <3>1. \A d, e, u, v : Below(d, u) /\ Below(e, v) => d = e
      BY <1>1, <1>2, LoneEnd
    <3> QED
      BY <1>3, <2>1, <2>3, <2>6, <3>1 DEF ExternalEnds, Popped
  <2> QED
    BY <2>4, <2>5, <2>7, <2>8 DEF KeptInv
<1> QED
  BY <1>6, <1>7, <1>8 DEF NoErrors, Types

LEMMA ReviveKept ==
    ASSUME Types, Types', SerialInv, SerialInv', KeptInv, NEW t \in Actors, Revive(t)
    PROVE  KeptInv'
<1> DEFINE s == Top(t)
           q == Revived(sess[s])
<1>1. Shapes /\ FramesFit /\ SessionsFit /\ Held
  BY DEF SerialInv, SessionsFit
<1>2. Runs(t, "revive") /\ "revive" # "forget" /\ "revive" \in Entering
  BY DEF Revive, Entering
<1>3. /\ ~Idle(t) /\ s \in Sessions /\ At("revive", s) /\ Rest(t) = Tail(stack[t])
      /\ \A u : (At("revive", u) => u = s) /\ ~At("register", u)
  BY <1>1, <1>2, RunnerIs
<1>4. user = "Active" /\ (s = registry \/ OffRegistry)
  BY <1>1, <1>3 DEF FramesFit
<1>5. UNCHANGED <<user, realm, waiting>> /\ Section(t, s, q, Rest(t))
  BY <1>3 DEF Revive, users, refs
<1>6. q.st # "inactive"
  <2>1. sess[s] \in SessionRecords /\ RecordFits(sess[s])
    BY <1>1, <1>3 DEF SessionsFit, Records, Types
  <2> QED
    BY <2>1, RevivedCore
<1> HIDE DEF q
<1>7. stack' = [stack EXCEPT ![t] = Rest(t)] /\ sess' = [sess EXCEPT ![s] = q]
  BY <1>5, <1>6 DEF Section
<1>8. Popped
  BY <1>1, <1>3, <1>7, PopFrames
<1>9. NoErrors'
  BY <1>5, <1>8, PoppedNoErrors DEF KeptInv
<1> HIDE DEF s
<1>10. HeldIsUp'
  <2> SUFFICES ASSUME NEW u \in Threads, realm[u] # None
               PROVE  sess'[realm[u]].st # "inactive"
    BY <1>5 DEF HeldIsUp, Up
  <2>1. realm[u] = registry /\ realm[u] \in Sessions
    BY <1>1 DEF Held, Types
  <2>2. CASE registry = s
    BY <1>3, <1>6, <1>7, <2>1, <2>2 DEF Types
  <2>3. CASE registry # s
    <3>1. sess[registry].st = "inactive"
      BY <1>4, <2>1, <2>3, SyncSessionAssumption DEF OffRegistry
    <3> QED
      BY <1>3, <1>4, <2>1, <2>3, <3>1 DEF KeptInv, HeldIsUp, Up
  <2> QED
    BY <2>2, <2>3
<1>11. HeldWaits'
  BY <1>4, <1>5 DEF HeldWaits
<1>12. ExternalEnds'
  <2>1. \A d, e, u, v : Below(d, u) /\ Below(e, v) => d = e
    BY <1>1, <1>2, LoneEnd
  <2>2. \A do, u : Pending(do, u)' => Below(do, u)
    BY <1>8 DEF Popped, Pending
  <2> QED
    BY <1>4, <1>5, <1>8, <2>1, <2>2 DEF ExternalEnds, Popped
<1> QED
  BY <1>9, <1>10, <1>11, <1>12 DEF KeptInv

LEMMA TakeReferenceKept ==
    ASSUME Types, Types', SerialInv, KeptInv, NEW t \in Actors, TakeReference(t)
    PROVE  KeptInv'
<1> DEFINE s == Top(t)
<1>1. Shapes /\ FramesFit
  BY DEF SerialInv
<1>2. Runs(t, "external") /\ "external" # "forget" /\ "external" \notin Entering
  BY DEF TakeReference, Entering
<1>3. /\ ~Idle(t) /\ s \in Sessions /\ At("external", s)
      /\ \A u : ~At("revive", u) /\ ~At("register", u) /\ ~Below("external", u)
  BY <1>1, <1>2, RunnerIs DEF Entering
<1>4. /\ UNCHANGED <<sess, user, waiting>> /\ realm' = [realm EXCEPT ![t] = s] /\ Push(t, << >>)
  BY DEF TakeReference, users
<1>5. stack' = [stack EXCEPT ![t] = Rest(t)]
  BY <1>3, <1>4, NoFrames, Pushes
<1>6. Popped
  BY <1>1, <1>3, <1>5, PopFrames
<1> HIDE DEF s
<1>7. \A u \in Threads : realm'[u] \in {realm[u], s}
  BY <1>4 DEF Types
<1>8. NoErrors'
  BY <1>4, <1>6, PoppedNoErrors DEF KeptInv
<1>9. HeldIsUp'
  <2>1. user = "Active" => Up(s)
    BY <1>1, <1>3 DEF FramesFit
  <2> QED
    BY <1>3, <1>4, <1>7, <2>1 DEF KeptInv, HeldIsUp, Up
<1>10. HeldWaits'
  <2>1. /\ \A u : ~Pending("keep", u)
        /\ user = "LoggedOut" => waiting = s
    BY <1>3 DEF KeptInv, ExternalEnds
  <2>2. \A u : ~Pending("keep", u)'
    BY <1>6, <2>1 DEF Popped, Pending
  <2> QED
    BY <1>3, <1>4, <1>7, <2>1, <2>2 DEF KeptInv, HeldWaits
<1>11. ExternalEnds'
  BY <1>3, <1>6 DEF ExternalEnds, Popped
<1> QED
  BY <1>8, <1>9, <1>10, <1>11 DEF KeptInv

LEMMA LogOutEndsKept ==
    ASSUME Types, Types', SerialInv, SerialInv', KeptInv, NEW t \in Actors, LogOutEnds(t)
    PROVE  KeptInv'
<1> DEFINE s == Top(t)
<1>1. Shapes /\ FramesFit /\ ForgetFits
  BY DEF SerialInv
<1>2. PICK d \in {"keep", "forget"} : Runs(t, d)
  BY DEF LogOutEnds
<1>3. d \notin Entering
  BY DEF Entering
<1>4. /\ ~Idle(t) /\ \A do, u : At(do, u) <=> do = d /\ u = s
      /\ \A u : ~Below("external", u)
      /\ d = "keep" => s \in Sessions
  BY <1>1, <1>2, <1>3, RunnerIs
<1>5. user = "LoggedOut"
  BY <1>1, <1>4 DEF FramesFit, Outcome, ForgetFits, Pending
<1>6. /\ UNCHANGED <<sess, user, realm>> /\ Push(t, << >>)
      /\ waiting' = IF d = "keep" THEN s ELSE waiting
  BY <1>2 DEF LogOutEnds, refs, Runs
<1>7. stack' = [stack EXCEPT ![t] = Rest(t)]
  BY <1>4, <1>6, NoFrames, Pushes
<1>8. Popped
  BY <1>1, <1>4, <1>7, PopFrames
<1> HIDE DEF s
<1>9. NoErrors'
  BY <1>6, <1>8, PoppedNoErrors DEF KeptInv
<1>10. HeldIsUp'
  BY <1>5, <1>6 DEF HeldIsUp
<1>11. HeldWaits'
  <2> SUFFICES ASSUME NEW u \in Threads, realm[u] # None
               PROVE  /\ waiting' = realm[u] \/ Pending("keep", realm[u])'
                      /\ \A v : Pending("keep", v)' => v = realm[u]
    BY <1>6 DEF HeldWaits
  <2>1. /\ waiting = realm[u] \/ Pending("keep", realm[u])
        /\ \A v : Pending("keep", v) => v = realm[u]
    BY <1>3, <1>4, <1>5 DEF KeptInv, HeldWaits, Entering
  <2>2. \A v : Pending("keep", v)' => Pending("keep", v)
    BY <1>8 DEF Popped, Pending
  <2>3. d = "keep" => s = realm[u]
    BY <1>4, <2>1 DEF Pending
  <2>4. d = "forget" => (Pending("keep", realm[u]) => Pending("keep", realm[u])')
    BY <1>4, <1>6, <1>8 DEF Popped, Pending
  <2> QED
    BY <1>6, <2>1, <2>2, <2>3, <2>4
<1>12. ExternalEnds'
  BY <1>4, <1>8 DEF ExternalEnds, Popped
<1> QED
  BY <1>9, <1>10, <1>11, <1>12 DEF KeptInv

LEMMA GetSessionKept ==
    ASSUME Types, Types', SerialInv, KeptInv, ~overlap, NEW t \in Threads, GetSession(t)
    PROVE  KeptInv'
<1>1. Shapes /\ Held
  BY DEF SerialInv, SessionsFit
<1>2. t \in Actors /\ Resting /\ UNCHANGED <<sess, user, waiting>>
  BY DEF GetSession, MayStart, Actors, Resting, users
<1>3. \A do, u : ~At(do, u) /\ ~Below(do, u)
  BY <1>1, <1>2, NobodyRuns
<1>4. PICK s \in Sessions : \E e \in {"external", "release"} :
         /\ stack' = [stack EXCEPT ![t] = <<Frame("register", s), Frame(e, s)>>]
         /\ \A u \in Threads : realm'[u] # None => realm'[u] = s
  <2>1. CASE registry # None
    BY <1>1, <2>1 DEF GetSession, Types, Held
  <2>2. CASE registry = None
    <3>1. PICK s \in Sessions : /\ stack' = [stack EXCEPT ![t] = <<Frame("register", s), Frame("release", s)>>]
                               /\ realm' = [realm EXCEPT ![t] = s]
      BY <2>2 DEF GetSession
    <3>2. \A u \in Threads : realm'[u] # None => realm'[u] = s
      BY <1>1, <2>2, <3>1 DEF Types, Held
    <3> QED
      BY <3>1, <3>2
  <2> QED
    BY <2>1, <2>2
<1>5. /\ \A do, u : At(do, u)' <=> do = "register" /\ u = s
      /\ \A do, u : Pending(do, u)' => do \in {"register", "external", "release"} /\ u = s
  BY <1>1, <1>2, <1>4, GetSessionFrames
<1>6. NoErrors'
  BY <1>2, <1>5 DEF KeptInv, NoErrors
<1>7. HeldIsUp' /\ HeldWaits' /\ ExternalEnds'
  BY <1>4, <1>5 DEF HeldIsUp, HeldWaits, ExternalEnds
<1> QED
  BY <1>6, <1>7 DEF KeptInv

LEMMA LogInKept ==
    ASSUME Types, Types', SerialInv, KeptInv, ~overlap, NEW t \in Threads, LogIn(t)
    PROVE  KeptInv'
<1>1. Shapes /\ Held
  BY DEF SerialInv, SessionsFit
<1>2. /\ t \in Actors /\ Resting /\ UNCHANGED <<sess, realm>> /\ user = "LoggedOut" /\ user' = "Active"
      /\ \/ stack' = stack /\ ~(waiting # None /\ Alive(waiting))
         \/ waiting \in Sessions /\ stack' = [stack EXCEPT ![t] = <<Frame("revive", waiting)>>]
  BY DEF LogIn, MayStart, Actors, Resting, refs, Types
<1>3. \A do, u : ~At(do, u) /\ ~Below(do, u) /\ ~Pending(do, u)
  BY <1>1, <1>2, NobodyRuns DEF Pending
<1>4. \A u \in Threads : realm[u] # None => waiting = realm[u] /\ Alive(waiting)
  BY <1>1, <1>2, <1>3, PendingAlive DEF KeptInv, HeldWaits, Types
<1>5. CASE stack' = stack /\ ~(waiting # None /\ Alive(waiting))
  <2>1. \A do, u : ~At(do, u)' /\ ~Pending(do, u)'
    BY <1>3, <1>5, SameFrames
  <2> QED
    BY <1>2, <1>4, <1>5, <2>1 DEF KeptInv, NoErrors, HeldIsUp, HeldWaits, ExternalEnds
<1>6. CASE waiting \in Sessions /\ stack' = [stack EXCEPT ![t] = <<Frame("revive", waiting)>>]
  <2> DEFINE s == waiting
  <2>1. /\ \A do, u : At(do, u)' <=> do = "revive" /\ u = s
        /\ \A do, u : Pending(do, u)' => do = "revive" /\ u = s
    BY <1>1, <1>2, <1>6, LogInFrames
  <2>2. NoErrors' /\ ExternalEnds'
    BY <1>2, <2>1 DEF NoErrors, ExternalEnds
  <2>3. HeldIsUp' /\ HeldWaits'
    BY <1>2, <1>4, <2>1 DEF HeldIsUp, HeldWaits
  <2> QED
    BY <2>2, <2>3 DEF KeptInv
<1> QED
  BY <1>2, <1>5, <1>6

LEMMA LogOutKept ==
    ASSUME Types, Types', SerialInv, KeptInv, ~overlap, NEW t \in Threads, LogOut(t)
    PROVE  KeptInv'
<1>1. Shapes /\ SessionsFit /\ Held
  BY DEF SerialInv, SessionsFit
<1>2. /\ t \in Actors /\ Resting /\ user' = "LoggedOut" /\ UNCHANGED <<realm, waiting>>
      /\ user = "Active"
  BY DEF LogOut, MayStart, Actors, Resting, refs, KeptInv, NoErrors, Types
<1>3. Rest(t) = << >> /\ Idle(t) /\ \A do, u : ~At(do, u) /\ ~Below(do, u)
  BY <1>1, <1>2, NobodyRuns
<1>4. \A u \in Threads : realm[u] # None => realm[u] = live /\ Alive(live)
  <2> SUFFICES ASSUME NEW u \in Threads, realm[u] # None
               PROVE  realm[u] = live /\ Alive(live)
    OBVIOUS
  <2>1. realm[u] \in Sessions /\ Alive(realm[u]) /\ Up(realm[u])
    BY <1>1, <1>2, <1>3, PendingAlive DEF KeptInv, HeldIsUp, Types
  <2> QED
    BY <1>1, <1>3, <2>1 DEF SessionsFit, UpIsLive
<1>5. HeldIsUp'
  BY <1>2 DEF HeldIsUp
<1>6. CASE live # None /\ Alive(live)
  <2> DEFINE s == live
             q == LoggedOut(sess[s])
  <2>1. s \in Sessions /\ q \in SessionRecords /\ q.st = "inactive"
    BY <1>6, LoggedOutProperties, ToInactiveCore DEF Types, LoggedOut
  <2>2. Section(t, s, q, <<Frame("keep", s)>>)
    BY <1>6 DEF LogOut
  <2> HIDE DEF q
  <2>3. live' = s
    BY DEF LogOut
  <2>4. /\ Pending("keep", s)'
        /\ \A do, u : Pending(do, u)' => do \in {"keep", "unregister", "cancel"} /\ u = s
    BY <1>1, <1>2, <2>1, <2>2, <2>3, LogOutFrames
  <2>5. NoErrors' /\ ExternalEnds'
    BY <1>2, <2>4 DEF NoErrors, ExternalEnds, Pending
  <2>6. HeldWaits'
    BY <1>2, <1>4, <2>3, <2>4 DEF HeldWaits
  <2> QED
    BY <1>5, <2>5, <2>6 DEF KeptInv
<1>7. CASE ~(live # None /\ Alive(live))
  <2> DEFINE f == Frame("forget", None)
  <2>1. stack' = [stack EXCEPT ![t] = <<f>>]
    BY <1>7 DEF LogOut
  <2>2. f \in SessionFrames /\ f.do = "forget" /\ f.s = None /\ "forget" \notin Entering
    BY DEF Frame, SessionFrames, Frames, Entering
  <2> HIDE DEF f
  <2>3. <<f>> \o Rest(t) = <<f>>
    BY <1>3, <2>2, ConcatEmptySeq
  <2>4. stack' = [stack EXCEPT ![t] = <<f>> \o Rest(t)]
    BY <2>1, <2>3
  <2>5. Topped("forget", None)
    BY <1>1, <1>2, <1>3, <2>2, <2>4, GoesOnOnce
  <2>6. \A do, u : Pending(do, u)' => do = "forget"
    BY <1>3, <2>5 DEF Topped, Pending
  <2>7. NoErrors' /\ ExternalEnds'
    BY <1>2, <2>6 DEF NoErrors, ExternalEnds, Pending
  <2>8. HeldWaits'
    BY <1>2, <1>4, <1>7 DEF HeldWaits
  <2> QED
    BY <1>5, <2>7, <2>8 DEF KeptInv
<1> QED
  BY <1>6, <1>7

LEMMA KeptInit ==
    ASSUME Init
    PROVE  KeptInv
<1>1. \A t \in Actors : stack[t] = << >> /\ 2..Len(stack[t]) = {}
  BY DEF Init
<1>2. \A do, s : ~At(do, s) /\ ~Below(do, s) /\ ~Pending(do, s)
  BY <1>1 DEF At, Below, Pending
<1> QED
  BY <1>2 DEF Init, KeptInv, NoErrors, HeldIsUp, HeldWaits, ExternalEnds

LEMMA KeptStep ==
    ASSUME Errors \cap {"auth", "denied"} = {},
           Types, Types', ~overlap => SerialInv, (~overlap => SerialInv)', ~overlap => KeptInv,
           [Next]_vars
    PROVE  ~overlap' => KeptInv'
<1> SUFFICES ASSUME ~overlap'
             PROVE  KeptInv'
  OBVIOUS
<1>1. CASE UNCHANGED vars
  <2>1. ~overlap /\ SerialInv /\ KeptInv
    BY <1>1 DEF vars
  <2>2. stack' = stack /\ UNCHANGED <<user, waiting, realm>> /\ sess' = sess
    BY <1>1 DEF vars
  <2> QED
    BY <2>1, <2>2, AnswersKept DEF Up
<1>2. CASE Next
  <2>1. ~overlap /\ SerialInv /\ SerialInv' /\ KeptInv
    BY <1>2, OverlapStays
  <2>2. ASSUME NEW t \in Threads, AppStep(t)
        PROVE  KeptInv'
    BY <2>1, <2>2, GetSessionKept, AppKept, LogOutKept, LogInKept DEF AppStep
  <2>3. ASSUME NEW t \in Actors, Continue(t)
        PROVE  KeptInv'
    BY <2>1, <2>3, RegisterKept, ReviveKept, TakeReferenceKept, PoppedKept, DidDropKept,
       UnregisterKept, GiveBackKept, LogOutEndsKept DEF Continue
  <2>4. CASE ClientStep
    <3>1. ASSUME NEW s \in Sessions, NEW u \in sess[s].uploads, Uploaded(s, u)
          PROVE  KeptInv'
      BY <2>1, <3>1, UploadedKept
    <3>2. ASSUME NEW s \in Sessions, Upload(s) \/ \E w \in Waits : Complete(s, w)
          PROVE  KeptInv'
      BY <2>1, <3>2, ClientKept
    <3> QED
      BY <2>1, <2>4, <3>1, <3>2, TokenExpiredKept, CancelWaitsKept, NoEnding DEF ClientStep
  <2>5. ASSUME NEW s \in Sessions, Token(s) \/ TokenLost(s)
        PROVE  KeptInv'
    BY <2>1, <2>5, BindingKept
  <2>6. ASSUME NEW s \in Sessions, NEW e \in AllErrors, Error(s, e)
        PROVE  KeptInv'
    BY <2>1, <2>6, ErrorKept
  <2>7. CASE Reconnect
    <3>1. registry \in Sessions
      BY <2>7 DEF Reconnect, Types
    <3> QED
      BY <2>1, <2>7, <3>1, BindingKept
  <2> QED
    BY <1>2, <2>2, <2>3, <2>4, <2>5, <2>6, <2>7 DEF Next
<1> QED
  BY <1>1, <1>2

(* After calls that did not overlap, while the user is logged in and no call
   runs, the session of an open Realm is active or waits for its token, it is
   neither dying nor inactive: whatever Realms were opened and closed, log-outs
   and log-ins, lost tokens and reconnects came before
   (sync_session.cpp:127-277, :335-345, :881-890; sync_user.cpp:101-185, :213-230;
   sync_manager.cpp:451-487).  A server that refuses the user or the permission
   ends the session though its Realm is open (sync_session.cpp:528-608). *)
THEOREM ReferenceKeepsOpen ==
    ASSUME Errors \cap {"auth", "denied"} = {}
    PROVE  Spec => []ReferenceKeepsOpenSerially
<1>1. Init => (~overlap => KeptInv)
  BY KeptInit
<1>2. (Types /\ (~overlap => SerialInv)) /\ (Types /\ (~overlap => SerialInv))'
      /\ (~overlap => KeptInv) /\ [Next]_vars => (~overlap => KeptInv)'
  BY KeptStep
<1>3. ASSUME Types, ~overlap => SerialInv, ~overlap => KeptInv
      PROVE  ReferenceKeepsOpenSerially
  <2> SUFFICES ASSUME ~overlap, Quiet, user = "Active", NEW t \in Threads, realm[t] # None
               PROVE  sess[realm[t]].st \in {"waiting", "active"}
    BY DEF ReferenceKeepsOpenSerially
  <2>1. Shapes /\ Kept(realm[t]) /\ realm[t] \in Sessions
    BY <1>3 DEF SerialInv, SessionsFit, HeldIsKept, Types
  <2>2. \A do, u : ~At(do, u)
    BY <1>3, <2>1, NobodyRuns DEF Quiet, Resting
  <2>3. sess[realm[t]].st # "inactive" /\ sess[realm[t]].st # "dying"
    BY <1>3, <2>1, <2>2 DEF KeptInv, HeldIsUp, Up, Kept
  <2>4. sess[realm[t]].st \in States
    BY <1>3, <2>1 DEF Types, SessionRecords
  <2> QED
    BY <2>3, <2>4 DEF States
<1> QED
  BY <1>1, <1>2, <1>3, SerialInvariant, PTL DEF Spec

=============================================================================
