------------------------- MODULE StatusDisplayProofs -------------------------
(***************************************************************************)
(* The status display's deadlines, for every staleness limit, timer        *)
(* period, queue depth and longest draw().                                 *)
(*                                                                         *)
(* The inductive invariant counts time in the executor's rounds: a message *)
(* that is i-th in its subscription is taken in the i-th round from now    *)
(* (InTurn), and a draw() that is shorter than the period is never late,   *)
(* so that nothing waits for a second one (OnTime).  What is on the screen *)
(* was read some g ago, and g is bounded by where the timer stands         *)
(* (Reflected).                                                            *)
(***************************************************************************)
EXTENDS StatusDisplay, TLAPS

Waiting(t) == [msg : Message(t), age : 0 .. Wait]
Reading(t) == {NoReading} \cup [msg : Message(t), stamp : Ages, age : Ages]

Types ==
  /\ DOMAIN queue = Topics /\ \A t \in Topics : queue[t] \in Seq([msg : Message(t), age : Nat])
  /\ DOMAIN readings = Topics /\ \A t \in Topics : readings[t] \in Reading(t)
  /\ \A t \in Topics : frame[t] \in Shown(t) /\ screen[t] \in Shown(t)
  /\ ready \subseteq Topics \cup {"timer"}
  /\ timer \in -MaxDraw .. Period /\ drawing \in -1 .. MaxDraw /\ running \in BOOLEAN

(* A round serves what there is, and the timer only when it is due; a draw()  *)
(* that has begun is no longer late than it has taken.                        *)
Rounds ==
  /\ \A t \in Topics : Len(queue[t]) <= Depth /\ (t \in ready => queue[t] # <<>>)
  /\ "timer" \in ready => Idle /\ timer <= 0
  /\ ~Idle => -drawing <= timer /\ timer <= Period - drawing

(* How many draws may still begin before the i-th message of t is taken, and  *)
(* what is left of the running one.                                           *)
Draws(t, i) == i - (IF t \in ready THEN 1 ELSE 0) + (IF "timer" \in ready THEN 1 ELSE 0)
Left        == IF Idle THEN 0 ELSE MaxDraw - drawing

InTurn ==
  \A t \in Topics : \A i \in 1 .. Len(queue[t]) :
    queue[t][i].age + Draws(t, i) * MaxDraw + Left <= (Depth + 1) * MaxDraw

OnTime ==
  MaxDraw < Period =>
    /\ timer >= 0 /\ (~Idle => timer = Period - drawing)
    /\ \A t \in Topics : \A i \in 1 .. Len(queue[t]) :
         /\ queue[t][i].age <= IF Idle THEN MaxDraw ELSE drawing
         /\ Idle /\ timer = 0 => queue[t][i].age = 0

Sent == \A t \in Topics : readings[t].age <= readings[t].stamp + Wait

(* What is shown was read g ago. *)
Reflects(shown, r, t, g) ==
  /\ shown.status # "NO DATA" => shown.age < StaleAfter + Wait + g
  /\ r.stamp > g => shown.status = IF r.stamp - g < StaleAfter THEN Status[t][r.msg] ELSE "NO DATA"

(* The age of the screen. *)
Since(g) ==
  /\ g \in 0 .. Lag
  /\ IF Idle THEN g <= Period - timer /\ g <= Larger(Period, MaxDraw)
     ELSE g <= Larger(Period, MaxDraw) + drawing

Reflected ==
  \A t \in Topics :
    /\ ~Idle => Reflects(frame[t], readings[t], t, drawing)
    /\ \E g \in Int : Since(g) /\ Reflects(screen[t], readings[t], t, g)

IInv == Types /\ Rounds /\ InTurn /\ OnTime /\ Sent /\ Reflected

-------------------------------------------------------------------------------
(* One draw more or less, and no more draws than so many.                     *)
LEMMA Products ==
  ASSUME NEW k \in Int, NEW n \in Int, NEW m \in Nat
  PROVE  /\ k * m \in Int
         /\ (k + 1) * m = k * m + m /\ (k - 1) * m = k * m - m
         /\ k <= n => k * m <= n * m
<1>1. k * m \in Int /\ (k + 1) * m = k * m + m /\ (k - 1) * m = k * m - m
  OBVIOUS
<1>2. ASSUME k <= n
      PROVE  k * m <= n * m
  <2>1. n - k \in Nat
    BY <1>2
  <2>2. (n - k) * m \in Nat
    BY <2>1
  <2>3. n * m = k * m + (n - k) * m
    OBVIOUS
  <2> QED
    BY <1>1, <2>2, <2>3
<1> QED
  BY <1>1, <1>2

(* The deadlines are durations, in this order. *)
LEMMA Durations ==
  /\ Larger(Period, MaxDraw) \in Nat /\ Period <= Larger(Period, MaxDraw)
  /\ MaxDraw <= Larger(Period, MaxDraw) /\ Lag = Larger(Period, MaxDraw) + MaxDraw
  /\ Wait \in Nat /\ MaxDraw <= Wait /\ Wait <= (Depth + 1) * MaxDraw
  /\ (Depth + 1) * MaxDraw \in Nat /\ (MaxDraw >= Period => Wait = (Depth + 1) * MaxDraw)
  /\ Lag \in Nat /\ Old \in Nat /\ Old = StaleAfter + Wait + Lag + 1
<1> USE DurationsAssumption
<1>1. /\ Larger(Period, MaxDraw) \in Nat /\ Period <= Larger(Period, MaxDraw)
      /\ MaxDraw <= Larger(Period, MaxDraw)
  BY DEF Larger
<1>2. MaxDraw <= (Depth + 1) * MaxDraw /\ (Depth + 1) * MaxDraw \in Nat
  <2>1. 1 <= Depth + 1 /\ 1 * MaxDraw = MaxDraw
    OBVIOUS
  <2>2. 1 * MaxDraw <= (Depth + 1) * MaxDraw /\ (Depth + 1) * MaxDraw \in Int
    <3> DEFINE n == Depth + 1
    <3>1. n \in Int /\ 1 \in Int /\ 1 <= n
      BY <2>1
    <3> HIDE DEF n
    <3>2. 1 * MaxDraw <= n * MaxDraw /\ n * MaxDraw \in Int
      BY <3>1, Products
    <3> QED
      BY <3>2 DEF n
  <2> QED
    BY <2>1, <2>2
<1>3. Wait \in Nat /\ MaxDraw <= Wait /\ Wait <= (Depth + 1) * MaxDraw
  BY <1>2 DEF Wait
<1>4. Lag \in Nat /\ Lag = Larger(Period, MaxDraw) + MaxDraw
  BY <1>1 DEF Lag
<1>5. MaxDraw >= Period => Wait = (Depth + 1) * MaxDraw
  BY DEF Wait
<1> QED
  BY <1>1, <1>2, <1>3, <1>4, <1>5 DEF Old

(* ... of which Wait is asked for most. *)
LEMMA WaitType == Wait \in Nat
BY Durations

(* The timer is no topic. *)
LEMMA TimerIsNoTopic == "timer" \notin Topics
BY TopicsAssumption DEF Status

(* How many draws a message is from being taken. *)
LEMMA DrawsType ==
  ASSUME NEW t, NEW i \in Int
  PROVE  Draws(t, i) \in Int /\ i - 1 <= Draws(t, i) /\ Draws(t, i) <= i + 1
BY DEF Draws

(* The messages waiting, and how many they are.                               *)
LEMMA WaitingType ==
  ASSUME Types, NEW t \in Topics
  PROVE  /\ Len(queue[t]) \in Nat
         /\ \A i \in 1 .. Len(queue[t]) :
              queue[t][i].msg \in Message(t) /\ queue[t][i].age \in Nat /\ i \in Nat
<1> DEFINE M == [msg : Message(t), age : Nat]
<1>1. queue[t] \in Seq(M)
  BY DEF Types
<1> HIDE DEF M
<1>2. Len(queue[t]) \in Nat /\ \A i \in 1 .. Len(queue[t]) : queue[t][i] \in M /\ i \in Nat
  BY <1>1
<1>3. \A m \in M : m.msg \in Message(t) /\ m.age \in Nat
  BY DEF M
<1> QED
  BY <1>2, <1>3

(* A message i-th in its subscription has waited for so long, at most. *)
LEMMA AgeBound ==
  ASSUME IInv, NEW t \in Topics, NEW i \in 1 .. Len(queue[t])
  PROVE  queue[t][i].age \in Nat /\ queue[t][i].age <= Wait
<1> USE DurationsAssumption
<1>1. queue[t][i].age \in Nat /\ i \in Nat /\ Len(queue[t]) \in Nat
  BY WaitingType DEF IInv
<1>2. CASE MaxDraw < Period
  <2>1. queue[t][i].age <= MaxDraw \/ queue[t][i].age <= drawing
    BY <1>1, <1>2 DEF IInv, OnTime
  <2>2. drawing <= MaxDraw /\ drawing \in Int
    BY DEF IInv, Types
  <2>3. MaxDraw <= Wait /\ Wait \in Nat
    BY Durations
  <2> QED
    BY <1>1, <2>1, <2>2, <2>3
<1>3. CASE MaxDraw >= Period
  <2>1. queue[t][i].age + Draws(t, i) * MaxDraw + Left <= (Depth + 1) * MaxDraw
    BY DEF IInv, InTurn
  <2>2. Left \in Nat
    BY DEF Left, Idle, IInv, Types
  <2>3. Draws(t, i) \in Nat
    BY <1>1, DrawsType
  <2>4. Draws(t, i) * MaxDraw \in Nat
    BY <2>3
  <2>5. Wait = (Depth + 1) * MaxDraw /\ Wait \in Nat
    BY <1>3, Durations
  <2> QED
    BY <1>1, <2>1, <2>2, <2>4, <2>5
<1> QED
  BY <1>2, <1>3

(* A message that has moved up is no later than it was. *)
LEMMA MovedUp ==
  ASSUME IInv, NEW t \in Topics, NEW j \in 1 .. Len(queue[t]), NEW i \in 1 .. j
  PROVE  queue[t][j].age + Draws(t, i) * MaxDraw + Left <= (Depth + 1) * MaxDraw
<1> USE DurationsAssumption
<1>1. /\ queue[t][j].age \in Nat /\ i \in Nat /\ j \in Nat /\ i <= j
      /\ queue[t][j].age + Draws(t, j) * MaxDraw + Left <= (Depth + 1) * MaxDraw
  BY WaitingType DEF IInv, InTurn
<1>2. /\ Draws(t, i) \in Int /\ Draws(t, j) \in Int /\ Draws(t, i) <= Draws(t, j)
  BY <1>1 DEF Draws
<1>3. /\ Draws(t, i) * MaxDraw \in Int /\ Draws(t, j) * MaxDraw \in Int
      /\ Draws(t, i) * MaxDraw <= Draws(t, j) * MaxDraw
  BY <1>2, Products
<1>4. Left \in Nat
  BY DEF Left, Idle, IInv, Types
<1>5. (Depth + 1) * MaxDraw \in Nat
  BY Durations
<1> QED
  BY <1>1, <1>3, <1>4, <1>5

(* A message that arrives has its turn in time. *)
LEMMA Arrived ==
  ASSUME IInv, NEW t \in Topics, NEW i \in 1 .. Depth
  PROVE  Draws(t, i) * MaxDraw + Left <= (Depth + 1) * MaxDraw
<1> USE DurationsAssumption
<1>1. CASE Idle
  <2>1. Draws(t, i) \in Int /\ Draws(t, i) <= Depth + 1 /\ Depth + 1 \in Int
    BY DrawsType
  <2>2. Draws(t, i) * MaxDraw <= (Depth + 1) * MaxDraw
    <3> DEFINE n == Depth + 1
    <3>1. n \in Int /\ Draws(t, i) <= n
      BY <2>1
    <3> HIDE DEF n
    <3>2. Draws(t, i) * MaxDraw <= n * MaxDraw
      BY <2>1, <3>1, Products
    <3> QED
      BY <3>2 DEF n
  <2>3. Left = 0
    BY <1>1 DEF Left
  <2>4. Draws(t, i) * MaxDraw \in Int
    BY <2>1, Products
  <2> QED
    BY <2>2, <2>3, <2>4
<1>2. CASE ~Idle
  <2>1. Draws(t, i) \in Int /\ Draws(t, i) <= Depth
    BY <1>2 DEF Draws, IInv, Rounds
  <2>2. Draws(t, i) * MaxDraw <= Depth * MaxDraw /\ Draws(t, i) * MaxDraw \in Int
    BY <2>1, Products
  <2>3. (Depth + 1) * MaxDraw = Depth * MaxDraw + MaxDraw /\ Depth * MaxDraw \in Int
    BY Products
  <2>4. Left \in Nat /\ Left <= MaxDraw
    BY <1>2 DEF Left, Idle, IInv, Types
  <2> QED
    BY <2>2, <2>3, <2>4
<1> QED
  BY <1>1, <1>2

(* The last Depth messages: the new one, and others that have moved up.       *)
LEMMA KeepsLast ==
  ASSUME NEW M, NEW q \in Seq(M), NEW m \in M, Len(q) <= Depth,
         NEW n, n = (IF Len(Append(q, m)) > Depth THEN Tail(Append(q, m)) ELSE Append(q, m))
  PROVE  /\ n \in Seq(M) /\ Len(n) \in 1 .. Depth /\ n # <<>>
         /\ \A i \in 1 .. Len(n) : n[i] = m \/ \E j \in 1 .. Len(q) : i <= j /\ n[i] = q[j]
<1> USE DurationsAssumption
<1> DEFINE a == Append(q, m)
<1>1. /\ a \in Seq(M) /\ Len(a) = Len(q) + 1 /\ Len(q) \in Nat /\ a # <<>>
      /\ \A i \in 1 .. Len(q) : a[i] = q[i]
      /\ a[Len(q) + 1] = m
  OBVIOUS
<1> HIDE DEF a
<1>2. CASE Len(a) > Depth
  <2>1. /\ n = Tail(a) /\ n \in Seq(M) /\ Len(n) = Len(q) /\ Len(q) = Depth
        /\ \A i \in 1 .. Len(n) : n[i] = a[i + 1]
    BY <1>1, <1>2 DEF a
  <2>2. \A i \in 1 .. Len(n) : n[i] = m \/ \E j \in 1 .. Len(q) : i <= j /\ n[i] = q[j]
    <3> SUFFICES ASSUME NEW i \in 1 .. Len(n)
                 PROVE  n[i] = m \/ \E j \in 1 .. Len(q) : i <= j /\ n[i] = q[j]
      OBVIOUS
    <3>1. CASE i = Len(q)
      BY <1>1, <2>1, <3>1
    <3>2. CASE i # Len(q)
      <4>1. i + 1 \in 1 .. Len(q) /\ i <= i + 1 /\ n[i] = q[i + 1]
        BY <1>1, <2>1, <3>2
      <4> QED
        BY <4>1
    <3> QED
      BY <3>1, <3>2
  <2> QED
    BY <2>1, <2>2
<1>3. CASE Len(a) <= Depth
  <2>1. n = a
    BY <1>1, <1>3 DEF a
  <2>2. \A i \in 1 .. Len(n) : n[i] = m \/ \E j \in 1 .. Len(q) : i <= j /\ n[i] = q[j]
    BY <1>1, <2>1
  <2> QED
    BY <1>1, <1>3, <2>1, <2>2
<1> QED
  BY <1>1, <1>2, <1>3

(* A message arrives. *)
LEMMA ArriveStep ==
  ASSUME IInv, NEW t \in Topics, NEW m \in Message(t), Arrive(t, m)
  PROVE  IInv'
<1> USE DurationsAssumption
<1> DEFINE M == [msg : Message(t), age : Nat]
           new == [msg |-> m, age |-> 0]
           n == IF Len(Append(queue[t], new)) > Depth THEN Tail(Append(queue[t], new))
                ELSE Append(queue[t], new)
<1>1. /\ queue' = [queue EXCEPT ![t] = n]
      /\ UNCHANGED <<readings, ready, timer, drawing, frame, screen, running>>
  BY DEF Arrive
<1>2. /\ queue[t] \in Seq(M) /\ Len(queue[t]) <= Depth /\ new \in M /\ new.age = 0
      /\ DOMAIN queue = Topics
  BY DEF IInv, Types, Rounds
<1>3. /\ n \in Seq(M) /\ Len(n) \in 1 .. Depth /\ n # <<>>
      /\ \A i \in 1 .. Len(n) :
           n[i] = new \/ \E j \in 1 .. Len(queue[t]) : i <= j /\ n[i] = queue[t][j]
  <2> HIDE DEF new, M, n
  <2>1. n = (IF Len(Append(queue[t], new)) > Depth THEN Tail(Append(queue[t], new))
             ELSE Append(queue[t], new))
    BY DEF n
  <2> QED
    BY <1>2, <2>1, KeepsLast
<1> HIDE DEF n, new
<1>4. queue'[t] = n /\ DOMAIN queue' = Topics /\ \A u \in Topics : u # t => queue'[u] = queue[u]
  BY <1>1, <1>2
<1>5. Idle' = Idle /\ Left' = Left /\ \A u, i : Draws(u, i)' = Draws(u, i)
  BY <1>1 DEF Idle, Left, Draws
<1>6. Types'
  <2>1. \A u \in Topics : queue'[u] \in Seq([msg : Message(u), age : Nat])
    BY <1>3, <1>4 DEF IInv, Types
  <2> QED
    BY <1>1, <1>4, <2>1 DEF IInv, Types
<1>7. Rounds'
  <2>1. \A u \in Topics : Len(queue'[u]) <= Depth /\ (u \in ready => queue'[u] # <<>>)
    BY <1>3, <1>4 DEF IInv, Rounds
  <2> QED
    BY <1>1, <1>5, <2>1 DEF IInv, Rounds
<1>8. InTurn'
  <2> SUFFICES ASSUME NEW u \in Topics, NEW i \in 1 .. Len(queue'[u])
               PROVE  queue'[u][i].age + Draws(u, i) * MaxDraw + Left <= (Depth + 1) * MaxDraw
    BY <1>5 DEF InTurn
  <2>1. CASE u # t
    BY <1>4, <2>1 DEF IInv, InTurn
  <2>2. CASE u = t
    <3>1. i \in 1 .. Len(n) /\ queue'[u] = n /\ i \in 1 .. Depth /\ i \in Nat
      BY <1>3, <1>4, <2>2
    <3>2. CASE n[i] = new
      <4>1. Draws(t, i) * MaxDraw + Left <= (Depth + 1) * MaxDraw
        BY <3>1, Arrived
      <4>2. queue'[u][i].age = 0
        BY <1>2, <3>1, <3>2
      <4>3. Draws(t, i) * MaxDraw \in Int /\ Left \in Int
        BY <3>1, DrawsType, Products DEF Left, IInv, Types
      <4> QED
        BY <2>2, <4>1, <4>2, <4>3
    <3>3. CASE \E j \in 1 .. Len(queue[t]) : i <= j /\ n[i] = queue[t][j]
      <4>1. PICK j \in 1 .. Len(queue[t]) : i <= j /\ n[i] = queue[t][j]
        BY <3>3
      <4>2. i \in 1 .. j
        BY <3>1, <4>1
      <4>3. queue[t][j].age + Draws(t, i) * MaxDraw + Left <= (Depth + 1) * MaxDraw
        BY <4>2, MovedUp
      <4> QED
        BY <2>2, <3>1, <4>1, <4>3
    <3> QED
      BY <1>3, <3>1, <3>2, <3>3
  <2> QED
    BY <2>1, <2>2
<1>9. OnTime'
  <2> SUFFICES ASSUME MaxDraw < Period
               PROVE  /\ timer >= 0 /\ (~Idle => timer = Period - drawing)
                      /\ \A u \in Topics : \A i \in 1 .. Len(queue'[u]) :
                           /\ queue'[u][i].age <= IF Idle THEN MaxDraw ELSE drawing
                           /\ Idle /\ timer = 0 => queue'[u][i].age = 0
    BY <1>1, <1>5 DEF OnTime
  <2>1. ~Idle => drawing \in Nat
    BY DEF Idle, IInv, Types
  <2>2. \A i \in 1 .. Len(n) :
          /\ n[i].age <= IF Idle THEN MaxDraw ELSE drawing
          /\ Idle /\ timer = 0 => n[i].age = 0
    BY <1>2, <1>3, <2>1 DEF IInv, OnTime
  <2> QED
    BY <1>4, <2>2 DEF IInv, OnTime
<1>10. Sent' /\ Reflected'
  BY <1>1, <1>5 DEF IInv, Sent, Reflected, Reflects, Since
<1> QED
  BY <1>6, <1>7, <1>8, <1>9, <1>10 DEF IInv

(* A round begins.  A subscription with messages is part of it, so that the   *)
(* timer's call in it delays none beyond its turn.                            *)
LEMMA CollectStep ==
  ASSUME IInv, Collect
  PROVE  IInv'
<1> USE DurationsAssumption
<1>1. /\ Idle /\ ready = {} /\ ready' = Due
      /\ UNCHANGED <<queue, readings, timer, drawing, frame, screen, running>>
  BY DEF Collect
<1>2. /\ Due \subseteq Topics \cup {"timer"}
      /\ \A t \in Topics : t \in Due <=> queue[t] # <<>>
      /\ "timer" \in Due => timer <= 0
  BY TimerIsNoTopic DEF Due
<1>3. Idle' = Idle /\ Left' = Left
  BY <1>1 DEF Idle, Left
<1>4. Types' /\ Rounds'
  <2>1. Types'
    BY <1>1, <1>2 DEF IInv, Types
  <2>2. Rounds'
    BY <1>1, <1>2, <1>3 DEF IInv, Rounds
  <2> QED
    BY <2>1, <2>2
<1>5. InTurn'
  <2> SUFFICES ASSUME NEW t \in Topics, NEW i \in 1 .. Len(queue[t])
               PROVE  queue[t][i].age + Draws(t, i)' * MaxDraw + Left <= (Depth + 1) * MaxDraw
    BY <1>1, <1>3 DEF InTurn
  <2>1. queue[t][i].age \in Nat /\ i \in Nat /\ Len(queue[t]) \in Nat
    BY WaitingType DEF IInv
  <2>2. queue[t] # <<>>
    BY <2>1
  <2>3. Draws(t, i) \in Int /\ Draws(t, i)' \in Int /\ Draws(t, i)' <= Draws(t, i)
    BY <1>1, <1>2, <2>1, <2>2 DEF Draws
  <2>4. /\ Draws(t, i) * MaxDraw \in Int /\ Draws(t, i)' * MaxDraw \in Int
        /\ Draws(t, i)' * MaxDraw <= Draws(t, i) * MaxDraw
    <3> DEFINE k == Draws(t, i)'
    <3>1. k \in Int /\ k <= Draws(t, i)
      BY <2>3
    <3> HIDE DEF k
    <3>2. k * MaxDraw \in Int /\ Draws(t, i) * MaxDraw \in Int /\ k * MaxDraw <= Draws(t, i) * MaxDraw
      BY <2>3, <3>1, Products
    <3> QED
      BY <3>2 DEF k
  <2>5. queue[t][i].age + Draws(t, i) * MaxDraw + Left <= (Depth + 1) * MaxDraw
    BY DEF IInv, InTurn
  <2>6. Left = 0 /\ (Depth + 1) * MaxDraw \in Int
    BY <1>1, Durations DEF Left
  <2> QED
    BY <2>1, <2>4, <2>5, <2>6
<1>6. OnTime'
  BY <1>1, <1>3 DEF IInv, OnTime
<1>7. Sent' /\ Reflected'
  BY <1>1, <1>3 DEF IInv, Sent, Reflected, Reflects, Since
<1> QED
  BY <1>4, <1>5, <1>6, <1>7 DEF IInv

(* The others move up when the first message is taken. *)
LEMMA TakesFirst ==
  ASSUME NEW M, NEW q \in Seq(M), q # <<>>
  PROVE  /\ Head(q) \in M /\ Head(q) = q[1] /\ 1 \in 1 .. Len(q)
         /\ Tail(q) \in Seq(M) /\ Len(Tail(q)) \in Nat /\ Len(Tail(q)) < Len(q)
         /\ \A i \in 1 .. Len(Tail(q)) : i + 1 \in 1 .. Len(q) /\ Tail(q)[i] = q[i + 1]
OBVIOUS

(* What was just stored says nothing yet of what is shown. *)
LEMMA StoreReading ==
  ASSUME IInv, NEW t \in Topics, t \in ready, Store(t)
  PROVE  /\ DOMAIN readings' = Topics
         /\ \A u \in Topics :
              \/ readings'[u] = readings[u]
              \/ /\ readings'[u] \in [msg : Message(u), stamp : Ages, age : Ages]
                 /\ readings'[u].stamp = 0 /\ readings'[u].age <= Wait
<1> USE DurationsAssumption
<1> DEFINE m == Head(queue[t])
           r == [msg |-> m.msg, stamp |-> 0, age |-> m.age]
<1>1. \/ readings' = readings
      \/ readings' = [readings EXCEPT ![t] = r]
  BY DEF Store
<1>2. m.msg \in Message(t) /\ m.age \in Nat /\ m.age <= Wait
  <2>1. queue[t] # <<>> /\ queue[t] \in Seq([msg : Message(t), age : Nat])
    BY DEF IInv, Rounds, Types
  <2> DEFINE M == [msg : Message(t), age : Nat]
  <2> HIDE DEF M
  <2>2. m = queue[t][1] /\ 1 \in 1 .. Len(queue[t])
    BY <2>1, TakesFirst DEF M
  <2> QED
    BY <2>2, AgeBound, WaitingType DEF IInv
<1> HIDE DEF m
<1>3. r \in [msg : Message(t), stamp : Ages, age : Ages] /\ r.stamp = 0 /\ r.age <= Wait
  <2>1. 0 \in Ages /\ m.age \in Ages
    BY <1>2, Durations DEF Ages
  <2> QED
    BY <1>2, <2>1
<1> HIDE DEF r
<1>4. DOMAIN readings = Topics
  BY DEF IInv, Types
<1> QED
  BY <1>1, <1>3, <1>4

(* A message is taken, and with it one turn of those behind it. *)
LEMMA StoreStep ==
  ASSUME IInv, NEW t \in Topics, Store(t)
  PROVE  IInv'
<1> USE DurationsAssumption
<1> DEFINE M == [msg : Message(t), age : Nat]
           n == Tail(queue[t])
<1>1. /\ Idle /\ t \in ready /\ ready' = ready \ {t} /\ queue' = [queue EXCEPT ![t] = n]
      /\ UNCHANGED <<timer, drawing, frame, screen, running>>
  BY DEF Store
<1>2. queue[t] \in Seq(M) /\ queue[t] # <<>> /\ DOMAIN queue = Topics /\ Len(queue[t]) <= Depth
  BY <1>1 DEF IInv, Types, Rounds
<1>3. /\ n \in Seq(M) /\ Len(n) \in Nat /\ Len(n) <= Depth
      /\ \A i \in 1 .. Len(n) : i + 1 \in 1 .. Len(queue[t]) /\ n[i] = queue[t][i + 1]
  <2>1. Len(queue[t]) \in Nat
    BY <1>2
  <2> HIDE DEF M
  <2> QED
    BY <1>2, <2>1, TakesFirst
<1> HIDE DEF n
<1>4. queue'[t] = n /\ DOMAIN queue' = Topics /\ \A u \in Topics : u # t => queue'[u] = queue[u]
  BY <1>1, <1>2
<1>5. Idle' = Idle /\ Left' = Left
  BY <1>1 DEF Idle, Left
<1>6. /\ DOMAIN readings' = Topics
      /\ \A u \in Topics :
           \/ readings'[u] = readings[u]
           \/ /\ readings'[u] \in [msg : Message(u), stamp : Ages, age : Ages]
              /\ readings'[u].stamp = 0 /\ readings'[u].age <= Wait
  BY <1>1, StoreReading
<1>7. Types'
  <2>1. \A u \in Topics : queue'[u] \in Seq([msg : Message(u), age : Nat])
    BY <1>3, <1>4 DEF IInv, Types
  <2>2. \A u \in Topics : readings'[u] \in Reading(u)
    BY <1>6 DEF IInv, Types, Reading
  <2> QED
    BY <1>1, <1>4, <1>6, <2>1, <2>2 DEF IInv, Types
<1>8. Rounds'
  <2>1. \A u \in Topics : Len(queue'[u]) <= Depth /\ (u \in ready' => queue'[u] # <<>>)
    BY <1>1, <1>3, <1>4 DEF IInv, Rounds
  <2> QED
    BY <1>1, <1>5, <2>1 DEF IInv, Rounds
<1>9. InTurn'
  <2> SUFFICES ASSUME NEW u \in Topics, NEW i \in 1 .. Len(queue'[u])
               PROVE  queue'[u][i].age + Draws(u, i)' * MaxDraw + Left <= (Depth + 1) * MaxDraw
    BY <1>5 DEF InTurn
  <2>1. "timer" \in ready' <=> "timer" \in ready
    BY <1>1, TimerIsNoTopic
  <2>2. CASE u # t
    <3>1. Draws(u, i)' = Draws(u, i) /\ queue'[u] = queue[u]
      BY <1>1, <1>4, <2>1, <2>2 DEF Draws
    <3> QED
      BY <3>1 DEF IInv, InTurn
  <2>3. CASE u = t
    <3>1. queue'[u] = n /\ i \in 1 .. Len(n) /\ i \in Nat
      BY <1>3, <1>4, <2>3
    <3>2. i + 1 \in 1 .. Len(queue[t]) /\ queue'[u][i] = queue[t][i + 1]
      BY <1>3, <3>1
    <3>3. Draws(u, i)' = Draws(t, i + 1)
      BY <1>1, <2>1, <2>3, <3>1 DEF Draws
    <3> QED
      BY <2>3, <3>2, <3>3 DEF IInv, InTurn
  <2> QED
    BY <2>2, <2>3
<1>10. OnTime'
  <2> SUFFICES ASSUME MaxDraw < Period
               PROVE  /\ timer >= 0 /\ (~Idle => timer = Period - drawing)
                      /\ \A u \in Topics : \A i \in 1 .. Len(queue'[u]) :
                           /\ queue'[u][i].age <= IF Idle THEN MaxDraw ELSE drawing
                           /\ Idle /\ timer = 0 => queue'[u][i].age = 0
    BY <1>1, <1>5 DEF OnTime
  <2>1. \A i \in 1 .. Len(n) :
          /\ n[i].age <= IF Idle THEN MaxDraw ELSE drawing
          /\ Idle /\ timer = 0 => n[i].age = 0
    BY <1>3 DEF IInv, OnTime
  <2> QED
    BY <1>4, <2>1 DEF IInv, OnTime
<1>11. Sent'
  BY <1>6, WaitType DEF IInv, Sent
<1>12. Reflected'
  <2> SUFFICES ASSUME NEW u \in Topics
               PROVE  \E g \in Int : Since(g) /\ Reflects(screen[u], readings'[u], u, g)
    BY <1>1, <1>5 DEF Reflected, Since
  <2>1. PICK g \in Int : Since(g) /\ Reflects(screen[u], readings[u], u, g)
    BY DEF IInv, Reflected
  <2>2. CASE readings'[u] = readings[u]
    BY <2>1, <2>2 DEF Reflects
  <2>3. CASE readings'[u].stamp = 0
    <3>1. ~(0 > g)
      BY <2>1 DEF Since
    <3>2. Reflects(screen[u], readings'[u], u, g)
      BY <2>1, <2>3, <3>1 DEF Reflects
    <3> QED
      BY <2>1, <3>2
  <2> QED
    BY <1>6, <2>2, <2>3
<1> QED
  BY <1>7, <1>8, <1>9, <1>10, <1>11, <1>12 DEF IInv

(* The next call is no further than a period away. *)
LEMMA NextCallType ==
  ASSUME timer \in Int
  PROVE  NextCall \in 0 .. Period
<1> USE DurationsAssumption
<1>1. timer % Period \in 0 .. Period - 1
  OBVIOUS
<1> QED
  BY <1>1 DEF NextCall

(* A reading says something, unless it is older than any limit.               *)
LEMMA ReadingFacts ==
  ASSUME NEW t, NEW r \in Reading(t)
  PROVE  /\ r.stamp \in Nat /\ r.stamp <= Old /\ r.age \in Nat /\ r.age <= Old
         /\ r.stamp # Old => r.msg \in Message(t)
<1>1. Old \in Nat
  BY Durations
<1>2. CASE r = NoReading
  BY <1>1, <1>2 DEF NoReading
<1>3. CASE r \in [msg : Message(t), stamp : Ages, age : Ages]
  <2>1. r.msg \in Message(t) /\ r.stamp \in Ages /\ r.age \in Ages
    BY <1>3
  <2> QED
    BY <1>1, <2>1 DEF Ages
<1> QED
  BY <1>2, <1>3 DEF Reading

(* Ages are counted up to Old. *)
LEMMA AgedFacts ==
  ASSUME NEW a \in Ages
  PROVE  /\ Aged(a) \in Ages /\ a \in Nat /\ Aged(a) \in Nat
         /\ Aged(a) = a + 1 \/ (a = Old /\ Aged(a) = Old)
<1>1. Old \in Nat
  BY Durations
<1> QED
  BY <1>1 DEF Aged, Ages

(* What may be shown: what a message says, or that there is none.             *)
Says(t) == {Status[t][m] : m \in Message(t)} \cup {"NO DATA"}

(* A row that says it has the type of what is shown. *)
LEMMA ShownType ==
  ASSUME NEW t, NEW a \in Ages, NEW s \in Says(t), NEW row, row = [status |-> s, age |-> a]
  PROVE  row \in Shown(t) /\ row.status = s /\ row.age = a
<1> DEFINE R == [status |-> s, age |-> a]
<1>1. R \in [status : Says(t), age : Ages] /\ R.status = s /\ R.age = a
  OBVIOUS
<1> HIDE DEF R
<1>2. row = R
  BY DEF R
<1> QED
  BY <1>1, <1>2 DEF Says, Shown

(* What is shown ages, and says the same. *)
LEMMA AgedShown ==
  ASSUME NEW t, NEW shown \in Shown(t), NEW later, later = [shown EXCEPT !.age = Aged(@)]
  PROVE  /\ later \in Shown(t) /\ later.status = shown.status
         /\ shown.age \in Nat /\ later.age \in Nat /\ later.age <= shown.age + 1
<1>1. shown \in [status : Says(t), age : Ages]
  BY DEF Shown, Says
<1>2. shown.age \in Ages /\ later.status = shown.status /\ later.age = Aged(shown.age)
  BY <1>1
<1>3. /\ Aged(shown.age) \in Ages /\ shown.age \in Nat /\ Aged(shown.age) \in Nat
      /\ Aged(shown.age) <= shown.age + 1
  BY <1>2, AgedFacts
<1>4. later \in [status : Says(t), age : Ages]
  BY <1>1, <1>3
<1> QED
  BY <1>2, <1>3, <1>4 DEF Says, Shown

(* The row of no message may be shown. *)
LEMMA NoDataType ==
  ASSUME NEW t
  PROVE  NoData \in Shown(t) /\ NoData.status = "NO DATA" /\ NoData.age = Old
<1>1. Old \in Ages
  BY Durations DEF Ages
<1> DEFINE s == "NO DATA"
<1>2. s \in Says(t)
  BY DEF Says
<1>3. NoData = [status |-> s, age |-> Old]
  BY DEF NoData
<1> HIDE DEF s
<1>4. NoData \in Shown(t) /\ NoData.status = s /\ NoData.age = Old
  BY <1>1, <1>2, <1>3, ShownType
<1> QED
  BY <1>4 DEF s

(* No frame shows anything. *)
LEMMA NoFrameType ==
  ASSUME NEW t \in Topics
  PROVE  NoFrame[t] \in Shown(t) /\ NoFrame[t].status = "NO DATA"
<1>1. NoFrame[t] = NoData
  BY DEF NoFrame
<1> QED
  BY <1>1, NoDataType

(* A row is what its reading says, as long as that is fresh. *)
LEMMA RowFacts ==
  ASSUME IInv, NEW t \in Topics
  PROVE  Row(t) \in Shown(t) /\ Reflects(Row(t), readings[t], t, 0)
<1> USE DurationsAssumption
<1> DEFINE r == readings[t]
<1>1. r.age <= r.stamp + Wait /\ Wait \in Nat
  BY WaitType DEF IInv, Sent
<1>2. StaleAfter \in Int /\ Old \in Nat /\ StaleAfter < Old
  BY Durations
<1>3. /\ r.stamp \in Nat /\ r.age \in Nat /\ r.age <= Old
      /\ r.stamp < StaleAfter => r.msg \in Message(t)
  <2>1. r \in Reading(t)
    BY DEF IInv, Types
  <2> HIDE DEF r
  <2> QED
    BY <1>2, <2>1, ReadingFacts
<1>4. /\ Fresh(t) <=> r.stamp < StaleAfter
      /\ Fresh(t) => Row(t) = [status |-> Status[t][r.msg], age |-> r.age]
      /\ ~Fresh(t) => Row(t) = NoData
  BY Zenon DEF Fresh, Row
<1> HIDE DEF r
<1>5. CASE Fresh(t)
  <2> DEFINE st == Status[t][r.msg]
  <2>1. Row(t) = [status |-> st, age |-> r.age]
    BY <1>4, <1>5
  <2>2. r.stamp < StaleAfter /\ r.age \in Ages /\ st \in Says(t)
    <3>1. r.stamp < StaleAfter
      BY <1>4, <1>5, Zenon
    <3>2. r.msg \in Message(t) /\ r.age \in Ages
      BY <1>2, <1>3, <3>1 DEF Ages
    <3> QED
      BY <3>1, <3>2 DEF Says
  <2> HIDE DEF st
  <2>3. Row(t) \in Shown(t) /\ Row(t).status = st /\ Row(t).age = r.age
    BY <2>1, <2>2, ShownType
  <2>4. r.age < StaleAfter + Wait + 0 /\ r.stamp - 0 < StaleAfter
    BY <1>1, <1>2, <1>3, <2>2
  <2>5. Reflects(Row(t), r, t, 0)
    BY <2>3, <2>4 DEF Reflects, st
  <2> QED
    BY <2>3, <2>5 DEF r
<1>6. CASE ~Fresh(t)
  <2>1. Row(t) = NoData
    BY <1>4, <1>6
  <2>2. ~(r.stamp - 0 < StaleAfter)
    <3>1. ~(r.stamp < StaleAfter)
      BY <1>4, <1>6, Zenon
    <3> QED
      BY <1>2, <1>3, <3>1
  <2>3. Row(t) \in Shown(t) /\ Row(t).status = "NO DATA"
    BY <2>1, NoDataType
  <2>4. Reflects(Row(t), r, t, 0)
    BY <2>2, <2>3 DEF Reflects
  <2> QED
    BY <2>3, <2>4 DEF r
<1> QED
  BY <1>5, <1>6

(* draw() begins; it takes the turn that the messages have allowed for.       *)
LEMMA DrawStep ==
  ASSUME IInv, Draw
  PROVE  IInv'
<1> USE DurationsAssumption
<1>1. /\ Idle /\ "timer" \in ready /\ ready' = ready \ {"timer"}
      /\ UNCHANGED <<queue, readings, screen>>
      /\ \/ /\ drawing' = 0 /\ frame' = [t \in Topics |-> Row(t)] /\ timer' = NextCall
            /\ running' = running
         \/ running' = FALSE /\ UNCHANGED <<drawing, frame, timer>>
  BY DEF Draw
<1>2. /\ timer \in Int /\ timer <= 0 /\ drawing = -1 /\ drawing \in Int
      /\ running \in BOOLEAN
  BY <1>1 DEF IInv, Types, Rounds, Idle
<1>3. NextCall \in 0 .. Period
  BY <1>2, NextCallType
<1>4. \/ Idle' /\ UNCHANGED <<drawing, frame, timer>>
      \/ ~Idle' /\ drawing' = 0 /\ frame' = [t \in Topics |-> Row(t)] /\ timer' = NextCall
  BY <1>1 DEF Idle
<1>5. Types'
  <2>1. \A t \in Topics : frame'[t] \in Shown(t)
    BY <1>4, RowFacts DEF IInv, Types
  <2>2. timer' \in -MaxDraw .. Period /\ drawing' \in -1 .. MaxDraw
    BY <1>2, <1>3, <1>4 DEF IInv, Types
  <2>3. running' \in BOOLEAN
    BY <1>1, <1>2
  <2> QED
    BY <1>1, <2>1, <2>2, <2>3 DEF IInv, Types
<1>6. Rounds'
  <2>1. ~Idle' => -drawing' <= timer' /\ timer' <= Period - drawing'
    BY <1>3, <1>4
  <2> QED
    BY <1>1, <2>1 DEF IInv, Rounds
<1>7. InTurn'
  <2> SUFFICES ASSUME NEW t \in Topics, NEW i \in 1 .. Len(queue[t])
               PROVE  queue[t][i].age + Draws(t, i)' * MaxDraw + Left' <= (Depth + 1) * MaxDraw
    BY <1>1 DEF InTurn
  <2>1. queue[t][i].age \in Nat /\ i \in Nat
    BY WaitingType DEF IInv
  <2>2. Draws(t, i) \in Int /\ Draws(t, i)' = Draws(t, i) - 1
    BY <1>1, <2>1, TimerIsNoTopic DEF Draws
  <2>3. /\ Draws(t, i) * MaxDraw \in Int
        /\ Draws(t, i)' * MaxDraw = Draws(t, i) * MaxDraw - MaxDraw
    BY <2>2, Products
  <2>4. Left = 0 /\ Left' \in 0 .. MaxDraw
    BY <1>1, <1>2, <1>4 DEF Left
  <2>5. queue[t][i].age + Draws(t, i) * MaxDraw + Left <= (Depth + 1) * MaxDraw
    BY DEF IInv, InTurn
  <2>6. (Depth + 1) * MaxDraw \in Int
    BY Durations
  <2> QED
    BY <2>1, <2>3, <2>4, <2>5, <2>6
<1>8. OnTime'
  <2> SUFFICES ASSUME MaxDraw < Period
               PROVE  /\ timer' >= 0 /\ (~Idle' => timer' = Period - drawing')
                      /\ \A u \in Topics : \A i \in 1 .. Len(queue[u]) :
                           /\ queue[u][i].age <= IF Idle' THEN MaxDraw ELSE drawing'
                           /\ Idle' /\ timer' = 0 => queue[u][i].age = 0
    BY <1>1 DEF OnTime
  <2>1. timer = 0 /\ NextCall = Period
    BY <1>2 DEF IInv, OnTime, NextCall
  <2>2. \A u \in Topics : \A i \in 1 .. Len(queue[u]) : queue[u][i].age = 0
    BY <1>1, <2>1 DEF IInv, OnTime
  <2> QED
    BY <1>4, <2>1, <2>2
<1>9. Sent'
  BY <1>1 DEF IInv, Sent
<1>10. Reflected'
  <2> SUFFICES ASSUME NEW t \in Topics
               PROVE  /\ ~Idle' => Reflects(frame'[t], readings[t], t, drawing')
                      /\ \E g \in Int : Since(g)' /\ Reflects(screen[t], readings[t], t, g)
    BY <1>1 DEF Reflected
  <2>1. ~Idle' => Reflects(frame'[t], readings[t], t, drawing')
    BY <1>4, RowFacts
  <2>2. PICK g \in Int : Since(g) /\ Reflects(screen[t], readings[t], t, g)
    BY DEF IInv, Reflected
  <2>3. g \in 0 .. Lag /\ g <= Period - timer /\ g <= Larger(Period, MaxDraw)
    BY <1>1, <2>2 DEF Since
  <2>4. Larger(Period, MaxDraw) \in Int
    BY Durations
  <2>5. Since(g)'
    <3>1. CASE Idle' /\ UNCHANGED <<drawing, frame, timer>>
      BY <2>3, <3>1 DEF Since
    <3>2. CASE ~Idle' /\ drawing' = 0
      BY <2>3, <2>4, <3>2 DEF Since
    <3> QED
      BY <1>4, <3>1, <3>2
  <2> QED
    BY <2>1, <2>2, <2>5
<1> QED
  BY <1>5, <1>6, <1>7, <1>8, <1>9, <1>10 DEF IInv

(* ... and ends: the frame is the screen. *)
LEMMA ShowStep ==
  ASSUME IInv, Show
  PROVE  IInv'
<1> USE DurationsAssumption
<1>1. /\ ~Idle /\ screen' = frame /\ frame' = NoFrame /\ drawing' = -1
      /\ UNCHANGED <<queue, readings, ready, timer, running>>
  BY DEF Show
<1>2. Idle' /\ Left' = 0 /\ \A t, i : Draws(t, i)' = Draws(t, i)
  BY <1>1 DEF Idle, Left, Draws
<1>3. drawing \in 0 .. MaxDraw /\ timer \in Int /\ timer <= Period - drawing
  BY <1>1 DEF IInv, Types, Rounds, Idle
<1>4. Types'
  <2>1. \A t \in Topics : frame'[t] \in Shown(t)
    BY <1>1, NoFrameType
  <2> QED
    BY <1>1, <2>1 DEF IInv, Types
<1>5. Rounds'
  BY <1>1, <1>2 DEF IInv, Rounds
<1>6. InTurn'
  <2> SUFFICES ASSUME NEW t \in Topics, NEW i \in 1 .. Len(queue[t])
               PROVE  queue[t][i].age + Draws(t, i) * MaxDraw + 0 <= (Depth + 1) * MaxDraw
    BY <1>1, <1>2 DEF InTurn
  <2>1. queue[t][i].age \in Nat /\ i \in Nat
    BY WaitingType DEF IInv
  <2>2. Draws(t, i) * MaxDraw \in Int
    BY <2>1, DrawsType, Products
  <2>3. queue[t][i].age + Draws(t, i) * MaxDraw + Left <= (Depth + 1) * MaxDraw
    BY DEF IInv, InTurn
  <2>4. Left \in Nat
    BY <1>3 DEF Left
  <2>5. (Depth + 1) * MaxDraw \in Int
    BY Durations
  <2> QED
    BY <2>1, <2>2, <2>3, <2>4, <2>5
<1>7. OnTime'
  <2> SUFFICES ASSUME MaxDraw < Period
               PROVE  /\ timer >= 0 /\ timer # 0
                      /\ \A u \in Topics : \A i \in 1 .. Len(queue[u]) : queue[u][i].age <= MaxDraw
    BY <1>1, <1>2 DEF OnTime
  <2>1. timer = Period - drawing
    BY <1>1 DEF IInv, OnTime
  <2>2. \A u \in Topics : \A i \in 1 .. Len(queue[u]) :
          queue[u][i].age \in Nat /\ queue[u][i].age <= drawing
    BY <1>1, WaitingType DEF IInv, OnTime
  <2> QED
    BY <1>3, <2>1, <2>2
<1>8. Sent'
  BY <1>1 DEF IInv, Sent
<1>9. Reflected'
  <2> SUFFICES ASSUME NEW t \in Topics
               PROVE  \E g \in Int : Since(g)' /\ Reflects(frame[t], readings[t], t, g)
    BY <1>1, <1>2 DEF Reflected
  <2>1. Reflects(frame[t], readings[t], t, drawing)
    BY <1>1 DEF IInv, Reflected
  <2>2. Since(drawing)
    BY <1>1, <1>3, Durations DEF Since
  <2>3. drawing <= Period - timer /\ drawing <= Larger(Period, MaxDraw) /\ drawing \in 0 .. Lag
    BY <1>3, Durations
  <2> DEFINE d == drawing
  <2> HIDE DEF d
  <2>4. d \in Int /\ d \in 0 .. Lag /\ d <= Period - timer' /\ d <= Larger(Period, MaxDraw)
    BY <1>1, <2>3 DEF d
  <2>5. \E g \in Int : g = d /\ Since(g)'
    BY <1>2, <2>4 DEF Since
  <2> QED
    BY <2>1, <2>5 DEF d
<1> QED
  BY <1>4, <1>5, <1>6, <1>7, <1>8, <1>9 DEF IInv

(* The places and the members of a sequence. *)
LEMMA Members ==
  ASSUME NEW M, NEW q \in Seq(M)
  PROVE  DOMAIN q = 1 .. Len(q) /\ Len(q) \in Nat /\ \A i \in 1 .. Len(q) : q[i] \in M
OBVIOUS

(* A function on the places of a sequence is one as long. *)
LEMMA SameLength ==
  ASSUME NEW M, NEW k \in Nat, NEW n \in [1 .. k -> M]
  PROVE  n \in Seq(M) /\ Len(n) = k /\ (n = <<>> <=> k = 0)
OBVIOUS

(* What waits, a tick later. *)
TickLater(q) == [i \in DOMAIN q |-> [q[i] EXCEPT !.age = @ + 1]]

(* Messages age where they wait. *)
LEMMA AgedQueue ==
  ASSUME NEW m, NEW q \in Seq([msg : m, age : Nat])
  PROVE  /\ TickLater(q) \in Seq([msg : m, age : Nat]) /\ Len(TickLater(q)) = Len(q)
         /\ TickLater(q) = <<>> <=> q = <<>>
         /\ \A i \in 1 .. Len(q) : TickLater(q)[i].age = q[i].age + 1
<1> DEFINE n == TickLater(q)
           M == [msg : m, age : Nat]
<1>1. n = [i \in DOMAIN q |-> [q[i] EXCEPT !.age = @ + 1]]
  BY DEF TickLater
<1> HIDE DEF n
<1>2. \A x \in M : [x EXCEPT !.age = @ + 1] \in M /\ [x EXCEPT !.age = @ + 1].age = x.age + 1
  OBVIOUS
<1> HIDE DEF M
<1>3. DOMAIN q = 1 .. Len(q) /\ Len(q) \in Nat /\ \A i \in 1 .. Len(q) : q[i] \in M
  BY Members, Zenon DEF M
<1>4. n = [i \in 1 .. Len(q) |-> [q[i] EXCEPT !.age = @ + 1]]
  BY <1>1, <1>3, Zenon
<1>5. \A i \in 1 .. Len(q) : n[i] \in M /\ n[i].age = q[i].age + 1
  <2> SUFFICES ASSUME NEW i \in 1 .. Len(q)
               PROVE  n[i] \in M /\ n[i].age = q[i].age + 1
    OBVIOUS
  <2>1. n[i] = [q[i] EXCEPT !.age = @ + 1]
    BY <1>4, Zenon
  <2>2. q[i] \in M
    BY <1>3
  <2> QED
    BY <1>2, <2>1, <2>2, Zenon
<1>6. n \in [1 .. Len(q) -> M]
  <2>1. n = [i \in 1 .. Len(q) |-> n[i]]
    BY <1>4, Zenon
  <2> QED
    BY <1>5, <2>1, Zenon
<1>7. n \in Seq(M) /\ Len(n) = Len(q) /\ (n = <<>> <=> Len(q) = 0)
  BY <1>3, <1>6, SameLength
<1>8. q = <<>> <=> Len(q) = 0
  OBVIOUS
<1> QED
  BY <1>5, <1>7, <1>8 DEF n, M

(* A reading ages, and stays as recent as its stamp says. *)
LEMMA AgedReading ==
  ASSUME NEW t, NEW r \in Reading(t), r.age <= r.stamp + Wait,
         NEW s, s = [r EXCEPT !.stamp = Aged(@), !.age = Aged(@)]
  PROVE  /\ s \in Reading(t) /\ s.msg = r.msg /\ s.age <= s.stamp + Wait
         /\ r.stamp \in Nat /\ s.stamp \in Nat
         /\ s.stamp = r.stamp + 1 \/ (r.stamp = Old /\ s.stamp = Old)
<1>1. r.stamp \in Ages /\ r.age \in Ages /\ Old \in Nat /\ Wait \in Nat
  <2>1. Old \in Nat /\ Wait \in Nat
    BY Durations
  <2>2. r.stamp \in Nat /\ r.stamp <= Old /\ r.age \in Nat /\ r.age <= Old
    BY ReadingFacts
  <2> QED
    BY <2>1, <2>2 DEF Ages
<1>2. DOMAIN r = {"msg", "stamp", "age"} /\ r = [msg |-> r.msg, stamp |-> r.stamp, age |-> r.age]
  <2>1. CASE r = NoReading
    BY <2>1 DEF NoReading
  <2>2. CASE r \in [msg : Message(t), stamp : Ages, age : Ages]
    BY <2>2
  <2> QED
    BY <2>1, <2>2 DEF Reading
<1>3. s.msg = r.msg /\ s.stamp = Aged(r.stamp) /\ s.age = Aged(r.age)
  BY <1>2
<1>4. s \in Reading(t)
  <2>1. CASE r = NoReading
    <3>1. r.stamp = Old /\ r.age = Old /\ Aged(Old) = Old
      BY <2>1 DEF NoReading, Aged
    <3>2. s = r
      BY <1>2, <3>1
    <3> QED
      BY <3>2
  <2>2. CASE r \in [msg : Message(t), stamp : Ages, age : Ages]
    <3>1. Aged(r.stamp) \in Ages /\ Aged(r.age) \in Ages
      BY <1>1, AgedFacts
    <3>2. s \in [msg : Message(t), stamp : Ages, age : Ages]
      BY <2>2, <3>1
    <3> QED
      BY <3>2 DEF Reading
  <2> QED
    BY <2>1, <2>2 DEF Reading
<1>5. /\ r.stamp \in Nat /\ s.stamp \in Nat
      /\ s.stamp = r.stamp + 1 \/ (r.stamp = Old /\ s.stamp = Old)
  BY <1>1, <1>3, AgedFacts
<1>6. s.age <= s.stamp + Wait
  <2>1. s.age \in Nat /\ s.age <= r.age + 1 /\ s.age <= Old /\ r.age \in Nat
    BY <1>1, <1>3, AgedFacts DEF Ages
  <2> QED
    BY <1>1, <1>5, <2>1
<1> QED
  BY <1>3, <1>4, <1>5, <1>6

(* A tick later, one more is enough. *)
LEMMA LaterStill ==
  ASSUME NEW a \in Nat, NEW b \in Nat, NEW c \in Nat, NEW w \in Nat, NEW g \in Nat,
         a < c + w + g, b <= a + 1
  PROVE  b < c + w + (g + 1)
OBVIOUS

(* What reflects a reading reflects it a tick later, but a tick older.        *)
LEMMA AgedReflects ==
  ASSUME NEW t, NEW r \in Reading(t), r.age <= r.stamp + Wait,
         NEW s, s = [r EXCEPT !.stamp = Aged(@), !.age = Aged(@)],
         NEW shown \in Shown(t), NEW later, later = [shown EXCEPT !.age = Aged(@)],
         NEW g \in 0 .. Lag, Reflects(shown, r, t, g)
  PROVE  later \in Shown(t) /\ Reflects(later, s, t, g + 1)
<1>1. /\ s.msg = r.msg /\ r.stamp \in Nat /\ s.stamp \in Nat
      /\ s.stamp = r.stamp + 1 \/ (r.stamp = Old /\ s.stamp = Old)
  BY AgedReading, Zenon
<1>2. later \in Shown(t) /\ later.status = shown.status
  BY AgedShown
<1>3. shown.age \in Nat /\ later.age \in Nat /\ later.age <= shown.age + 1
  BY AgedShown
<1>4. /\ StaleAfter \in Nat /\ Wait \in Nat /\ Lag \in Nat /\ Old = StaleAfter + Wait + Lag + 1
      /\ g \in Nat /\ g <= Lag
  BY Durations, DurationsAssumption
<1>5. later.status # "NO DATA" => later.age < StaleAfter + Wait + (g + 1)
  <2> SUFFICES ASSUME later.status # "NO DATA"
               PROVE  later.age < StaleAfter + Wait + (g + 1)
    OBVIOUS
  <2>1. shown.status # "NO DATA"
    BY <1>2
  <2>2. shown.age < StaleAfter + Wait + g
    BY <2>1, Zenon DEF Reflects
  <2> QED
    BY <1>3, <1>4, <2>2, LaterStill
<1>6. ASSUME s.stamp > g + 1
      PROVE  later.status = IF s.stamp - (g + 1) < StaleAfter THEN Status[t][s.msg] ELSE "NO DATA"
  <2>1. r.stamp > g
    BY <1>1, <1>4, <1>6
  <2>2. s.stamp - (g + 1) < StaleAfter <=> r.stamp - g < StaleAfter
    BY <1>1, <1>4
  <2>3. /\ r.stamp - g < StaleAfter => shown.status = Status[t][r.msg]
        /\ ~(r.stamp - g < StaleAfter) => shown.status = "NO DATA"
    BY <2>1, Zenon DEF Reflects
  <2>4. CASE r.stamp - g < StaleAfter
    BY <1>1, <1>2, <2>2, <2>3, <2>4, Zenon
  <2>5. CASE ~(r.stamp - g < StaleAfter)
    BY <1>1, <1>2, <2>2, <2>3, <2>5, Zenon
  <2> QED
    BY <2>4, <2>5
<1> QED
  BY <1>2, <1>5, <1>6 DEF Reflects

(* A tick passes: in a draw(), or when nothing waits. *)
LEMMA TickStep ==
  ASSUME IInv, Tick
  PROVE  IInv'
<1> USE DurationsAssumption
<1>1. /\ queue' = [t \in Topics |-> [i \in DOMAIN queue[t] |-> [queue[t][i] EXCEPT !.age = @ + 1]]]
      /\ readings' = [t \in Topics |-> [readings[t] EXCEPT !.stamp = Aged(@), !.age = Aged(@)]]
      /\ timer' = timer - 1 /\ frame' = Older(frame) /\ screen' = Older(screen)
      /\ UNCHANGED <<ready, running>>
  BY DEF Tick
<1>a. timer' = timer - 1 /\ ready' = ready
  BY <1>1
<1>2. \/ /\ Idle /\ Idle' /\ drawing' = drawing /\ ready = {} /\ timer > 0
         /\ \A t \in Topics : queue[t] = <<>>
      \/ ~Idle /\ ~Idle' /\ drawing < MaxDraw /\ drawing' = drawing + 1 /\ drawing \in Nat
  <2>1. CASE Idle /\ ready = {} /\ Due = {} /\ UNCHANGED drawing
    <3>1. Idle' /\ ready = {} /\ \A t \in Topics : queue[t] = <<>>
      BY <2>1 DEF Idle, Due
    <3>2. ~(timer <= 0) /\ timer \in Int
      BY <2>1 DEF Due, IInv, Types
    <3> QED
      BY <2>1, <3>1, <3>2
  <2>2. CASE ~Idle /\ drawing < MaxDraw /\ drawing' = drawing + 1
    BY <2>2 DEF Idle, IInv, Types
  <2> QED
    BY <2>1, <2>2 DEF Tick
<1>3. timer \in Int /\ drawing \in Int
  BY DEF IInv, Types
<1>4. /\ DOMAIN queue' = Topics
      /\ \A t \in Topics :
           /\ queue'[t] \in Seq([msg : Message(t), age : Nat])
           /\ Len(queue'[t]) = Len(queue[t]) /\ (queue'[t] = <<>> <=> queue[t] = <<>>)
           /\ \A i \in 1 .. Len(queue[t]) : queue'[t][i].age = queue[t][i].age + 1
  <2> SUFFICES ASSUME NEW t \in Topics
               PROVE  /\ queue'[t] \in Seq([msg : Message(t), age : Nat])
                      /\ Len(queue'[t]) = Len(queue[t]) /\ (queue'[t] = <<>> <=> queue[t] = <<>>)
                      /\ \A i \in 1 .. Len(queue[t]) : queue'[t][i].age = queue[t][i].age + 1
    BY <1>1
  <2> DEFINE q == queue[t]
             m == Message(t)
  <2>1. queue'[t] = TickLater(q)
    BY <1>1 DEF TickLater
  <2>2. q \in Seq([msg : m, age : Nat])
    BY DEF IInv, Types
  <2> HIDE DEF q, m
  <2>3. /\ TickLater(q) \in Seq([msg : m, age : Nat]) /\ Len(TickLater(q)) = Len(q)
        /\ TickLater(q) = <<>> <=> q = <<>>
        /\ \A i \in 1 .. Len(q) : TickLater(q)[i].age = q[i].age + 1
    BY <2>2, AgedQueue
  <2> QED
    BY <2>1, <2>3 DEF q, m
<1>5. /\ DOMAIN readings' = Topics
      /\ \A t \in Topics :
           /\ readings[t] \in Reading(t) /\ readings[t].age <= readings[t].stamp + Wait
           /\ readings'[t] = [readings[t] EXCEPT !.stamp = Aged(@), !.age = Aged(@)]
  BY <1>1 DEF IInv, Types, Sent
<1>6. \A t \in Topics : readings'[t] \in Reading(t) /\ readings'[t].age <= readings'[t].stamp + Wait
  <2> SUFFICES ASSUME NEW t \in Topics
               PROVE  readings'[t] \in Reading(t) /\ readings'[t].age <= readings'[t].stamp + Wait
    OBVIOUS
  <2> DEFINE r == readings[t]
             s == readings'[t]
  <2>1. /\ r \in Reading(t) /\ r.age <= r.stamp + Wait
        /\ s = [r EXCEPT !.stamp = Aged(@), !.age = Aged(@)]
    BY <1>5
  <2> HIDE DEF r, s
  <2>2. s \in Reading(t) /\ s.age <= s.stamp + Wait
    BY <2>1, AgedReading
  <2> QED
    BY <2>2 DEF s
<1>7. \A t \in Topics :
        /\ frame[t] \in Shown(t) /\ screen[t] \in Shown(t)
        /\ frame'[t] = [frame[t] EXCEPT !.age = Aged(@)]
        /\ screen'[t] = [screen[t] EXCEPT !.age = Aged(@)]
  BY <1>1 DEF IInv, Types, Older
<1>8. Types'
  <2>1. \A t \in Topics : frame'[t] \in Shown(t) /\ screen'[t] \in Shown(t)
    BY <1>7, AgedShown
  <2>2. timer' \in -MaxDraw .. Period /\ drawing' \in -1 .. MaxDraw
    <3>1. timer \in -MaxDraw .. Period /\ drawing \in -1 .. MaxDraw
      BY DEF IInv, Types
    <3>2. ~Idle => -drawing <= timer
      BY DEF IInv, Rounds
    <3> QED
      BY <1>a, <1>2, <1>3, <3>1, <3>2
  <2> QED
    BY <1>1, <1>4, <1>5, <1>6, <2>1, <2>2 DEF IInv, Types
<1>9. Rounds'
  <2>1. \A t \in Topics : Len(queue'[t]) <= Depth /\ (t \in ready' => queue'[t] # <<>>)
    BY <1>1, <1>4 DEF IInv, Rounds
  <2>2. "timer" \in ready' => Idle' /\ timer' <= 0
    BY <1>a, <1>2, <1>3 DEF IInv, Rounds
  <2>3. ~Idle' => -drawing' <= timer' /\ timer' <= Period - drawing'
    BY <1>a, <1>2, <1>3 DEF IInv, Rounds
  <2> QED
    BY <2>1, <2>2, <2>3 DEF Rounds
<1>10. InTurn'
  <2> SUFFICES ASSUME NEW t \in Topics, NEW i \in 1 .. Len(queue'[t])
               PROVE  queue'[t][i].age + Draws(t, i)' * MaxDraw + Left' <= (Depth + 1) * MaxDraw
    BY DEF InTurn
  <2>1. /\ i \in 1 .. Len(queue[t]) /\ queue'[t][i].age = queue[t][i].age + 1
        /\ queue[t][i].age \in Nat /\ i \in Nat
    BY <1>4, WaitingType DEF IInv
  <2>2. ~Idle /\ ~Idle' /\ drawing < MaxDraw /\ drawing' = drawing + 1
    BY <1>2, <2>1
  <2>3. Left' = Left - 1 /\ Left \in Int
    BY <1>3, <2>2 DEF Left
  <2>4. Draws(t, i)' = Draws(t, i)
    BY <1>1 DEF Draws
  <2>5. Draws(t, i) * MaxDraw \in Int
    BY <2>1, DrawsType, Products
  <2>6. queue[t][i].age + Draws(t, i) * MaxDraw + Left <= (Depth + 1) * MaxDraw
    BY <2>1 DEF IInv, InTurn
  <2>7. (Depth + 1) * MaxDraw \in Int
    BY Durations
  <2> DEFINE p == Draws(t, i) * MaxDraw
             b == (Depth + 1) * MaxDraw
             a == queue[t][i].age
  <2>8. p \in Int /\ b \in Int /\ a \in Nat /\ a + p + Left <= b
    BY <2>1, <2>5, <2>6, <2>7, Zenon
  <2> HIDE DEF p, b, a
  <2>9. (a + 1) + p + Left' <= b
    BY <2>3, <2>8
  <2> QED
    BY <2>1, <2>4, <2>9, Zenon DEF p, b, a
<1>11. OnTime'
  <2> SUFFICES ASSUME MaxDraw < Period
               PROVE  /\ timer' >= 0 /\ (~Idle' => timer' = Period - drawing')
                      /\ \A u \in Topics : \A i \in 1 .. Len(queue'[u]) :
                           /\ queue'[u][i].age <= IF Idle' THEN MaxDraw ELSE drawing'
                           /\ Idle' /\ timer' = 0 => queue'[u][i].age = 0
    BY DEF OnTime
  <2>1. CASE Idle /\ Idle'
    <3>1. \A u \in Topics : Len(queue'[u]) = 0
      BY <1>2, <1>4, <2>1
    <3>2. timer' >= 0
      BY <1>a, <1>2, <1>3, <2>1
    <3> QED
      BY <2>1, <3>1, <3>2
  <2>2. CASE ~Idle /\ ~Idle'
    <3>1. drawing < MaxDraw /\ drawing' = drawing + 1 /\ timer = Period - drawing
      BY <1>2, <2>2 DEF IInv, OnTime
    <3>2. timer' >= 0 /\ timer' = Period - drawing'
      BY <1>a, <1>3, <3>1
    <3>3. \A u \in Topics : \A i \in 1 .. Len(queue[u]) :
            queue[u][i].age \in Nat /\ queue[u][i].age <= drawing
      <4>1. \A u \in Topics : \A i \in 1 .. Len(queue[u]) : queue[u][i].age <= drawing
        BY <2>2 DEF IInv, OnTime
      <4> QED
        BY <4>1, WaitingType DEF IInv
    <3>4. \A u \in Topics : \A i \in 1 .. Len(queue'[u]) : queue'[u][i].age <= drawing'
      <4> SUFFICES ASSUME NEW u \in Topics, NEW i \in 1 .. Len(queue'[u])
                   PROVE  queue'[u][i].age <= drawing'
        OBVIOUS
      <4>1. i \in 1 .. Len(queue[u]) /\ queue'[u][i].age = queue[u][i].age + 1
        BY <1>4
      <4>2. queue[u][i].age \in Nat /\ queue[u][i].age <= drawing
        BY <3>3, <4>1
      <4> QED
        BY <1>3, <3>1, <4>1, <4>2
    <3> QED
      BY <2>2, <3>2, <3>4
  <2> QED
    BY <1>2, <2>1, <2>2
<1>12. Sent'
  BY <1>6 DEF Sent
<1>13. Reflected'
  <2> SUFFICES ASSUME NEW t \in Topics
               PROVE  /\ ~Idle' => Reflects(frame'[t], readings'[t], t, drawing')
                      /\ \E g \in Int : Since(g)' /\ Reflects(screen'[t], readings'[t], t, g)
    BY DEF Reflected
  <2>1. ASSUME ~Idle'
        PROVE  Reflects(frame'[t], readings'[t], t, drawing')
    <3>1. ~Idle /\ drawing' = drawing + 1 /\ drawing \in 0 .. Lag
      BY <1>2, <2>1, Durations
    <3>2. Reflects(frame[t], readings[t], t, drawing)
      BY <3>1 DEF IInv, Reflected
    <3>3. Reflects(frame'[t], readings'[t], t, drawing + 1)
      BY <1>5, <1>7, <3>1, <3>2, AgedReflects
    <3> QED
      BY <3>1, <3>3
  <2>2. PICK g \in Int : Since(g) /\ Reflects(screen[t], readings[t], t, g)
    BY DEF IInv, Reflected
  <2>3. g \in 0 .. Lag
    BY <2>2 DEF Since
  <2>4. Reflects(screen'[t], readings'[t], t, g + 1)
    BY <1>5, <1>7, <2>2, <2>3, AgedReflects
  <2>5. Since(g + 1)'
    <3>1. /\ Larger(Period, MaxDraw) \in Nat /\ Period <= Larger(Period, MaxDraw)
          /\ Lag = Larger(Period, MaxDraw) + MaxDraw
      BY Durations
    <3>2. CASE Idle /\ Idle' /\ timer > 0
      <4>1. g + 1 <= Period - timer' /\ g + 1 <= Larger(Period, MaxDraw) /\ g + 1 \in 0 .. Lag
        BY <1>a, <1>3, <2>2, <2>3, <3>1, <3>2 DEF Since
      <4> QED
        BY <3>2, <4>1 DEF Since
    <3>3. CASE ~Idle /\ ~Idle' /\ drawing < MaxDraw /\ drawing' = drawing + 1
      <4>1. g + 1 <= Larger(Period, MaxDraw) + drawing' /\ g + 1 \in 0 .. Lag
        BY <1>3, <2>2, <2>3, <3>1, <3>3 DEF Since
      <4> QED
        BY <3>3, <4>1 DEF Since
    <3> QED
      BY <1>2, <3>2, <3>3
  <2> QED
    BY <2>1, <2>3, <2>4, <2>5
<1> QED
  BY <1>8, <1>9, <1>10, <1>11, <1>12, <1>13 DEF IInv

(* At the start nothing waits, and nothing is shown. *)
LEMMA InitIInv == Init => IInv
<1> SUFFICES ASSUME Init
             PROVE  IInv
  OBVIOUS
<1> USE DurationsAssumption
<1>1. /\ queue = [t \in Topics |-> <<>>] /\ readings = [t \in Topics |-> NoReading]
      /\ ready = {} /\ timer = Period /\ drawing = -1
      /\ frame = NoFrame /\ screen = NoFrame /\ running = TRUE
  BY DEF Init
<1>2. Idle /\ \A t \in Topics : queue[t] = <<>> /\ Len(queue[t]) = 0 /\ readings[t] = NoReading
  BY <1>1 DEF Idle
<1>3. Types
  <2>1. \A t \in Topics : queue[t] \in Seq([msg : Message(t), age : Nat])
    <3> SUFFICES ASSUME NEW t \in Topics
                 PROVE  queue[t] \in Seq([msg : Message(t), age : Nat])
      OBVIOUS
    <3> DEFINE M == [msg : Message(t), age : Nat]
    <3>1. queue[t] = <<>>
      BY <1>2
    <3> HIDE DEF M
    <3>2. queue[t] \in Seq(M)
      BY <3>1
    <3> QED
      BY <3>2 DEF M
  <2>2. \A t \in Topics : frame[t] \in Shown(t) /\ screen[t] \in Shown(t)
    BY <1>1, NoFrameType
  <2> QED
    BY <1>1, <1>2, <2>1, <2>2 DEF Types, Reading
<1>4. Rounds /\ InTurn /\ OnTime
  BY <1>1, <1>2 DEF Rounds, InTurn, OnTime
<1>5. Sent
  <2>1. Old \in Nat /\ Wait \in Nat
    BY Durations
  <2>2. NoReading.age = Old /\ NoReading.stamp = Old
    BY DEF NoReading
  <2>3. \A t \in Topics : readings[t].age = Old /\ readings[t].stamp = Old
    BY <1>2, <2>2, Zenon
  <2>4. Old <= Old + Wait
    BY <2>1
  <2> QED
    BY <2>3, <2>4, Zenon DEF Sent
<1>6. Reflected
  <2> SUFFICES ASSUME NEW t \in Topics
               PROVE  \E g \in Int : Since(g) /\ Reflects(screen[t], readings[t], t, g)
    BY <1>2 DEF Reflected
  <2>1. Since(0)
    BY <1>1, <1>2, Durations DEF Since
  <2>2. readings[t].stamp = Old /\ screen[t].status = "NO DATA"
    BY <1>1, <1>2, NoFrameType DEF NoReading
  <2>3. ~(Old - 0 < StaleAfter)
    BY Durations
  <2>4. Reflects(screen[t], readings[t], t, 0)
    BY <2>2, <2>3 DEF Reflects
  <2> QED
    BY <2>1, <2>4
<1> QED
  BY <1>3, <1>4, <1>5, <1>6 DEF IInv

(* No step of the executor, the network or the clock breaks it. *)
LEMMA NextIInv == IInv /\ [Next]_vars => IInv'
<1> SUFFICES ASSUME IInv, [Next]_vars
             PROVE  IInv'
  OBVIOUS
<1>1. ASSUME NEW t \in Topics, Store(t)
      PROVE  IInv'
  BY <1>1, StoreStep
<1>2. ASSUME NEW t \in Topics, NEW m \in Message(t), Arrive(t, m)
      PROVE  IInv'
  BY <1>2, ArriveStep
<1>3. CASE Collect
  BY <1>3, CollectStep
<1>4. CASE Draw
  BY <1>4, DrawStep
<1>5. CASE Show
  BY <1>5, ShowStep
<1>6. CASE Tick
  BY <1>6, TickStep
<1>7. CASE UNCHANGED vars
  <2>1. UNCHANGED <<queue, readings, ready, timer, drawing, frame, screen, running>>
    BY <1>7 DEF vars
  <2>2. Idle' = Idle /\ Left' = Left /\ \A t, i : Draws(t, i)' = Draws(t, i)
    BY <2>1 DEF Idle, Left, Draws
  <2>3. Types' /\ Rounds'
    BY <2>1, <2>2 DEF IInv, Types, Rounds
  <2>4. InTurn' /\ OnTime'
    BY <2>1, <2>2 DEF IInv, InTurn, OnTime
  <2>5. Sent' /\ Reflected'
    BY <2>1, <2>2 DEF IInv, Sent, Reflected, Reflects, Since
  <2> QED
    BY <2>3, <2>4, <2>5 DEF IInv
<1> QED
  BY <1>1, <1>2, <1>3, <1>4, <1>5, <1>6, <1>7 DEF Next

(* So it always holds. *)
LEMMA DisplayInv == Spec => []IInv
BY InitIInv, NextIInv, PTL DEF Spec

(* A bound grows with what it is made of. *)
LEMMA StillBelow ==
  ASSUME NEW a \in Nat, NEW c \in Nat, NEW w \in Nat, NEW g \in Nat, NEW l \in Nat,
         a < c + w + g, g <= l
  PROVE  a < c + w + l
OBVIOUS

(* A row with another age. *)
LEMMA Restamped ==
  ASSUME NEW s, NEW o, NEW a
  PROVE  [[status |-> s, age |-> o] EXCEPT !.age = a] = [status |-> s, age |-> a]
OBVIOUS

-------------------------------------------------------------------------------
(* Types, and the longest wait: a message is taken from its subscription at   *)
(* most Wait after it has come, whatever the period and the terminal do.      *)
THEOREM DisplayTypes == Spec => []TypeOK
<1>1. IInv => TypeOK
  <2> SUFFICES ASSUME IInv, NEW t \in Topics
               PROVE  queue[t] \in Seq([msg : Message(t), age : 0 .. Wait])
    BY DEF IInv, Types, Rounds, TypeOK, Reading
  <2> DEFINE M == [msg : Message(t), age : 0 .. Wait]
             q == queue[t]
             N == [msg : Message(t), age : Nat]
  <2>1. q \in Seq(N)
    BY DEF IInv, Types
  <2>2. \A i \in 1 .. Len(q) : q[i] \in M
    <3> SUFFICES ASSUME NEW i \in 1 .. Len(q)
                 PROVE  q[i] \in M
      OBVIOUS
    <3>1. q[i].age \in 0 .. Wait
      BY AgeBound, WaitType
    <3>2. q[i] \in N
      <4> HIDE DEF N, q
      <4> QED
        BY <2>1, Members
    <3> DEFINE x == q[i]
    <3> HIDE DEF x
    <3>3. x \in [msg : Message(t), age : Nat] /\ x.age \in 0 .. Wait
      BY <3>1, <3>2 DEF x
    <3>4. x \in [msg : Message(t), age : 0 .. Wait]
      BY <3>3
    <3> QED
      BY <3>4 DEF x
  <2> HIDE DEF M, q, N
  <2>3. q \in Seq(M)
    BY <2>1, <2>2
  <2> QED
    BY <2>3 DEF M, q
<1> QED
  BY <1>1, DisplayInv, PTL

(* status.py:154-159: what is shown as current was sent less than StaleAfter  *)
(* ago, but for the time it waited and the time its row has stayed.           *)
THEOREM CurrentRecent == Spec => []CurrentIsRecent
<1>1. IInv => CurrentIsRecent
  <2> SUFFICES ASSUME IInv, NEW t \in Topics
               PROVE  screen[t].status # "NO DATA" => screen[t].age < StaleAfter + Wait + Lag
    BY Zenon DEF CurrentIsRecent
  <2>1. PICK g \in Int : Since(g) /\ Reflects(screen[t], readings[t], t, g)
    BY DEF IInv, Reflected
  <2>2. screen[t].age \in Nat
    BY AgedShown DEF IInv, Types
  <2>3. StaleAfter \in Nat /\ Wait \in Nat /\ Lag \in Nat
    BY Durations, DurationsAssumption
  <2>4. g \in Nat /\ g <= Lag
    BY <2>1, <2>3 DEF Since
  <2>5. screen[t].age < StaleAfter + Wait + g => screen[t].age < StaleAfter + Wait + Lag
    BY <2>2, <2>3, <2>4, StillBelow
  <2> QED
    BY <2>1, <2>5, Zenon DEF Reflects
<1> QED
  BY <1>1, DisplayInv, PTL

(* status.py:152: a reading that stays the last one is on the screen after    *)
(* Lag, until it goes stale; after Lag more it is on the screen no longer.    *)
THEOREM ScreenCurrent == Spec => []ScreenFollows
<1>1. IInv => ScreenFollows
  <2> SUFFICES ASSUME IInv, NEW t \in Topics, readings[t].stamp > Lag
               PROVE  \/ /\ readings[t].stamp >= StaleAfter
                         /\ screen[t] = [NoData EXCEPT !.age = screen[t].age]
                      \/ /\ readings[t].stamp < StaleAfter + Lag
                         /\ screen[t].status = Status[t][readings[t].msg]
    BY DEF ScreenFollows
  <2> DEFINE n == readings[t].stamp
  <2>1. PICK g \in Int : Since(g) /\ Reflects(screen[t], readings[t], t, g)
    BY DEF IInv, Reflected
  <2>2. g \in 0 .. Lag /\ n \in Nat /\ n > Lag /\ Lag \in Nat /\ StaleAfter \in Nat
    <3>1. readings[t] \in Reading(t)
      BY DEF IInv, Types
    <3> QED
      BY <2>1, <3>1, ReadingFacts, Durations, DurationsAssumption DEF Since
  <2>3. screen[t] = [status |-> screen[t].status, age |-> screen[t].age]
    BY DEF IInv, Types, Shown
  <2>4. n > g
    BY <2>2
  <2>5. CASE n - g < StaleAfter
    <3>1. screen[t].status = Status[t][readings[t].msg]
      BY <2>1, <2>4, <2>5, Zenon DEF Reflects
    <3>2. n < StaleAfter + Lag
      BY <2>2, <2>5
    <3> QED
      BY <3>1, <3>2
  <2>6. CASE ~(n - g < StaleAfter)
    <3>1. screen[t].status = "NO DATA"
      BY <2>1, <2>4, <2>6, Zenon DEF Reflects
    <3>2. n >= StaleAfter
      BY <2>2, <2>6
    <3>3. screen[t] = [NoData EXCEPT !.age = screen[t].age]
      <4> DEFINE a == screen[t].age
      <4>1. screen[t] = [status |-> "NO DATA", age |-> a]
        BY <2>3, <3>1
      <4> HIDE DEF a
      <4>2. [NoData EXCEPT !.age = a] = [status |-> "NO DATA", age |-> a]
        BY Restamped, Zenon DEF NoData
      <4> QED
        BY <4>1, <4>2, Zenon DEF a
    <3> QED
      BY <3>2, <3>3
  <2> QED
    BY <2>5, <2>6
<1> QED
  BY <1>1, DisplayInv, PTL
===============================================================================
