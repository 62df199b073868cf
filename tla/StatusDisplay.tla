---------------------------- MODULE StatusDisplay ----------------------------
(***************************************************************************)
(* The status display (status.py): subscriptions that store readings, and  *)
(* a timer that draws those still fresh, on one single-threaded executor.  *)
(*                                                                         *)
(* A reading is stamped when its callback runs, not when it was sent, and  *)
(* while draw() blocks (on the terminal, or on the GPIO lines) messages    *)
(* wait in the subscriptions, of which each keeps the last Depth.  The     *)
(* executor goes in rounds: it waits until something is ready, then serves *)
(* the timer if it is due and one message of every subscription that has   *)
(* any.                                                                    *)
(*                                                                         *)
(* Time is counted in ticks.  Every callback but draw() takes none, so     *)
(* time passes only while draw() blocks or nothing is to be done.          *)
(* Rows carry what decides their status; the rest of a row is layout.      *)
(***************************************************************************)
EXTENDS Integers, Sequences

CONSTANTS
  Topics,      \* the topics subscribed to, of those in Status
  StaleAfter,  \* STALE_AFTER: 5 seconds
  Period,      \* the timer's: 1 second
  Depth,       \* of qos_profile_sensor_data: 5
  MaxDraw      \* how long draw() may block

ASSUME DurationsAssumption ==
  StaleAfter \in Nat \ {0} /\ Period \in Nat \ {0} /\ Depth \in Nat \ {0} /\ MaxDraw \in Nat

(* battery(), bottle(), autopilot(): the status of a row by what a message    *)
(* says.  On the MAVLink topic, only SCALED_PRESSURE says anything.           *)
Status == [
  battery |-> [not_finite |-> "NO DATA", low |-> "LOW", charged |-> "OK"],
  mavlink |-> [other |-> "NO DATA", leaking |-> "NO VACUUM", vacuum |-> "SEALED"],
  bme680  |-> [leaking |-> "NO VACUUM", vacuum |-> "SEALED"],
  state   |-> [disconnected |-> "NO LINK", armed |-> "ARMED", disarmed |-> "DISARMED"]]

ASSUME TopicsAssumption == Topics \subseteq DOMAIN Status

VARIABLES
  queue,    \* per topic: the messages waiting, oldest first, and their ages
  readings, \* self.readings: a message, the age of its stamp and its own
  ready,    \* what is left of the executor's round
  timer,    \* ticks to the timer's next call; it is late if negative
  drawing,  \* ticks draw() has blocked for, or -1
  frame,    \* what the running draw() has to print
  screen,   \* what the last one printed, and the age of the message behind it
  running   \* the node spins

vars == <<queue, readings, ready, timer, drawing, frame, screen, running>>

Larger(a, b) == IF a > b THEN a ELSE b

(* How long a reading may stay on the screen after draw() has read it.        *)
Lag == Larger(Period, MaxDraw) + MaxDraw

(* How long a message may wait: for one round, and one for every message of   *)
(* its subscription, where every round draws.                                 *)
Wait == IF MaxDraw < Period THEN MaxDraw ELSE (Depth + 1) * MaxDraw

(* Ages are counted up to Old. *)
Old      == StaleAfter + Wait + Lag + 1
Ages     == 0 .. Old
Aged(n)  == IF n = Old THEN Old ELSE n + 1
Idle     == drawing = -1
Message(t) == DOMAIN Status[t]

NoReading == [msg |-> "none", stamp |-> Old, age |-> Old]
NoData    == [status |-> "NO DATA", age |-> Old]
Shown(t)  == [status : {Status[t][m] : m \in Message(t)} \cup {"NO DATA"}, age : Ages]
NoFrame   == [t \in Topics |-> NoData]

TypeOK ==
  /\ \A t \in Topics :
       /\ queue[t] \in Seq([msg : Message(t), age : 0 .. Wait]) /\ Len(queue[t]) <= Depth
       /\ readings[t] \in {NoReading} \cup [msg : Message(t), stamp : Ages, age : Ages]
       /\ frame[t] \in Shown(t) /\ screen[t] \in Shown(t)
  /\ ready \subseteq Topics \cup {"timer"}
  /\ timer \in -MaxDraw .. Period /\ drawing \in -1 .. MaxDraw /\ running \in BOOLEAN

Init ==
  /\ queue = [t \in Topics |-> <<>>]
  /\ readings = [t \in Topics |-> NoReading]
  /\ ready = {} /\ timer = Period /\ drawing = -1
  /\ frame = NoFrame /\ screen = NoFrame
  /\ running = TRUE

-------------------------------------------------------------------------------
(* Mutant of Arrive: the subscription keeps every message.                    *)
ArriveKeepingAll(t, m) ==
  /\ running
  /\ queue' = [queue EXCEPT ![t] = Append(@, [msg |-> m, age |-> 0])]
  /\ UNCHANGED <<readings, ready, timer, drawing, frame, screen, running>>

(* A message arrives; the subscription keeps the last Depth. *)
Arrive(t, m) ==
  LET q == Append(queue[t], [msg |-> m, age |-> 0])
  IN  /\ running
      /\ queue' = [queue EXCEPT ![t] = IF Len(q) > Depth THEN Tail(q) ELSE q]
      /\ UNCHANGED <<readings, ready, timer, drawing, frame, screen, running>>

Due == {t \in Topics : queue[t] # <<>>} \cup (IF timer <= 0 THEN {"timer"} ELSE {})

(* spin: a new round begins. *)
Collect ==
  /\ running /\ Idle /\ ready = {} /\ Due # {}
  /\ ready' = Due
  /\ UNCHANGED <<queue, readings, timer, drawing, frame, screen, running>>

(* Mutant of Store: a reading keeps its first stamp.                          *)
StoreKeepingStamp(t) ==
  /\ running /\ Idle /\ t \in ready /\ ready' = ready \ {t}
  /\ queue' = [queue EXCEPT ![t] = Tail(@)]
  /\ LET m == Head(queue[t])
     IN  readings' = IF m.msg = "other" THEN readings
                     ELSE [readings EXCEPT ![t] =
                             [msg |-> m.msg, age |-> m.age,
                              stamp |-> IF @ = NoReading THEN 0 ELSE @.stamp]]
  /\ UNCHANGED <<timer, drawing, frame, screen, running>>

(* store, on_mavlink.  The temperature and humidity beside a pressure are     *)
(* stored likewise and change no status.                                      *)
Store(t) ==
  /\ running /\ Idle /\ t \in ready /\ ready' = ready \ {t}
  /\ queue' = [queue EXCEPT ![t] = Tail(@)]
  /\ LET m == Head(queue[t])
     IN  readings' = IF m.msg = "other" THEN readings
                     ELSE [readings EXCEPT ![t] = [msg |-> m.msg, stamp |-> 0, age |-> m.age]]
  /\ UNCHANGED <<timer, drawing, frame, screen, running>>

(* Mutant of Fresh: a reading that is exactly StaleAfter old is fresh.        *)
FreshInclusive(t) == readings[t].stamp <= StaleAfter

Fresh(t) == readings[t].stamp < StaleAfter

Row(t) ==
  IF Fresh(t) THEN [status |-> Status[t][readings[t].msg], age |-> readings[t].age] ELSE NoData

(* The timer's calls keep to multiples of Period from the first; one that is  *)
(* late skips those it has missed, but for one that is due this very tick.    *)
NextCall == IF timer = 0 THEN Period ELSE timer % Period

(* draw: the rows are made, or the GPIO request raises what is not EBUSY and  *)
(* the node ends.                                                             *)
Draw ==
  /\ running /\ Idle /\ "timer" \in ready /\ ready' = ready \ {"timer"}
  /\ \/ /\ drawing' = 0 /\ frame' = [t \in Topics |-> Row(t)]
        /\ timer' = NextCall /\ UNCHANGED running
     \/ running' = FALSE /\ UNCHANGED <<drawing, frame, timer>>
  /\ UNCHANGED <<queue, readings, screen>>

(* ... and print returns. *)
Show ==
  /\ running /\ ~Idle
  /\ screen' = frame /\ frame' = NoFrame /\ drawing' = -1
  /\ UNCHANGED <<queue, readings, ready, timer, running>>

Older(shown) == [t \in Topics |-> [shown[t] EXCEPT !.age = Aged(@)]]

(* A tick passes. *)
Tick ==
  /\ running
  /\ \/ Idle /\ ready = {} /\ Due = {} /\ UNCHANGED drawing
     \/ ~Idle /\ drawing < MaxDraw /\ drawing' = drawing + 1
  /\ queue' = [t \in Topics |-> [i \in DOMAIN queue[t] |-> [queue[t][i] EXCEPT !.age = @ + 1]]]
  /\ readings' = [t \in Topics |-> [readings[t] EXCEPT !.stamp = Aged(@), !.age = Aged(@)]]
  /\ timer' = timer - 1
  /\ frame' = Older(frame) /\ screen' = Older(screen)
  /\ UNCHANGED <<ready, running>>

Next ==
  \/ \E t \in Topics : Store(t) \/ \E m \in Message(t) : Arrive(t, m)
  \/ Collect \/ Draw \/ Show \/ Tick

Spec == Init /\ [][Next]_vars

-------------------------------------------------------------------------------
(* Properties. *)

(* status.py:154-159: while the display runs, what it shows as current was    *)
(* sent less than StaleAfter ago, but for the time a message may wait for a   *)
(* draw() that blocks and the time a drawn row stays.                         *)
CurrentIsRecent ==
  \A t \in Topics : running /\ screen[t].status # "NO DATA" => screen[t].age < StaleAfter + Wait + Lag

(* status.py:152: a reading that stays the last one is on the screen after    *)
(* Lag, a NO VACUUM no less than a SEALED, until it goes stale and after it    *)
(* has gone stale no longer.                                                  *)
ScreenFollows ==
  \A t \in Topics :
    LET r == readings[t]
    IN  running /\ r.stamp > Lag =>
          \/ r.stamp >= StaleAfter /\ screen[t] = [NoData EXCEPT !.age = screen[t].age]
          \/ r.stamp < StaleAfter + Lag /\ screen[t].status = Status[t][r.msg]
===============================================================================
