------------------------ MODULE CommandChannelProofs ------------------------
(***************************************************************************)
(* The command channel's safety properties, for every number of sequence   *)
(* numbers, retries, calls, restarts and sessions, and every link          *)
(* capacity.  IInv is the inductive invariant; its parts say why the       *)
(* properties hold:                                                        *)
(*   - the frames in flight and the last executed one are in the order of  *)
(*     their attempts (Ordered), because the link keeps order;             *)
(*   - a frame's sequence number is as far behind command_seq_ as its      *)
(*     attempt is behind the current one, modulo SeqMod (InStep), so that  *)
(*     within MaxLag attempts equal numbers mean the same attempt;         *)
(*   - an accepted answer is the last execution's, and ends the traffic.   *)
(***************************************************************************)
EXTENDS CommandChannel, TLAPS

Ascending(q) == \A i, j \in 1 .. Len(q) : i < j => q[i].id < q[j].id

Ordered ==
  /\ Ascending(to_teensy) /\ Ascending(to_pi)
  /\ \A i \in 1 .. Len(to_teensy) : exec.id < to_teensy[i].id /\ to_teensy[i].id <= id
  /\ \A i \in 1 .. Len(to_pi) : to_pi[i].id <= exec.id
  /\ exec.id <= id /\ reply.id <= id
  /\ pc = "send" => exec.id < id /\ \A i \in 1 .. Len(to_teensy) : to_teensy[i].id < id

Executed ==
  /\ \A i \in 1 .. Len(to_pi) : to_pi[i].id = exec.id => to_pi[i] = exec
  /\ answer.id <= exec.id
  /\ answer.id = exec.id => answer = exec
  /\ exec.boots <= boots
  /\ Agrees(exec.cmd, exec.result, exec.cal)
  /\ exec.boots = boots => exec.cal = cal

LinkState ==
  /\ connected => reading
  /\ reading => open
  /\ pc = "wait" /\ reading => connected
  /\ pc # "idle" => open
  /\ ~open => base = id
  /\ pending_seq = command_seq

InStep(q) ==
  \A i \in 1 .. Len(q) : q[i].id > base =>
    /\ id - q[i].id < SeqMod
    /\ \/ command_seq = q[i].seq + (id - q[i].id)
       \/ command_seq = q[i].seq + (id - q[i].id) - SeqMod

SeqsInStep == connected => InStep(to_teensy) /\ InStep(to_pi)

Current ==
  pc = "wait" => /\ exec.id = id => exec.cmd = cmd
                 /\ \A i \in 1 .. Len(to_teensy) : to_teensy[i].id = id => to_teensy[i].cmd = cmd

Answered ==
  /\ pc = "send" /\ connected /\ ready => answer.id <= base
  /\ pc = "wait" /\ ready /\ answer.id > base => answer.id = id /\ to_pi = <<>>
  /\ Definitive => /\ exec.id = id /\ to_pi = <<>>
                   /\ reply.cmd = exec.cmd /\ reply.verdict = exec.result
                   /\ reply.boots = exec.boots

IInv == TypeOK /\ Ordered /\ Executed /\ LinkState /\ SeqsInStep /\ Current /\ Answered

-------------------------------------------------------------------------------
(* Sequences. *)

(* A non-empty queue without its head. *)
LEMMA TailFacts ==
  ASSUME NEW S, NEW q \in Seq(S), q # <<>>
  PROVE  /\ Len(q) \in Nat \ {0} /\ Head(q) = q[1] /\ q[1] \in S
         /\ Tail(q) \in Seq(S) /\ Len(Tail(q)) = Len(q) - 1
         /\ \A i \in 1 .. Len(Tail(q)) : i + 1 \in 1 .. Len(q) /\ Tail(q)[i] = q[i + 1]
  OBVIOUS

(* A queue with one more element at its end. *)
LEMMA AppendFacts ==
  ASSUME NEW S, NEW q \in Seq(S), NEW m \in S
  PROVE  /\ Append(q, m) \in Seq(S) /\ Len(Append(q, m)) = Len(q) + 1
         /\ Append(q, m)[Len(q) + 1] = m
         /\ \A i \in 1 .. Len(q) : Append(q, m)[i] = q[i]
  OBVIOUS

(* Every outcome of a command is a response code and a flag that agree. *)
LEMMA OutcomesAgree ==
  ASSUME NEW c \in CommandId, NEW b \in BOOLEAN, NEW o \in Outcomes(c, b)
  PROVE  o.result \in CommandResponse /\ o.cal \in BOOLEAN /\ Agrees(c, o.result, o.cal)
<1>1. CASE c = "CALIBRATION_START"
  <2>1. o \in StartOutcomes(b)
    BY <1>1 DEF Outcomes
  <2>2. \/ o.result = "OK" /\ o.cal = TRUE
        \/ o.result = "SENSOR_ERROR" /\ o.cal = FALSE
    BY <2>1 DEF StartOutcomes
  <2>3. CASE o.result = "OK" /\ o.cal = TRUE
    BY <1>1, <2>3 DEF Agrees, CommandResponse
  <2>4. CASE o.result = "SENSOR_ERROR" /\ o.cal = FALSE
    BY <1>1, <2>4 DEF Agrees, CommandResponse
  <2> QED
    BY <2>2, <2>3, <2>4
<1>2. CASE c = "CALIBRATION_SAVE"
  <2>1. o \in SaveOutcomes(b)
    BY <1>2 DEF Outcomes
  <2>2. \/ o.result = "INVALID_STATE" /\ o.cal = FALSE
        \/ o.result = "OK" /\ o.cal = TRUE
        \/ o.result = "SENSOR_ERROR" /\ o.cal = TRUE
    BY <2>1 DEF SaveOutcomes
  <2>3. CASE o.result = "INVALID_STATE" /\ o.cal = FALSE
    BY <1>2, <2>3 DEF Agrees, CommandResponse
  <2>4. CASE o.result = "OK" /\ o.cal = TRUE
    BY <1>2, <2>4 DEF Agrees, CommandResponse
  <2>5. CASE o.result = "SENSOR_ERROR" /\ o.cal = TRUE
    BY <1>2, <2>5 DEF Agrees, CommandResponse
  <2> QED
    BY <2>2, <2>3, <2>4, <2>5
<1>3. CASE c = "CALIBRATION_STOP"
  <2>1. o \in StopOutcomes(b)
    BY <1>3 DEF Outcomes
  <2>2. \/ o.result = "OK" /\ o.cal = FALSE
        \/ o.result = "SENSOR_ERROR" /\ o.cal = TRUE
    BY <2>1 DEF StopOutcomes
  <2>3. CASE o.result = "OK" /\ o.cal = FALSE
    BY <1>3, <2>3 DEF Agrees, CommandResponse
  <2>4. CASE o.result = "SENSOR_ERROR" /\ o.cal = TRUE
    BY <1>3, <2>4 DEF Agrees, CommandResponse
  <2> QED
    BY <2>2, <2>3, <2>4
<1> QED
  BY <1>1, <1>2, <1>3 DEF CommandId

(* A new sequence number is a sequence number. *)
LEMMA NextSeqType ==
  ASSUME NEW s \in SeqNums
  PROVE  NextSeq(s) \in SeqNums
BY SeqModAssumption DEF NextSeq, SeqNums

-------------------------------------------------------------------------------
(* Type correctness. *)

LEMMA InitType == Init => TypeOK
<1> SUFFICES ASSUME Init
             PROVE  TypeOK
  OBVIOUS
<1>1. NoResponse \in Response
  BY SeqModAssumption DEF NoResponse, Response, CommandId, CommandResponse, SeqNums
<1>b. /\ ready \in BOOLEAN /\ pending_promise \in BOOLEAN
      /\ open \in BOOLEAN /\ connected \in BOOLEAN /\ reading \in BOOLEAN
      /\ up \in BOOLEAN /\ cal \in BOOLEAN
  BY Zenon DEF Init
<1>2. DriverTypeOK
  BY <1>1, <1>b, SeqModAssumption, RetriesAssumption
     DEF Init, DriverTypeOK, CommandId, Verdict, SeqNums
<1>3. LinkTypeOK
  BY <1>b, LinkCapAssumption DEF Init, LinkTypeOK
<1>4. TeensyTypeOK
  BY <1>1, <1>b, BoundsAssumption DEF Init, TeensyTypeOK
<1>5. HistoryTypeOK
  BY BoundsAssumption DEF Init, HistoryTypeOK
<1> QED
  BY <1>2, <1>3, <1>4, <1>5 DEF TypeOK

(* A transmission leaves the queue a bounded queue of frames. *)
LEMMA TransmitType ==
  ASSUME NEW S, NEW q \in Seq(S), NEW r, NEW m \in S, Len(q) <= LinkCap,
         r = q \/ (Len(q) < LinkCap /\ r = Append(q, m))
  PROVE  r \in Seq(S) /\ Len(r) <= LinkCap
<1>1. Len(q) \in Nat
  OBVIOUS
<1>2. CASE r = q
  BY <1>2
<1>3. CASE Len(q) < LinkCap /\ r = Append(q, m)
  BY <1>1, <1>3, AppendFacts, LinkCapAssumption
<1> QED
  BY <1>2, <1>3

(* Every step keeps the types. *)
LEMMA NextType == TypeOK /\ [Next]_vars => TypeOK'
<1> SUFFICES ASSUME TypeOK, [Next]_vars
             PROVE  TypeOK'
  OBVIOUS
<1> USE DEF TypeOK, driver, client, link, teensy
<1>1. ASSUME NEW c \in CommandId, Call(c)
      PROVE  TypeOK'
  <2>1. DriverTypeOK'
    BY <1>1, RetriesAssumption DEF Call, DriverTypeOK
  <2>2. LinkTypeOK' /\ TeensyTypeOK'
    BY <1>1 DEF Call, LinkTypeOK, TeensyTypeOK
  <2>3. HistoryTypeOK'
    BY <1>1, BoundsAssumption DEF Call, HistoryTypeOK
  <2> QED
    BY <2>1, <2>2, <2>3
<1>2. CASE BeginAttempt
  <2>1. DriverTypeOK'
    BY <1>2, NextSeqType DEF BeginAttempt, DriverTypeOK
  <2>2. LinkTypeOK' /\ TeensyTypeOK'
    BY <1>2 DEF BeginAttempt, LinkTypeOK, TeensyTypeOK
  <2>3. HistoryTypeOK'
    BY <1>2 DEF BeginAttempt, HistoryTypeOK
  <2> QED
    BY <2>1, <2>2, <2>3
<1>3. CASE GiveUp \/ SendRefused \/ SendFails
  <2>1. DriverTypeOK'
    BY <1>3 DEF GiveUp, SendRefused, SendFails, Return, DriverTypeOK, Verdict, TeensyTypeOK, HistoryTypeOK
  <2>2. LinkTypeOK' /\ TeensyTypeOK' /\ HistoryTypeOK'
    BY <1>3 DEF GiveUp, SendRefused, SendFails, LinkTypeOK, TeensyTypeOK, HistoryTypeOK
  <2> QED
    BY <2>1, <2>2
<1>4. CASE SendWritten
  <2>1. DriverTypeOK' /\ TeensyTypeOK' /\ HistoryTypeOK'
    BY <1>4 DEF SendWritten, DriverTypeOK, TeensyTypeOK, HistoryTypeOK
  <2>2. [cmd |-> cmd, seq |-> command_seq, id |-> id] \in Frame
    BY DEF DriverTypeOK, HistoryTypeOK, Frame
  <2>3. to_teensy' \in Seq(Frame) /\ Len(to_teensy') <= LinkCap
    BY <1>4, <2>2, TransmitType DEF SendWritten, Transmit, LinkTypeOK
  <2> QED
    BY <1>4, <2>1, <2>3 DEF SendWritten, LinkTypeOK
<1>5. CASE FutureReady
  <2>1. DriverTypeOK'
    BY <1>5 DEF FutureReady, Return, DriverTypeOK, Response, Verdict
  <2>2. LinkTypeOK' /\ TeensyTypeOK' /\ HistoryTypeOK'
    BY <1>5 DEF FutureReady, LinkTypeOK, TeensyTypeOK, HistoryTypeOK
  <2> QED
    BY <2>1, <2>2
<1>6. CASE FutureTimeout
  <2>1. DriverTypeOK'
    BY <1>6, RetriesAssumption DEF FutureTimeout, DriverTypeOK
  <2>2. LinkTypeOK' /\ TeensyTypeOK' /\ HistoryTypeOK'
    BY <1>6 DEF FutureTimeout, LinkTypeOK, TeensyTypeOK, HistoryTypeOK
  <2> QED
    BY <2>1, <2>2
<1>7. CASE CommandResponseCallback
  <2>1. /\ Head(to_pi) \in Response /\ Tail(to_pi) \in Seq(Response)
        /\ Len(Tail(to_pi)) <= LinkCap
    BY <1>7, TailFacts, LinkCapAssumption DEF CommandResponseCallback, LinkTypeOK
  <2>2. DriverTypeOK'
    BY <1>7, <2>1 DEF CommandResponseCallback, DriverTypeOK
  <2>3. LinkTypeOK'
    BY <1>7, <2>1 DEF CommandResponseCallback, LinkTypeOK
  <2>4. TeensyTypeOK' /\ HistoryTypeOK'
    BY <1>7 DEF CommandResponseCallback, TeensyTypeOK, HistoryTypeOK
  <2> QED
    BY <2>2, <2>3, <2>4
<1>8. CASE ReadFails
  BY <1>8 DEF ReadFails, DriverTypeOK, LinkTypeOK, TeensyTypeOK, HistoryTypeOK
<1>9. CASE PollCommand
  <2> DEFINE m == Head(to_teensy)
             R(o) == [cmd |-> m.cmd, seq |-> m.seq, result |-> o.result,
                     id |-> m.id, boots |-> boots, cal |-> o.cal]
  <2>1. /\ m \in Frame /\ Tail(to_teensy) \in Seq(Frame)
        /\ Len(Tail(to_teensy)) <= LinkCap
    BY <1>9, TailFacts, LinkCapAssumption DEF PollCommand, LinkTypeOK
  <2>2. PICK o \in Outcomes(m.cmd, cal) : cal' = o.cal /\ exec' = R(o) /\ Transmit(to_pi, R(o), open)
    BY <1>9 DEF PollCommand
  <2>3. o.result \in CommandResponse /\ o.cal \in BOOLEAN
    BY <2>1, OutcomesAgree DEF Frame, TeensyTypeOK
  <2>4. R(o) \in Response
    BY <2>1, <2>3, BoundsAssumption DEF Frame, Response, TeensyTypeOK
  <2>5. to_pi' \in Seq(Response) /\ Len(to_pi') <= LinkCap
    <3> HIDE DEF R
    <3> QED BY <2>2, <2>4, TransmitType DEF Transmit, LinkTypeOK
  <2>6. LinkTypeOK'
    BY <1>9, <2>1, <2>5 DEF PollCommand, LinkTypeOK
  <2>7. TeensyTypeOK'
    <3> HIDE DEF R
    <3> QED BY <1>9, <2>2, <2>3, <2>4 DEF PollCommand, TeensyTypeOK
  <2>8. DriverTypeOK' /\ HistoryTypeOK'
    BY <1>9 DEF PollCommand, DriverTypeOK, HistoryTypeOK
  <2> QED
    BY <2>6, <2>7, <2>8
<1>10. CASE Reboot
  <2>1. LinkTypeOK'
    BY <1>10, LinkCapAssumption DEF Reboot, LinkTypeOK
  <2>b. cal' \in BOOLEAN
    BY <1>10, Zenon DEF Reboot
  <2>2. TeensyTypeOK'
    BY <1>10, <2>b, BoundsAssumption DEF Reboot, TeensyTypeOK
  <2>3. DriverTypeOK' /\ HistoryTypeOK'
    BY <1>10 DEF Reboot, DriverTypeOK, HistoryTypeOK
  <2> QED
    BY <2>1, <2>2, <2>3
<1>11. CASE OnConfigure
  BY <1>11, BoundsAssumption DEF OnConfigure, DriverTypeOK, LinkTypeOK, TeensyTypeOK, HistoryTypeOK
<1>12. CASE OnCleanup \/ NodeDies
  <2>p. pc' = "idle" /\ EndSession
    BY <1>12 DEF OnCleanup, NodeDies
  <2>b. /\ pending_promise' \in BOOLEAN /\ open' \in BOOLEAN
        /\ connected' \in BOOLEAN /\ reading' \in BOOLEAN
    BY <2>p, Zenon DEF EndSession
  <2>1. DriverTypeOK'
    BY <2>p, <2>b, SeqModAssumption DEF EndSession, DriverTypeOK, SeqNums
  <2>2. LinkTypeOK'
    BY <2>p, <2>b, LinkCapAssumption DEF EndSession, LinkTypeOK
  <2>3. TeensyTypeOK' /\ HistoryTypeOK'
    BY <2>p DEF EndSession, TeensyTypeOK, HistoryTypeOK
  <2> QED
    BY <2>1, <2>2, <2>3
<1>13. CASE UNCHANGED vars
  BY <1>13 DEF vars, DriverTypeOK, LinkTypeOK, TeensyTypeOK, HistoryTypeOK
<1> QED
  BY <1>1, <1>2, <1>3, <1>4, <1>5, <1>6, <1>7, <1>8, <1>9, <1>10, <1>11, <1>12, <1>13
     DEF Next, SurvivingNext, SendCommandStep

(* Type correctness: in particular the queues never exceed the link's       *)
(* capacity and send_command never makes more than command_retries attempts.*)
THEOREM TypeCorrect == Spec => []TypeOK
BY InitType, NextType, PTL DEF Spec

-------------------------------------------------------------------------------
(* The inductive invariant. *)

LEMMA InitInv == Init => IInv
<1> SUFFICES ASSUME Init
             PROVE  IInv
  OBVIOUS
<1>1. TypeOK
  BY InitType
<1>2. Ordered /\ LinkState /\ SeqsInStep /\ Current
  BY DEF Init, NoResponse, Ordered, Ascending, LinkState, SeqsInStep, InStep, Current
<1>3. /\ exec.cmd = "CALIBRATION_STOP" /\ exec.result = "OK" /\ exec.id = 0 /\ exec.boots = 0
      /\ answer = exec /\ to_pi = <<>> /\ boots = 0 /\ ~cal
  BY DEF Init, NoResponse
<1>a. exec.cal = cal /\ Agrees(exec.cmd, exec.result, exec.cal)
  BY <1>3 DEF Init, NoResponse, Agrees
<1>4. Executed
  BY <1>3, <1>a DEF Executed
<1>5. Answered
  BY DEF Init, Answered, Definitive, CommandResponse
<1> QED
  BY <1>1, <1>2, <1>4, <1>5 DEF IInv

(* The fields of the frames in flight and of the history have their types. *)
LEMMA FieldTypes ==
  ASSUME TypeOK
  PROVE  /\ Len(to_teensy) \in Nat /\ Len(to_pi) \in Nat
         /\ \A i \in 1 .. Len(to_teensy) :
              to_teensy[i] \in Frame /\ to_teensy[i].id \in Nat /\ to_teensy[i].seq \in SeqNums
         /\ \A i \in 1 .. Len(to_pi) :
              to_pi[i] \in Response /\ to_pi[i].id \in Nat /\ to_pi[i].seq \in SeqNums
         /\ exec.id \in Nat /\ exec.boots \in Nat /\ answer.id \in Nat /\ answer.boots \in Nat
         /\ reply.id \in Nat
         /\ id \in Nat /\ base \in Nat /\ base <= id /\ boots \in Nat
         /\ command_seq \in SeqNums /\ pending_seq \in SeqNums
<1>1. to_teensy \in Seq(Frame) /\ to_pi \in Seq(Response)
  BY DEF TypeOK, LinkTypeOK
<1>2. Len(to_teensy) \in Nat /\ Len(to_pi) \in Nat
  BY <1>1
<1>3. \A i \in 1 .. Len(to_teensy) :
        to_teensy[i] \in Frame /\ to_teensy[i].id \in Nat /\ to_teensy[i].seq \in SeqNums
  <2>1. \A i \in 1 .. Len(to_teensy) : to_teensy[i] \in Frame
    BY <1>1
  <2>2. \A m \in Frame : m.id \in Nat /\ m.seq \in SeqNums
    BY DEF Frame
  <2> QED
    BY <2>1, <2>2
<1>4. \A i \in 1 .. Len(to_pi) :
        to_pi[i] \in Response /\ to_pi[i].id \in Nat /\ to_pi[i].seq \in SeqNums
  <2>1. \A i \in 1 .. Len(to_pi) : to_pi[i] \in Response
    BY <1>1
  <2>2. \A m \in Response : m.id \in Nat /\ m.seq \in SeqNums
    BY DEF Response
  <2> QED
    BY <2>1, <2>2
<1>5. exec \in Response /\ answer \in Response
  BY DEF TypeOK, DriverTypeOK, TeensyTypeOK
<1>6. exec.id \in Nat /\ exec.boots \in Nat /\ answer.id \in Nat /\ answer.boots \in Nat
  BY <1>5 DEF Response
<1>7. reply.id \in Nat /\ command_seq \in SeqNums /\ pending_seq \in SeqNums
  BY DEF TypeOK, DriverTypeOK
<1>8. id \in Nat /\ base \in Nat /\ base <= id
  BY DEF TypeOK, HistoryTypeOK
<1>9. boots \in Nat
  BY BoundsAssumption DEF TypeOK, TeensyTypeOK
<1> QED
  BY <1>2, <1>3, <1>4, <1>6, <1>7, <1>8, <1>9

(* Calls and the returns that carry no answer leave the traffic alone. *)
LEMMA QuietSteps ==
  ASSUME IInv, TypeOK',
         (\E c \in CommandId : Call(c)) \/ GiveUp \/ SendRefused \/ SendFails
           \/ FutureTimeout \/ ReadFails \/ UNCHANGED vars
  PROVE  IInv'
<1> USE DEF IInv, driver, client, link, teensy
<1>1. UNCHANGED <<link, exec, boots, cal, answer, id, base, command_seq, pending_seq>>
  BY DEF Call, GiveUp, SendRefused, SendFails, Return,
         FutureTimeout, ReadFails, vars
<1>2. pc' = "send" => pc = "send"
  BY DEF Call, GiveUp, SendRefused, SendFails, Return,
         FutureTimeout, ReadFails, vars
<1>r. reply'.id = reply.id \/ reply'.id = id
  BY DEF Call, GiveUp, SendRefused, SendFails, Return,
         FutureTimeout, ReadFails, vars
<1>3. Ordered'
  BY SMTT(30), <1>1, <1>2, <1>r, FieldTypes DEF Ordered, Ascending
<1>4. Executed'
  BY <1>1 DEF Executed
<1>5. LinkState'
  BY DEF LinkState, Call, GiveUp, SendRefused, SendFails, Return,
         FutureTimeout, ReadFails, vars
<1>6. connected' => connected
  BY DEF Call, GiveUp, SendRefused, SendFails, Return,
         FutureTimeout, ReadFails, vars
<1>7. SeqsInStep'
  BY <1>1, <1>6 DEF SeqsInStep, InStep
<1>8. Current'
  BY <1>1 DEF Current, Call, GiveUp, SendRefused, SendFails, Return,
         FutureTimeout, ReadFails, vars
<1>9. Answered'
  <2>1. CASE (\E c \in CommandId : Call(c)) \/ FutureTimeout
    BY <2>1 DEF Call, FutureTimeout, Answered, Definitive
  <2>2. CASE GiveUp \/ SendRefused \/ SendFails
    BY <2>2 DEF GiveUp, SendRefused, SendFails, Return, Answered, Definitive, CommandResponse
  <2>3. CASE ReadFails \/ UNCHANGED vars
    BY <2>3 DEF ReadFails, vars, Answered, Definitive
  <2> QED
    BY <2>1, <2>2, <2>3
<1> QED
  BY <1>3, <1>4, <1>5, <1>7, <1>8, <1>9

(* A new attempt has a new number, within MaxLag of all that is in flight. *)
LEMMA BeginAttemptStep ==
  ASSUME IInv, TypeOK', BeginAttempt
  PROVE  IInv'
<1> USE DEF IInv, driver, client, link, teensy
<1>1. UNCHANGED <<link, exec, boots, cal, answer, base, client, reply>> /\ id' = id + 1
  BY DEF BeginAttempt
<1>2. Ordered'
  BY SMTT(30), <1>1, FieldTypes DEF Ordered, Ascending
<1>3. Executed'
  BY <1>1 DEF Executed
<1>4. LinkState'
  BY DEF LinkState, BeginAttempt
<1>5. ASSUME NEW S, NEW q \in Seq(S), connected, InStep(q),
             \A i \in 1 .. Len(q) : q[i].id \in Nat /\ q[i].seq \in SeqNums,
             \A i \in 1 .. Len(q) : q[i].id > base => id + 1 - q[i].id <= MaxLag
      PROVE  \A i \in 1 .. Len(q) : q[i].id > base =>
               /\ id' - q[i].id < SeqMod
               /\ \/ command_seq' = q[i].seq + (id' - q[i].id)
                  \/ command_seq' = q[i].seq + (id' - q[i].id) - SeqMod
  <2> TAKE i \in 1 .. Len(q)
  <2> HAVE q[i].id > base
  <2> DEFINE n == q[i].id
             s == q[i].seq
  <2>1. n \in Nat /\ s \in SeqNums /\ id + 1 - n <= MaxLag
    BY <1>5
  <2>2. /\ id - n < SeqMod
        /\ command_seq = s + (id - n) \/ command_seq = s + (id - n) - SeqMod
    BY <1>5 DEF InStep
  <2>3. command_seq \in SeqNums /\ id \in Nat
    BY FieldTypes
  <2>4. command_seq' = IF command_seq = SeqMod - 1 THEN 0 ELSE command_seq + 1
    BY DEF BeginAttempt, NextSeq
  <2> HIDE DEF n, s
  <2>5. /\ id' - n < SeqMod
        /\ command_seq' = s + (id' - n) \/ command_seq' = s + (id' - n) - SeqMod
    BY <1>1, <2>1, <2>2, <2>3, <2>4, SeqModAssumption, MaxLagAssumption DEF SeqNums
  <2> QED
    BY <2>5 DEF n, s
<1>6. SeqsInStep'
  <2> SUFFICES ASSUME connected'
               PROVE  InStep(to_teensy)' /\ InStep(to_pi)'
    BY DEF SeqsInStep
  <2>1. connected /\ InStep(to_teensy) /\ InStep(to_pi)
    BY <1>1 DEF SeqsInStep
  <2>2. to_teensy \in Seq(Frame) /\ to_pi \in Seq(Response)
    BY DEF TypeOK, LinkTypeOK
  <2>3. /\ \A i \in 1 .. Len(to_teensy) : to_teensy[i].id > base => id + 1 - to_teensy[i].id <= MaxLag
        /\ \A i \in 1 .. Len(to_pi) : to_pi[i].id > base => id + 1 - to_pi[i].id <= MaxLag
    BY <2>1, <2>2 DEF BeginAttempt, Timely
  <2>4. InStep(to_teensy)'
    <3>1. \A i \in 1 .. Len(to_teensy) : to_teensy[i].id > base =>
             /\ id' - to_teensy[i].id < SeqMod
             /\ \/ command_seq' = to_teensy[i].seq + (id' - to_teensy[i].id)
                \/ command_seq' = to_teensy[i].seq + (id' - to_teensy[i].id) - SeqMod
      BY <1>5, <2>1, <2>2, <2>3, FieldTypes
    <3> QED
      BY <1>1, <3>1 DEF InStep
  <2>5. InStep(to_pi)'
    <3>1. \A i \in 1 .. Len(to_pi) : to_pi[i].id > base =>
             /\ id' - to_pi[i].id < SeqMod
             /\ \/ command_seq' = to_pi[i].seq + (id' - to_pi[i].id)
                \/ command_seq' = to_pi[i].seq + (id' - to_pi[i].id) - SeqMod
      BY <1>5, <2>1, <2>2, <2>3, FieldTypes
    <3> QED
      BY <1>1, <3>1 DEF InStep
  <2> QED
    BY <2>4, <2>5
<1>7. Current' /\ Answered'
  BY DEF BeginAttempt, Current, Answered, Definitive
<1> QED
  BY <1>2, <1>3, <1>4, <1>6, <1>7

(* A frame younger than all of a queue can be added to it. *)
LEMMA AppendAscending ==
  ASSUME NEW q, NEW r, NEW n, Len(q) \in Nat, Len(r) = Len(q) + 1, r[Len(q) + 1].id = n,
         \A i \in 1 .. Len(q) : r[i] = q[i], \A i \in 1 .. Len(q) : q[i].id < n, Ascending(q)
  PROVE  Ascending(r)
<1> SUFFICES ASSUME NEW i \in 1 .. Len(r), NEW j \in 1 .. Len(r), i < j
             PROVE  r[i].id < r[j].id
  BY DEF Ascending
<1>1. i \in 1 .. Len(q) /\ r[i] = q[i]
  OBVIOUS
<1>2. CASE j = Len(q) + 1
  BY <1>1, <1>2
<1>3. CASE j \in 1 .. Len(q)
  BY <1>1, <1>3 DEF Ascending
<1> QED
  BY <1>2, <1>3

(* What is in step stays so behind a new frame with the current number. *)
LEMMA AppendInStep ==
  ASSUME NEW q, NEW r, NEW m, Len(q) \in Nat, Len(r) = Len(q) + 1, r[Len(q) + 1] = m,
         \A i \in 1 .. Len(q) : r[i] = q[i], InStep(q),
         m.id > base => /\ id - m.id < SeqMod
                        /\ \/ command_seq = m.seq + (id - m.id)
                           \/ command_seq = m.seq + (id - m.id) - SeqMod
  PROVE  InStep(r)
<1> SUFFICES ASSUME NEW i \in 1 .. Len(r), r[i].id > base
             PROVE  /\ id - r[i].id < SeqMod
                    /\ \/ command_seq = r[i].seq + (id - r[i].id)
                       \/ command_seq = r[i].seq + (id - r[i].id) - SeqMod
  BY DEF InStep
<1>1. CASE i = Len(q) + 1
  BY <1>1
<1>2. CASE i \in 1 .. Len(q)
  BY <1>2 DEF InStep
<1> QED
  BY <1>1, <1>2

(* A command written to the link is the newest of all frames, and in step. *)
LEMMA SendWrittenStep ==
  ASSUME IInv, TypeOK', SendWritten
  PROVE  IInv'
<1> USE DEF IInv, driver, client, link, teensy
<1> DEFINE m == [cmd |-> cmd, seq |-> command_seq, id |-> id]
<1>1. /\ UNCHANGED <<to_pi, exec, boots, cal, answer, id, base, command_seq, pending_seq, cmd>>
      /\ UNCHANGED <<client, ready, reply>>
      /\ pc = "send" /\ pc' = "wait" /\ connected
      /\ to_teensy' = to_teensy \/ to_teensy' = Append(to_teensy, m)
  BY DEF SendWritten, Transmit
<1>2. m \in Frame /\ to_teensy \in Seq(Frame)
  BY FieldTypes DEF TypeOK, DriverTypeOK, LinkTypeOK, Frame
<1>3. /\ \A i \in 1 .. Len(to_teensy) : exec.id < to_teensy[i].id /\ to_teensy[i].id < id
      /\ exec.id < id /\ Ascending(to_teensy) /\ InStep(to_teensy)
  BY <1>1 DEF Ordered, SeqsInStep
<1>4. CASE to_teensy' = to_teensy
  <2>1. Ordered' /\ Executed' /\ LinkState' /\ SeqsInStep'
    BY <1>1, <1>4 DEF Ordered, Ascending, Executed, LinkState, SeqsInStep, InStep
  <2>2. Current'
    BY <1>1, <1>3, <1>4, FieldTypes DEF Current
  <2>3. Answered'
    BY <1>1, FieldTypes DEF Answered, Definitive
  <2> QED
    BY <2>1, <2>2, <2>3
<1>5. CASE to_teensy' = Append(to_teensy, m)
  <2>1. /\ Len(to_teensy') = Len(to_teensy) + 1 /\ to_teensy'[Len(to_teensy) + 1] = m
        /\ \A i \in 1 .. Len(to_teensy) : to_teensy'[i] = to_teensy[i]
    <3> HIDE DEF m
    <3> QED BY <1>2, <1>5, AppendFacts
  <2>2. m.id = id /\ m.seq = command_seq /\ m.cmd = cmd
    OBVIOUS
  <2> HIDE DEF m
  <2>3. \A i \in 1 .. Len(to_teensy') : i \in 1 .. Len(to_teensy) \/ to_teensy'[i] = m
    BY <2>1, FieldTypes
  <2>4. Ascending(to_teensy)'
    <3>1. Ascending(to_teensy')
      BY <1>3, <2>1, <2>2, AppendAscending, FieldTypes
    <3> QED
      BY <3>1 DEF Ascending
  <2>5. Ordered'
    <3>1. \A i \in 1 .. Len(to_teensy') : exec.id < to_teensy'[i].id /\ to_teensy'[i].id <= id
      <4> TAKE i \in 1 .. Len(to_teensy')
      <4>1. CASE i \in 1 .. Len(to_teensy)
        BY SMTT(30), <1>3, <2>1, <4>1, FieldTypes
      <4>2. CASE to_teensy'[i] = m
        BY <1>3, <2>2, <4>2, FieldTypes
      <4> QED
        BY <2>3, <4>1, <4>2
    <3>2. Ascending(to_pi)' /\ \A i \in 1 .. Len(to_pi) : to_pi'[i].id <= exec'.id
      BY <1>1 DEF Ordered, Ascending
    <3> QED
      BY <1>1, <2>4, <3>1, <3>2, FieldTypes DEF Ordered
  <2>6. Executed' /\ LinkState'
    BY <1>1 DEF Executed, LinkState
  <2>7. InStep(to_teensy)'
    <3>1. id - m.id < SeqMod /\ command_seq = m.seq + (id - m.id)
      BY <2>2, FieldTypes, SeqModAssumption DEF SeqNums
    <3>2. InStep(to_teensy')
      BY <1>3, <2>1, <3>1, AppendInStep, FieldTypes
    <3> QED
      BY <1>1, <3>2 DEF InStep
  <2>8. SeqsInStep'
    BY <1>1, <2>7 DEF SeqsInStep, InStep
  <2>9. Current'
    BY SMTT(30), <1>1, <1>3, <2>1, <2>2, <2>3, FieldTypes DEF Current
  <2>10. Answered'
    BY <1>1, FieldTypes DEF Answered, Definitive
  <2> QED
    BY <2>5, <2>6, <2>8, <2>9, <2>10
<1> QED
  BY <1>1, <1>4, <1>5

(* Returning an answer ends the call with the last execution's result. *)
LEMMA FutureReadyStep ==
  ASSUME IInv, TypeOK', FutureReady
  PROVE  IInv'
<1> USE DEF IInv, driver, client, link, teensy
<1>1. UNCHANGED <<link, exec, boots, cal, answer, id, base, command_seq, pending_seq, client, cmd>>
  BY DEF FutureReady
<1>2. pc = "wait" /\ ready /\ pc' = "idle"
      /\ reply' = [cmd |-> cmd, verdict |-> answer.result, id |-> answer.id, boots |-> answer.boots]
  BY DEF FutureReady, Return
<1>r. reply'.id <= id
  BY <1>2, FieldTypes DEF Ordered, Executed
<1>3. Ordered' /\ Executed' /\ LinkState' /\ SeqsInStep' /\ Current'
  BY <1>1, <1>2, <1>r DEF Ordered, Ascending, Executed, LinkState, SeqsInStep, InStep, Current
<1>4. ASSUME Definitive'
      PROVE  /\ exec'.id = id' /\ to_pi' = <<>>
             /\ reply'.cmd = exec'.cmd /\ reply'.verdict = exec'.result
             /\ reply'.boots = exec'.boots
  <2>1. answer.id > base
    BY <1>1, <1>2, <1>4 DEF Definitive
  <2>2. answer.id = id /\ to_pi = <<>>
    BY <1>2, <2>1 DEF Answered
  <2>3. exec.id = id /\ answer = exec
    BY <2>2, FieldTypes DEF Ordered, Executed
  <2>4. exec.cmd = cmd
    BY <1>2, <2>3 DEF Current
  <2> QED
    BY <1>1, <1>2, <2>2, <2>3, <2>4
<1>5. Answered'
  BY <1>2, <1>4 DEF Answered
<1> QED
  BY <1>3, <1>5

(* Taking the oldest frame of a queue keeps what holds of all its frames, and *)
(* leaves only younger ones.                                                  *)
LEMMA TailKeeps ==
  ASSUME NEW S, NEW q \in Seq(S), q # <<>>
  PROVE  /\ Ascending(q) => Ascending(Tail(q)) /\ \A i \in 1 .. Len(Tail(q)) : q[1].id < Tail(q)[i].id
         /\ InStep(q) => InStep(Tail(q))
<1>1. /\ Len(q) \in Nat \ {0} /\ Len(Tail(q)) = Len(q) - 1
      /\ \A i \in 1 .. Len(Tail(q)) : i + 1 \in 1 .. Len(q) /\ Tail(q)[i] = q[i + 1]
  BY TailFacts
<1>2. Ascending(q) => Ascending(Tail(q))
  <2> SUFFICES ASSUME Ascending(q), NEW i \in 1 .. Len(Tail(q)), NEW j \in 1 .. Len(Tail(q)), i < j
               PROVE  Tail(q)[i].id < Tail(q)[j].id
    BY DEF Ascending
  <2>1. i + 1 \in 1 .. Len(q) /\ j + 1 \in 1 .. Len(q) /\ i + 1 < j + 1
    BY <1>1
  <2>2. Tail(q)[i] = q[i + 1] /\ Tail(q)[j] = q[j + 1]
    BY <1>1
  <2> QED
    BY <2>1, <2>2 DEF Ascending
<1>3. ASSUME Ascending(q), NEW i \in 1 .. Len(Tail(q))
      PROVE  q[1].id < Tail(q)[i].id
  <2>1. 1 \in 1 .. Len(q) /\ i + 1 \in 1 .. Len(q) /\ 1 < i + 1
    BY <1>1
  <2> QED
    BY <1>1, <1>3, <2>1 DEF Ascending
<1>4. InStep(q) => InStep(Tail(q))
  BY <1>1 DEF InStep
<1> QED
  BY <1>2, <1>3, <1>4

(* A response is accepted only for the attempt being waited on, unless it is *)
(* of an earlier session.                                                    *)
LEMMA CallbackStep ==
  ASSUME IInv, TypeOK', CommandResponseCallback
  PROVE  IInv'
<1> USE DEF IInv, driver, client, link, teensy
<1> DEFINE m == Head(to_pi)
<1>1. /\ UNCHANGED <<to_teensy, exec, boots, cal, id, base, command_seq, pending_seq, cmd, pc, client>>
      /\ UNCHANGED reply
      /\ to_pi' = Tail(to_pi) /\ to_pi # <<>> /\ reading
      /\ \/ pending_promise /\ m.seq = pending_seq /\ ready' = TRUE /\ answer' = m
         \/ UNCHANGED <<ready, answer>>
  BY DEF CommandResponseCallback
<1>2. to_pi \in Seq(Response)
  BY DEF TypeOK, LinkTypeOK
<1>3. /\ Len(to_pi) \in Nat \ {0} /\ m = to_pi[1] /\ 1 \in 1 .. Len(to_pi)
      /\ \A i \in 1 .. Len(to_pi') : i + 1 \in 1 .. Len(to_pi) /\ to_pi'[i] = to_pi[i + 1]
      /\ Len(to_pi') = Len(to_pi) - 1
  BY <1>1, <1>2, TailFacts
<1> HIDE DEF m
<1>4. m.id \in Nat /\ m.id <= exec.id /\ exec.id <= id
  BY <1>3, FieldTypes DEF Ordered
<1>5. Ascending(to_pi) /\ Ascending(to_pi') /\ \A i \in 1 .. Len(to_pi') : m.id < to_pi'[i].id
  BY <1>1, <1>2, <1>3, TailKeeps DEF Ordered
<1>6. Ordered'
  <2>1. \A i \in 1 .. Len(to_pi') : to_pi'[i].id <= exec.id
    BY <1>3 DEF Ordered
  <2>2. Ascending(to_teensy)'
    BY <1>1 DEF Ordered, Ascending
  <2>3. Ascending(to_pi)'
    BY <1>5 DEF Ascending
  <2> QED
    BY <1>1, <2>1, <2>2, <2>3 DEF Ordered
<1>7. Executed'
  <2>1. \A i \in 1 .. Len(to_pi') : to_pi'[i].id = exec.id => to_pi'[i] = exec
    BY <1>3 DEF Executed
  <2>2. m.id = exec.id => m = exec
    BY <1>3 DEF Executed
  <2> QED
    BY <1>1, <1>4, <2>1, <2>2 DEF Executed
<1>8. LinkState' /\ Current'
  BY <1>1 DEF LinkState, Current
<1>9. SeqsInStep'
  <2>1. InStep(to_pi) => InStep(to_pi')
    BY <1>1, <1>2, TailKeeps
  <2> QED
    BY <1>1, <2>1 DEF SeqsInStep, InStep
(* An accepted response of this session is that of the current attempt. *)
<1>10. ASSUME connected, m.seq = pending_seq, m.id > base
       PROVE  m.id = id
  <2>1. /\ id - m.id < SeqMod
        /\ command_seq = m.seq + (id - m.id) \/ command_seq = m.seq + (id - m.id) - SeqMod
    BY <1>3, <1>10 DEF SeqsInStep, InStep
  <2>2. m.seq = command_seq /\ m.seq \in Int
    BY <1>10, FieldTypes, SeqModAssumption DEF LinkState, SeqNums
  <2>3. id - m.id = 0 \/ id - m.id = SeqMod
    <3>1. id \in Int /\ m.id \in Int /\ SeqMod \in Int /\ m.seq \in Int
      BY <1>4, <2>2, FieldTypes, SeqModAssumption
    <3> HIDE DEF IInv
    <3> QED
      BY <2>1, <2>2, <3>1
  <2>4. id \in Nat /\ m.id \in Nat /\ SeqMod \in Nat
    BY <1>4, FieldTypes, SeqModAssumption
  <2> HIDE DEF IInv
  <2> QED
    BY <2>1, <2>3, <2>4
(* It is the youngest, so it is the last in the queue. *)
<1>11. m.id = id => to_pi' = <<>>
  <2>1. to_pi' \in Seq(Response)
    BY <1>1, <1>2, TailFacts
  <2>2. ASSUME m.id = id, Len(to_pi') > 0
        PROVE  FALSE
    <3>1. 1 \in 1 .. Len(to_pi') /\ 2 \in 1 .. Len(to_pi) /\ to_pi'[1] = to_pi[2]
      BY <1>3, <2>2
    <3>2. to_pi[2].id \in Nat /\ to_pi[2].id <= id
      BY SMTT(30), <3>1, FieldTypes DEF Ordered
    <3> QED
      BY SMTT(30), <1>4, <1>5, <2>2, <3>1, <3>2, FieldTypes
  <2> QED
    BY <2>1, <2>2
<1>12. Answered'
  <2>1. pc # "idle" \/ ~Definitive
    BY <1>1 DEF Answered, Definitive
  <2>2. CASE UNCHANGED <<ready, answer>>
    <3>1. ~(pc = "wait" /\ ready /\ answer.id > base)
      BY <1>1 DEF Answered
    <3> QED
      BY <1>1, <2>1, <2>2, <3>1 DEF Answered, Definitive
  <2>3. CASE pending_promise /\ m.seq = pending_seq /\ ready' = TRUE /\ answer' = m
    <3>1. pc = "wait" /\ m.id > base => m.id = id /\ to_pi' = <<>>
      BY <1>1, <1>10, <1>11, <2>3 DEF LinkState
    <3>2. pc = "send" /\ connected => m.id <= base
      <4>1. ASSUME pc = "send", connected, m.id > base
            PROVE  FALSE
        BY <1>4, <1>10, <2>3, <4>1, FieldTypes DEF Ordered
      <4> QED
        BY <1>4, <4>1, FieldTypes
    <3> QED
      BY <1>1, <2>1, <2>3, <3>1, <3>2 DEF Answered, Definitive
  <2> QED
    BY <1>1, <2>2, <2>3
<1> QED
  BY <1>6, <1>7, <1>8, <1>9, <1>12

(* A command is executed in its turn: it is younger than the last one, and   *)
(* so is its response than those in flight.                                  *)
LEMMA PollCommandStep ==
  ASSUME IInv, TypeOK', PollCommand
  PROVE  IInv'
<1> USE DEF IInv, driver, client, link, teensy
<1> DEFINE m == Head(to_teensy)
           R(o) == [cmd |-> m.cmd, seq |-> m.seq, result |-> o.result,
                     id |-> m.id, boots |-> boots, cal |-> o.cal]
<1>1. PICK o \in Outcomes(m.cmd, cal) : cal' = o.cal /\ exec' = R(o) /\ Transmit(to_pi, R(o), open)
  BY DEF PollCommand
<1> DEFINE r == R(o)
<1>2. /\ UNCHANGED <<pc, cmd, ready, answer, command_seq, pending_seq, client, boots, id, base>>
      /\ UNCHANGED reply
      /\ to_teensy # <<>> /\ to_teensy' = Tail(to_teensy)
      /\ exec' = r /\ (to_pi' = to_pi \/ to_pi' = Append(to_pi, r))
  BY <1>1 DEF PollCommand, Transmit
<1>3. r.cmd = m.cmd /\ r.seq = m.seq /\ r.result = o.result /\ r.id = m.id /\ r.boots = boots
      /\ r.cal = o.cal
  OBVIOUS
<1>4. to_teensy \in Seq(Frame) /\ to_pi \in Seq(Response) /\ exec' \in Response
  BY DEF TypeOK, LinkTypeOK, TeensyTypeOK
<1>5. /\ m = to_teensy[1] /\ 1 \in 1 .. Len(to_teensy)
      /\ Len(to_teensy') = Len(to_teensy) - 1
      /\ \A i \in 1 .. Len(to_teensy') :
           i + 1 \in 1 .. Len(to_teensy) /\ to_teensy'[i] = to_teensy[i + 1]
  BY <1>2, <1>4, TailFacts
<1>6. o.result \in CommandResponse /\ o.cal \in BOOLEAN /\ Agrees(m.cmd, o.result, o.cal)
  BY <1>4, <1>5, FieldTypes, OutcomesAgree DEF TypeOK, TeensyTypeOK, Frame
<1> HIDE DEF m, R, r
<1>7. m.id \in Nat /\ exec.id < m.id /\ m.id <= id /\ (pc = "send" => m.id < id)
  BY <1>5, FieldTypes DEF Ordered
<1>8. Ascending(to_teensy') /\ \A i \in 1 .. Len(to_teensy') : m.id < to_teensy'[i].id
  BY <1>2, <1>4, <1>5, TailKeeps DEF Ordered
<1>9. /\ Ascending(to_pi') /\ \A i \in 1 .. Len(to_pi') : to_pi'[i].id < m.id \/ to_pi'[i] = r
      /\ connected => InStep(to_pi')
  <2>1. CASE to_pi' = to_pi
    <3>1. Ascending(to_pi') /\ \A i \in 1 .. Len(to_pi') : to_pi'[i].id < m.id
      BY <1>7, <2>1, FieldTypes DEF Ordered
    <3>2. connected => InStep(to_pi')
      BY <2>1 DEF SeqsInStep
    <3> QED
      BY <3>1, <3>2
  <2>2. CASE to_pi' = Append(to_pi, r)
    <3>1. /\ Len(to_pi') = Len(to_pi) + 1 /\ to_pi'[Len(to_pi) + 1] = r
          /\ \A i \in 1 .. Len(to_pi) : to_pi'[i] = to_pi[i]
      BY <1>2, <1>4, <2>2, AppendFacts
    <3>2. \A i \in 1 .. Len(to_pi) : to_pi[i].id < m.id
      BY <1>7, FieldTypes DEF Ordered
    <3>3. ASSUME NEW i \in 1 .. Len(to_pi')
          PROVE  i \in 1 .. Len(to_pi) \/ to_pi'[i] = r
      <4>1. Len(to_pi) \in Nat /\ Len(to_pi') = Len(to_pi) + 1
        BY <3>1, FieldTypes
      <4>2. i = Len(to_pi) + 1 \/ i \in 1 .. Len(to_pi)
        BY <4>1
      <4> QED
        BY <3>1, <4>2
    <3>4. Ascending(to_pi')
      BY <1>3, <3>1, <3>2, AppendAscending, FieldTypes DEF Ordered
    <3>5. ASSUME connected
          PROVE  InStep(to_pi')
      <4>1. InStep(to_pi) /\ InStep(to_teensy)
        BY <3>5 DEF SeqsInStep
      <4>2. r.id > base => /\ id - r.id < SeqMod
                           /\ \/ command_seq = r.seq + (id - r.id)
                              \/ command_seq = r.seq + (id - r.id) - SeqMod
        BY <1>3, <1>5, <4>1 DEF InStep
      <4> QED
        BY <3>1, <4>1, <4>2, AppendInStep, FieldTypes
    <3> QED
      BY <3>1, <3>2, <3>3, <3>4, <3>5
  <2> QED
    BY <1>2, <2>1, <2>2
<1>10. Ordered'
  <2>1. \A i \in 1 .. Len(to_teensy') : m.id < to_teensy'[i].id /\ to_teensy'[i].id <= id
    BY <1>5, <1>8 DEF Ordered
  <2>2. \A i \in 1 .. Len(to_pi') : to_pi'[i].id <= m.id
    <3> TAKE i \in 1 .. Len(to_pi')
    <3>1. to_pi'[i].id < m.id \/ to_pi'[i].id = m.id
      BY <1>3, <1>9
    <3>2. to_pi' \in Seq(Response)
      BY DEF TypeOK, LinkTypeOK
    <3>3. to_pi'[i] \in Response
      BY <3>2
    <3>4. to_pi'[i].id \in Nat
      BY <3>3 DEF Response
    <3> QED
      BY <1>7, <3>1, <3>4
  <2>3. pc = "send" => \A i \in 1 .. Len(to_teensy') : to_teensy'[i].id < id
    BY <1>5 DEF Ordered
  <2>4. Ascending(to_teensy)' /\ Ascending(to_pi)'
    BY <1>8, <1>9 DEF Ascending
  <2> QED
    BY <1>2, <1>3, <1>7, <2>1, <2>2, <2>3, <2>4 DEF Ordered
<1>11. Executed'
  <2>1. \A i \in 1 .. Len(to_pi') : to_pi'[i].id = m.id => to_pi'[i] = r
    BY <1>7, <1>9
  <2>2. answer.id < m.id
    BY <1>7, FieldTypes DEF Executed
  <2>3. Agrees(r.cmd, r.result, r.cal) /\ r.cal = cal'
    BY <1>1, <1>3, <1>6
  <2> QED
    BY <1>2, <1>3, <1>7, <2>1, <2>2, <2>3, FieldTypes DEF Executed
<1>12. LinkState'
  BY <1>2 DEF LinkState
<1>13. SeqsInStep'
  <2>1. connected => InStep(to_teensy')
    BY <1>2, <1>4, TailKeeps DEF SeqsInStep
  <2> QED
    BY <1>2, <1>9, <2>1 DEF SeqsInStep, InStep
<1>14. Current'
  <2>1. pc = "wait" /\ m.id = id => m.cmd = cmd
    BY <1>5 DEF Current
  <2>2. pc = "wait" => \A i \in 1 .. Len(to_teensy') : to_teensy'[i].id = id => to_teensy'[i].cmd = cmd
    BY <1>5 DEF Current
  <2> QED
    BY <1>2, <1>3, <2>1, <2>2 DEF Current
<1>15. Answered'
  <2>1. ~Definitive
    BY <1>7, FieldTypes DEF Answered
  <2>2. ~(pc = "wait" /\ ready /\ answer.id > base)
    BY <1>7, FieldTypes DEF Answered, Executed
  <2> QED
    BY <1>2, <2>1, <2>2 DEF Answered, Definitive
<1> QED
  BY <1>10, <1>11, <1>12, <1>13, <1>14, <1>15

(* A restart empties the Teensy's receive buffer; what it executed before is *)
(* no longer held against calibrating().                                     *)
LEMMA RebootStep ==
  ASSUME IInv, TypeOK', Reboot
  PROVE  IInv'
<1> USE DEF IInv, driver, client, link, teensy
<1>1. /\ UNCHANGED <<driver, client, to_pi, exec, reply, id, base>>
      /\ to_teensy' = <<>> /\ boots' = boots + 1
  BY DEF Reboot
<1>2. Ordered' /\ LinkState' /\ SeqsInStep' /\ Current'
  BY <1>1 DEF Ordered, Ascending, LinkState, SeqsInStep, InStep, Current
<1>3. exec.boots <= boots' /\ exec.boots # boots'
  BY <1>1, FieldTypes DEF Executed
<1>4. Executed'
  <2>1. to_pi' = to_pi /\ exec' = exec /\ answer' = answer
    BY <1>1
  <2>2. \A i \in 1 .. Len(to_pi) : to_pi[i].id = exec.id => to_pi[i] = exec
    BY DEF Executed
  <2>3. answer.id <= exec.id /\ (answer.id = exec.id => answer = exec)
    BY DEF Executed
  <2> QED
    BY <1>3, <2>1, <2>2, <2>3 DEF Executed
<1>5. Answered'
  BY <1>1 DEF Answered, Definitive
<1> QED
  BY <1>2, <1>4, <1>5

(* A session starts with what an earlier one left, all of it up to base. *)
LEMMA OnConfigureStep ==
  ASSUME IInv, TypeOK', OnConfigure
  PROVE  IInv'
<1> USE DEF IInv, driver, client, link, teensy
<1>1. /\ UNCHANGED <<driver, link, teensy, reply, id, base>>
      /\ pc = "idle" /\ ~open /\ open' = TRUE /\ connected' = TRUE /\ reading' = TRUE
  BY DEF OnConfigure
<1>2. Ordered' /\ Executed' /\ Current'
  BY <1>1 DEF Ordered, Ascending, Executed, Current
<1>3. LinkState'
  BY <1>1 DEF LinkState
<1>4. base = id
  BY <1>1 DEF LinkState
<1>5. /\ \A i \in 1 .. Len(to_teensy) : ~(to_teensy[i].id > base)
      /\ \A i \in 1 .. Len(to_pi) : ~(to_pi[i].id > base)
  <2>1. \A i \in 1 .. Len(to_teensy) : to_teensy[i].id <= base
    BY <1>4 DEF Ordered
  <2>2. exec.id <= base /\ \A i \in 1 .. Len(to_pi) : to_pi[i].id <= exec.id
    BY <1>4 DEF Ordered
  <2> QED
    BY SMTT(30), <2>1, <2>2, FieldTypes
<1>6. SeqsInStep'
  BY <1>1, <1>5 DEF SeqsInStep, InStep
<1>7. Answered'
  BY <1>1 DEF Answered, Definitive
<1> QED
  BY <1>2, <1>3, <1>6, <1>7

(* Cleaning up, or the end of the process, ends the session. *)
LEMMA EndSessionStep ==
  ASSUME IInv, TypeOK', OnCleanup \/ NodeDies
  PROVE  IInv'
<1> USE DEF IInv, driver, client, link, teensy
<1>1. /\ UNCHANGED <<cmd, ready, answer, to_teensy, exec, boots, cal, reply, id>>
      /\ pc' = "idle" /\ to_pi' = <<>> /\ base' = id
      /\ ~open' /\ ~connected' /\ ~reading' /\ pending_seq' = command_seq'
  BY DEF OnCleanup, NodeDies, EndSession
<1>2. Ordered' /\ Executed' /\ LinkState' /\ SeqsInStep' /\ Current'
  BY <1>1 DEF Ordered, Ascending, Executed, LinkState, SeqsInStep, Current
<1>3. ~Definitive'
  <2>1. Definitive => reply.id > base
    BY DEF Definitive
  <2>2. Definitive' => reply.id > id
    BY <1>1 DEF Definitive
  <2>3. reply.id <= id
    BY FieldTypes DEF Ordered
  <2> QED
    BY <2>2, <2>3, FieldTypes
<1>4. Answered'
  BY <1>1, <1>3 DEF Answered
<1> QED
  BY <1>2, <1>4

(* Every step keeps the invariant. *)
LEMMA NextInv == IInv /\ [Next]_vars => IInv'
<1> SUFFICES ASSUME IInv, [Next]_vars
             PROVE  IInv'
  OBVIOUS
<1>1. TypeOK'
  BY NextType DEF IInv
<1>2. CASE \/ \E c \in CommandId : Call(c)
           \/ GiveUp \/ SendRefused \/ SendFails \/ FutureTimeout \/ ReadFails
           \/ UNCHANGED vars
  BY <1>1, <1>2, QuietSteps
<1>3. CASE BeginAttempt
  BY <1>1, <1>3, BeginAttemptStep
<1>4. CASE SendWritten
  BY <1>1, <1>4, SendWrittenStep
<1>5. CASE FutureReady
  BY <1>1, <1>5, FutureReadyStep
<1>6. CASE CommandResponseCallback
  BY <1>1, <1>6, CallbackStep
<1>7. CASE PollCommand
  BY <1>1, <1>7, PollCommandStep
<1>8. CASE Reboot
  BY <1>1, <1>8, RebootStep
<1>9. CASE OnConfigure
  BY <1>1, <1>9, OnConfigureStep
<1>10. CASE OnCleanup \/ NodeDies
  BY <1>1, <1>10, EndSessionStep
<1> QED
  BY <1>2, <1>3, <1>4, <1>5, <1>6, <1>7, <1>8, <1>9, <1>10 DEF Next, SurvivingNext, SendCommandStep

(* The invariant holds throughout. *)
LEMMA InvAlways == Spec => []IInv
BY InitInv, NextInv, PTL DEF Spec

-------------------------------------------------------------------------------
(* The properties. *)

(* driver.cpp:119-133: an accepted response of this session is the answer to *)
(* the attempt being waited on and to the command it carried, for every      *)
(* number of retries, loss and delay up to MaxLag attempts.                  *)
THEOREM AnswersAreCurrent == Spec => []AnswerIsCurrent
<1>1. IInv => AnswerIsCurrent
  <2> SUFFICES ASSUME IInv, pc = "wait", ready, answer.id > base
               PROVE  answer.id = id /\ answer.cmd = cmd
    BY DEF AnswerIsCurrent
  <2>1. answer.id = id
    BY DEF IInv, Answered
  <2>2. exec.id = id /\ answer = exec
    BY <2>1, FieldTypes DEF IInv, Ordered, Executed
  <2> QED
    BY <2>1, <2>2 DEF IInv, Current
<1> QED
  BY <1>1, InvAlways, PTL

(* driver.cpp:197-251: when a call has been answered by the Teensy, none of  *)
(* its retries, nor of an earlier call's, is in flight in either direction.  *)
THEOREM RepliesEndTheTraffic == Spec => []NothingInFlightAfterReply
<1>1. IInv => NothingInFlightAfterReply
  <2> SUFFICES ASSUME IInv, Definitive
               PROVE  to_teensy = <<>> /\ to_pi = <<>>
    BY DEF NothingInFlightAfterReply
  <2>1. exec.id = id /\ to_pi = <<>>
    BY DEF IInv, Answered
  <2>2. to_teensy \in Seq(Frame)
    BY DEF IInv, TypeOK, LinkTypeOK
  <2>3. ASSUME Len(to_teensy) > 0
        PROVE  FALSE
    <3>1. 1 \in 1 .. Len(to_teensy)
      BY <2>2, <2>3
    <3>2. exec.id < to_teensy[1].id /\ to_teensy[1].id <= id /\ to_teensy[1].id \in Nat
      BY <3>1, FieldTypes DEF IInv, Ordered
    <3> QED
      BY <2>1, <3>2, FieldTypes DEF IInv
  <2>4. to_teensy = <<>>
    BY <2>2, <2>3
  <2> QED
    BY <2>1, <2>4
<1> QED
  BY <1>1, InvAlways, PTL

(* driver.cpp:230-246 and main.cpp:79-101: what an answer says about the     *)
(* calibration is true on the Teensy until it restarts.                      *)
THEOREM RepliesAreTrue == Spec => []ReplyMatchesFirmware
<1>1. IInv => ReplyMatchesFirmware
  <2> SUFFICES ASSUME IInv, Definitive, reply.boots = boots
               PROVE  Agrees(reply.cmd, reply.verdict, cal)
    BY DEF ReplyMatchesFirmware
  <2>1. reply.cmd = exec.cmd /\ reply.verdict = exec.result /\ exec.boots = boots
    BY DEF IInv, Answered
  <2>2. Agrees(exec.cmd, exec.result, cal)
    BY <2>1 DEF IInv, Executed
  <2> QED
    BY <2>1, <2>2
<1> QED
  BY <1>1, InvAlways, PTL
-------------------------------------------------------------------------------
(* CommandChannel implements CalibrationService: every step of the retry      *)
(* loop, the link and the firmware is a step of the abstract service or       *)
(* changes nothing of it.  (That its calls return is liveness, and left to    *)
(* TLC.)  The mapping needs these facts beside IInv: no answer speaks of a    *)
(* boot that has not been, nothing is in flight to a node that is not         *)
(* configured, and an attempt that has begun is one of this session.          *)
RInv ==
  /\ answer.boots <= boots
  /\ \A i \in 1 .. Len(to_pi) : to_pi[i].boots <= boots
  /\ ~open => to_pi = <<>>
  /\ pc \in {"send", "wait"} => id > base

(* Nothing is in flight. *)
LEMMA InitRInv == Init => RInv
BY DEF Init, RInv, NoResponse

(* Every step keeps what the refinement needs. *)
LEMMA NextRInv == IInv /\ RInv /\ [Next]_vars => RInv'
<1> SUFFICES ASSUME IInv, RInv, [Next]_vars
             PROVE  RInv'
  OBVIOUS
<1> USE DEF IInv, driver, client, link, teensy
<1>1. CASE \/ \E c \in CommandId : Call(c)
           \/ GiveUp \/ SendRefused \/ SendFails \/ SendWritten
           \/ FutureReady \/ FutureTimeout \/ ReadFails \/ OnConfigure
           \/ UNCHANGED vars
  <2>1. UNCHANGED <<answer, to_pi, boots, id, base>>
    BY <1>1 DEF Call, GiveUp, SendRefused, SendFails, SendWritten, FutureReady, FutureTimeout,
                ReadFails, OnConfigure, vars
  <2>2. (open' = open \/ open' = TRUE) /\ (pc' \in {"send", "wait"} => pc \in {"send", "wait"})
    BY <1>1 DEF Call, GiveUp, SendRefused, SendFails, SendWritten, FutureReady, FutureTimeout,
                Return, ReadFails, OnConfigure, vars
  <2> QED
    BY <2>1, <2>2 DEF RInv
<1>2. CASE BeginAttempt
  BY <1>2, FieldTypes DEF BeginAttempt, RInv
<1>3. CASE CommandResponseCallback
  <2>1. to_pi \in Seq(Response) /\ to_pi # <<>>
    BY <1>3 DEF CommandResponseCallback, TypeOK, LinkTypeOK
  <2>2. /\ UNCHANGED <<boots, id, base, pc, open>> /\ to_pi' = Tail(to_pi)
        /\ answer' = Head(to_pi) \/ answer' = answer
        /\ reading
    BY <1>3 DEF CommandResponseCallback
  <2>3. /\ Head(to_pi).boots <= boots
        /\ \A i \in 1 .. Len(to_pi') : to_pi'[i].boots <= boots
    BY <2>1, <2>2, TailFacts DEF RInv
  <2> QED
    BY <2>2, <2>3 DEF RInv, LinkState
<1>4. CASE PollCommand
  <2>1. PICK r : /\ r.boots = boots /\ (to_pi' = to_pi \/ (open /\ to_pi' = Append(to_pi, r)))
                 /\ r = exec'
    BY <1>4 DEF PollCommand, Transmit
  <2>2. UNCHANGED <<answer, boots, id, base, pc, open>>
    BY <1>4 DEF PollCommand
  <2>3. exec' \in Response /\ to_pi \in Seq(Response)
    BY NextType DEF TypeOK, TeensyTypeOK, LinkTypeOK
  <2>4. \A i \in 1 .. Len(to_pi') : to_pi'[i].boots <= boots
    <3>1. CASE to_pi' = to_pi
      BY <3>1 DEF RInv
    <3>2. CASE to_pi' = Append(to_pi, r)
      <4>1. /\ Len(to_pi') = Len(to_pi) + 1 /\ to_pi'[Len(to_pi) + 1] = r
            /\ \A i \in 1 .. Len(to_pi) : to_pi'[i] = to_pi[i]
        BY <2>1, <2>3, <3>2, AppendFacts
      <4> TAKE i \in 1 .. Len(to_pi')
      <4>2. CASE i = Len(to_pi) + 1
        BY <2>1, <4>1, <4>2, FieldTypes
      <4>3. CASE i \in 1 .. Len(to_pi)
        BY <4>1, <4>3 DEF RInv
      <4> QED
        BY <4>1, <4>2, <4>3, FieldTypes
    <3> QED
      BY <2>1, <3>1, <3>2
  <2> QED
    BY <2>1, <2>2, <2>4 DEF RInv
<1>5. CASE Reboot
  <2>1. UNCHANGED <<answer, to_pi, id, base, pc, open>> /\ boots' = boots + 1
    BY <1>5 DEF Reboot
  <2>2. \A i \in 1 .. Len(to_pi) : to_pi[i].boots \in Nat
    <3>1. \A m \in Response : m.boots \in Nat
      BY DEF Response
    <3> QED
      BY <3>1, FieldTypes
  <2> QED
    BY <2>1, <2>2, FieldTypes DEF RInv
<1>6. CASE OnCleanup \/ NodeDies
  <2>1. /\ UNCHANGED <<answer, boots>> /\ to_pi' = <<>> /\ pc' = "idle"
    BY <1>6 DEF OnCleanup, NodeDies, EndSession
  <2> QED
    BY <2>1 DEF RInv
<1> QED
  BY <1>1, <1>2, <1>3, <1>4, <1>5, <1>6 DEF Next, SurvivingNext, SendCommandStep

-------------------------------------------------------------------------------
(* The mapped variables. *)

(* The service's commands and answers are the channel's. *)
LEMMA SameCommands ==
  /\ Service!CommandId = CommandId /\ Service!CommandResponse = CommandResponse
  /\ \A c, b : Service!Outcomes(c, b) = Outcomes(c, b)
  /\ \A c, r, b : Service!Agrees(c, r, b) <=> Agrees(c, r, b)
<1>1. Service!CommandId = CommandId /\ Service!CommandResponse = CommandResponse
  BY DEF Service!CommandId, CommandId, Service!CommandResponse, CommandResponse
<1>2. \A c, b : Service!Outcomes(c, b) = Outcomes(c, b)
  BY DEF Service!Outcomes, Outcomes, Service!StartOutcomes, StartOutcomes,
         Service!SaveOutcomes, SaveOutcomes, Service!StopOutcomes, StopOutcomes
<1>3. \A c, r, b : Service!Agrees(c, r, b) <=> Agrees(c, r, b)
  BY DEF Service!Agrees, Agrees
<1> QED
  BY <1>1, <1>2, <1>3

(* What is pending once no call is being served. *)
LEMMA IdlePending ==
  ASSUME Busy, ~Busy', to_teensy' = to_teensy
  PROVE  Pending' \in Service!LeftPending
<1> DEFINE S == {to_teensy[i].cmd : i \in 1 .. Len(to_teensy)}
<1>1. Pending = S \cup {cmd} /\ Pending' = S
  BY DEF Pending
<1> HIDE DEF S
<1>2. S = Pending \/ S = Pending \ {cmd}
  BY <1>1
<1> QED
  BY <1>1, <1>2 DEF Service!LeftPending

(* Nothing newer than the last attempt is in flight to the Teensy. *)
LEMMA LastInFlight ==
  ASSUME IInv, exec.id = id
  PROVE  to_teensy = <<>>
<1>1. to_teensy \in Seq(Frame)
  BY DEF IInv, TypeOK, LinkTypeOK
<1>2. ASSUME Len(to_teensy) > 0
      PROVE  FALSE
  <2>1. 1 \in 1 .. Len(to_teensy)
    BY <1>1, <1>2
  <2>2. exec.id < to_teensy[1].id /\ to_teensy[1].id <= id /\ to_teensy[1].id \in Nat
    BY <2>1, FieldTypes DEF IInv, Ordered
  <2> QED
    BY <2>2, FieldTypes DEF IInv
<1> QED
  BY <1>1, <1>2

(* A step that adds nothing old leaves stale as it is or false. *)
LEMMA StaleFalls ==
  ASSUME Stale' => Stale
  PROVE  Stale' \in {Stale, FALSE}
<1>1. Stale \in BOOLEAN /\ Stale' \in BOOLEAN
  BY Zenon DEF Stale
<1> QED
  BY <1>1

(* What the mapped variables are made of. *)
LEMMA MappedUnchanged ==
  ASSUME UNCHANGED <<pc, cmd, ready, answer, to_teensy, to_pi, open, cal, boots, exec, reply, base>>
  PROVE  UNCHANGED Service!serviceVars
BY DEF Service!serviceVars, Service!firmware, Execution, Busy, Pending, Stale, Leftover, Definitive, Reply

-------------------------------------------------------------------------------
(* The executor's steps. *)

LEMMA CallBegins ==
  ASSUME NEW c \in CommandId, Call(c)
  PROVE  Service!Begin(c)
<1> USE DEF driver, client, link, teensy
<1>1. /\ UNCHANGED <<open, cal, boots, exec, reply, to_teensy, to_pi, base, ready, answer>>
      /\ open /\ pc = "idle" /\ pc' = "attempt" /\ cmd' = c
  BY DEF Call
<1>2. ~Busy /\ Busy' = TRUE
  BY <1>1 DEF Busy
<1>3. Pending' = Pending \cup {c}
  BY <1>1 DEF Pending, Busy
<1>4. Definitive' = FALSE
  BY <1>1 DEF Definitive
<1>5. Stale' = Stale
  BY <1>1 DEF Stale, Leftover
<1>6. Reply' = Reply
  BY <1>1 DEF Reply
<1> QED
  BY <1>1, <1>2, <1>3, <1>4, <1>5, <1>6 DEF Service!Begin, Service!firmware, Execution

(* A call that ends without an answer is a failure of the service. *)
LEMMA FailureFails ==
  ASSUME GiveUp \/ SendRefused \/ SendFails
  PROVE  Service!Return
<1> USE DEF driver, client, link, teensy
<1>1. PICK f \in Service!Failure :
        /\ UNCHANGED <<open, cmd, cal, boots, exec, to_teensy, to_pi, base, ready, answer>>
        /\ pc # "idle" /\ pc' = "idle"
        /\ reply' = [cmd |-> cmd, verdict |-> f, id |-> id, boots |-> boots]
  BY DEF GiveUp, SendRefused, SendFails, Return, Service!Failure
<1>2. Busy /\ Busy' = FALSE /\ ~Busy'
  BY <1>1 DEF Busy
<1>3. Pending' \in Service!LeftPending
  BY <1>1, <1>2, IdlePending
<1>4. Definitive' = FALSE
  BY <1>1 DEF Definitive, CommandResponse, Service!Failure
<1>5. Stale' \in {Stale, FALSE}
  <2>1. Stale' => Stale
    BY <1>1 DEF Stale, Leftover
  <2> QED
    BY <2>1, StaleFalls
<1>6. Reply' = [cmd |-> cmd, verdict |-> f, boots |-> boots]
  BY <1>1 DEF Reply
<1>7. Service!Fail(f)
  BY <1>1, <1>2, <1>3, <1>4, <1>5, <1>6 DEF Service!Fail, Service!ReturnWith, Service!firmware, Execution
<1> QED
  BY <1>7 DEF Service!Return

(* A call that ends with one is an answer, or a stale one. *)
LEMMA FutureReadyAnswers ==
  ASSUME IInv, RInv, FutureReady
  PROVE  Service!Return
<1> USE DEF driver, client, link, teensy
<1>1. /\ UNCHANGED <<open, cmd, cal, boots, exec, to_teensy, to_pi, base, id, ready, answer>>
      /\ pc = "wait" /\ ready /\ pc' = "idle"
      /\ reply' = [cmd |-> cmd, verdict |-> answer.result, id |-> answer.id, boots |-> answer.boots]
  BY DEF FutureReady, Return
<1>2. Busy /\ Busy' = FALSE /\ ~Busy'
  BY <1>1 DEF Busy
<1>3. Pending' \in Service!LeftPending
  BY <1>1, <1>2, IdlePending
<1>4. answer \in Response
  BY DEF IInv, TypeOK, DriverTypeOK
<1>5. /\ answer.result \in CommandResponse /\ answer.boots \in 0 .. boots
      /\ answer.id \in Nat /\ base \in Nat
  BY <1>4, FieldTypes DEF IInv, RInv, Response
<1>6. Stale' \in {Stale, FALSE}
  <2>1. Stale' => Stale
    BY <1>1 DEF Stale, Leftover
  <2> QED
    BY <2>1, StaleFalls
<1>7. Reply' = [cmd |-> cmd, verdict |-> answer.result, boots |-> answer.boots]
  BY <1>1 DEF Reply
<1>8. Service!ReturnWith(answer.result, answer.boots)
  BY <1>1, <1>2, <1>6, <1>7 DEF Service!ReturnWith, Service!firmware, Execution
<1>9. CASE answer.id > base
  <2>1. answer.id = id /\ to_pi = <<>>
    BY <1>1, <1>9 DEF IInv, Answered
  <2>2. exec.id = id /\ answer = exec
    BY <2>1, FieldTypes DEF IInv, Ordered, Executed
  <2>3. exec.cmd = cmd
    BY <1>1, <2>2 DEF IInv, Current
  <2>4. Agrees(cmd, answer.result, exec.cal)
    BY <2>2, <2>3 DEF IInv, Executed
  <2>5. Definitive' = TRUE
    <3>1. reply'.verdict \in CommandResponse /\ reply'.id > base'
      BY <1>1, <1>5, <1>9
    <3> QED
      BY <1>1, <3>1, Zenon DEF Definitive
  <2>6. to_teensy = <<>>
    <3>1. exec.id = id
      BY <2>2
    <3> QED
      BY <3>1, LastInFlight
  <2>7. Pending' = {}
    BY <1>1, <1>2, <2>6 DEF Pending
  <2>8. Service!Answer(answer.result)
    BY <1>8, <2>2, <2>4, <2>5, <2>7, SameCommands DEF Service!Answer, Execution
  <2> QED
    BY <1>5, <2>8, SameCommands DEF Service!Return
<1>10. CASE answer.id <= base
  <2>1. Stale
    <3>1. open
      BY <1>1 DEF IInv, LinkState
    <3>2. Leftover
      BY <1>1, <1>10, Zenon DEF Leftover
    <3> QED
      BY <3>1, <3>2 DEF Stale
  <2>2. Definitive' = FALSE
    <3>1. ~(reply'.id > base')
      BY <1>1, <1>5, <1>10
    <3> QED
      BY <3>1, Zenon DEF Definitive
  <2>3. Service!AnswerStale(answer.result, answer.boots)
    BY <1>3, <1>8, <2>1, <2>2 DEF Service!AnswerStale
  <2> QED
    BY <1>5, <2>3, SameCommands DEF Service!Return
<1> QED
  BY <1>5, <1>9, <1>10

(* A new attempt, a timeout, a written command: nothing the client can see.   *)
LEMMA AttemptsStutter ==
  ASSUME IInv, RInv, BeginAttempt \/ SendWritten \/ FutureTimeout \/ ReadFails \/ UNCHANGED vars
  PROVE  UNCHANGED Service!serviceVars
<1> USE DEF driver, client, link, teensy
<1>1. CASE ReadFails \/ UNCHANGED vars
  BY <1>1, MappedUnchanged DEF ReadFails, vars
<1>2. CASE BeginAttempt \/ SendWritten \/ FutureTimeout
  <2>1. /\ UNCHANGED <<open, cmd, cal, boots, exec, to_pi, base, answer, reply>>
        /\ pc # "idle" /\ pc' # "idle"
    BY <1>2 DEF BeginAttempt, SendWritten, FutureTimeout
  <2>2. Busy' = Busy
    BY <2>1 DEF Busy
  <2>3. Definitive' = Definitive
    BY <2>1 DEF Definitive
  <2>4. Reply' = Reply
    BY <2>1 DEF Reply
  <2>5. Pending' = Pending /\ Stale' = Stale
    <3>1. CASE BeginAttempt \/ FutureTimeout
      BY <2>1, <3>1 DEF BeginAttempt, FutureTimeout, Pending, Busy, Stale, Leftover
    <3>2. CASE SendWritten
      <4> DEFINE m == [cmd |-> cmd, seq |-> command_seq, id |-> id]
      <4>1. /\ pc = "send" /\ pc' = "wait" /\ ready' = ready
            /\ to_teensy' = to_teensy \/ to_teensy' = Append(to_teensy, m)
        BY <3>2 DEF SendWritten, Transmit
      <4>2. m \in Frame /\ to_teensy \in Seq(Frame)
        BY FieldTypes DEF IInv, TypeOK, DriverTypeOK, LinkTypeOK, Frame
      <4>3. m.cmd = cmd /\ m.id > base
        BY <4>1 DEF RInv
      <4> HIDE DEF m
      <4>4. CASE to_teensy' = to_teensy
        BY <2>1, <4>1, <4>4 DEF Pending, Busy, Stale, Leftover
      <4>5. CASE to_teensy' = Append(to_teensy, m)
        <5>1. /\ Len(to_teensy') = Len(to_teensy) + 1 /\ to_teensy'[Len(to_teensy) + 1] = m
              /\ \A i \in 1 .. Len(to_teensy) : to_teensy'[i] = to_teensy[i]
              /\ Len(to_teensy) \in Nat
          BY <4>2, <4>5, AppendFacts, FieldTypes DEF IInv
        <5>2. \A i \in 1 .. Len(to_teensy') : i \in 1 .. Len(to_teensy) \/ to_teensy'[i] = m
          BY <5>1
        <5>3. 1 .. Len(to_teensy) \subseteq 1 .. Len(to_teensy')
          BY <5>1
        <5>4. Pending' = Pending
          BY <2>1, <2>2, <4>3, <5>1, <5>2, <5>3 DEF Pending, Busy
        <5>5. Leftover' = Leftover
          <6> DEFINE Old(i) == to_teensy[i].id <= base
          <6>1. ~(m.id <= base)
            <7>1. m.id \in Nat /\ base \in Nat
              BY <4>2, FieldTypes DEF IInv, Frame
            <7> QED
              BY <4>3, <7>1
          <6>2. \A i \in 1 .. Len(to_teensy) : Old(i)' <=> Old(i)
            BY <2>1, <5>1
          <6>3. \A i \in 1 .. Len(to_teensy') : Old(i)' => i \in 1 .. Len(to_teensy)
            BY <2>1, <5>2, <6>1
          <6>4. (\E i \in 1 .. Len(to_teensy') : Old(i)') <=> \E i \in 1 .. Len(to_teensy) : Old(i)
            <7> HIDE DEF Old
            <7> QED BY <5>3, <6>2, <6>3
          <6> QED
            BY <2>1, <4>1, <6>4 DEF Leftover
        <5> QED
          BY <2>1, <5>4, <5>5 DEF Stale
      <4> QED
        BY <4>1, <4>4, <4>5
    <3> QED
      BY <1>2, <3>1, <3>2
  <2> QED
    BY <2>1, <2>2, <2>3, <2>4, <2>5 DEF Service!serviceVars, Service!firmware, Execution
<1> QED
  BY <1>1, <1>2

-------------------------------------------------------------------------------
(* The read thread's, the Teensy's and the lifecycle's steps. *)

LEMMA CallbackExpires ==
  ASSUME IInv, RInv, CommandResponseCallback
  PROVE  Service!Expire \/ UNCHANGED Service!serviceVars
<1> USE DEF driver, client, link, teensy
<1>1. /\ UNCHANGED <<pc, cmd, open, cal, boots, exec, to_teensy, base, reply>>
      /\ to_pi # <<>> /\ to_pi' = Tail(to_pi)
      /\ (answer' = answer /\ ready' = ready) \/ answer' = Head(to_pi)
  BY DEF CommandResponseCallback
<1>2. to_pi \in Seq(Response)
  BY DEF IInv, TypeOK, LinkTypeOK
<1>3. /\ Len(to_pi) \in Nat \ {0} /\ Head(to_pi) = to_pi[1]
      /\ \A i \in 1 .. Len(to_pi') : i + 1 \in 1 .. Len(to_pi) /\ to_pi'[i] = to_pi[i + 1]
  BY <1>1, <1>2, TailFacts
<1>4. Busy' = Busy /\ Pending' = Pending /\ Definitive' = Definitive /\ Reply' = Reply
  BY <1>1 DEF Busy, Pending, Definitive, Reply
<1>5. Stale' => Stale
  <2>1. (\E i \in 1 .. Len(to_pi') : to_pi'[i].id <= base) =>
           \E i \in 1 .. Len(to_pi) : to_pi[i].id <= base
    BY <1>3
  <2>2. answer'.id <= base =>
          (answer' = answer /\ ready' = ready) \/ \E i \in 1 .. Len(to_pi) : to_pi[i].id <= base
    BY <1>1, <1>3
  <2> QED
    BY <1>1, <2>1, <2>2 DEF Stale, Leftover
<1>6. Stale' = Stale \/ (Stale /\ Stale' = FALSE)
  BY <1>5, Zenon DEF Stale
<1> QED
  BY <1>1, <1>4, <1>6 DEF Service!Expire, Service!serviceVars, Service!firmware, Execution

(* A command that is executed leaves the queue; its answer takes its place as *)
(* what may be left of an earlier session.                                    *)
LEMMA PollExecutes ==
  ASSUME IInv, RInv, PollCommand
  PROVE  \E c \in CommandId : Service!Execute(c)
<1> USE DEF driver, client, link, teensy
<1> DEFINE m == Head(to_teensy)
           S == {to_teensy[i].cmd : i \in 1 .. Len(to_teensy)}
           B == IF Busy THEN {cmd} ELSE {}
<1>1. /\ UNCHANGED <<pc, cmd, ready, answer, open, boots, base, reply>>
      /\ to_teensy # <<>> /\ to_teensy' = Tail(to_teensy)
  BY DEF PollCommand
<1>2. PICK o, r :
        /\ o \in Outcomes(m.cmd, cal)
        /\ cal' = o.cal /\ exec' = r /\ r.id = m.id /\ r.boots = boots /\ r.cal = o.cal
        /\ to_pi' = to_pi \/ to_pi' = Append(to_pi, r)
  BY DEF PollCommand, Transmit
<1>3. to_teensy \in Seq(Frame) /\ to_pi \in Seq(Response) /\ exec' \in Response
  BY NextType DEF IInv, TypeOK, LinkTypeOK, TeensyTypeOK, Next, SurvivingNext
<1>4. /\ Len(to_teensy) \in Nat \ {0} /\ m = to_teensy[1]
      /\ Len(to_teensy') = Len(to_teensy) - 1
      /\ \A i \in 1 .. Len(to_teensy') :
           i + 1 \in 1 .. Len(to_teensy) /\ to_teensy'[i] = to_teensy[i + 1]
  BY <1>1, <1>3, TailFacts
<1>5. m \in Frame /\ m.cmd \in CommandId
  <2>1. m \in Frame
    BY <1>3, <1>4
  <2> QED
    BY <2>1 DEF Frame
<1> HIDE DEF m
<1>6. m.cmd \in S /\ S' \subseteq S /\ S \subseteq S' \cup {m.cmd}
  <2>1. 1 \in 1 .. Len(to_teensy)
    BY <1>4
  <2>2. S' \subseteq S
    BY <1>4
  <2>3. ASSUME NEW i \in 1 .. Len(to_teensy)
        PROVE  to_teensy[i].cmd \in S' \cup {m.cmd}
    <3>1. CASE i = 1
      BY <1>4, <3>1
    <3>2. CASE i # 1
      <4>1. i - 1 \in 1 .. Len(to_teensy') /\ to_teensy'[i - 1] = to_teensy[i]
        BY <1>4, <3>2
      <4> QED
        BY <4>1
    <3> QED
      BY <3>1, <3>2
  <2> QED
    BY <1>4, <2>1, <2>2, <2>3
<1>7. Busy' = Busy /\ Definitive' = Definitive /\ Reply' = Reply
  BY <1>1 DEF Busy, Definitive, Reply
<1>8. Pending = S \cup B /\ Pending' = S' \cup B
  BY <1>1, <1>7 DEF Pending
<1> HIDE DEF S
<1>9. /\ m.cmd \in Pending
      /\ Pending' \in {Pending, Pending \ {m.cmd}}
      /\ Busy => cmd \in Pending'
  <2>1. m.cmd \in Pending' => Pending' = Pending
    BY <1>6, <1>8
  <2>2. m.cmd \notin Pending' => Pending' = Pending \ {m.cmd}
    BY <1>6, <1>8
  <2> QED
    BY <1>6, <1>8, <2>1, <2>2
<1>10. Stale' => Stale
  <2>1. (\E i \in 1 .. Len(to_teensy') : to_teensy'[i].id <= base) =>
          \E i \in 1 .. Len(to_teensy) : to_teensy[i].id <= base
    BY <1>4
  <2>2. ASSUME NEW i \in 1 .. Len(to_pi'), to_pi'[i].id <= base
        PROVE  \/ \E j \in 1 .. Len(to_teensy) : to_teensy[j].id <= base
               \/ \E j \in 1 .. Len(to_pi) : to_pi[j].id <= base
    <3>1. CASE to_pi' = to_pi
      BY <2>2, <3>1
    <3>2. CASE to_pi' = Append(to_pi, r)
      <4>1. /\ Len(to_pi') = Len(to_pi) + 1 /\ to_pi'[Len(to_pi) + 1] = r
            /\ \A j \in 1 .. Len(to_pi) : to_pi'[j] = to_pi[j]
            /\ Len(to_pi) \in Nat
        BY <1>2, <1>3, <3>2, AppendFacts, FieldTypes DEF IInv
      <4>2. CASE i = Len(to_pi) + 1
        <5>1. to_teensy[1].id <= base /\ 1 \in 1 .. Len(to_teensy)
          BY <1>2, <1>4, <2>2, <4>1, <4>2
        <5> QED
          BY <5>1
      <4>3. CASE i # Len(to_pi) + 1
        <5>1. i \in 1 .. Len(to_pi) /\ to_pi'[i] = to_pi[i]
          BY <4>1, <4>3
        <5> QED
          BY <2>2, <5>1
      <4> QED
        BY <4>2, <4>3
    <3> QED
      BY <1>2, <3>1, <3>2
  <2> QED
    BY <1>1, <2>1, <2>2 DEF Stale, Leftover
<1>11. Stale' \in {Stale, FALSE}
  BY <1>10, StaleFalls
<1>12. Service!Execute(m.cmd)
  BY <1>1, <1>2, <1>7, <1>9, <1>11, SameCommands DEF Service!Execute, Execution
<1> QED
  BY <1>5, <1>12

(* A restart of the Teensy is the service's. *)
LEMMA RebootRestarts ==
  ASSUME IInv, RInv, Reboot
  PROVE  Service!Restart
<1> USE DEF driver, client, link, teensy
<1>1. /\ UNCHANGED <<pc, cmd, ready, answer, open, to_pi, base, reply, exec>>
      /\ boots < MaxBoots /\ boots' = boots + 1 /\ cal' = FALSE /\ to_teensy' = <<>>
  BY DEF Reboot
<1>2. Busy' = Busy /\ Definitive' = Definitive /\ Reply' = Reply
  BY <1>1 DEF Busy, Definitive, Reply
<1>3. Pending' = IF Busy THEN {cmd} ELSE {}
  BY <1>1, <1>2 DEF Pending
<1>4. Stale' => Stale
  BY <1>1 DEF Stale, Leftover
<1>5. Stale' \in {Stale, FALSE}
  BY <1>4, StaleFalls
<1> QED
  BY <1>1, <1>2, <1>3, <1>5 DEF Service!Restart, Execution

(* Everything that is in flight when a session begins is of an earlier one.   *)
LEMMA ConfigureConfigures ==
  ASSUME IInv, RInv, OnConfigure
  PROVE  Service!Configure
<1> USE DEF driver, client, link, teensy
<1>1. /\ UNCHANGED <<pc, cmd, ready, answer, cal, boots, exec, to_teensy, to_pi, base, reply>>
      /\ pc = "idle" /\ ~open /\ open' = TRUE
  BY DEF OnConfigure
<1>2. Busy' = Busy /\ ~Busy /\ Definitive' = Definitive /\ Reply' = Reply /\ Pending' = Pending
  BY <1>1 DEF Busy, Definitive, Reply, Pending
<1>3. to_pi = <<>> /\ base = id
  BY <1>1 DEF RInv, IInv, LinkState
<1>4. \A i \in 1 .. Len(to_teensy) : to_teensy[i].id <= base
  BY <1>3 DEF IInv, Ordered
<1>5. Pending # {} <=> \E i \in 1 .. Len(to_teensy) : TRUE
  BY <1>2 DEF Pending
<1>6. Leftover' <=> \E i \in 1 .. Len(to_teensy) : TRUE
  <2>1. Len(to_pi) = 0
    BY <1>3
  <2> QED
    BY <1>1, <1>4, <2>1 DEF Leftover
<1>7. Stale' = (Pending # {})
  <2>1. Stale' <=> Pending # {}
    BY <1>1, <1>5, <1>6 DEF Stale
  <2> QED
    BY <2>1, Zenon DEF Stale
<1> QED
  BY <1>1, <1>2, <1>7 DEF Service!Configure, Service!firmware, Execution

(* The end of a session closes the service. *)
LEMMA EndCloses ==
  ASSUME IInv, RInv, OnCleanup \/ NodeDies
  PROVE  Service!Close
<1> USE DEF driver, client, link, teensy
<1>1. /\ UNCHANGED <<cmd, cal, boots, exec, to_teensy, reply>>
      /\ open /\ open' = FALSE /\ pc' = "idle" /\ base' = id
  BY DEF OnCleanup, NodeDies, EndSession
<1>2. ~Busy' /\ Busy' = FALSE /\ Reply' = Reply
  BY <1>1 DEF Busy, Reply
<1>3. Pending' \in Service!LeftPending
  <2>1. CASE Busy
    BY <1>1, <1>2, <2>1, IdlePending
  <2>2. CASE ~Busy
    BY <1>1, <1>2, <2>2 DEF Pending, Service!LeftPending
  <2> QED
    BY <2>1, <2>2
<1>4. Definitive' = FALSE
  <2>1. ~(reply'.id > base')
    BY <1>1, FieldTypes DEF IInv, Ordered
  <2> QED
    BY <2>1, Zenon DEF Definitive
<1>5. Stale' = FALSE
  BY <1>1, Zenon DEF Stale
<1> QED
  BY <1>1, <1>2, <1>3, <1>4, <1>5 DEF Service!Close, Service!firmware, Execution

-------------------------------------------------------------------------------
(* The refinement. *)

LEMMA InitImplements == Init => Service!ServiceInit
<1> SUFFICES ASSUME Init
             PROVE  Service!ServiceInit
  OBVIOUS
<1>1. Busy = FALSE /\ ~Busy
  BY DEF Init, Busy
<1>2. Pending = {}
  BY <1>1 DEF Init, Pending
<1>3. Stale = FALSE
  BY Zenon DEF Init, Stale
<1>4. Definitive = FALSE
  BY DEF Init, Definitive, CommandResponse
<1>5. Reply = [cmd |-> "CALIBRATION_STOP", verdict |-> "LINK_DOWN", boots |-> 0]
  BY DEF Init, Reply
<1> QED
  BY <1>1, <1>2, <1>3, <1>4, <1>5 DEF Init, NoResponse, Service!ServiceInit, Execution

(* Every step of the channel is one of the service, or none. *)
LEMMA StepImplements == IInv /\ RInv /\ [Next]_vars => [Service!ServiceNext]_(Service!serviceVars)
<1> SUFFICES ASSUME IInv, RInv, [Next]_vars
             PROVE  Service!ServiceNext \/ UNCHANGED Service!serviceVars
  OBVIOUS
<1>1. CASE \E c \in CommandId : Call(c)
  BY <1>1, CallBegins, SameCommands DEF Service!ServiceNext
<1>2. CASE GiveUp \/ SendRefused \/ SendFails
  BY <1>2, FailureFails DEF Service!ServiceNext
<1>3. CASE FutureReady
  BY <1>3, FutureReadyAnswers DEF Service!ServiceNext
<1>4. CASE BeginAttempt \/ SendWritten \/ FutureTimeout \/ ReadFails \/ UNCHANGED vars
  BY <1>4, AttemptsStutter
<1>5. CASE CommandResponseCallback
  BY <1>5, CallbackExpires DEF Service!ServiceNext
<1>6. CASE PollCommand
  BY <1>6, PollExecutes, SameCommands DEF Service!ServiceNext
<1>7. CASE Reboot
  BY <1>7, RebootRestarts DEF Service!ServiceNext
<1>8. CASE OnConfigure
  BY <1>8, ConfigureConfigures DEF Service!ServiceNext
<1>9. CASE OnCleanup \/ NodeDies
  BY <1>9, EndCloses DEF Service!ServiceNext
<1> QED
  BY <1>1, <1>2, <1>3, <1>4, <1>5, <1>6, <1>7, <1>8, <1>9 DEF Next, SurvivingNext, SendCommandStep

(* driver.cpp:197-251: whatever the number of retries, sequence numbers,      *)
(* calls, restarts and sessions and the capacity of the line, what the caller *)
(* of a calibration service can see of it is a behaviour of                   *)
(* CalibrationService, so far as safety goes.                                 *)
THEOREM RefinesCalibrationService == Spec => Service!Safety
<1>1. Spec => []IInv
  BY InvAlways
<1>2. Spec => []RInv
  BY <1>1, InitRInv, NextRInv, PTL DEF Spec
<1> QED
  BY <1>1, <1>2, InitImplements, StepImplements, PTL DEF Spec, Service!Safety
===============================================================================
