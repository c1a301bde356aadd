------------------------- MODULE DistanceTaskProofs -------------------------
(* Theorems about uart_task for every clock, all delays and every sensor   *)
(* that satisfies DistanceAssumption.                                      *)
EXTENDS DistanceTask, SequenceTheorems, TLAPS

Types ==
  /\ now \in Nat /\ uwake \in Nat /\ asked \in Nat
  /\ upc \in {"ask", "wait", "read", "pause"}
  /\ measured \in uint16_t /\ unsent \in 0..2

(* The sensor answers in time.                                             *)
SensorInTime == unsent > 0 => now <= asked + SensorMax

(* How long ago the question was when a delay or a read ends while the     *)
(* sensor still owes bytes.                                                *)
TurnLasts ==
  /\ upc = "ask" => unsent = 0
  /\ upc = "wait" => uwake = asked + ReadDelay
  /\ upc = "read" /\ unsent > 0 => uwake >= asked + ReadDelay + ReadTimeout
  /\ upc = "pause" /\ unsent > 0 =>
       uwake >= asked + ReadDelay + ReadTimeout + PauseDelay

(* Until the read, the receive buffer holds what the sensor has sent of    *)
(* its answer and nothing else.                                            *)
Received ==
  upc \in {"wait", "read"} =>
    \/ unsent = 2 /\ rx = <<>>
    \/ unsent = 1 /\ rx = <<High(measured)>>
    \/ unsent = 0 /\ rx \in {<<>>, <<High(measured), Low(measured)>>}

IInv == Types /\ SensorInTime /\ TurnLasts /\ Received

-----------------------------------------------------------------------------
(* The two bytes of a reading put together are the reading.                *)
LEMMA BytesOfReading ==
  ASSUME NEW mm \in uint16_t
  PROVE  High(mm) * 256 + Low(mm) = mm
BY SMT DEF High, Low, uint16_t

LEMMA ConstantTypes ==
  /\ Readings \subseteq uint16_t /\ Lateness \in Nat
  /\ ReadDelay \in Nat /\ ReadTimeout \in Nat /\ PauseDelay \in Nat
  /\ SensorMax \in Nat /\ SensorMax < ReadDelay + ReadTimeout + PauseDelay
  /\ Clock \subseteq Nat /\ BootTimes \subseteq Clock
BY DistanceAssumption DEF DistanceAssumption

LEMMA IInvInit == Init => IInv
<1> SUFFICES ASSUME Init PROVE IInv
  OBVIOUS
<1>1. now \in Nat
  BY ConstantTypes DEF Init
<1> QED
  BY <1>1, SMT DEF uint16_t, Init, IInv, Types, SensorInTime, TurnLasts, Received

(* Receive buffers of at most two bytes.                                   *)
LEMMA ShortBuffers ==
  ASSUME NEW a, NEW b
  PROVE  /\ Len(<<>>) = 0 /\ Len(<<a>>) = 1 /\ Len(<<a, b>>) = 2
         /\ <<a, b>>[1] = a /\ <<a, b>>[2] = b
         /\ Append(<<>>, a) = <<a>> /\ Append(<<a>>, b) = <<a, b>>
<1>1. Len(<<>>) = 0
  OBVIOUS
<1>2. Len(<<a>>) = 1
  OBVIOUS
<1>3. Len(<<a, b>>) = 2
  OBVIOUS
<1>4. <<a, b>>[1] = a /\ <<a, b>>[2] = b
  OBVIOUS
<1>5. Append(<<>>, a) = <<a>>
  OBVIOUS
<1>6. Append(<<a>>, b) = <<a, b>>
  <2> DEFINE s == Append(<<a>>, b)
  <2>1. <<a>> \in Seq({a, b}) /\ <<a, b>> \in Seq({a, b})
    OBVIOUS
  <2>2. /\ s \in Seq({a, b}) /\ Len(s) = Len(<<a>>) + 1
        /\ s[Len(<<a>>) + 1] = b
        /\ \A i \in 1..Len(<<a>>) : s[i] = <<a>>[i]
    BY <2>1, AppendProperties
  <2>3. Len(s) = 2 /\ s[1] = a /\ s[2] = b
    BY <1>2, <2>2
  <2> HIDE DEF s
  <2>4. \A i \in 1..Len(s) : s[i] = <<a, b>>[i]
    BY <1>4, <2>3
  <2>5. s = <<a, b>>
    BY <1>3, <2>1, <2>2, <2>3, <2>4, SeqEqual
  <2> QED
    BY <2>5 DEF s
<1> QED
  BY <1>1, <1>2, <1>3, <1>4, <1>5, <1>6

(* The lengths of what the receive buffer can hold before a read.          *)
LEMMA BufferLength ==
  ASSUME IInv, upc \in {"wait", "read"}
  PROVE  /\ Len(rx) >= 2 =>
              unsent = 0 /\ rx[1] = High(measured) /\ rx[2] = Low(measured)
         /\ unsent > 0 => ~(Len(rx) >= 2)
<1>1. \/ unsent = 2 /\ rx = <<>>
      \/ unsent = 1 /\ rx = <<High(measured)>>
      \/ unsent = 0 /\ rx = <<>>
      \/ unsent = 0 /\ rx = <<High(measured), Low(measured)>>
  BY DEF IInv, Received
<1>2. CASE rx = <<>>
  BY <1>2, ShortBuffers
<1>3. CASE unsent = 1 /\ rx = <<High(measured)>>
  <2>1. Len(rx) = 1
    BY <1>3, ShortBuffers
  <2> QED
    BY <2>1
<1>4. CASE unsent = 0 /\ rx = <<High(measured), Low(measured)>>
  <2>1. rx[1] = High(measured) /\ rx[2] = Low(measured)
    BY <1>4, ShortBuffers, Zenon
  <2> QED
    BY <1>4, <2>1
<1> QED
  BY <1>1, <1>2, <1>3, <1>4, Zenon

LEMMA AskKeepsIInv ==
  ASSUME IInv, Ask
  PROVE  IInv'
<1>1. Types /\ now' = now /\ asked' = now /\ upc' = "wait" /\ rx' = <<>>
  BY DEF IInv, Ask
<1>2. uwake' = now + ReadDelay
  BY DEF Ask
<1>3. unsent' \in {0, 2}
  BY DEF Ask
<1>4. measured' \in uint16_t
  BY <1>1, ConstantTypes DEF Ask, Types
<1> QED
  BY <1>1, <1>2, <1>3, <1>4, ConstantTypes
  DEF IInv, Types, SensorInTime, TurnLasts, Received

LEMMA ReadKeepsIInv ==
  ASSUME IInv, BeginRead \/ ReadOk \/ ReadFailed \/ NextTurn
  PROVE  IInv'
<1>1. /\ Types /\ SensorInTime /\ TurnLasts /\ Received
      /\ UNCHANGED <<now, measured, unsent, asked>>
  BY DEF IInv, BeginRead, ReadOk, ReadFailed, NextTurn, sensorVars
<1>2. CASE BeginRead
  <2>1. /\ now >= asked + ReadDelay /\ upc = "wait" /\ upc' = "read" /\ rx' = rx
        /\ uwake' = IF Len(rx) >= 2 THEN now ELSE now + ReadTimeout
    BY <1>1, <1>2 DEF BeginRead, TurnLasts
  <2>2. unsent > 0 => ~(Len(rx) >= 2)
    BY <2>1, BufferLength
  <2>3. uwake' \in Nat /\ (unsent > 0 => uwake' >= asked + ReadDelay + ReadTimeout)
    BY <1>1, <2>1, <2>2, ConstantTypes DEF Types
  <2> QED
    BY <1>1, <2>1, <2>3 DEF IInv, Types, SensorInTime, TurnLasts, Received
<1>3. CASE ReadOk
  <2>1. unsent = 0 /\ upc' = "pause" /\ uwake' = now + PauseDelay
    BY <1>3, BufferLength DEF ReadOk
  <2> QED
    BY <1>1, <2>1, ConstantTypes
    DEF IInv, Types, SensorInTime, TurnLasts, Received
<1>4. CASE ReadFailed
  <2>1. now >= uwake /\ upc = "read" /\ upc' = "pause" /\ uwake' = now + PauseDelay
    BY <1>4 DEF ReadFailed
  <2> QED
    BY <1>1, <2>1, ConstantTypes
    DEF IInv, Types, SensorInTime, TurnLasts, Received
<1>5. CASE NextTurn
  <2>1. now >= uwake /\ upc = "pause" /\ upc' = "ask" /\ uwake' = uwake
    BY <1>5 DEF NextTurn
  <2>2. unsent = 0
    BY <1>1, <2>1, ConstantTypes DEF Types, SensorInTime, TurnLasts
  <2> QED
    BY <1>1, <2>1, <2>2 DEF IInv, Types, SensorInTime, TurnLasts, Received
<1> QED
  BY <1>2, <1>3, <1>4, <1>5

LEMMA SensorByteKeepsIInv ==
  ASSUME IInv, SensorByte
  PROVE  IInv'
<1>1. /\ Types /\ SensorInTime /\ TurnLasts /\ Received
      /\ unsent > 0 /\ unsent' = unsent - 1
      /\ UNCHANGED <<now, upc, measured, asked>>
  BY DEF IInv, SensorByte
<1>2. upc \in {"wait", "read"} =>
        \/ unsent' = 1 /\ rx' = <<High(measured)>>
        \/ unsent' = 0 /\ rx' = <<High(measured), Low(measured)>>
  <2> SUFFICES ASSUME upc \in {"wait", "read"}
               PROVE  \/ unsent' = 1 /\ rx' = <<High(measured)>>
                      \/ unsent' = 0 /\ rx' = <<High(measured), Low(measured)>>
    OBVIOUS
  <2>1. CASE unsent = 2
    <3>1. rx = <<>> /\ rx' = Append(rx, High(measured))
      BY <1>1, <2>1 DEF Received, SensorByte
    <3>2. rx' = <<High(measured)>>
      BY <3>1, ShortBuffers, Zenon
    <3> QED
      BY <1>1, <2>1, <3>2
  <2>2. CASE unsent = 1
    <3>1. rx = <<High(measured)>> /\ rx' = Append(rx, Low(measured))
      BY <1>1, <2>2 DEF Received, SensorByte
    <3>2. rx' = <<High(measured), Low(measured)>>
      BY <3>1, ShortBuffers, Zenon
    <3> QED
      BY <1>1, <2>2, <3>2
  <2> QED
    BY <1>1, <2>1, <2>2 DEF Types
<1>3. /\ uwake' \in Nat
      /\ uwake' = uwake \/ (upc = "read" /\ Len(rx') = 2)
  BY <1>1 DEF SensorByte, Types
<1>4. unsent' > 0 => uwake' = uwake
  <2> SUFFICES ASSUME unsent' > 0, upc = "read", Len(rx') = 2 PROVE FALSE
    BY <1>3
  <2> QED
    BY <1>1, <1>2
<1>5. unsent' \in 0..2
  BY <1>1 DEF Types
<1>6. Types' /\ SensorInTime'
  BY <1>1, <1>3, <1>5 DEF Types, SensorInTime
<1>7. TurnLasts'
  <2>1. upc = "wait" => uwake' = uwake
    BY <1>3
  <2> QED
    BY <1>1, <1>4, <1>5, <2>1 DEF TurnLasts, Types
<1>8. Received'
  BY <1>1, <1>2 DEF Received
<1> QED
  BY <1>6, <1>7, <1>8 DEF IInv

LEMMA AdvanceKeepsIInv ==
  ASSUME IInv, Advance
  PROVE  IInv'
<1>1. PICK t \in Clock : now < t /\ MayAdvanceTo(t) /\ now' = t
  BY DEF Advance
<1>2. UNCHANGED <<upc, uwake, rx, measured, unsent, asked>>
  BY DEF Advance, distanceVars, sensorVars
<1>3. t \in Nat
  BY ConstantTypes
<1> QED
  BY <1>1, <1>2, <1>3
  DEF IInv, Types, SensorInTime, TurnLasts, Received, MayAdvanceTo

(* The invariant is inductive.                                             *)
LEMMA IInvStep == IInv /\ [Next]_vars => IInv'
<1> SUFFICES ASSUME IInv, [Next]_vars PROVE IInv'
  OBVIOUS
<1>1. CASE MotorTakes \/ OledTakes \/ UNCHANGED vars
  BY <1>1
  DEF MotorTakes, OledTakes, vars, distanceVars, sensorVars,
      IInv, Types, SensorInTime, TurnLasts, Received
<1> QED
  BY <1>1, AskKeepsIInv, ReadKeepsIInv, SensorByteKeepsIInv, AdvanceKeepsIInv
  DEF Next, DistanceStep, ClockEnds

LEMMA IInvAlways == Spec => []IInv
BY IInvInit, IInvStep, PTL DEF Spec

-----------------------------------------------------------------------------
(* A reading that is sent is what the sensor measured for the question of  *)
(* this turn: never two halves of different answers, never a late answer   *)
(* to an earlier question.                                                 *)
THEOREM ReadingsAreAnswers == Spec => ReadingAnswersQuestion
<1>1. ASSUME IInv, ReadOk PROVE distance_mm' = measured /\ unsent = 0
  <2>1. unsent = 0 /\ rx[1] = High(measured) /\ rx[2] = Low(measured)
    BY <1>1, BufferLength DEF ReadOk
  <2>2. distance_mm' = High(measured) * 256 + Low(measured)
    BY <1>1, <2>1 DEF ReadOk
  <2>3. measured \in uint16_t
    BY <1>1 DEF IInv, Types
  <2> QED
    BY <2>1, <2>2, <2>3, BytesOfReading
<1> QED
  BY <1>1, IInvAlways, PTL DEF ReadingAnswersQuestion

(* No question is asked while the answer to the last one is on its way.    *)
THEOREM SensorIsNotInterrupted == Spec => NeverAsksTwice
<1>1. IInv /\ Ask => unsent = 0
  BY DEF IInv, TurnLasts, Ask
<1> QED
  BY <1>1, IInvAlways, PTL DEF NeverAsksTwice

-----------------------------------------------------------------------------
(* The bounds of an interval, stated for any two of them: the SMT backend  *)
(* spells out an interval of numerals number by number.                    *)
LEMMA Interval ==
  \A x, low, high \in Int : x \in low..high <=> low <= x /\ x <= high
OBVIOUS

Byte == 0..255

LEMMA ByteBounds == \A x \in Int : x \in Byte <=> 0 <= x /\ x <= 255
BY 0 \in Int, 255 \in Int, Interval, Zenon DEF Byte

LEMMA ReadingBounds == \A x \in Int : x \in uint16_t <=> 0 <= x /\ x <= 65535
BY SMT DEF uint16_t

LEMMA RangesOfInt == Byte \subseteq Int /\ uint16_t \subseteq Int
BY DEF Byte, uint16_t

(* A reading put together from two bytes is a reading of 16 bits, and such *)
(* a reading is sent as two bytes.                                         *)
LEMMA BytesFit ==
  ASSUME NEW high \in Byte, NEW low \in Byte
  PROVE  high * 256 + low \in uint16_t
BY ByteBounds, ReadingBounds, RangesOfInt

LEMMA SplitFits ==
  ASSUME NEW mm \in uint16_t
  PROVE  High(mm) \in Byte /\ Low(mm) \in Byte
BY ByteBounds, ReadingBounds, RangesOfInt DEF High, Low

LEMMA SendOrDropType ==
  ASSUME NEW queue \in Seq(uint16_t), NEW item \in uint16_t
  PROVE  SendOrDrop(queue, item) \in Seq(uint16_t)
BY AppendProperties DEF SendOrDrop

(* The receive buffer has room for the bytes the sensor still owes, in     *)
(* every place of the turn.                                                *)
Room == Len(rx) + unsent <= 2

Typed == TypeOK /\ Room

LEMMA ReadOkKeepsTyped ==
  ASSUME Typed, IInv, ReadOk
  PROVE  Typed'
<1>1. TypeOK /\ Len(rx) = 2 /\ unsent = 0
  <2>1. TypeOK /\ Len(rx) \in Nat /\ unsent \in Nat
    BY DEF Typed, TypeOK
  <2>2. Len(rx) + unsent <= 2
    BY DEF Typed, Room
  <2>3. Len(rx) >= 2
    BY DEF ReadOk
  <2> DEFINE len == Len(rx)
  <2> HIDE DEF len
  <2>4. len \in Nat /\ len + unsent <= 2 /\ len >= 2
    BY <2>1, <2>2, <2>3 DEF len
  <2>5. len = 2 /\ unsent = 0
    BY <2>1, <2>4
  <2> QED
    BY <2>1, <2>5 DEF len
<1>2. rx[1] \in Byte /\ rx[2] \in Byte
  <2>1. rx \in Seq(Byte) /\ 1 \in 1..Len(rx) /\ 2 \in 1..Len(rx)
    BY <1>1 DEF TypeOK, Byte
  <2> QED
    BY <2>1, ElementOfSeq
<1>3. distance_mm' \in uint16_t
  BY <1>2, BytesFit DEF ReadOk
<1>4. q_distance_pid' \in Seq(uint16_t) /\ q_distance' \in Seq(uint16_t)
  BY <1>1, <1>3, SendOrDropType DEF ReadOk, TypeOK
<1>5. rx' \in Seq(Byte) /\ Len(rx') = 0
  <2>1. rx' = SubSeq(rx, 3, Len(rx))
    BY DEF ReadOk
  <2> QED
    BY <1>1, <2>1, SubSeqProperties DEF TypeOK
<1>6. now' \in Clock /\ now \in Nat
  BY <1>1, ConstantTypes DEF ReadOk, TypeOK
<1>7. upc' = "pause" /\ uwake' \in Nat
  BY <1>6, ConstantTypes DEF ReadOk
<1> QED
  BY <1>1, <1>3, <1>4, <1>5, <1>6, <1>7
  DEF Typed, TypeOK, Room, ReadOk, sensorVars

LEMMA TurnKeepsTyped ==
  ASSUME Typed, Ask \/ BeginRead \/ ReadFailed \/ NextTurn
  PROVE  Typed'
<1>1. TypeOK /\ Room /\ now \in Nat
  BY ConstantTypes DEF Typed, TypeOK
<1>2. <<>> \in Seq(Byte) /\ Len(<<>>) = 0
  OBVIOUS
<1>3. CASE Ask
  <2>1. unsent' \in {0, 2} /\ measured' \in uint16_t
    BY <1>1, <1>3, ConstantTypes DEF Ask, TypeOK
  <2>2. /\ unsent' \in 0..2 /\ rx' = <<>> /\ upc' = "wait" /\ asked' = now
        /\ uwake' = now + ReadDelay
        /\ UNCHANGED <<now, distance_mm, q_distance_pid, q_distance>>
    BY <1>3, <2>1 DEF Ask, queueVars
  <2>3. Room'
    <3>1. Len(rx') <= 0 /\ Len(rx') \in Nat
      BY <1>2, <2>2
    <3>2. unsent' \in Nat /\ unsent' <= 2
      BY <2>2
    <3>3. Len(rx') + unsent' <= 2
      BY <3>1, <3>2
    <3> QED
      BY <3>3 DEF Room
  <2>4. TypeOK'
    BY <1>1, <1>2, <2>1, <2>2, ConstantTypes DEF TypeOK
  <2> QED
    BY <2>3, <2>4 DEF Typed
<1>4. CASE BeginRead
  BY <1>1, <1>4, ConstantTypes DEF Typed, TypeOK, Room, BeginRead, sensorVars, queueVars
<1>5. CASE ReadFailed
  BY <1>1, <1>2, <1>5, ConstantTypes
  DEF Typed, TypeOK, Room, ReadFailed, sensorVars, queueVars
<1>6. CASE NextTurn
  BY <1>1, <1>6 DEF Typed, TypeOK, Room, NextTurn, sensorVars, queueVars
<1> QED
  BY <1>3, <1>4, <1>5, <1>6

LEMMA OthersKeepTyped ==
  ASSUME Typed, SensorByte \/ MotorTakes \/ OledTakes \/ Advance
  PROVE  Typed'
<1>1. TypeOK /\ Room /\ now \in Nat
  BY ConstantTypes DEF Typed, TypeOK
<1>2. CASE SensorByte
  <2> DEFINE byte == IF unsent = 2 THEN High(measured) ELSE Low(measured)
  <2>1. byte \in Byte /\ rx' = Append(rx, byte)
    BY <1>1, <1>2, SplitFits DEF SensorByte, TypeOK
  <2> HIDE DEF byte
  <2>2. rx' \in Seq(Byte) /\ Len(rx') = Len(rx) + 1
    BY <1>1, <2>1, AppendProperties DEF TypeOK, Byte
  <2>3. /\ uwake' \in Nat /\ unsent' \in Nat /\ unsent' = unsent - 1
        /\ UNCHANGED <<now, upc, distance_mm, measured, asked, q_distance_pid, q_distance>>
    BY <1>1, <1>2 DEF SensorByte, TypeOK, queueVars
  <2>4. Room'
    BY <1>1, <2>2, <2>3 DEF Room, TypeOK
  <2>5. TypeOK'
    BY <1>1, <2>2, <2>3, <2>4 DEF TypeOK, Room, Byte
  <2> QED
    BY <2>4, <2>5 DEF Typed
<1>3. CASE MotorTakes
  <2>1. Tail(q_distance_pid) \in Seq(uint16_t)
    BY <1>1, <1>3, HeadTailProperties DEF TypeOK, MotorTakes
  <2> QED
    BY <1>1, <1>3, <2>1 DEF Typed, TypeOK, Room, MotorTakes, distanceVars, sensorVars
<1>4. CASE OledTakes
  <2>1. Tail(q_distance) \in Seq(uint16_t)
    BY <1>1, <1>4, HeadTailProperties DEF TypeOK, OledTakes
  <2> QED
    BY <1>1, <1>4, <2>1 DEF Typed, TypeOK, Room, OledTakes, distanceVars, sensorVars
<1>5. CASE Advance
  BY <1>1, <1>5 DEF Typed, TypeOK, Room, Advance, distanceVars, sensorVars, queueVars
<1> QED
  BY <1>2, <1>3, <1>4, <1>5

LEMMA TypedAlways == Spec => []Typed
<1>1. Init => Typed
  <2> SUFFICES ASSUME Init PROVE Typed
    OBVIOUS
  <2>1. now \in Clock /\ now \in Nat
    BY ConstantTypes DEF Init
  <2>2. <<>> \in Seq(Byte) /\ <<>> \in Seq(uint16_t) /\ Len(<<>>) = 0
    OBVIOUS
  <2>3. 0 \in uint16_t
    BY DEF uint16_t
  <2> QED
    BY <2>1, <2>2, <2>3 DEF Init, Typed, TypeOK, Room
<1>2. ASSUME Typed, IInv, [Next]_vars PROVE Typed'
  <2>1. CASE UNCHANGED vars
    BY <1>2, <2>1 DEF vars, distanceVars, sensorVars, queueVars, Typed, TypeOK, Room
  <2> QED
    BY <1>2, <2>1, ReadOkKeepsTyped, TurnKeepsTyped, OthersKeepTyped
    DEF Next, DistanceStep, ClockEnds
<1> QED
  BY <1>1, <1>2, IInvAlways, PTL DEF Spec

(* What crosses the UART is bytes, never more than the two of an answer in *)
(* the receive buffer, and what they make fits in 16 bits.                 *)
THEOREM TypeCorrect == Spec => []TypeOK
BY TypedAlways, PTL DEF Typed

-----------------------------------------------------------------------------
(* How late a turn can be in each place of it: every delay ends up to      *)
(* Lateness late, and the last byte may wake the read as late again.       *)
TurnIsTimely ==
  asked # 0 =>
    /\ upc = "wait" => uwake <= asked + ReadDelay
    /\ upc = "read" => uwake <= asked + ReadDelay + ReadTimeout + 2 * Lateness
    /\ upc = "read" /\ unsent > 0 => uwake <= asked + ReadDelay + ReadTimeout + Lateness
    /\ upc \in {"pause", "ask"} =>
         uwake <= asked + ReadDelay + ReadTimeout + PauseDelay + 3 * Lateness

Punctual == TurnIsTimely /\ now <= uwake + Lateness

LEMMA PunctualStep ==
  ASSUME IInv, Typed, Punctual, [Next]_vars
  PROVE  Punctual'
<1>1. /\ Types /\ TurnIsTimely /\ now <= uwake + Lateness
      /\ Lateness \in Nat /\ ReadDelay \in Nat /\ ReadTimeout \in Nat /\ PauseDelay \in Nat
  BY ConstantTypes DEF IInv, Punctual
<1>2. CASE Ask
  BY <1>1, <1>2 DEF Ask, Types, Punctual, TurnIsTimely
<1>3. CASE BeginRead
  <2>1. unsent > 0 => ~(Len(rx) >= 2)
    BY <1>3, BufferLength DEF BeginRead
  <2> QED
    BY <1>1, <1>3, <2>1 DEF BeginRead, Types, Punctual, TurnIsTimely, sensorVars
<1>4. CASE ReadOk \/ ReadFailed \/ NextTurn
  <2>1. UNCHANGED <<now, asked, unsent>>
    BY <1>4 DEF ReadOk, ReadFailed, NextTurn, sensorVars
  <2>2. \/ upc = "read" /\ upc' = "pause" /\ uwake' = now + PauseDelay
        \/ upc = "pause" /\ upc' = "ask" /\ uwake' = uwake
    BY <1>4 DEF ReadOk, ReadFailed, NextTurn
  <2> QED
    BY <1>1, <2>1, <2>2 DEF Types, Punctual, TurnIsTimely
<1>5. CASE SensorByte
  <2>1. /\ UNCHANGED <<now, upc, asked>> /\ unsent > 0
        /\ uwake' = IF upc = "read" /\ Len(rx') = 2 THEN now ELSE uwake
    BY <1>5 DEF SensorByte
  <2>2. uwake' # uwake => upc = "read" /\ Len(rx') = 2 /\ uwake' = now
    BY <2>1
  <2>3. Len(rx') = 2 => unsent' = 0
    <3>1. Len(rx') = Len(rx) + 1 /\ Len(rx) \in Nat
      BY <1>5 DEF SensorByte, Typed, TypeOK
    <3> QED
      BY <1>1, <1>5, <3>1 DEF Typed, Room, Types, SensorByte
  <2>4. CASE uwake' = uwake
    BY <1>1, <2>1, <2>4, <1>5 DEF Types, Punctual, TurnIsTimely, SensorByte
  <2>5. CASE uwake' # uwake
    BY <1>1, <2>1, <2>2, <2>3, <2>5 DEF Types, Punctual, TurnIsTimely
  <2> QED
    BY <2>4, <2>5
<1>6. CASE Advance
  BY <1>1, <1>6 DEF Advance, MayAdvanceTo, Punctual, TurnIsTimely, distanceVars, sensorVars
<1>7. CASE MotorTakes \/ OledTakes \/ UNCHANGED vars
  BY <1>1, <1>7
  DEF MotorTakes, OledTakes, vars, distanceVars, sensorVars, Punctual, TurnIsTimely
<1> QED
  BY <1>2, <1>3, <1>4, <1>5, <1>6, <1>7 DEF Next, DistanceStep, ClockEnds

LEMMA PunctualAlways == Spec => []Punctual
<1>1. Init => Punctual
  BY ConstantTypes DEF Init, Punctual, TurnIsTimely
<1> QED
  BY <1>1, PunctualStep, IInvAlways, TypedAlways, PTL DEF Spec

(* A sensor that stays silent or is slow is asked again: from one question *)
(* to the next it never takes longer than the delays and the timeout of a  *)
(* turn, each of its four waits ending at most Lateness late.              *)
THEOREM AskedRegularly == Spec => []AsksRegularly
<1>1. ASSUME IInv, Punctual PROVE AsksRegularly
  BY <1>1, ConstantTypes DEF IInv, Types, Punctual, TurnIsTimely, AsksRegularly
<1> QED
  BY <1>1, IInvAlways, PunctualAlways, PTL

-----------------------------------------------------------------------------
(* Until it is read, an answer on its way or complete in the buffer is one *)
(* the sensor gave to this question.                                       *)
AnswerIsReading ==
  upc \in {"wait", "read"} /\ (unsent > 0 \/ Len(rx) >= 2) => measured \in Readings

LEMMA AnswerIsReadingStep ==
  ASSUME AnswerIsReading, [Next]_vars
  PROVE  AnswerIsReading'
<1>1. CASE Ask
  <2>1. rx' = <<>> /\ (unsent' = 0 \/ measured' \in Readings)
    BY <1>1 DEF Ask
  <2>2. Len(rx') = 0
    BY <2>1
  <2> QED
    BY <2>1, <2>2 DEF AnswerIsReading
<1>2. CASE SensorByte
  BY <1>2 DEF SensorByte, AnswerIsReading
<1>3. CASE BeginRead
  BY <1>3 DEF BeginRead, sensorVars, AnswerIsReading
<1>4. CASE ReadOk \/ ReadFailed \/ NextTurn
  BY <1>4 DEF ReadOk, ReadFailed, NextTurn, AnswerIsReading
<1>5. CASE MotorTakes \/ OledTakes \/ Advance \/ UNCHANGED vars
  BY <1>5
  DEF MotorTakes, OledTakes, Advance, vars, distanceVars, sensorVars, AnswerIsReading
<1> QED
  BY <1>1, <1>2, <1>3, <1>4, <1>5 DEF Next, DistanceStep, ClockEnds

(* What uart_task sends to motor_task is a distance the sensor can report. *)
LEMMA SendsReadings == Spec => [][ReadOk => distance_mm' \in Readings]_vars
<1>1. Init => AnswerIsReading
  BY DEF Init, AnswerIsReading
<1>2. ASSUME AnswerIsReading, IInv, ReadOk PROVE distance_mm' \in Readings
  <2>1. measured \in Readings /\ rx[1] = High(measured) /\ rx[2] = Low(measured)
    BY <1>2, BufferLength DEF ReadOk, AnswerIsReading
  <2>2. distance_mm' = High(measured) * 256 + Low(measured)
    BY <1>2, <2>1 DEF ReadOk
  <2> QED
    BY <2>1, <2>2, ConstantTypes, BytesOfReading
<1> QED
  BY <1>1, <1>2, AnswerIsReadingStep, IInvAlways, PTL DEF Spec
=============================================================================
