-------------------------- MODULE TelemetryProofs ---------------------------
(* Theorems about the display for every version string and all lengths of  *)
(* the texts that the buffers of the code can hold, whatever the gyroscope *)
(* task does.                                                              *)
EXTENDS Telemetry, SequenceTheorems, TLAPS

(* The field of each item: the cells between which it is drawn, from the   *)
(* first to the last it has room for.                                      *)
FirstCell ==
  [version |-> 1, wifi |-> 114, time |-> 129, mqtt |-> 252, label |-> 385,
   distance |-> 513, angles |-> 543, update |-> 807, bar |-> 906, percent |-> 1007]

LastCell ==
  [version |-> 110, wifi |-> 128, time |-> 248, mqtt |-> 261, label |-> 404,
   distance |-> 542, angles |-> 797, update |-> 856, bar |-> 1005, percent |-> 1021]

Place == [first : Int, cells : Int]

Long(place, item) ==
  item \in DOMAIN Oled!Room /\ place.cells > 5 * Oled!Room[item]

(* In the buffer always, in its field unless it is too long for it.        *)
Within(place, item) ==
  /\ place \in Place
  /\ place.cells > 0 =>
       /\ 1 <= place.first /\ place.first + place.cells <= 1025
       /\ ~Long(place, item) =>
            FirstCell[item] <= place.first /\ place.first + place.cells <= LastCell[item] + 1

(* Each item is where it belongs or nowhere, and what is drawn next will   *)
(* be: the lengths kept from earlier turns and those that wait in q_angle are  *)
(* lengths of texts.                                                       *)
DrawnWithin ==
  /\ drawn \in [Oled!Items -> Place]
  /\ \A item \in Oled!Items : Within(drawn[item], item)

LengthsKnown ==
  /\ distance_len \in Nat /\ distance_len <= 9
  /\ angle_len \in Nat /\ angle_len <= 63
  /\ ota_percent_uint \in Nat /\ ota_percent_uint <= 100
  /\ q_angle \in Seq(AngleLens)

IInv == DrawnWithin /\ LengthsKnown

-----------------------------------------------------------------------------
LEMMA LengthBounds ==
  /\ VersionLen \in Nat /\ VersionLen <= 31
  /\ \A len \in DistanceLens : len \in Nat /\ len <= 9
  /\ \A len \in TimeLens : len \in Nat /\ len <= 63
  /\ \A len \in AngleLens : len \in Nat /\ len <= 63
  /\ \A p \in Percents : p \in Nat /\ p <= 100
BY TelemetryAssumption, SMT DEF TelemetryAssumption, Oled!OledAssumption

LEMMA FieldBounds ==
  \A item \in Oled!Items :
    /\ FirstCell[item] \in Int /\ LastCell[item] \in Int
    /\ 1 <= FirstCell[item] /\ LastCell[item] <= 1024
BY SMT DEF Oled!Items, FirstCell, LastCell

LEMMA FieldsAreDisjoint ==
  \A a, b \in Oled!Items :
    a # b => LastCell[a] < FirstCell[b] \/ LastCell[b] < FirstCell[a]
BY SMT DEF Oled!Items, FirstCell, LastCell

(* An item covers cells of the buffer, and unless it is too long of its    *)
(* field only: no index wraps round to 1.                                  *)
LEMMA CellsWithin ==
  ASSUME NEW item \in Oled!Items, Within(drawn[item], item),
         NEW cell \in Oled!Cells(item)
  PROVE  /\ cell \in 1..1024
         /\ ~Oled!TooLong(item) => FirstCell[item] <= cell /\ cell <= LastCell[item]
<1> DEFINE place == drawn[item]
<1>1. place.first \in Int /\ place.cells \in Int
  BY DEF Within, Place
<1>2. PICK idx \in place.first .. (place.first + place.cells - 1) :
        cell = IF item = "bar" THEN idx ELSE Oled!Cell(idx)
  BY DEF Oled!Cells
<1>3. /\ idx \in Int /\ place.first <= idx /\ idx <= place.first + place.cells - 1
      /\ place.cells > 0
  BY <1>1, <1>2
<1>4. /\ 1 <= place.first /\ place.first + place.cells <= 1025
      /\ ~Oled!TooLong(item) =>
           FirstCell[item] <= place.first /\ place.first + place.cells <= LastCell[item] + 1
  BY <1>3 DEF Within, Long, Oled!TooLong
<1>5. FirstCell[item] \in Int /\ LastCell[item] \in Int
  BY FieldBounds
<1> HIDE DEF place
<1>6. /\ 1 <= idx /\ idx <= 1024
      /\ ~Oled!TooLong(item) => FirstCell[item] <= idx /\ idx <= LastCell[item]
  BY <1>1, <1>3, <1>4, <1>5
<1>7. cell = idx
  BY <1>2, <1>3, <1>6 DEF Oled!Cell, Oled!OLED_SIZE
<1> QED
  BY <1>3, <1>6, <1>7

(* Texts of one line start in the middle one, longer ones before it.       *)
LEMMA MiddleLine ==
  ASSUME NEW len \in Nat, len <= 63
  PROVE  /\ Oled!YCenter(len) \in {384, 512}
         /\ len <= 51 => Oled!YCenter(len) = 512
<1>1. 5 * len \in Nat /\ 5 * len <= 315
  OBVIOUS
<1>2. (5 * len) \div 128 \in {0, 1, 2}
  BY <1>1, SMT
<1>3. len <= 51 => (5 * len) \div 128 \in {0, 1}
  BY <1>1, SMT
<1> QED
  BY <1>2, <1>3, SMT DEF Oled!YCenter, Oled!OLED_PAGE, Oled!OLED_COLS

(* Every text of the code, the icons and the bar go where they belong.     *)
LEMMA ItemsFit ==
  /\ \A item \in Oled!Items : Within(Oled!Nowhere, item)
  /\ Within(Oled!write_string(VersionLen, 1, 0, 0), "version")
  /\ Within(Oled!write_string(4, 1, 0, 3), "label")
  /\ Within(Oled!write_string(3, 1, Oled!OLED_COLS - 15, 0), "wifi")
  /\ Within(Oled!write_string(10, Oled!XCenter(10), 0, 6), "update")
  /\ \A len \in {1, 2} :
       Within(Oled!write_string(len, 1, Oled!OLED_COLS - 5, 1), "mqtt")
  /\ \A len \in Nat : len <= 63 =>
       Within(Oled!write_string(len, 1, 0, 1), "time")
  /\ \A len \in Nat : len <= 9 =>
       Within(Oled!write_string(len, 1 + Oled!YCenter(len), 0, 0), "distance")
  /\ \A len \in Nat : len <= 63 =>
       Within(Oled!write_string(len, 1 + Oled!YCenter(len), 30, 0), "angles")
  /\ \A p \in Nat : p <= 100 =>
       /\ Within(Oled!write_string(Oled!PercentLen(p), 1, 110, 7), "percent")
       /\ Within([first |-> 7 * Oled!OLED_COLS + 10, cells |-> p], "bar")
<1> USE SMT DEF Oled!write_string, Oled!OLED_SIZE, Oled!OLED_COLS, Place, Within,
                Long, Oled!Room, FirstCell, LastCell
<1>1. \A item \in Oled!Items : Within(Oled!Nowhere, item)
  BY DEF Oled!Nowhere
<1>2. Within(Oled!write_string(VersionLen, 1, 0, 0), "version")
  BY LengthBounds
<1>3. /\ Within(Oled!write_string(4, 1, 0, 3), "label")
      /\ Within(Oled!write_string(3, 1, Oled!OLED_COLS - 15, 0), "wifi")
  OBVIOUS
<1>4. Within(Oled!write_string(10, Oled!XCenter(10), 0, 6), "update")
  <2>1. Oled!XCenter(10) = 39
    BY DEF Oled!XCenter
  <2> QED
    BY <2>1
<1>5. \A len \in {1, 2} :
        Within(Oled!write_string(len, 1, Oled!OLED_COLS - 5, 1), "mqtt")
  OBVIOUS
<1>6. ASSUME NEW len \in Nat, len <= 63
      PROVE  Within(Oled!write_string(len, 1, 0, 1), "time")
  BY <1>6
<1>7. ASSUME NEW len \in Nat, len <= 9
      PROVE  Within(Oled!write_string(len, 1 + Oled!YCenter(len), 0, 0), "distance")
  <2>1. Oled!YCenter(len) = 512
    BY <1>7, MiddleLine
  <2> QED
    BY <1>7, <2>1
<1>8. ASSUME NEW len \in Nat, len <= 63
      PROVE  Within(Oled!write_string(len, 1 + Oled!YCenter(len), 30, 0), "angles")
  <2>1. Oled!YCenter(len) \in {384, 512} /\ (len <= 51 => Oled!YCenter(len) = 512)
    BY <1>8, MiddleLine
  <2> QED
    BY <1>8, <2>1
<1>9. ASSUME NEW p \in Nat, p <= 100
      PROVE  /\ Within(Oled!write_string(Oled!PercentLen(p), 1, 110, 7), "percent")
             /\ Within([first |-> 7 * Oled!OLED_COLS + 10, cells |-> p], "bar")
  BY <1>9 DEF Oled!PercentLen
<1> HIDE DEF Oled!write_string, Oled!OLED_COLS, Within
<1> QED
  BY <1>1, <1>2, <1>3, <1>4, <1>5, <1>6, <1>7, <1>8, <1>9

LEMMA IInvInit == Init => IInv
<1> SUFFICES ASSUME Init PROVE IInv
  OBVIOUS
<1>1. drawn = [item \in Oled!Items |-> Oled!Nowhere]
  BY DEF Init, Oled!Init
<1>2. \A item \in Oled!Items : Within(Oled!Nowhere, item)
  BY DEF Oled!Nowhere, Within, Place
<1>3. DrawnWithin
  BY <1>1, <1>2 DEF DrawnWithin, Oled!Nowhere, Place
<1>4. LengthsKnown
  BY DEF Init, Oled!Init, LengthsKnown
<1> QED
  BY <1>3, <1>4 DEF IInv

(* What a step draws anew is within its field, the rest stays.             *)
LEMMA DrawnAnew ==
  ASSUME DrawnWithin, drawn' \in [Oled!Items -> Place],
         \A item \in Oled!Items :
           drawn'[item] = drawn[item] \/ Within(drawn'[item], item)
  PROVE  DrawnWithin'
BY DEF DrawnWithin

LEMMA FrameBegins ==
  ASSUME IInv, Oled!clear_buffer
  PROVE  IInv'
<1> DEFINE place == Oled!write_string(VersionLen, 1, 0, 0)
<1> HIDE DEF place
<1>1. drawn' = [[item \in Oled!Items |-> Oled!Nowhere] EXCEPT !["version"] = place]
  BY DEF Oled!clear_buffer, place
<1>2. Within(place, "version") /\ \A item \in Oled!Items : Within(Oled!Nowhere, item)
  BY ItemsFit DEF place
<1>3. \A item \in Oled!Items : Within(drawn'[item], item)
  BY <1>1, <1>2 DEF Oled!Items
<1>4. drawn' \in [Oled!Items -> Place]
  BY <1>1, <1>2 DEF Within, Oled!Items
<1>5. LengthsKnown'
  BY DEF IInv, LengthsKnown, Oled!clear_buffer
<1> QED
  BY <1>3, <1>4, <1>5 DEF IInv, DrawnWithin

LEMMA DistanceDrawn ==
  ASSUME IInv, Oled!write_distance
  PROVE  IInv'
<1> DEFINE label == Oled!write_string(4, 1, 0, 3)
           text == Oled!write_string(distance_len', 1 + Oled!YCenter(distance_len'), 0, 0)
<1> HIDE DEF label, text
<1>1. distance_len' \in Nat /\ distance_len' <= 9
  BY LengthBounds DEF IInv, LengthsKnown, Oled!write_distance
<1>2. drawn' = [drawn EXCEPT !["label"] = label, !["distance"] = text]
  BY DEF Oled!write_distance, label, text
<1>3. Within(label, "label") /\ Within(text, "distance")
  BY <1>1, ItemsFit DEF label, text
<1>4. \A item \in Oled!Items : drawn'[item] = drawn[item] \/ Within(drawn'[item], item)
  BY <1>2, <1>3 DEF IInv, DrawnWithin, Oled!Items
<1>5. drawn' \in [Oled!Items -> Place]
  BY <1>2, <1>3 DEF IInv, DrawnWithin, Within, Oled!Items
<1>6. DrawnWithin'
  BY <1>4, <1>5, DrawnAnew DEF IInv
<1>7. LengthsKnown'
  BY <1>1 DEF IInv, LengthsKnown, Oled!write_distance
<1> QED
  BY <1>6, <1>7 DEF IInv

LEMMA WifiDrawn ==
  ASSUME IInv, Oled!ReadBits
  PROVE  IInv'
<1> DEFINE icon == Oled!write_string(3, 1, Oled!OLED_COLS - 15, 0)
<1> HIDE DEF icon
<1>1. Within(icon, "wifi")
  BY ItemsFit DEF icon
<1>2. drawn' = [drawn EXCEPT !["wifi"] = icon] \/ drawn' = drawn
  BY DEF Oled!ReadBits, icon
<1>3. \A item \in Oled!Items : drawn'[item] = drawn[item] \/ Within(drawn'[item], item)
  BY <1>1, <1>2 DEF IInv, DrawnWithin, Oled!Items
<1>4. drawn' \in [Oled!Items -> Place]
  BY <1>1, <1>2 DEF IInv, DrawnWithin, Within, Oled!Items
<1>5. DrawnWithin'
  BY <1>3, <1>4, DrawnAnew DEF IInv
<1>6. LengthsKnown'
  BY DEF IInv, LengthsKnown, Oled!ReadBits
<1> QED
  BY <1>5, <1>6 DEF IInv

LEMMA UpdateDrawn ==
  ASSUME IInv, Oled!write_ota_update
  PROVE  IInv'
<1> DEFINE label == Oled!write_string(10, Oled!XCenter(10), 0, 6)
           text == Oled!write_string(Oled!PercentLen(ota_percent_uint'), 1, 110, 7)
           bar == [first |-> 7 * Oled!OLED_COLS + 10, cells |-> ota_percent_uint']
<1> HIDE DEF label, text, bar
<1>1. ota_percent_uint' \in Nat /\ ota_percent_uint' <= 100
  BY LengthBounds DEF IInv, LengthsKnown, Oled!write_ota_update
<1>2. drawn' = [drawn EXCEPT !["update"] = label, !["percent"] = text, !["bar"] = bar]
  BY DEF Oled!write_ota_update, label, text, bar
<1>3. Within(label, "update") /\ Within(text, "percent") /\ Within(bar, "bar")
  BY <1>1, ItemsFit DEF label, text, bar
<1>4. \A item \in Oled!Items : drawn'[item] = drawn[item] \/ Within(drawn'[item], item)
  BY <1>2, <1>3 DEF IInv, DrawnWithin, Oled!Items
<1>5. drawn' \in [Oled!Items -> Place]
  BY <1>2, <1>3 DEF IInv, DrawnWithin, Within, Oled!Items
<1>6. DrawnWithin'
  BY <1>4, <1>5, DrawnAnew DEF IInv
<1>7. LengthsKnown'
  BY <1>1 DEF IInv, LengthsKnown, Oled!write_ota_update
<1> QED
  BY <1>6, <1>7 DEF IInv

LEMMA IconAndTimeDrawn ==
  ASSUME IInv, Oled!write_mqtt_and_time
  PROVE  IInv'
<1> DEFINE icon_len == IF "MQTT_SUBSCRIBE" \in bits THEN 1 ELSE 2
           icon == Oled!write_string(icon_len, 1, Oled!OLED_COLS - 5, 1)
<1> HIDE DEF icon
<1>1. Within(icon, "mqtt")
  BY ItemsFit, icon_len \in {1, 2} DEF icon
<1>2. PICK len \in TimeLens :
        drawn' = [drawn EXCEPT
                    !["mqtt"] = icon,
                    !["time"] = IF len > 0 THEN Oled!write_string(len, 1, 0, 1)
                                ELSE Oled!Nowhere]
  BY DEF Oled!write_mqtt_and_time, icon
<1> DEFINE time == IF len > 0 THEN Oled!write_string(len, 1, 0, 1) ELSE Oled!Nowhere
<1>3. Within(time, "time")
  BY ItemsFit, LengthBounds DEF Oled!Items
<1> HIDE DEF time
<1>4. drawn' = [drawn EXCEPT !["mqtt"] = icon, !["time"] = time]
  BY <1>2 DEF time
<1>5. \A item \in Oled!Items : drawn'[item] = drawn[item] \/ Within(drawn'[item], item)
  BY <1>1, <1>3, <1>4 DEF IInv, DrawnWithin, Oled!Items
<1>6. drawn' \in [Oled!Items -> Place]
  BY <1>1, <1>3, <1>4 DEF IInv, DrawnWithin, Within, Oled!Items
<1>7. DrawnWithin'
  BY <1>5, <1>6, DrawnAnew DEF IInv
<1>8. LengthsKnown'
  BY DEF IInv, LengthsKnown, Oled!write_mqtt_and_time
<1> QED
  BY <1>7, <1>8 DEF IInv

LEMMA AnglesDrawn ==
  ASSUME IInv, Oled!write_cord
  PROVE  IInv'
<1> DEFINE text == Oled!write_string(angle_len', 1 + Oled!YCenter(angle_len'), 30, 0)
<1> HIDE DEF text
<1>1. /\ angle_len' \in Nat /\ angle_len' <= 63
      /\ q_angle' \in Seq(AngleLens)
  <2>1. q_angle \in Seq(AngleLens) /\ angle_len \in Nat /\ angle_len <= 63
    BY DEF IInv, LengthsKnown
  <2>2. CASE q_angle = <<>>
    BY <2>1, <2>2 DEF Oled!write_cord
  <2>3. CASE q_angle # <<>>
    <3>1. Head(q_angle) \in AngleLens /\ Tail(q_angle) \in Seq(AngleLens)
      BY <2>1, <2>3, HeadTailProperties
    <3>2. angle_len' = Head(q_angle) /\ q_angle' = Tail(q_angle)
      BY <2>3 DEF Oled!write_cord
    <3> QED
      BY <3>1, <3>2, LengthBounds
  <2> QED
    BY <2>2, <2>3
<1>2. drawn' = [drawn EXCEPT !["angles"] = text]
  BY DEF Oled!write_cord, text
<1>3. Within(text, "angles")
  BY <1>1, ItemsFit DEF text
<1>4. \A item \in Oled!Items : drawn'[item] = drawn[item] \/ Within(drawn'[item], item)
  BY <1>2, <1>3 DEF IInv, DrawnWithin, Oled!Items
<1>5. drawn' \in [Oled!Items -> Place]
  BY <1>2, <1>3 DEF IInv, DrawnWithin, Within, Oled!Items
<1>6. DrawnWithin'
  BY <1>4, <1>5, DrawnAnew DEF IInv
<1>7. LengthsKnown'
  BY <1>1 DEF IInv, LengthsKnown, Oled!write_cord
<1> QED
  BY <1>6, <1>7 DEF IInv

(* The gyroscope task touches nothing of the display but q_angle.          *)
LEMMA GyroKeepsIInv ==
  ASSUME IInv, GyroStep
  PROVE  IInv'
<1>1. UNCHANGED <<drawn, distance_len, angle_len, ota_percent_uint>>
  BY DEF GyroStep, oledVars
<1>2. q_angle' \in Seq(AngleLens)
  <2>1. q_angle \in Seq(AngleLens)
    BY DEF IInv, LengthsKnown
  <2>2. CASE Gyro!SendAngles
    BY <2>1, <2>2, AppendProperties DEF Gyro!SendAngles
  <2>3. CASE ~Gyro!SendAngles
    BY <2>1, <2>3
    DEF GyroStep, Gyro!GyroStep, Gyro!SensorChanges, Gyro!Take, Gyro!Calibrate,
        Gyro!Read, Gyro!ReadError
  <2> QED
    BY <2>2, <2>3
<1> QED
  BY <1>1, <1>2 DEF IInv, DrawnWithin, LengthsKnown

LEMMA IInvStep == IInv /\ [Next]_vars => IInv'
<1> SUFFICES ASSUME IInv, [Next]_vars PROVE IInv'
  OBVIOUS
<1>1. CASE Oled!Transmit \/ UNCHANGED vars
  BY <1>1 DEF Oled!Transmit, vars, oledVars, IInv, DrawnWithin, LengthsKnown
<1> QED
  BY <1>1, FrameBegins, DistanceDrawn, WifiDrawn, UpdateDrawn, IconAndTimeDrawn,
     AnglesDrawn, GyroKeepsIInv
  DEF Next, OledStep, Oled!OledStep

LEMMA IInvAlways == Spec => []IInv
BY IInvInit, IInvStep, PTL DEF Spec

-----------------------------------------------------------------------------
(* All that is drawn is drawn in the frame buffer.                         *)
LEMMA IInvInside ==
  ASSUME IInv
  PROVE  Oled!InsideBuffer
<1> SUFFICES ASSUME NEW item \in Oled!Items, NEW cell \in Oled!Cells(item)
             PROVE  cell \in 1..Oled!OLED_SIZE
  BY DEF Oled!InsideBuffer
<1>1. cell \in 1..1024
  BY CellsWithin DEF IInv, DrawnWithin
<1> QED
  BY <1>1 DEF Oled!OLED_SIZE

LEMMA IInvApart ==
  ASSUME IInv
  PROVE  Oled!NoOverlap
<1> SUFFICES ASSUME NEW a \in Oled!Items, NEW b \in Oled!Items, a # b,
                    ~Oled!TooLong(a), ~Oled!TooLong(b),
                    NEW cell \in Oled!Cells(a), cell \in Oled!Cells(b)
             PROVE  FALSE
  BY DEF Oled!NoOverlap
<1>1. cell \in 1..1024 /\ FirstCell[a] <= cell /\ cell <= LastCell[a]
  BY CellsWithin DEF IInv, DrawnWithin
<1>2. FirstCell[b] <= cell /\ cell <= LastCell[b]
  BY CellsWithin DEF IInv, DrawnWithin
<1>3. /\ FirstCell[a] \in Int /\ LastCell[a] \in Int
      /\ FirstCell[b] \in Int /\ LastCell[b] \in Int
  BY FieldBounds
<1>4. LastCell[a] < FirstCell[b] \/ LastCell[b] < FirstCell[a]
  BY FieldsAreDisjoint
<1>5. cell \in Int
  BY <1>1
<1> QED
  BY <1>1, <1>2, <1>3, <1>4, <1>5

(* Neither the control byte before the cells nor the memory behind them is *)
(* written, by any step of any turn and for all lengths of texts that the  *)
(* buffers of the code can hold.                                           *)
THEOREM DrawsInside == Spec => []Oled!InsideBuffer
BY IInvAlways, IInvInside, PTL

(* In every frame that is transmitted no item covers a cell of another,    *)
(* unless one of the two is a text too long for the room the layout gives  *)
(* it.                                                                     *)
THEOREM FramesAreClean == Spec => []FrameIsClean
<1>1. IInv => FrameIsClean
  BY IInvInside, IInvApart DEF FrameIsClean, Oled!FrameIsClean
<1> QED
  BY <1>1, IInvAlways, PTL
=============================================================================
