------------------------------ MODULE OledTask ------------------------------
(***************************************************************************)
(* oled_task (tasks/oled_task.c): what each turn draws into the frame      *)
(* buffer and where, and when it waits. The buffer is a control byte and   *)
(* OLED_SIZE cells, a cell being a column of eight pixels; what is drawn   *)
(* is kept as the cells each item covers. Texts are their lengths. The     *)
(* copy of the time is in TimeKeeper, the sender of q_ota_level in         *)
(* OtaUpdate, that of q_distance in DistanceTask.                          *)
(***************************************************************************)
EXTENDS Integers, Sequences

CONSTANTS
  VersionLen,    \* the length of version_on_screen
  DistanceLens,  \* the lengths "%.2f" of a distance may have
  TimeLens,      \* the lengths of date and time
  AngleLens,     \* the lengths of the three angles
  Percents       \* what ota_task may send

(* What fits in version_on_screen, distance_char, time_buf and the buffer  *)
(* of the angles, with the terminating NUL.                                *)
OledAssumption ==
  /\ VersionLen \in 0..31
  /\ DistanceLens \subseteq 0..9
  /\ TimeLens \subseteq 0..63
  /\ AngleLens \subseteq 0..63
  /\ Percents \subseteq 0..100

VARIABLES
  oled,           \* the place in the turn
  bits,           \* the copy of the event bits
  drawn,          \* the cells of each item, first and number
  distance_len, angle_len, ota_percent_uint,  \* static, shown again when nothing comes
  q_angle         \* the lengths of the angles in it

oledVars == <<oled, bits, drawn, distance_len, angle_len, ota_percent_uint>>

OLED_SIZE == 1024
OLED_PAGE == 8
OLED_COLS == 128

Items == {"version", "label", "distance", "wifi", "update", "percent", "bar",
          "mqtt", "time", "angles"}

Bits == {"WIFI_BIT_GOT_IP", "OTA_BIT_IN_PROGRESS", "MQTT_SUBSCRIBE"}

Nowhere == [first |-> 1, cells |-> 0]

(* Mutant: the pages before the middle one are not counted.                *)
UpperCenter(len) == ((OLED_PAGE - (1 + (5 * len) \div OLED_COLS)) \div 2 - 1) * OLED_COLS

(* No text is long enough for the unsigned subtractions to wrap.           *)
XCenter(len) == (OLED_COLS - 5 * len) \div 2
YCenter(len) == ((OLED_PAGE - (1 + (5 * len) \div OLED_COLS)) \div 2 + 1) * OLED_COLS

(* write_string: five cells for each character, one character at least,    *)
(* from the cell the position says, or from 1 when that is none.           *)
write_string(len, start, x, page) ==
  LET start_idx == start + x + page * OLED_COLS
  IN  [first |-> IF start_idx > OLED_SIZE THEN 1 ELSE start_idx,
       cells |-> 5 * (IF len = 0 THEN 1 ELSE len)]

(* write_char goes on at 1 after the last cell.                            *)
Cell(idx) == IF idx > OLED_SIZE THEN idx - OLED_SIZE ELSE idx

(* The bar does not.                                                       *)
Cells(item) ==
  {IF item = "bar" THEN idx ELSE Cell(idx) :
     idx \in drawn[item].first .. (drawn[item].first + drawn[item].cells - 1)}

(* "%ld%%" in four bytes: the percent sign of 100 does not fit.            *)
PercentLen(p) == IF p < 10 THEN 2 ELSE 3

Init ==
  /\ oled = "sleep" /\ bits = {} /\ drawn = [item \in Items |-> Nowhere]
  /\ distance_len = 4 /\ angle_len = 0 /\ ota_percent_uint = 0
  /\ q_angle = <<>>

-----------------------------------------------------------------------------

(* clear_buffer, and the version.                                          *)
clear_buffer ==
  /\ oled = "sleep" /\ oled' = "distance"
  /\ drawn' = [[item \in Items |-> Nowhere]
                 EXCEPT !["version"] = write_string(VersionLen, 1, 0, 0)]
  /\ UNCHANGED <<bits, distance_len, angle_len, ota_percent_uint, q_angle>>

(* A distance is waiting or not.                                           *)
write_distance ==
  /\ oled = "distance" /\ oled' = "bits"
  /\ distance_len' \in DistanceLens \cup {distance_len}
  /\ drawn' = [drawn EXCEPT
                 !["label"] = write_string(4, 1, 0, 3),
                 !["distance"] = write_string(distance_len', 1 + YCenter(distance_len'), 0, 0)]
  /\ UNCHANGED <<bits, angle_len, ota_percent_uint, q_angle>>

(* Other tasks set and clear the bits at any time, so any may be seen.     *)
ReadBits ==
  /\ oled = "bits" /\ bits' \in SUBSET Bits
  /\ oled' = IF "OTA_BIT_IN_PROGRESS" \in bits' THEN "ota" ELSE "mqtt"
  /\ drawn' = IF "WIFI_BIT_GOT_IP" \in bits'
              THEN [drawn EXCEPT !["wifi"] = write_string(3, 1, OLED_COLS - 15, 0)]
              ELSE drawn
  /\ UNCHANGED <<distance_len, angle_len, ota_percent_uint, q_angle>>

(* A percentage comes within 10 ms or the last one is shown again.         *)
write_ota_update ==
  /\ oled = "ota" /\ oled' = "mqtt"
  /\ ota_percent_uint' \in Percents \cup {ota_percent_uint}
  /\ drawn' = [drawn EXCEPT
                 !["update"] = write_string(10, XCenter(10), 0, 6),
                 !["percent"] = write_string(PercentLen(ota_percent_uint'), 1, 110, 7),
                 !["bar"] = [first |-> 7 * OLED_COLS + 10, cells |-> ota_percent_uint']]
  /\ UNCHANGED <<bits, distance_len, angle_len, q_angle>>

(* The icon without a subscription is written with its terminating NUL,    *)
(* which is drawn as a space. Then write_time.                             *)
write_mqtt_and_time ==
  /\ oled = "mqtt" /\ oled' = "angles"
  /\ \E len \in TimeLens :
       drawn' = [drawn EXCEPT
                   !["mqtt"] = write_string(IF "MQTT_SUBSCRIBE" \in bits THEN 1 ELSE 2,
                                            1, OLED_COLS - 5, 1),
                   !["time"] = IF len > 0 THEN write_string(len, 1, 0, 1) ELSE Nowhere]
  /\ UNCHANGED <<bits, distance_len, angle_len, ota_percent_uint, q_angle>>

(* Mutant: the display waits for angles.                                   *)
CordWaits ==
  /\ oled = "angles" /\ oled' = "send" /\ q_angle # <<>>
  /\ angle_len' = Head(q_angle) /\ q_angle' = Tail(q_angle)
  /\ drawn' = [drawn EXCEPT
                 !["angles"] = write_string(angle_len', 1 + YCenter(angle_len'), 30, 0)]
  /\ UNCHANGED <<bits, distance_len, ota_percent_uint>>

write_cord ==
  /\ oled = "angles" /\ oled' = "send"
  /\ angle_len' = IF q_angle = <<>> THEN angle_len ELSE Head(q_angle)
  /\ q_angle' = IF q_angle = <<>> THEN <<>> ELSE Tail(q_angle)
  /\ drawn' = [drawn EXCEPT
                 !["angles"] = write_string(angle_len', 1 + YCenter(angle_len'), 30, 0)]
  /\ UNCHANGED <<bits, distance_len, ota_percent_uint>>

(* The frame goes to the display under m_I2C0, which nobody else takes,    *)
(* and the task pauses.                                                    *)
Transmit ==
  /\ oled = "send" /\ oled' = "sleep"
  /\ UNCHANGED <<bits, drawn, distance_len, angle_len, ota_percent_uint, q_angle>>

OledStep ==
  \/ clear_buffer \/ write_distance \/ ReadBits \/ write_ota_update
  \/ write_mqtt_and_time \/ write_cord \/ Transmit

-----------------------------------------------------------------------------

(* Every item lies in the cells of the buffer: neither the control byte    *)
(* before them nor the memory behind them is written.                      *)
InsideBuffer == \A item \in Items : Cells(item) \subseteq 1..OLED_SIZE

(* The characters each text has room for; the rest of the items are of     *)
(* fixed length.                                                           *)
Room == [version |-> 22, distance |-> 6, time |-> 24, angles |-> 51]

TooLong(item) == item \in DOMAIN Room /\ drawn[item].cells > 5 * Room[item]

NoOverlap ==
  \A a, b \in Items :
    a # b /\ ~TooLong(a) /\ ~TooLong(b) => Cells(a) \cap Cells(b) = {}

(* In a frame that is transmitted every item lies in the buffer whatever   *)
(* the lengths of the texts, and no two share a cell, the blank of the     *)
(* icon and the bar included, unless a text is too long for its room: a    *)
(* distance from 1000 cm on, whose end the angles then hide, a version of  *)
(* more than 22 characters, angles of more than 51.                        *)
FrameIsClean == oled = "send" => InsideBuffer /\ NoOverlap
=============================================================================
