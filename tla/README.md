# TLA+ models of the Car_cleaner firmware

The firmware in `Car_project/` drives a small car on a dual-core ESP32-S3 under
FreeRTOS: it measures the distance to the obstacle ahead, keeps it with a PID
controller, turns when it is stuck, shows what it does on an OLED, is commanded
over MQTT, updates itself over HTTPS and streams its logs over UDP. These
modules model its tasks and interrupt handlers, check them with TLC and prove the
properties that matter most with TLAPS for every value of the constants.
Paths below are relative to `Car_project/src/`.

## 1. Inventory

| Component | State | Operations | Talks to | Modelled in |
|---|---|---|---|---|
| Motor control, `tasks/motor_control_task.c` | `Main_motors_state`, the statics of `check_distance`, the PID, the H-bridge | one turn per 20 ms; a rotation of 800 ms | takes `q_distance_pid` | `MotorControl` |
| Distance measurement, `tasks/distance_task.c` | `distance_mm`, the UART receive buffer | question, read with timeout, pause | sensor; fills `q_distance_pid`, `q_distance` | `DistanceTask` |
| Time, `tasks/time_synh.c`, `timer.c`, `write_time` of `tasks/oled_task.c` | `now`, the spinlock `m_TIME` | SNTP once at boot; alarm every second; copy for the display | interrupt and task on two cores | `TimeKeeper` |
| Remote logging, `tasks/esp_logs_papertrail.c` | `sock`, `early_buf_idx`, `early_log_buf`, `q_logs` | the hook, in every task that logs; the sending task | `WIFI_BIT_GOT_IP`; server | `Papertrail` |
| Wi-Fi, `wifi.c` | bits of `e_tasks` | start, connected, disconnected, got an address | confirms a new image; wakes the waiting tasks | `OtaUpdate` and `Papertrail`, partly |
| Display, `tasks/oled_task.c` | frame buffer and its index | one frame per turn | takes `q_distance`, `q_angle`, `q_ota_level`; reads `e_tasks` | `OledTask`, `TimeKeeper`, `OtaUpdate` |
| Boot, `main.c` | queues, mutexes, event group | the order of initialisation | creates every task | `OtaUpdate`, `TimeKeeper`, `DriveLoop`, partly |
| Update, `tasks/ota_task.c` | bits `MQTT_GOT_UPDATE`, `OTA_BIT_IN_PROGRESS`; the two slots and otadata | wait, begin, perform, finish, restart | MQTT, display, boot loader | `OtaUpdate` |
| MQTT, `mqtts_hiveMQ.c` | `speed`, `servo_angle`, bit `MQTT_SUBSCRIBE` | events of the client | `q_speed`, `q_servo_angle`, update request | `Commands`, `OtaUpdate` |
| Servo, `tasks/servo_motor_task.c` | comparator | one angle per 100 ms | takes `q_servo_angle` | `Commands` |
| Gyroscope, `tasks/angles_task.c` | calibration, filter | calibrate, sample | fills `q_angle` | `Gyroscope`, without the filter |
| Log server, `Car_project_server/esp_logs_server.py` | none | prints datagrams | | not modelled |

What is hard here, and no test of the repository reaches (it has none):

- tasks of different rates joined by queues whose sender drops what does not
  fit (`xQueueSend` with timeout 0), while a receiver sleeps for 800 ms;
- decisions from state of an earlier turn: `check_distance` judges from the
  time of its previous call, and one of its calls ignores the result;
- late answers: the sensor may answer after the read has timed out;
- a 64-bit counter on a 32-bit processor, incremented by an interrupt on one
  core and copied on another;
- a log hook that runs in every task at once over shared statics, and a flush
  that is not atomic with it;
- an update whose downloads fail anywhere, with restarts at any step, that must
  leave something to boot which can be updated again;
- requests and commands that arrive while their task is busy, sleeps or does not
  exist yet, and queues that keep what an earlier attempt has left;
- a frame buffer written at indices computed from the lengths of texts;
- waits that must end, and bits that are never cleared.

What makes each part correct: motor control never drives at an obstacle it has
recognised, notices a stall, and never turns for ever; a distance is the answer
to the question it was asked for; the time counts every second and is never
seen half-written; logging never blocks the task that logs, and what is collected or
accepted is sent in order; an update leaves a bootable image at every
instant; the last command wins; the display writes inside its buffer.

## 2. Modules

| Module | Models | Kind |
|---|---|---|
| `MotorControl` | `motor_task`, `check_distance`, `pid_controler_update`, `percent_into_ticks`, `motors_control` | component |
| `DistanceTask` | `uart_task` with the sensor and the UART driver | component |
| `DriveLoop` | both, through `q_distance_pid`, by one clock | composition by `INSTANCE` |
| `SecondsClock` | what the time keeping promises: counting and showing are atomic | abstract specification |
| `TimeKeeper` | `time_sync`, `timer_init`, `timer_handler`, `write_time` | component, refines `SecondsClock` |
| `Papertrail` | `new_hook_papertrail_function`, `esp_logs_papertrail_task`, `wifi_handler` as they see it | component |
| `SafeUpdate` | what an update promises: a trial with something to fall back on | abstract specification |
| `OtaUpdate` | `ota_task`, the waits of `app_main`, `wifi_handler` and the update request, `write_ota_update` as receiver | component, refines `SafeUpdate` |
| `Commands` | `mqtts_hiveMQ_handler`, `set_angle`, `servo_motor_task` | component |
| `OledTask` | `oled_task`, `write_string`, `write_char` and the `write_...` functions | component |
| `Gyroscope` | `gyroscope_accelerometer_task`, without its filter | component |
| `Telemetry` | the two before, through `q_angle` | composition by `INSTANCE` |
| `MC...` | constants of the runs | model checking |
| `...Proofs` | the theorems of a component | proofs |

Definitions have the names of the source where TLA+ allows it, and PROJECT.json
gives the lines of each. An action whose comment calls it a *mutant* is a
plausible mistake in the code, no part of any specification: it is put in the
place of the definition after it to show that a property notices.

**MotorControl.** The variables are the statics and globals of the task and
what the hardware holds: the force levels of the four PWM generators (`pins`)
and their common compare value (`duty`). A turn of the loop is one action
(`DriveTurn`) since nothing else reads its state; a rotation is two, before and
after its long `vTaskDelay` (`RotateBegin`, `RotateEnd`), because time passes
and readings arrive in between. Distances are whole millimetres (the sensor's
unit) for the code's centimetres in `float`; at a difference of exactly 2 cm,
where rounding decides, both outcomes of the comparison are allowed. With
Ki = 0 the integrator stays 0; the band-limited derivative is a free choice
from `Derivatives`, so nothing depends on it.

**DistanceTask.** One action per blocking point. The sensor answers a question
with two bytes at any instant up to `SensorMax`, or stays silent; the bytes go
to the receive buffer, where the code's flush and read find them.

**Time in these modules** is the variable `now`, in microseconds, over a set
`Clock` of instants. `Advance` moves it as far as the next instant at which a
sleeping task must have run: no task is later than `Lateness` after its delay.
That bound is the one scheduling assumption of the safety properties. At the
last instant of a bounded clock the run stops (`ClockEnds`). `DriveLoop` adds three
history variables: when each reading of the queue was sent (`sentAt`), when the newest of
all was (`lastSent`), and when the one in `distance_cm` was (`actedAt`).

**TimeKeeper.** Every access to `now` is two actions, low and high word. The
handler runs on the core that called `timer_init`, and while it runs no task
runs there; `write_time` may run on any core; a critical section masks the
interrupts of its own core only (`Masked`). `SecondsClock` sees the value a
half-finished store is about to complete.

**Papertrail.** The hook is interleaved access by access: copy of the event
bits, the store to the `static` bits, the test, and load, wrap, increment and
fill of the slot. The source reads `early_buf_idx` for the wrap (line 52) and again for
the slot (line 55); `Reloads` says whether the compiled hook loads it twice or keeps a
register copy (C allows both for the unprotected variable). `accepted` and `sent`
are history variables. A datagram is sent when `sendto` is called; what a lost
link does to it the code never learns.

**OtaUpdate.** The slots `ota_0` and `ota_1` with their states in otadata survive
`Restart`; everything else is reset by it. `ota_task` is one action per
blocking call, and each call may fail. A slot that is being written is `Torn` until the
last block is there. A restart (`Reset`: panic, brown-out, switch) may come
between any two steps. The boot loader is not in the repository and is modelled by its
documented contract with rollback, without which the confirmation in `wifi_handler` would
have no purpose (the configuration that enables it is not in the repository either): a new
image is started once, and again only if it has been confirmed. That `esp_ota_begin`
refuses to run during a trial is left out, so that safety rests on what the code
does: nothing is downloaded before the address, and the address confirms. Entries of
`q_ota_level` carry a mark that says whether they belong to an earlier attempt, and so does
what the display shows. A turn of the display that finds the queue empty for 10 ms draws
the last percentage again, which `write_ota_update` models too; `turns` counts both kinds
of turns since the queue took the first percentage of the present attempt.

**Commands.** The client hands the handler one event at a time. The broker
forgets the subscriptions of a lost connection, and each of the subscriptions
the handler asks for may fail. `q_speed` is a number of entries: nobody receives them.
Time counts in pauses of the servo task.

**OledTask.** One action per `write_...` function, in the order of the turn. `drawn` keeps
for every item of the frame the cells it covers, computed as `write_string` and
`write_char` do; a text is its length, and may be as long as the buffer it is formatted in
allows. `Room` is what the layout leaves for each text, and `TooLong` one that
exceeds it. The event bits are read once per turn, so
any of them may be set. **Gyroscope.** The sensor answers or fails for as
long as it likes. **Telemetry** joins both by `q_angle`: each transfer over the bus
blocks, which is why the display task, of lower priority, gets on even while the
gyroscope task repeats a failing transfer without a pause.

## 3. Runs

| Run | Checks | Bounds |
|---|---|---|
| `MotorControl` | `TypeOK`, `SpinIsBounded`, `StallIsNoticed`, `NeverStraightWhileRotating`, `NoStallSwallowed`, `NoSpinAfterSpin` | 7 s in steps of 0.25 s, four distances (small steps, large steps, the set point), every task up to one step late |
| `DistanceTask` | `TypeOK`, `AsksRegularly`, `ReadingAnswersQuestion`, `NeverAsksTwice` | 0.5 s in steps of 10 ms with the delays of the code, answers up to 220 ms |
| `DriveLoop` | `ActsOnFreshReadings`, `NoReadingDropped`, `MotorSpec`, `DistanceSpec` | 1.4 s in steps of 10 ms with all delays and the queue length of the code, on time |
| `TimeKeeper` | `TypeOK`, `LocalCopyIsExact`, `NoTickLost`, `NoSelfDeadlock`, `ImplementsClock`, `AlarmsAreServed`, `CopiesEnd` | two cores, words of two values, four alarms |
| `Papertrail` | `TypeOK`, `LogCallsReturn`, `SettledLogsAreSent`, `AcceptedIsSent` | two tasks and the log task, one log each, three slots, a queue of one |
| `PapertrailOrder` | `FirstArrivalsInOrder`, `QueuedInOrder` | one task and the log task, three logs, three slots, a queue of two, Wi-Fi lost and found, index loaded twice |
| `OtaUpdate` | `StaysUpdatable`, `ShowsOwnProgress`, `ImplementsUpdate`, `UnreachableIsReplaced`, `RequestIsServed`, `ProgressNeverFalls`, `BootEnds` | the image the car starts with, one more that reaches the network and one that does not; two blocks, known or unknown size, a queue of two; any number of updates and restarts |
| `Commands` | `AnglesAreTimely`, `LastAngleWins`, `EventsAreHandled` | three topics, payloads beyond both ends of the ranges, queues of two, five pauses of the servo, each up to one late |
| `Telemetry` | `FrameIsClean`, `FramesGoOn`, `AnglesArrive` | every combination of bits; distances and angles that just fit in their rooms and that just do not, the shortest and the longest time, percentages of one and of three digits, two samples to calibrate, a queue of two |
| `MotorBoot` | `StuckNeedsWatching`, violated | as `MotorControl` |
| `PapertrailCycle` | `BufferKeepsLatest`, violated | one task, four logs, three slots |
| `PapertrailForgotten` | `EarlyLogsAreSent`, violated | one task and the log task, one log each, three slots |

Why the bounds suffice. The state of `motor_task` depends on time only through
the differences of three instants within one stall window; seven seconds hold
the window of the boot, its rotation, a whole window after it and the next
rotation, and in quarter seconds a window has twelve turns. Half a second holds
three to five questions to the sensor, each answered in time, late or not at
all. 1.4 s hold the rotation that follows every boot with the backlog it leaves
and the time it takes to work it off; a second rotation cannot follow before the
backlog is gone. Words of two values carry at every second alarm. Two
tasks in the hook with the log task as third are enough for each pair of
accesses to be separated by another task, and a queue of one is full at once. That run
has a slot for every log, since a wrap loses logs (`PapertrailCycle`). The order of the
queue is checked in `PapertrailOrder`, whose queue holds two logs at a time and is
full with the third.

Two blocks are the first and the last of a download. Each update uses the slots the
last one has left, so the three images in the two slots appear in every order, and a
queue of two is full with progress of the earlier attempt when the next begins.
Two angles fill the queue; five pauses are more than it takes to empty it. The layout of a
frame depends on the lengths only through where an item begins and ends; the lengths
of a distance and of the angles lie on both sides of what fits, and the theorem holds for all.

`DriveLoop` runs without lateness: with it the run is too large. The
properties about one task alone are checked with lateness in that task's run.

What the runs show. The detection of a stall and the rotation hand over to each
other as intended, including the `check_distance` call whose result is ignored:
with the delays of the code it can never be true. Late and missing answers of
the sensor never become wrong distances; the flush before a question is what
this rests on. The backlog of a rotation neither fills the queue nor makes the
car act on distances that newer ones have outdated for longer than a rotation and a turn;
while the sensor is silent it acts on the last distance for as long as that lasts. The spinlock makes the clock atomic, and masking the
interrupts of the own core is what keeps the handler from waiting for the
task it interrupted. The log path loses nothing the queue has accepted, and no log that
lies in the early buffer while no task is in the hook and no flush is going on; what it
may lose is below.

However updates fail, the car keeps running, or one restart away from, an image that
reaches the network. What does not follow: an image that gets an address and
crashes later is confirmed by then and never rolled back, and an image that never
gets one keeps running until somebody switches the car off and on
(`UnreachableIsReplaced` assumes somebody does). A request is kept while the task is busy
or asleep and forgotten by a restart only. Commands reach the servo in order; one that
finds five waiting is dropped, so under a flood the servo may rest at an angle
that is not the last one sent (`LastAngleWins` counts the queued ones). The progress of an
earlier attempt may stay on the display until the first block of the next one has arrived,
however long that takes; then it goes in as many turns as the queue is long, and what
follows never falls. Items of a frame never overlap unless a text is too long for its
room: a version of more than 22 characters, angles of more than 51, a time of more than 24,
or a distance of 1000 cm and more, which has seven characters and runs into the angles.
`uart_task` checks no range, so such a distance is drawn if the sensor reports one.

Fairness. The safety properties need none. `TimeKeeper`: a pending interrupt is
taken, a running handler and a running task go on (weak fairness), and a core
that spins for `m_TIME` gets it if it is free again and again (strong
fairness): the handler holds it once a second and the display task once per
frame, so it is free nearly always. `Papertrail`: a task inside the hook and the
log task go on, and Wi-Fi gets an address at some time (weak fairness); the hook
never blocks and no task of this program runs without sleeping, so every ready
task gets the processor. No task is assumed to log. `OtaUpdate`: `app_main` and `ota_task`
go on when they can (every download ends, its connection has a timeout), and an image
without an address is restarted by somebody. `Commands`: the client's task and the servo task
go on. `Telemetry`: both tasks go on; `AnglesArrive` says nothing of a sensor that never
answers for good.

### Where the code and its comments differ

- `MotorBoot`. The stall window starts at time 0, the reset. `time_sync` alone
  sleeps for three seconds before `motor_task` is created, and the first reading
  is not there in its first turn: the second turn finds the car "stuck" and it
  rotates after every boot. The comment (`tasks/motor_control_task.c:247`) says
  "if stand in one place more than 2 second".
- `PapertrailCycle`. The comment "cycle buffer" (`tasks/esp_logs_papertrail.c:51`)
  promises the latest logs; after a wrap the index restarts at 0 and only the slots
  below it are flushed.
- `PapertrailForgotten`. The comment "Send all data which went when wi-fi was
  disconected" (line 102) stands in the flush. A task that began to log before Wi-Fi was there
  may claim and fill its slot between the last test of the loop (line 100) and
  `early_buf_idx = 0` (line 105): the reset gives the slot up, and the log is not sent.

More were met and have no run. The stall limit of line 247 is three whole
seconds, not "more than 2" (`StallIsNoticed` states three). After a rotation
"begin from scratch" (line 370) starts with the 0.8 s of the rotation already
counted, since `prev_time` is not reset. The branch for "If wi-fi don't connected"
(`tasks/esp_logs_papertrail.c:49`) is not taken for a log made while Wi-Fi is lost once the socket is
open: nothing clears `WIFI_BIT_GOT_IP`, so the log is queued and sent into the lost
link (without the socket it still goes to the early buffer). And in a build that reads the index
at line 55 again (`Reloads`) two tasks can bring it past the "cycle buffer" of line 51: both find
it below the end at line 52, the first takes the last slot, and the second increments what
the first has left. The slot is then not one of the buffer, and since each of two tasks may
do so to the other the index has no bound; a lock around lines 52 to 55 is missing.

`README.md:57` of the repository promises the "real-time" state of the MQTT connection on the display:
the icon follows `MQTT_SUBSCRIBE`, which an orderly disconnection does not clear and a
single acknowledged topic sets (`Commands`); and the icon that is drawn then is the
one the font (`tasks/oled_task.c:149`) calls "(MQTT Disconnected)". `README.md:49` describes a
Factory partition, but `partitions.csv` has two update slots only, which is why the
fallback of the first update is the image flashed by cable in `ota_0`. When a download fails
before its first block, `esp_https_ota_finish` has nothing to complain of and the car
logs "OTA finished, restarting..." and restarts with the image it had (`FinishEmpty`). "100%" is
printed into four bytes and shown as "100". The calibration of the gyroscope
divides by 200 also when some readings have failed.

## 4. Proofs

TLAPS proves, for all values of the constants that satisfy the named assumptions:

| Module | Theorem | Property |
|---|---|---|
| `MotorControlProofs` | `TypeCorrect`, `SpinBounded`, `StallNoticed`, `NeverStraight`, `StallNotSwallowed`, `SpinsAreSeparated` | the six of run `MotorControl` |
| `DistanceTaskProofs` | `TypeCorrect`, `AskedRegularly`, `ReadingsAreAnswers`, `SensorIsNotInterrupted` | the four of run `DistanceTask` |
| `DriveLoopProofs` | `ReadingsAreFresh`, `NothingDropped` | `ActsOnFreshReadings`, `NoReadingDropped` |
| `DriveLoopProofs` | `MotorImplementation`, `DistanceImplementation` | `MotorSpec`, `DistanceSpec` |
| `TimeKeeperProofs` | `TypeCorrect`, `CopyIsExact`, `TicksAreCounted`, `HandlerNeverSelfDeadlocks` | the four invariants of run `TimeKeeper` |
| `TimeKeeperProofs` | `Implementation` | `ImplementsClock` |
| `PapertrailProofs` | `TypeCorrect`, `SentInOrder` | `TypeOK`, `QueuedInOrder` |
| `OtaUpdateProofs` | `UpdateIsSafe`, `ProgressIsOwn` | the two invariants of run `OtaUpdate` |
| `OtaUpdateProofs` | `ProgressRises` | `ProgressNeverFalls` |
| `OtaUpdateProofs` | `UpdateImplementation` | `ImplementsUpdate` |
| `CommandsProofs` | `CommandsAreTimely`, `ServoFollows` | the two invariants of run `Commands` |
| `TelemetryProofs` | `FramesAreClean` | `FrameIsClean` |
| `TelemetryProofs` | `DrawsInside` | `InsideBuffer` of `OledTask`, which no run checks |

- `MotorAssumption`: the delay of a turn, the rotation and two latenesses fit in
  the three seconds of the stall window, and the task is not created at time 0.
  None of the properties is inductive: whether the car is found stuck depends on
  when `check_distance` was called before. The inductive invariant bounds
  `curr_time` between `prev_time`, the last turn and the present, says how long
  the task has been in each place since, and which pins each state implies.
- `DistanceAssumption`: the sensor is done with a question before the next
  (`SensorMax < ReadDelay + ReadTimeout + PauseDelay`). The inductive
  invariant relates the bytes in the receive buffer to what the sensor still owes of
  the latest measurement, and to the place of the task and its deadline.
- `DriveAssumption`: a turn is shorter than the gap between two readings
  (`LongestTurn < SendGap`), the queue holds the readings of a rotation
  (`LongestGap < QueueLength * SendGap`), and the turns between two stalls are enough to work
  them off. The code's 20 ms, 130 ms, 840 ms, ten places and three seconds
  satisfy it with a wide margin. Each task is shown to be the environment the module of the other
  describes, so the invariants of both carry over, which is also the refinement.
  Freshness is not inductive: it depends on how much of a backlog is left. The invariant
  (`Backlog`) says that the `k`-th turn after a rotation finds a reading younger by
  `k * (SendGap - LongestTurn)` than the oldest the rotation has left, until nothing is
  left, and that the car cannot be found stuck before. What a turn acts on is the first of
the queue, of which that bounds the age, or, with an empty queue, the newest reading there is
(`Newest`, which rests on no reading being dropped). The theorems hold for every
  `Lateness` and clock, which the run, without lateness and 1.4 s long, does not show.
- `TimeAssumption`: the core of the boot is a core, words have at least one value.
  The inductive invariant says who holds `m_TIME` in each place of the handler
  and of `write_time`, that the two are never inside together, which word of
  `now` or of the copy is done, and relates `now` to the history `due`. The
  refinement follows step by step: `IsrStoreLow` is the tick, the
  point from which the abstract time is the incremented one, `OledLeave` the display;
  every other step stutters.

- `PapertrailAssumption`: the log task is none of the other tasks, buffer and queue have
  a place, and an empty slot is no log. For the order of the queue the invariant
  (`InOrder`) says that what was accepted is what was sent, then what the log task
  holds, then the queue, that only logs whose call has passed the queue are in any of them,
  and that no log is there twice.
- `UpdateAssumption`: the first image reaches the network, a torn one is none of the
  images, and an unknown size is far above every real one. `StaysUpdatable` does not say
  what otadata selects; the inductive invariant (`Flash`) does: the running slot, or the other one
  between a finished download and its restart, and that a trial has neither an
  address nor a download. `RestartCases` splits a restart into going on, trial and fallback,
  which are also the steps of the refinement. For the progress it counts places (`OwnSoon`):
  once a percentage of this attempt is in the queue, one is at a place `k` of it for which
  `turns + k` is at most `LevelLen`, or on the display; and what is shown and queued of this
  attempt rises towards the percentage sent next (`Rising`).
- `CommandsAssumption`: delays are numbers, the queue has a place. The invariant bounds, for
  each angle that waits, the time the servo task needs for those before it
  (`Turns`); the difference of the two bounds is what each turn uses up.
- `TelemetryAssumption`: a text is no longer than the buffer it is formatted in, the queue has a
  place. Every item has a field of its own in the frame (`FirstCell` to `LastCell`), which it does not
  leave unless it is too long for its room, and the fields are apart; that nothing leaves
  the frame buffer holds for the longer texts too.

`OtaUpdateProofs` and `CommandsProofs` also prove the type invariants of their components
(`TypeCorrect`), which have no place in a run.

Two statements were wrong before they were proved. `TypeOK` of `Papertrail` bounded
`early_buf_idx` by the buffer's length also when the index is loaded twice; two tasks can then push
it past the buffer together, which the runs, with one task in that case, do not
reach. And the assumption on the empty slot was too weak to tell it from a log.

Only model-checked: the liveness properties, since liveness under fairness and
ENABLED are out of the prover's reach; the three disagreements of the
section before, which are about counterexamples; and `FirstArrivalsInOrder`, which is no
property of the log path for any number of tasks: with two that log, one may overwrite the
shared `bits` between the other's store and test, and a log be collected early
after a later one of its task has been queued. Induction over data and RECURSIVE operators
are out of the prover's reach too; these modules use neither.

## 5. Plan

Every component with a state is modelled. Left, in this order:

1. Proofs: every safety property of a passing run but `FirstArrivalsInOrder` is a theorem.
   What would have to hold of `bits` for that one to be true of several tasks is open.
2. The rest of `app_main`: which driver may log before `e_tasks` exists.
3. The reconnection of Wi-Fi, with calls of the driver that fail.
4. The PID controller in scaled arithmetic, its reaction after a rotation.

At most a dozen runs are kept: a new question replaces a lesser one.

## 6. Not modelled

The configuration of the MCPWM, UART, I2C and timer peripherals beyond the state it
leaves; the text of logs and of the display, its font and its start-up commands;
floating-point rounding except where it decides a comparison; the complementary
filter (`atan2f`); SNTP, TLS, MQTT and HTTP themselves, the Wi-Fi driver, and the
boot loader, of which the modules keep what the code in `src/` relies on; the speeds
sent to `q_speed`, which no task reads; the log hook before `e_tasks` exists; faults
that `ESP_ERROR_CHECK` turns into a restart; the log server, which keeps no state.
