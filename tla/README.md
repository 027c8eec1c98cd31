# Verification of docker-applications

The repository collects dockerized applications around one running system: a
LoRaWAN sensor node (`src/nodes/SodaqOneDevice`), the message broker its data
ends up in (`src/rabbitmq`) and the consumers of that broker. Most of its 493
files are Dockerfiles, compose files and configurations of other people's
programs. The code with behaviour of its own is the firmware of the node, an
older firmware (`src/nodes/SodaqWAN`), and a few small consumers and scripts.
This project models that code in TLA+, the firmware first: it runs unattended
for years, is driven by interrupts, loses power, and cannot be debugged where
it hangs.

## 1. Inventory

State, operations, what is hard, and what makes each part correct.

**Main loop, interrupts and sleep** (`SodaqOneDevice.ino`, `Sodaq_wdt.cpp`).
State: one volatile flag per interrupt source, `powerlossSend`, `ltc.isValid()`.
`loop()` tests the flags in turn, transmits a report for each and clears the
flag afterwards; `systemSleep()` masks interrupts, tests the flags, unmasks and
executes WFI. Called by nobody, calls everything. Hard: a handler can run
between any two instructions; flags are cleared long after they are tested; WFI
is executed with interrupts already unmasked; resets wipe what the network still
believes. Correct when no movement of a switch goes unreported, the power alarm
agrees with what the network was told, a raised flag is served, and the node
sleeps when there is nothing to do.

**Uplink** (`transmit()`, `updateConfigOverTheAir()`, `initLora()`,
`printBootUpMessage()`). State: `retCount`, `retVal`, `sendReturn`,
`isLoraInitialized`, the module's frame counters and the ones it has saved.
Called by every report of the loop. Hard: resets and power losses between the
radio's counter, the RAM copy and the flash copy; acknowledgments that get lost;
delays longer than the watchdog's period; queries that time out. Correct when
true means sent, a report goes out at most once plus the repeats, and no
counter that has been recorded is used again (the network drops such frames).

**Configuration in flash** (`Config.cpp`, `FlashStorage.cpp`). State: the RAM
copy, `needsCommit`, the flash. Shared by all parts; written by the uplink after
every success and by the console. Hard: flash is erased before it is written;
`commit()` writes only if forced or marked; the gas gauge changes its charge offset in RAM without
doing either. Correct when, whenever the node is at rest, the flash holds the counters, the
settings and the keys that RAM holds; the charge offset waits for the next commit.

**RN2483 driver** (`Sodaq_RN2483.cpp`). State: `inputBuffer`, `packetReceived`,
`receivedPayloadBuffer`, and what is still on the serial line. One command, one
answer, a time limit. Hard: an answer later than its limit is read as the answer
to the next command; the error table has no end mark; the error lookup can see
an old line. Correct when a call returns true exactly if the module has done
what it asked for.

**RTC timer** (`RTCTimer.cpp`, `initRtcTimer()` and the events). State: ten event
slots with period and last time, the real-time clock. Called by the loop once a
minute; its callbacks transmit, and a transmission may clear and refill the slots
while `update()` is walking over them, or set the clock. Correct when an event
runs about once per period and `update()` returns.

**GPS fixes** (`GpsFixLiFoRingBuffer.cpp`, `updateGpsSendBuffer()`,
`getGpsFixAndTransmit()`). State: a ring of the last fixes, the report under
construction, the send buffer. Hard: index arithmetic when the ring has wrapped,
a clock that the receiver sets while a fix is waited for, a report kept from one
acquisition to the next. Correct when `peek(k)` is the k-th latest fix, a report's
fix is its own, and what is sent is what was measured.

**u-blox driver** (`ublox.cpp`). State: the parser and its buffer, the bytes still
to be read. Hard: frames come in pieces, next to each other and after padding;
three loops feed one parser; the buffer is used for commands too; the bus
fails. Correct when the delegate gets what was sent, and a loop that reads ends.

**Console** (`BootMenu.cpp`, `Command.cpp`). State: the line, the time left, the
parameters. Hard: three kinds of line ends with a time limit, commands that
change the parameters in different ways, resets during a commit. Correct when
each line is executed once and the node runs with what it has in flash.

**Gas gauge, sensors and their messages** (`LTC2943.cpp`, `HTU21DF.cpp`, the
callbacks in `SodaqOneDevice.ino`, `pb_encode.c`, `pb_decode.c`). State: the chip's
count, the sum in the node, its copy in flash; the reports' bytes. Hard: the chip
forgets with the battery, the node with a reset; alerts and failed transfers that
look like a change of battery; an encoder and a decoder that must agree on every
type of field, the unknown ones included. Correct when the charge an application
decodes is the charge that was drawn, and faults arrive as faults.

**SodaqWAN** (`Hal.cpp`, `Alive.cpp`, `Switch.cpp`, ...): the older firmware, a
polling loop over devices with a debounced switch and an alive timer. Hard:
nothing is polled while it sends, which may take minutes; the compass is waited for without a
limit; and `millis()` wraps around, also in the waits of the radio's driver. Correct when between
its attempts to send the node is not silent for longer than its interval, and when it notices where
the switch is, as far as the compass and the driver let it.

**AMQP to FTP bridges** (`rabbitmq/applications/ftp`): six variants of one consumer.
They differ in when they begin to consume, when the message is acknowledged
(after the upload, even if it failed, never, or by the broker itself) and in the
prefetch limit. The **InfluxDB connector** is a seventh, with a database it drops
and creates at its start. The compose files have a restart policy for the FTP server and none for
what consumes. Correct when the broker forgets only what was stored
or reported as failed, and no message waits for ever while its consumer runs.

**Wifi capture, cluster start, Tor configuration**: small scripts without state of
their own.

Interactions: interrupt handlers share flags with the loop; the loop, the timer's
callbacks and `setup()` call `transmit()`; `transmit()` calls the driver and
`params.commit()`, and may re-enter the timer through
`updateConfigOverTheAir()`; the GPS delegate sets the clock under the timer and the
acquisition; every report polls the gas gauge; node and network share the frame
counters and the alarm state only through messages that may get lost.

## 2. Plan, and what of it is done

| order | module | models | status |
|---|---|---|---|
| 1 | `NodeLoop` | main loop, interrupts, sleep, resets; `transmit()` from outside | done |
| 2 | `ReportDelivery`, `Uplink` | what callers of `transmit()` rely on; `transmit()`, frame counters, flash, boot, power losses, watchdog, shown to implement it | done |
| 3 | `RtcTimer` | event slots, re-entrancy, clock setting, catch-up loop | done |
| 4 | `DriverPromise`, `Rn2483Link` | what callers of the radio driver rely on; commands and late answers on the serial line, shown to implement it | done |
| 5 | `LatestFixes`, `FixRing`, `GpsReport` | the latest fixes, latest first; the ring, shown to implement it; acquisition and report on top of the ring | done |
| 6 | `GasGauge`, `SensorReports`, `Nanopb`, `SensorNode` | the charge over batteries and resets; the reports made of it; encoder and decoder; all composed, from the chip to the application | done |
| 7 | `WanHal` | the polling firmware | done |
| 8 | `LineEditor`, `Console` | what an operator may rely on when typing; line editor, command table, configuration in RAM and flash, shown to implement it | done |
| 9 | `Bridges` | the seven consumers | done |
| 10 | `Ublox` | the UBX parser and its read loops | done |
| 11 | eight `_proof` modules | type correctness and safety, see section 6 | done |

Compositions: `GpsReport` extends `FixRing` and pushes into it; `SensorReports`
extends `GasGauge`, and `SensorNode` sends its reports through the encoder of `Nanopb`. `NodeLoop`,
`SensorReports` and `GpsReport` use `transmit()` by its outcomes, and `ReportDelivery` says which
there are. Open: `NodeLoop`'s reports as calls of `ReportDelivery`, and `Uplink`'s calls of the
driver as what `DriverPromise` promises. Each module keeps one action per operation and its parameters
as constants with named assumptions. No operator of a model is recursive (only the MC module that makes messages has one): loops are recursive functions, and
the nesting of messages is a parameter of `Nanopb` (section 3), so that every module can be proved about.

## 3. What is modelled

### NodeLoop

One action per step of the processor that an interrupt can tell apart. The
handlers are environment actions that may occur between any two of them;
while interrupts are masked they become pending (`irq`) and are taken on
unmasking.

| state | code |
|---|---|
| `pc`, `cur` | position in `setup()`, `loop()`, `systemSleep()`; the switch at hand |
| `flag` | `switch1Flag`, `switch2Flag`, `accel1Flag`, `accel2Flag`, `minuteFlag`, `sodaq_wdt_flag` |
| `irq` | requests pending in the interrupt controller |
| `msg` | the kind of report in `sendBuffer` |
| `due` | some event of the timer is due |
| `valid`, `powerlossSend` | `ltc.isValid()`, `powerlossSend` |
| `srvAlarm` | what the last power report to arrive said |
| `dirty`, `missed`, `fresh`, `alarmLost` | history, for the properties only |

The tests of the two switches are one action indexed by `cur`, in the order of the
code. `transmit()` is a state the loop stays in for a while; on return the report
has arrived or not, the result is true or not (independently: with LoRa down it
returns true), and an over-the-air configuration may have reset the timer.
`setup()` is one step up to its closing report; what a handler does between
`attachHandlers()` and there cannot be told from its doing so during the report.
One update of the timer sends at most one report: the two fix events exclude each
other by the time of day (`RtcTimer` shows the one exception, a span boundary
crossed during the first report; the flags see the same loop then, once more). Left out: GPS acquisition inside a report, the LED,
the contents of reports.

### ReportDelivery, Uplink

`ReportDelivery` is a report as its sender sees it: `Begin` hands it over, it goes out any
number of times up to the repeats (`Send`), the result is decided (`Decide`) and returned, and a
`Reset` may come at any time. The refinement mapping takes the counters of the report at
hand from the history `sent`, and the place in the call from `pc` and `back`.

| state | code |
|---|---|
| `pc` | position in `setup()`, `transmit()` and `commit()` |
| `params`, `needsCommit`, `flash`, `flashOk` | `params`, `needsCommit`, the flash and whether header and checksum are right |
| `loraUp` | `isLoraInitialized` |
| `msg`, `retCount`, `retVal`, `code` | the report, `retCount`, `retVal`, `sendReturn` |
| `modUp`, `modDown`, `saved` | the RN2483's counters, in RAM and in EEPROM |
| `srvNext`, `sent`, `heard`, `accounted` | the network: lowest counter it accepts; history |

A power loss may come between any two steps and makes the module restart from its
EEPROM; a watchdog reset comes in the two `delay()` calls that do not feed the
watchdog. Flash is erased by one step and written by another. Counters run to
`MaxCnt`, which is at once the largest counter, what erased flash reads as and
what the driver's error value -1 is stored as. `params` is abstracted to the two
counters, the over-the-air settings as one value, whether keys are present, and the charge offset
of the gas gauge, which `PollGauge` changes before a report, without a mark (what its values mean
is in `GasGauge`).
The module and the network are external: `macTransmit()` is modelled by the
outcomes the driver tells apart, with the frame on the air or not, and only a network that has the
report sends a configuration back. Left out: the
operator at the boot menu (in `Console`), the network's check of downlink counters,
and `numTxRetries` (in `SensorReports`).

### RtcTimer

| state | code |
|---|---|
| `events` | `_events`: which event, `_lastEventTime`, `_period` of each slot |
| `clock`, `synced`, `sets` | the RTC as `getNow()` reads it, `isRtcInitialized`, how often it was set (bounded) |
| `cfg`, `gps`, `loraUp` | the intervals and the span in `params`, `getIsGpsEnabled()`, `isLoraInitialized` |
| `pc`, `now`, `slot` | position in `update()`, the time it goes by, the index of its loop; slot 0 outside |
| `added`, `runs`, `reports`, `spanMoved`, `setBack` | history |

`Update` reads the clock once; `Visit`, `CatchUp` and `RunCallback` are the loop over the slots
and the body of `RTCEvent::update()`, one period per step of the `while`. A
callback that sends a report leaves the walk in `pc = "report"`: meanwhile time goes
on (`Tick`), the GPS delegate sets the clock (`SetNow`, with `adjust()`), and on return an
over-the-air configuration may clear and refill the table the walk is in the
middle of (`ConfigOverTheAir`). In alive mode the loop's own reports do the same between
walks. The setup report is a report with slot 0. Times are minutes from an
origin above zero: the RTC starts in the year 2000, so the code's branches for a
time of zero are never taken. Left out: events with a repeat count and
`resetAll()`, which nothing uses; what a report contains; the watchdog.

### DriverPromise, Rn2483Link

`DriverPromise` is what the node's code assumes of its driver: a call makes the module do
something and returns true (or `NoError`) if and only if the module did it, until a time
limit is missed and again after a wake-up. Two exceptions are parameters: calls that do not
look at the answer (`setUpCntr()`, `setDownCntr()`), and calls that begin with a wake-up.

| state | code |
|---|---|
| `op`, `todo`, `waiting`, `ret` | the call under way, the commands and answers left of it, its result |
| `code` | `MacTransmitErrorCodes`; `"Overrun"` stands for reading past `errorTable` |
| `inputBuffer`, `packetReceived`, `receivedPayloadBuffer`, `got` | the fields of the driver, what `receive()` gave |
| `pending`, `line` | external: answers the module has still to give, lines not yet read |
| `did`, `heard`, `taken`, `missed`, `calls` | history and bounds |

A call is a program of commands, each with the text it waits for and whether another
answer ends the call. `ReadLine` takes whatever line is next, `TimeOut` gives up and leaves the
answer to come. An answer is a record with the text the driver tells apart and, for a
downlink, its bytes. Left out: `getHWEUI()` and `getFirmVer()`, which are queries like
the others, the test sequence, and lines that come in pieces.

### LatestFixes, FixRing, GpsReport

`LatestFixes` is a sequence of places: a new fix takes the first, the others move by one.
`FixRing` is the ring with the code's index arithmetic, the remainder as C computes it
included (`CRem`); `Kept` is its abstraction. `GpsReport` has the acquisition and the report:

| state | code |
|---|---|
| `data`, `top`, `bottom`, `validItemCount` | `_data`, `_top`, `_bottom`, `_validItemCount` |
| `clock`, `startTime`, `elapsed` | `getNow()`, `startTime`; history: the time that really passed |
| `pending`, `isNew`, `funcNavPvt` | `pendingReportDataRecord`, `isPendingReportDataRecordNew`, the delegate |
| `sendBuffer`, `sendBufferSize` | the same, in cells: a field, or all fields of one kind |
| `uploadCount` | `getCoordinateUploadCount()` |
| `reports`, `fixes`, `before` | bounds and history: the fixes so far, those before this acquisition |

`GetPeriodic` is a turn of the loop with one NAV-PVT message in it: the delegate may set the
clock, the report is filled, `startTime` follows the clock. `UpdateGpsSendBuffer`
copies the previous records one cell early, as the code does. What a peek finds outside
the ring is any position or none. Within one turn the clock is set at most once (two
messages of one batch that both correct it would need `rtcEpochDelta` to add up).
Position and navigation fields are the number of their fix; the bytes of a record, its
battery voltage and its temperature are left out.

### GasGauge, SensorReports, Nanopb, SensorNode

`GasGauge` is the chip (external: a count, alerts, power) and `LTC::Update()` with its five
reads, any of which may fail; `disturbed` is history and true once something passed for a
loss of power that was none, or a reset lost what RAM had. A unit of charge is one mAh.

`Nanopb` is the encoder and the decoder as functions on bytes: varints, zigzag, fixed
fields, strings, submessages, packed arrays, oneofs, skipped fields and limits of
buffers and numbers. A message is a sequence with a sequence of values for each field of its
descriptor. The widths are parameters, for which `WidthsOK` says how they depend on each other;
the run has a byte of 16 values with 8 in a varint, and integers of two and four bytes.
`pb_encode_submessage()` and `pb_dec_submessage()` call encoder and decoder again; how deep is
given by the descriptors, since a static message holds its submessages in itself. The module
is one level of this, and its parameters `SubBytes`, `SubDecoded` and `SubOK` are the level below.
`MessageOK` is what a program may have: a descriptor as the generator writes it (tags differ,
arrays have a size) and values its structure can hold, of which no part is longer than a
32-bit length can tell. Left out: extensions, decoder callbacks, pointer fields, the
wording of errors, and the array of bits that `pb_decode_noinit()` keeps for required fields,
which is a set here: it ends after 64 fields, and a shift by all of its 32 bits, with exactly
32 or 64 of them, is undefined in C.

`SensorReports` is the callbacks and the three kinds of report: `AliveReport`, `PowerReport` and
`EventReport` poll the gauge (`Update`), turn values and errors into readings, and `transmit()`
sends them or does not (`sent`). What an application decodes of readings that were sent is the constant
operator `Arrives`, so that what the reports promise can be proved for any encoding.

`SensorNode` composes the reports with `Nanopb`, of which it has two levels, `Pb` on top of `Flat`,
as deep as its messages are; it takes them from `Nanopb_proof`, so that the theorems there hold
of each. The run gives `Arrives` the value `Arrived`, what is decoded of the bytes in the
send buffer. `OtherMessage` passes messages of any descriptor through the same encoder and decoder.

### WanHal

| state | code |
|---|---|
| `counter`, `currentState`, `switchOldState` | the fields of `Switch` |
| `ax`, `hasMoved` | one axis of the compass at the last poll, `hasMoved` |
| `clock`, `previousMillis`, `timePassed` | `millis()`, the fields of `Alive` |
| `valid`, `isHalInitialized`, `numTxRetries` | the same |
| `pc`, `caller`, `message`, `retCount`, `retVal` | position in `loop()`, `CheckAndAct()` and `sendMessage()`, their locals |
| `end` | `timeout` in `macTransmit()`, `start + timeout` in `expectString()` |
| `silence`, `waited` | history: ticks since the end of the last attempt to send, ticks of the wait under way |

An attempt is one turn of the loop in `sendMessage()`: `MacTransmit` prints the command, two waits
follow, for its "ok" and for the outcome, and `Return` is what `sendMessage()` makes of the code, its
`delay()` included. A wait is the loop of the code: the end is computed modulo the wrap, each pass
reads a line (`ReadAnswer`) or nothing for as long as a read lasts (`ReadNothing`), and `WaitOver` compares
absolute times. Any code may come, at any time or never. `AwaitCompass` is the loop in `readAcc()` and
`readMag()` that nothing ends. Left out: `initABP()` but for its outcome. The switch moves and bounces at any time. `numTxRetries` keeps what the code does with
it: a success of an alive message resets it, the retries of that message included.

### LineEditor, Console

`LineEditor` has no prompts, no time and no configuration: cells are typed and read, a line
ends at a CR or a LF, complete lines are executed in order, each once, and what has not been
executed may be given up. `Console` is the program:

| state | code |
|---|---|
| `params`, `needsCommit`, `flash` | the configuration in RAM and in flash |
| `pc` | position in `handleBootUpCommands()`, `showBootMenu()`, `readLine()` and `commit()` |
| `line`, `seenCR`, `lfTimeout` | the locals of `readLine()`; whether the 50 ms for a LF are over |
| `idle`, `needPrompt`, `nrPrompts` | ticks until `ts_max`, the same |
| `inbox` | typed and not yet read |
| `executed`, `unmarked` | history: the lines executed, whether an EUI was set without a mark |
| `typed`, `resets` | bounds: how much was typed, how many resets |

What is typed are cells: a line end, a backspace, NUL, or a text that is a whole prefix,
number or key. `CommandTable` is the table `args[]` with the width of every number;
`Value` cuts a number down to it. 32 bits are 2^30 here, TLC's integers being no wider.
`Reset` may come between erase and write. A CR ends a line of `LineEditor` at once, while
`readLine()` first waits for a LF: until then the line is complete and not executed. Left
out: what is shown.

### Bridges

One module for seven programs: `program` says which, and `Prefetch`, `NoAck`,
`Acknowledged` and `Start` have their differences. Two of them never consume: `client-ftp` uses
`queue` before it is assigned and throws, `ftpimp` never registers the function that would
consume.

| state | code |
|---|---|
| `process`, `connected` | not running, running, consuming; connected to the server |
| `databaseTodo`, `database` | the connector's requests under way, whether its database is there |
| `ready`, `unacked`, `session` | external: the queue, deliveries not acknowledged, the channel's session |
| `uploads`, `whole`, `stored` | uploads under way, done but not yet answered, what the servers have |
| `published`, `failed`, `heard`, `abandoned`, `early` | history |

An upload can be stored and its answer lost; a lost connection to the broker brings
messages back while their uploads go on; a crash loses the uploads. Acknowledgments over an earlier
session do nothing.

### Ublox

| state | code |
|---|---|
| `parser` | `state_`, `Id_`, `plLength_`, `payLoad_`, the two checksum bytes |
| `stage`, `delegate` | position in `setGpsActive()`, whether `funcNavPvt` is set |
| `bytes`, `found` | left to read in the loop under way, `wait()`'s result |
| `wire`, `beyond` | already requested and not yet parsed: bytes of frames, and bytes read beyond their end |
| `line`, `avail`, `commands`, `pvtOn` | external: the receiver's bytes, how many of them are ready behind those requested, what it has to answer |
| `answers` | external: the bus works |
| `frames`, `taken`, `swallowed`, `cut`, `padded`, `faults` | history and bounds |

A byte on the line is a place in a frame (the frame's number and an index), of which the parser
sees the value (`Value`). The three loops that read are one action with `stage` as the difference.
The receiver acts between the loops only: a loop knows at its start how much it reads.
Payloads are two bytes long, requests four. Left out: bytes altered on the
bus, the time pulse parameters, which nothing uses, and the watchdog.


## 4. What the runs check

| run | instance | distinct states | checks |
|---|---|---|---|
| `node_loop` | 2 switches, 1 accelerometer line, alive mode, 1 reset | 348,368 | `NoChangeForgotten`, `AlarmMirrored`, `SleepsWhenIdle`, `FlagServed` |
| `uplink_acked` | confirmed, ABP, prompt module, 1 repeat, 3 reports, 2 power losses, 1 watchdog reset, 2 charge offsets | 1,384,644 | `TrueMeansSent`, `FlashHoldsRam`, `OnlyPowerLossDeprovisions`, `RecordedNeverReused`, `ReportsDelivered` |
| `uplink_otaa_slow` | unconfirmed, OTAA, slow module, 1 repeat, 2 reports, 1 of each reset | 275,184 | `TransmitTerminates` |
| `rtc_timer` | 3 slots, a configuration without and one with an alternative span, 5 minutes of a 4-minute day, 1 clock set | 155,569 | `TableMatchesConfig`, `NoLastTimeAhead`, `NeverTooOften`, `OneReportPerUpdate`, `DueIsServed`, `SkippingEnds` |
| `zero_interval` | a default interval of 1 and one of 0, 2 minutes | | `SkippingEnds`, violated |
| `rn2483_link` | 3 calls and 1 missed limit between wake-ups, payloads shorter and longer than the buffers | 534,607 | `PromiseKept`, `NoTableOverrun`, `DownlinkOnce`, `CallReturns` |
| `gps_report` | ring of 4, 5 fixes, 5 reports, a clock of 6 | 117,516 | `PositionsSent`, `FixIsOfThisReport`, `TimeToFixIsElapsed`, `RingKeepsLatest`, `AcquisitionEnds` |
| `sensor_node` | 2 units of charge, 2 mishaps, 6 descriptors | 12,042 | `ArrivedChargeIsTotal`, `ChargeNeverFalls`, `FaultsReported`, `RoundTrip`, `UnknownSkipped` |
| `wan_hal` | 2 samples to debounce, interval 3, 1 retry, limits of 1 and 3, `millis()` of 6 values | 388,928 | `NoSilence`, `SwitchSettles` |
| `console` | 4 cells typed, 3 prompts, 1 reset | 265,717 | `LinesAsTyped`, `RunsWhatIsStored`, `MenuEnds` |
| `bridges` | the seven programs, 2 messages, 2 faults | 91,182 | `LostByFailureOnly`, `NoneForgotten` |
| `ublox` | 3 frames in pieces of 3 bytes, 1 failure of the bus | 679,345 | `TakenAsSent`, `NoneSkipped`, `ReadingEnds` |

- `NoChangeForgotten`: a switch's movement nobody sampled yet still has its flag up or
  its interrupt pending, unless it fell into the report of that very switch
  (clearing the flag after `transmit()` loses it) or was cut off by a reset. The run
  shows that this window is the only one.
- `AlarmMirrored`: `powerlossSend` equals the last alarm the network got, except
  after a lost report or a reset.
- `SleepsWhenIdle`: a pass no handler disturbed ends in WFI (in alive mode; in GPS mode an edge of a
  switch keeps the node awake).
- `FlagServed`: every raised flag is eventually served, although the test in
  `systemSleep()` omits the accelerometer's flags and although an interrupt may slip in
  between the test and WFI; the minute alarm bounds both.
- `TrueMeansSent`: what a caller may conclude from `transmit()`.
- `FlashHoldsRam`: at rest a reset loses neither counters nor keys nor the over-the-air settings, even
  though the commit of the latter is skipped. It does lose a charge offset that no commit has
  followed yet, which is why the property is not about that field.
- `OnlyPowerLossDeprovisions`: the watchdog never finds the flash half written.
- `RecordedNeverReused`: no frame goes out under a counter a commit has recorded, though
  the boot message sets the module's counters to zero and saves that first. It
  needs a module that answers in time: a counter query that times out stores -1.
- `ReportsDelivered`: `Uplink` implements `ReportDelivery` (refinement): besides, a report goes
  out no more often than its repeats allow, each time under a higher counter, and never
  again once its result is decided; and nothing but the answer to a report that arrived, or a reset, changes the settings.
- `TransmitTerminates`: `transmit()` returns or a reset ends it.
- `TableMatchesConfig`: whenever the table is cleared and refilled, under a walk or not,
  it holds each event the parameters ask for, once.
- `NoLastTimeAhead`, `NeverTooOften`: neither catching up on missed periods nor setting the
  clock makes an event believe it ran in the future (it would stay silent until
  then) or run more than once per period. The exception is a clock set back
  behind the time a walk goes by, which it then uses for the rest of the walk.
- `OneReportPerUpdate`: a walk sends one fix report at most. The two fix events exclude
  each other by the time of day, each reading it anew, so a span that begins or
  ends while a report is on its way is the exception.
- `DueIsServed`: a due event runs or is scheduled anew. Being put off again and again by
  the loop's reports is what `resetRtcTimerEvents()` is for, and allowed.
- `SkippingEnds`: the catch-up loop terminates, for intervals above zero.
- `PromiseKept`: `Rn2483Link` implements `DriverPromise` (refinement): with every kind of answer
  and of call, a result is that of its own command. After one missed limit it may be that
  of another, and `wakeUp()` alone puts an end to it. That the module then owes no answer any more is
an assumption on the module, which the driver makes as well.
- `NoTableOverrun`: while no limit is missed, `macTransmit()` never looks up a text that is
  not in the table. After one it does, and the code then reads past the table's end.
- `DownlinkOnce`: a downlink is given to the caller once and is the beginning of what the
  network sent, late or not; no byte of an earlier, longer one is left in the buffer.
- `CallReturns`: each call ends, whatever answers are late. It does not say when: the time limits are
  absolute values of `millis()`, so that near its wrap a limit may be 49 days away (section 5).
- `PositionsSent`: what is sent has the report's own fields, and after them the positions of the
  latest fixes: as many as are configured and known, the latest first, none twice and none left out. The time to fix is the field that is not claimed: the first
  earlier record overwrites it. Once the ring is full, `peek()` may read outside of it, and the
  property claims the report's own part only.
- `FixIsOfThisReport`, `TimeToFixIsElapsed`: with a time to fix, the position is new, position
  and navigation fields are of one fix, and the time is the one that passed, however
  the clock was set meanwhile.
- `RingKeepsLatest`: the ring implements `LatestFixes` (refinement), full or not.
- `AcquisitionEnds`: the node comes back to the loop if the receiver sends nothing at all.
- `ArrivedChargeIsTotal`: the charge the application decodes is what the chip has counted, over
  several batteries, as long as no alert and no failed read was taken for a loss of
  power (`status_code && 1 == 1` is true for every alert) and the node was not reset.
- `ChargeNeverFalls`: the node's sum never falls but by a reset, even then.
- `FaultsReported`: what arrives can be decoded and is what was sent, has each sensor once, and of
  the gas gauge either three values or three errors (the HTU21DF has no error to tell of: its -1 is a
  value).
- `RoundTrip`, `UnknownSkipped`: decoding gives back what was encoded and uses up the bytes; a
  receiver with an older descriptor finds all the fields it knows.
- `NoSilence`: from the end of an attempt to send, a node with a radio begins the next one within the
  alive interval and a pass of the loop, though switch and move messages put the alive message off, and
  though attempts may last until the clock has come round. The exception is a compass that has stopped the loop.
- `SwitchSettles`: a switch that stays where it is becomes the state told of. There are two exceptions: a
  compass that does not answer, and a wait of the driver that has outlasted its limit (`Overdue`,
  section 5); it fails without either.
- `LinesAsTyped`: `Console` implements `LineEditor` (refinement): each line typed is executed once,
  in order, whatever ends it, CR LF counts once, and a timeout gives up only what was not executed.
- `RunsWhatIsStored`: the node runs with a configuration that checks and that the flash holds, except
  for an EUI set by "EUI", which is not marked to be committed.
- `MenuEnds`: with nobody at the console the menu ends, except that it waits for ever for a
  configuration that does not check.
- `LostByFailureOnly`: what the broker has forgotten was stored or reported as failed, or was handed
  out without acknowledgment.
- `NoneForgotten`: while a process consumes, each message the broker has is uploaded or reported as
  failed, also behind a message that is never acknowledged and over lost connections. When the
  process has ended nothing is claimed: nothing starts it again.
- `TakenAsSent`, `NoneSkipped`: the delegate gets the messages that were sent, once, in order and
  unaltered, but for bytes that `setPortConfigurationDDC()` overwrote; and all that were
  read, but for those `wait()` swallows, those of which bytes were thrown away, and those that
  follow one of these while each frame ends in 0xB5. Neither holds once bytes read beyond
  the end fell into a frame.
- `ReadingEnds`: a loop that reads comes to its end once the bus works again.

Bounds. `NodeLoop`: two switches are what the board has, and are needed for one to move while
the other is served; one accelerometer line stands for two, which are handled
alike. One reset separates before and after; what follows a second differs in
nothing the state keeps. `Uplink`: three reports and two power losses let a counter be
recorded, used past the record, lost, restored and used again, and reach the end
of the counters at `MaxCnt` = 3; two charge offsets are one that is in flash and one that is not. `RepeatCount` = 1 has a first, a middle and a last
attempt. A `Timeout` result is only chosen while a watchdog reset is left, since
it always ends in one. `RtcTimer`: three slots hold one event of each kind, so that an event
left behind by a clear makes the next `every()` fail; five minutes of a day of four contain a
span's begin, its end and the next day; one clock set may go in either
direction. `Rn2483Link`: one missed limit shifts all later answers, and three calls are enough for
a late answer to reach the call after next. `GpsReport`: five fixes fill a ring of four and
replace the oldest; a clock of six values wraps during an acquisition of three.
`GasGauge`: two mishaps let a battery be changed twice, or once with an alert or a
reset. `Nanopb`: integers of two and four bytes have the widths that differ, one of them beyond a single
varint byte; the descriptors have every type of field, alone, repeated and in a oneof.
`WanHal`: a clock of 6 wraps within two intervals or two attempts, and a read of 2 passes over both
the end of a wait and the wrap; in the firmware a read lasts 1 s, the limits are 0.12 s and 60 s and
the interval is 60 s, and what counts is which of them is the longer. `Console`: four cells are two commands with their line ends, or one with an argument. `Bridges`:
two messages let one wait behind the other, two faults let a recovery fail as well. `Ublox`: pieces
of three bytes cut frames of ten in every part; three frames are one before, one
in and one after a fault.

Fairness. `NodeLoop`: the processor executes and takes pending interrupts (weak fairness
of the two together), and the RTC alarm fires every minute, as programmed in
`initRtc()`; nothing is assumed of switches, sensors or the network. `Uplink`: the
processor executes, and a delay beyond the watchdog's period ends in its reset.
`RtcTimer`: the processor executes, and a report returns (`TransmitTerminates`). `Update` has
strong fairness, because the loop's reports disable it for a while again and
again: the loop looks at `minuteFlag` in every pass, whatever it reported in it, and
`NodeLoop`'s `FlagServed` is what says that a raised flag is seen. `Rn2483Link`: processor and module
go on; a limit may be missed or not. `GpsReport`: time goes on and the processor executes, the
receiver need not send. `WanHal`, `Console`: the processor executes and time passes; nothing is asked of
switch, radio module, compass or operator. `Bridges`: requests and uploads are answered, and the
broker delivers (strong fairness, since prefetch disables it while another message is under way);
nobody need start a process, the first time or again. `Ublox`: the bus answers again,
the bytes of a request are parsed, and a request made again and again is answered.

Deadlock is not checked in `Uplink` and `RtcTimer`, which stop when their reports or their time are
used up, in `Console`, which ends with the node running, in `Bridges`, where everything may have been
uploaded, and in `Ublox`, whose receiver stops after `MaxFrames`.

## 5. Findings

One disagreement of the code with its own words is shown by a run: a default fix interval of 0,
which both the over-the-air record and the console accept, makes the catch-up loop in
`RTCEvent::update()`, which is to "Skip all the events that are in the past", endless
(`zero_interval`). The watchdog, not modelled there, resets the node, which reads the 0
from flash and hangs in the first `update()` again.

Another is an exception of a property. The "hard timeout" of `macTransmit()`
(`SodaqWAN/Sodaq_RN2483.cpp:372`) is none within a second of the
wrap of `millis()`: a read that begins before the end of the wait and gives up after the wrap finds
the clock below the end again (`Overdue` in `WanHal`). With a module that stays silent the loop goes on until
the clock comes round, 49 days later, or longer if a read passes over the wrap again; and the SodaqWAN
has no watchdog.

What the properties had to except, because the code behaves so, is said with each of them above and
listed with its line under "hazards" in `PROJECT.json`. The ones with most effect: in GPS
mode one switch edge keeps the node awake for ever; a compass that does not answer stops the SodaqWAN;
a bridge that has ended is not started again; a movement during a switch's own report is
lost; a report is not repeated after a `Timeout`; a late answer of the radio shifts all later ones; the
earlier fixes are copied one byte too early; a full ring is read outside its array; every
alert of the gas gauge counts as a change of battery.

## 6. What is proved

The theorems below hold for every value of the constants that meets the
named assumptions (any widths of bytes and words, any descriptors and messages, any number of switches, lines, counters, repeats, reports,
resets, slots, messages and faults, any ring size, any downlinks and buffer sizes, any cells and lines
typed, any payloads and sizes of requests, and any intervals, limits, delays, spans and widths of clocks):

| theorem | property | argument |
|---|---|---|
| `Device_proof!TypeCorrect` | `TypeOK` | `TypeInv`: with `CurServed`, the switch at hand exists where its flag is used |
| `Device_proof!ChangesKept` | `NoChangeForgotten` | `ChangeInv`: a movement during the switch's own report is marked missed (`ReportedInv`), so clearing the flag afterwards forgets nothing else |
| `Device_proof!AlarmKept` | `AlarmMirrored` | `AlarmInv`: while a power report is under way `powerlossSend` is what it says |
| `Device_proof!IdleSleeps` | `SleepsWhenIdle`, without GPS | `IdleInv`: the flags the pass has been past are down, as long as no handler ran |
| `Uplink_proof!TypeCorrect` | `TypeOK` | `TypeInv`: with `TriesLeft`, an attempt has a report and a try left |
| `Uplink_proof!FlashKept` | `FlashHoldsRam` | `HoldInv`: flash and RAM agree on all but the charge offset, except between reading the counters and the end of the write they force |
| `Uplink_proof!KeysKept` | `OnlyPowerLossDeprovisions` | `KeysInv`: RAM and flash hold the keys until a power loss |
| `Uplink_proof!TrueIsSent` | `TrueMeansSent` | `SentInv`: once an attempt has succeeded the report is in `sent` (and in `heard`) |
| `Uplink_proof!NeverReused` | `RecordedNeverReused`, module in time | `UpInv`: in service the module's counter is at least what has been recorded |
| `Uplink_proof!RepeatsKept` | `RepeatsBounded`, which `ReportsDelivered` says of each call | `RepeatInv`: no more frames of a report than attempts so far |
| `Uplink_proof!DeliveryKept` | `ReportsDelivered` | refinement: attempts map to frames, the module's success or the last failure to the decision, a commit to stutters; needs `SentInv`, `RepeatInv` and `FreshInv`, that the module's counter is above those the report has gone out under |
| `RtcTimer_proof!TypeCorrect` | `TypeOK` | `TypeInv`: with where the walk's slot can be (`SlotPlaced`) and what each slot holds (`LayoutInv`) |
| `RtcTimer_proof!TableKept` | `TableMatchesConfig` | `TypeInv`: a refill puts the default event first, the alternative second and the sleep extension after them (`RefillLayout`) |
| `RtcTimer_proof!NotAhead` | `NoLastTimeAhead` | `TimeInv`: also the walk's time is behind the clock |
| `RtcTimer_proof!RateKept` | `NeverTooOften` | `RateInv`: the last time keeps pace with the runs, a period ahead in the catch-up loop |
| `RtcTimer_proof!OneReport` | `OneReportPerUpdate` | `ReportsInv`: after a report the walk is past every slot whose event would report |
| `Sensors_proof!TypeCorrect` | `GaugeTypeOK` | `GaugeInv`: with `Covered`, below |
| `Sensors_proof!NeverFalls` | `ChargeNeverFalls` | `Covered`: without an alert the next charge cannot be smaller, since the chip counts on from what the offset and the last count make; after a failed read it begins again at the offset |
| `Sensors_proof!TotalKept` | `ChargeIsTotal`, of the gauge alone | `Exact`: while nothing passed for a loss of power that was none, offset and count make what was drawn |
| `Sensors_proof!FaultsSent` | each sensor once, value or error, of what is sent | `Told`: what was sent last says of the gauge what its last `Update()` left; the lemmas go through the readings of each report |
| `Sensors_proof!FaultsTold` | `FaultsReported`, if what arrives is what was sent (`Arriving`) | `FaultsSent` |
| `Sensors_proof!ChargeArrives` | `ArrivedChargeIsTotal`, if what arrives is what was sent | `ReportsInv`: `Exact` goes on to hold through reports and commits, and `Told` carries it over to the reading |
| `Nanopb_proof!MessageBack` | the level below gives back its messages (`SubGivesBack`), then so does this one (`GivesBack`) | below |
| `Nanopb_proof!AlwaysGivenBack` | `GivenBack`, under `SubGivesBack` | `MessageReceived`, with a receiver that has the sender's fields |
| `Nanopb_proof!AlwaysSkipped` | `SkippedBy`, under `SubGivesBack` | `MessageReceived`, with a receiver that has all but one of them |
| `Sensors_proof!AllGivenBack` | `RoundTrip` | `AlwaysGivenBack` of `Pb`; `SubGivesBack` is `MessageBack` of `Flat` (`PbLevel`), and of `Flat` it holds because messages without submessages have none below (`FlatLevel`) |
| `Sensors_proof!AllSkipped` | `UnknownSkipped` | `AlwaysSkipped` of `Pb` |
| `Sensors_proof!ReportsArrive` | `FaultsReported` and `ArrivedChargeIsTotal`, if the readings fit (`Fits`) and `Arrives` is `Arrived`, as in the run | the buffer with the readings one by one is the encoding of the one message of all of them (`BufferIs`), which is given back; so `Arriving` holds, and `FaultsTold` and `ChargeArrives` apply |
| `Sensors_proof!ReportedNeverFalls` | `ChargeNeverFalls`, with reports | a report does a step of the gauge, or only a commit (`ReportsStep`) |
| `Sensors_proof!RingTypeCorrect` | `RingTypeOK` | the indices stay below the size and the count tells how many places are in use |
| `Sensors_proof!LatestKept` | `RingKeepsLatest`, for the ring alone | refinement: a push maps to a step of `LatestFixes`; lemmas on remainders shift each place by one |
| `Sensors_proof!ReportTypeCorrect` | `TypeOK` | `ReportInvariant`: with `OwnFix` and `Timed`, below |
| `Sensors_proof!FixKept` | `FixIsOfThisReport` | `OwnFix`: what ended an acquisition came in since it began |
| `Sensors_proof!TimeKept` | `TimeToFixIsElapsed` | `Timed`: from `startTime` to the clock it is what really passed, `startTime` being moved with the clock |
| `Sensors_proof!FixesKept` | `RingKeepsLatest` | refinement: every step of the report pushes once or leaves the ring alone |
| `Sensors_proof!LatestFixesSent` | `PositionsSent` | `SendInv`: as the buffer is filled its cells are the report's own fields, then the ages of the ring in turn (`AgesInPlace`), each over the cell `PositionCells` names; whatever ends an acquisition is already the ring's latest place (`OwnIsLatest`) |
| `Radio_proof!LinkInvariant` | `LinkInv` | every program is `WellFormed` and a call has a known rest of it (`Programmed`, `Idle`); as long as no limit is missed, the lines on the way are exactly the answers that rest will read (`InSync`); what was heard is in the buffer up to its end (`PacketKept`) |
| `Radio_proof!TypeCorrect` | `TypeOK` | `LinkInv` |
| `Radio_proof!OverrunIsLate` | `NoTableOverrun` | `InSync`: the line read is an answer to the command it is read for, and each of those is in `errorTable` |
| `Radio_proof!DownlinkGivenOnce` | `DownlinkOnce` | `PacketKept`: the bytes in front of the first zero are those heard last, and no call ends well with a packet that was taken |
| `Radio_proof!DriverKeepsPromise` | `PromiseKept` | refinement: the first step of a call maps to its start, the last to its return, and the steps between stutter; `InSync` gives the result, and after a missed limit any result is allowed |
| `Device_proof!UbloxInvariant` | `UbloxInv` | the line is the rest of the frames without a gap (`Gapless`), and the parser has been given exactly what is before its first byte in that frame, with the sums of these bytes (`InStep`, `At`); or bytes were thrown away, and it looks for a beginning (`Lost`) |
| `Device_proof!UbloxTypeCorrect` | `UbloxTypeInv` | `UbloxInv` |
| `Device_proof!DelegateAsSent` | `TakenAsSent`, while no read beyond the end fell into a frame, and nothing was thrown away or no payload holds 0xB5 0x62 (`NoInnerSync`) | `UbloxInv`: at the last byte of a frame the sums are its checksum (`MessageFacts`, `LastByte`), and a parser that looks for a beginning hands nothing on; `TakenBehind`: what was handed on is of frames before those on the line, which gives order and once |
| `Device_proof!NoMessageSkipped` | `NoneSkipped`, nothing thrown away or `NoInnerSync` | `UbloxInv`: a parser is in step again at the first byte of a frame unless the frame before ended in 0xB5 (`Missed`) |
| `Console_proof!StoredRuns` | `RunsWhatIsStored` | `StoredInv`: what is not in flash is marked (`Marked`), and nothing changes the parameters between the test and the end of the write (`Checked`) |
| `Console_proof!LinesExecuted` | `LinesAsTyped` | refinement: every step of the console is one of the editor's or leaves it alone; needs `CellsTyped`, that the cells of the line and of the input are cells one can type |
| `Bridges_proof!LostOnlyByFailure` | `LostByFailureOnly` | `BridgesInv`: each message the broker no longer holds is accounted for, uploads carry on what was delivered (`KnownMessages`, `Accounted`, `Servers`, `Connector`) |
| `Radio_proof!LoopInvariant` | `WanInv` | at each place of `loop()` but the compass's wait a bound on the time since the last attempt, by what `millis()` says has passed of the interval |
| `Radio_proof!NeverSilent` | `NoSilence` | `WanInv`: what the code subtracts is what has passed since the attempt, or more (`KeepsUp`); it comes round only if the attempt lasted that long, and the silence has then just begun |

Each theorem is proved from three facts: the initial states satisfy the invariant, every step
preserves it (one case for each action), and it implies the property; the temporal step joins
them. For a refinement the third fact is that every step maps to one of the abstract specification or to a
stutter. An invariant that TLC checks on a small instance is seldom inductive, which is why the table
names what had to be added. A property with a condition ("without GPS", "module in
time") is proved under that condition on the constants, and checked under it as well.

The proofs about the codec go from the bytes up. `Holds(b, s, x)` says that the stream s of the
buffer b has the bytes x next, and each lemma is of the form: a stream that holds what the encoder
wrote of a thing is read to the end of it and gives the thing, by the part of the decoder that
reads it (or is at the end of it, by the part that skips it). That is shown for varints, by induction over
the digits; for fixed numbers and strings; for submessages, from `SubGivesBack`; for a packed array, by
induction over its elements; for one record, tag and value; for the records of a field, in turn
(the oneof is emptied when it is entered, `Store`); and for the fields of a message, by induction over the
turns of the decoder's loop (`MessageReceived`). The receiver of `MessageReceived` has any part of the
sender's fields, in any order: with all of them it is the round trip, with all but one what a newer
sender and an older receiver do. Although the prover cannot instantiate the library's induction theorems,
it can follow an induction that is stated of a set (`NatInd`, proved from the well-foundedness of the
numbers), and that a recursive function of the codec exists, which TLA+ does not give by itself, is
proved by such an induction as well.

`Fits` is the one condition left between sensors and application: each value is within the 32 or
64 bits of its field, and the report's bytes within the send buffer. In the firmware the longest
report has six readings of at most ten bytes, in a buffer of 128, and the only value that grows is the
charge: `chargesensor_callback()` casts thousandths of a mAh to `int32_t`, which is enough for 2147 Ah
and undefined beyond. In the run the buffer's size and the widths are such that `Fits` holds too; a
smaller buffer, where the readings that did fit are sent alone, breaks `FaultsReported`.

`NoSilence` needs of the constants that the interval is shorter than the wrap of the clock. That no
attempt lasts as long as the wrap is not assumed, and cannot be, since a wait may be `Overdue`.

Only model-checked:

- liveness (`FlagServed`, `TransmitTerminates`, `DueIsServed`, `SkippingEnds`, `CallReturns`,
  `AcquisitionEnds`, `SwitchSettles`, `MenuEnds`, `NoneForgotten`, `ReadingEnds`): it rests on
  fairness and `ENABLED`, which the proof system does not handle;
- messages nested deeper than the two levels of `SensorNode`: `MessageBack` takes the proof from any
  level to the next, but a depth given by a variable would need the recursive operator that the
  prover does not support;
- that the readings of a report fit (`Fits`), which depends on the values of the constants: the run
  implies it, since `FaultsReported` fails of a reading that is cut off;
- `TakenAsSent` for payloads that hold 0xB5 0x62 after bytes were thrown away: the parser may
  take the place for the beginning of a frame, and hands on what follows if the sums agree. The
  theorems about `Ublox` say what excludes this, `NoInnerSync`; the payloads of the run have it.

## 7. Not modelled

- *Vendored code*: `RTCZero`, `MyTime` and the Arduino core, which the models use by what they do
  (the calendar, the alarm, `millis()`, the serial line).
- *Device registers*: the set-up of the LSM303, of the HTU21DF and of the ports, and the conversion of
  codes into units. These are tables without state; only the hardware could contradict them.
- *The LED, and what the console shows*: no behaviour depends on them.
- *Parts nothing uses*: the time pulse parameters of the u-blox driver, `resetAll()` and events with a
  repeat count in the timer, the driver's test sequence, and nanopb's extensions, decoder callbacks
  and pointer fields.
- *Memory accesses without control*: `convertAndCheckHexArray()` writes the terminating zero one place past an
  array of the exact size (`SodaqOneDevice.ino:872`); `getBatteryVoltage()` gives 255 for a
  voltage somewhat below 3 V (`SodaqOneDevice.ino:355-361`); a read of the radio's driver that gets nothing
  writes a zero in front of `inputBuffer` (`Sodaq_RN2483.cpp:390`); a UBX payload longer than 256
  bytes is written past the parser's buffer. Each is seen at its line. What a write
  outside an object changes depends on the layout of memory, so that a model could only repeat the sentence;
  the lookups and peeks that *read* outside of their tables are modelled.
- *Wifi capture*: a pipe from a packet sniffer to a broker; *cluster start*: a shell script of one
  pass; *Tor*: the generation of a configuration file. None keeps state between two steps.
- *Containers*: Dockerfiles, compose files and service configurations have no behaviour of their own.
