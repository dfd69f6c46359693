# A TLA+ development of the DEBIE-1 DPU software

DEBIE-1 is a space instrument that counts particles. Sensor units (SU) are hit, a hit trigger
interrupts the data processing unit (DPU), the event is measured, classified and stored, and the
stored events are sent to the spacecraft on telecommand. This directory holds TLA+ models of the
DPU software in `src/c_src/code`, the TLC configurations that check them and theorems about them
that TLAPS checks. The Java port under `src/java` is a translation of the same C code.

The repository runs the code single-threaded, as a timing benchmark. The code itself is written for
the pre-emptive kernel RTX-51: it declares tasks, priorities, interrupt services, mailboxes and
critical sections, and explains in its comments why they are enough. The models take the code as
it was written for: **pre-emptive tasks and interrupts, atomic only where the code makes it so.**

| Process | Priority (`kernobj.h`) | Code |
|---|---|---|
| TC interrupt service | interrupt | `tc_hand.c` `TC_InterruptService` |
| TM interrupt service | interrupt | `telem.c` `TM_InterruptService` |
| Hit trigger task | 3 | `measure.c` `HandleHitTrigger` |
| TC execution task | 2 | `tc_hand.c` `HandleTelecommand` |
| Acquisition task | 1 | `measure.c` `HandleAcquisition` |
| Health monitoring task | 0 | `health.c` `HandleHealthMonitoring` |

A task runs only while every task above it waits. `DISABLE_INTERRUPT_MASTER` and
`ENABLE_INTERRUPT_MASTER` bracket critical sections; they do not nest, so that a function that uses
them ends the critical section of its caller. A step of a model is a stretch of code that cannot be
interrupted, or in which an interruption makes no difference: from one access of the shared variables
to the next.

## Inventory

**Science Data File and event queue** (`telem.c`). State: `event_queue` and its length,
`science_data` (records, `event_counter`, checksum), `free_slot_index`, `SU_hits`. Operations:
`GetFreeRecord`, `RecordEvent` with `FindMinQualityRecord` and `IncrementCounters`, `ClearEvents`.
The acquisition task writes, the TM interrupt reads, the TC task clears. Hard: telemetry starts and
ends at any moment of an acquisition, the queue is full, a reset in between. Correct when no accepted
hit is lost, doubled, torn or cleared unsent, and counters and checksum count what is stored.

**Telecommand handling** (`tc_hand.c`). State: `TC_state`, the mailbox, `previous_TC`, the timeout
and the interrupt mask. The TC interrupt service changes `TC_state` for telemetry at once and mails
everything to the task, which handles it later, in whatever state there is then. Hard: commands
faster than the task, a timeout that races a command, a `TM_READY` that is mailed twice, blocks that
stop in the middle. Correct when the program never becomes deaf, telemetry ends when all is sent, and
only executed commands are ignored.

**Memory patch and dump** (`tc_hand.c`, `hw_if.c`). The address in two words, a block of words and a
check word; a dump through the TM interrupt. Correct when a block ends, whole or by timeout.

**Status register telemetry** (`telem.c`). A telecommand starts it at a register, the next one
aborts it.

**Sensor units** (`measure.c`, `health.c`, `hw_if.c`). State: `SU_state`, the power bits,
`self_test_SU_number`, the mode. Telecommands switch units on and off, start self tests and the
acquisition; the health task carries switching and tests out over several rounds; failures switch
units off. Hard: a telecommand for a unit that the health task is working on. Correct when power and
state agree, one unit at a time is tested, an off unit stays off, and everything that began ends.

**Hit trigger and acquisition** (`measure.c`). State: the trigger line with its flag and enable
bit, the hit budget, peak detectors, delay counters, `ADC_result`, the acquisition mailbox. Hard: an
edge of the line is lost unless the line has been raised, and three tasks raise it; test pulses and
particles look the same. Correct when a low line is always known to somebody and an event is one hit.

**Health monitoring** (`health.c`). State: the counters of the rounds, the hit budget, the conversion
in progress, the watchdog signal. Rounds once a second, a period of ten, each with its duties: voltages,
temperatures, currents, self test, the watchdog. Hard: the task has the lowest priority, and hits take
the A/D converter from it at any statement. Correct when a disturbed conversion is never taken for a
result, a failure switches off and reports what it should and nothing else does, and the watchdog is
served.

**Status registers** (`telem.c`, `health.c`, `tc_hand.c`). Error status, mode status, software error
and the status of each unit: bits that three tasks and the TC interrupt service set and clear. Correct
when no update is lost.

**Code checksum** (`health.c`, `hw_if.c`). State: the program in SRAM1, `reference_checksum`,
`code_checksum`, `code_not_patched`, `checksum_count`. A piece of the code is added up in every round and
the sum compared once a period, while `PatchCode` changes the code. Correct when a legal patch causes no
reset and a corrupted program does.

**Boot and resets** (`health.c`, `hw_if.c`, `debie.c`). The reset class decides what is tested, copied
and kept: a watchdog or checksum reset keeps the science data, a warm reset the patched program. Correct
when the program runs on initialised data, whatever sequence of resets came.

**Event classification** (`class.c`, `classtab.c`, `measure.c`). The delays of an event, a class from a
table of limits, a quality number. `ClassifyEvent` reads one setting after the other, and telecommands
change them. Correct when class and quality are those of one set of settings, and the quality numbers
keep the order that the replacement of events relies on.

**Kernel** (`taskctrl.h`, `kernobj.h`, `msg_ctrl.h`, `isr_ctrl.h`). RTX-51 is not in the repository;
mailboxes, waits and priorities are modelled as the code uses them.

**Not the program:** the C harness, start-up code and register stubs of the benchmark hosts
(`harness/`, `intel/`, `arm7-*/`), the Java port with its harness and simulators, and the build tool
`ReplaceEnums`.

`PROJECT.json` lists these with their status, and under `hazards` each place where something hard to
test can go wrong, with the property that watches it or the reason why none does. A property is named only where it is
checked with the very overlap that the hazard describes; a hazard that the program does not survive names
none, or only what is left, and its note says which properties exclude the case.

## Plan

| | Modules | What | State |
|---|---|---|---|
| 1 | `ScienceData`, `EventStore` | queue, file and telemetry; refinement of an abstract store | done, safety and refinement proved |
| 2 | `SensorUnits`, `UnitLifecycle` | switching and self test; refinement of a life cycle | done, safety and refinement proved |
| 3 | `TcHandler` | telecommands, mailbox, timeouts, memory blocks | done, safety proved |
| 4 | `HitTrigger` | trigger line, budget, hit to event record | done, safety proved |
| 5 | `CodeMemory` | boot of every reset class, memory mode, patches, the checksum cycle | done, safety proved |
| 6 | `StatusRegisters`, `HealthMonitor` | updates of status bits; rounds, A/D retries, failures, watchdog | done, safety proved |
| 7 | `Classification` | delays, `ClassifyEvent` and the quality number, with telecommands between its reads | done, safety proved |

Every safety property that a run checks is now a theorem too. What remains worth doing: the composition of
`TcHandler` with `ScienceData`, where a second `TM_READY` meets the file it ends.

No module that is proved about has a RECURSIVE operator; constants have named assumptions, as weak
as the code allows.

## The modules

### ScienceData, EventStore, MCScienceData

| Model | Code |
|---|---|
| `StartAcquisition`, `Classify` | `HandleAcquisition`: `GetFreeRecord`, the record filled and classified |
| `RecordEvent` ... `CopyRest` | `RecordEvent`, one step per stretch between `ENABLE` and `DISABLE` |
| `FindMinQualityRecord` | the search, with interrupts enabled; its result is used after them |
| `ClearEvents`, `MoveEvents` | `ClearEvents`, on `TM_READY` in the TC task |
| `SendScienceDataFile` | `TC_InterruptService`, case `SEND_SCIENCE_DATA_FILE` |
| `TM_Send`, `TM_Ready` | `TM_InterruptService`: a word, or the mail when there is none left |
| `Boot(class)` | `Boot`: a soft reset clears, a watchdog reset keeps the queue |

A record is two halves, the quality number and class (written last when filled, first when copied)
and the rest; each half is the number of its hit, so that a torn record shows. The telemetry sends
halves. The checksum is the set of its bits.

`EventStore` knows nothing of queues and interrupts: hits are accepted, kept, postponed while a file
is being sent, or give way to better ones; a file that was sent delivers what was kept.
`MCScienceData` gives the refinement mapping: the hit of the acquisition is pending until it is stored or left
in the queue; the backlog is the part of the queue that will not be given up for it; a slot keeps the hit
that a copy to it, once decided, will bring.

`Overlap` names the two moments at which a telemetry may begin or end in a half-done acquisition:
`start_in_copy` (while a record is copied with interrupts enabled) and `end_in_acquisition` (between
`GetFreeRecord` and the copy). The code excludes neither. With `Overlap = {}` the promise of
`EventStore` holds; the runs with overlaps show what is left of it.

### SensorUnits, UnitLifecycle, MCSensorUnits

The health task is a place (`health.at`) in its round: the update of unit 1 to `NUM_SU`, then
`Monitor` with the measurement of round 7 and the channel tests of round 6. A telecommand is one
step, for only the hit trigger task preempts its task. `SetState(n, ...)` and `MayBe(n, ...)` are the
accesses `SU_state[n - SU_1]`: for `NO_SU` the index is -1, the test may go either way and the
assignment hits something else; `stray` remembers that.

`UnitLifecycle` is a unit as seen from the ground: off, starting, on, acquiring, test.

`Overlap` names the telecommands that come for a unit while the health task works on it:
`off_in_switching`, `off_in_self_test`, `test_in_self_test`.

### TcHandler

The TC interrupt, the TM interrupt and the task, which takes a mail, looks at `TC_state`, and then acts
in a step of its own. Telecommands are their addresses; the look-up table splits them into `Valid` and
`Invalid`. A word of a memory block may be anything, and `0xFFFF` looks like `TM_READY`.

The history `met` collects the overlaps so far: a telecommand `before_task` has handled the previous
one, and a telecommand `during_handling`. Nothing is excluded from the behaviours; a
property says which overlaps it does not survive.

### HitTrigger

The trigger line falls with a hit; the edge sets the flag if the trigger is enabled and is lost
otherwise; the line stays low until `ResetDelayCounters`. This is what the comments in
`START_ACQUISITION` and in round 0 of `Monitor` say of the hardware, which is not in the repository. At
the start the line may be low already, after a hit between `Boot` and the enabling of the trigger.

| Model | Code |
|---|---|
| `HandleWith`, `ExceedBudget` | `HandleHitTrigger` with and without budget left |
| `WaitMail` ... `EndAcquisition` | `HandleAcquisition`: results copied, counters read, resets after waits |
| `StartAcquisition`, `ClearFlag`, `ResetAndAcquire` | `START_ACQUISITION`, in the order of its comment |
| `SelfTestChannel` ... `RestoreSettings` | `SelfTestChannel` and `ExecuteChannelTest`, statement by statement |
| `NewBudget` ... `Rearm` | round 0 of `Monitor`, in the order of its comment |

A hit is a number: amplitudes and delays are the hits that peak detectors and counters have seen.
`overlapped` becomes true when something comes at a moment that the code does not expect:
`START_ACQUISITION` while a hit is handled ("Resetting takes place after acquisition" says
`ResetDelayCounters`) or the trigger is disabled, or a particle while a unit is under test, the
trigger disabled, or the acquisition task still resetting. Nothing is excluded; properties that need
quiet say `~overlapped`.

Two guards stand for time. Between two rounds (`WaitInterval`) the acquisition task becomes idle at
least once: a second passes, and a hit needs about 30 ms. Before a channel test (`PrepareTest`) it has
finished the one hit it can have had, since `ExecuteChannelTest` waits as often as it does.

### CodeMemory, MCCodeMemory

The program memory, from the start-up code to the checksum cycle.

| Model | Code |
|---|---|
| `Reset`, `HardwareReset` | `Reboot`, the watchdog and the power-up circuit |
| `Init_DPU` | `Init_DPU` with `InitCode_RAM` and `InitData_RAM`: tests, copy, memory mode |
| `Boot` | `Boot`: which data and which reference each reset class initialises |
| `MemoryPatch` | the last word of a code block in `MemoryPatch`, `PatchCode`, and its command |
| `StartPiece` ... `RebootUnlessPatched` | `CalculateChecksum`, a byte a step |
| `Upset` | none: a bit of SRAM1 that flips |

A byte is the set of its bits, so that XOR and its algebra are those of sets. `upsets` and `repaired`
keep apart what the ground wanted and what the memory holds; `patched_beside` says that SRAM1 has been
patched while the program runs from PROM; `interrupted` that the watchdog has ended a boot after
power-up. The data memory is the set of the tables that hold `garbage`.

### StatusRegisters, HealthMonitor, MCHealthMonitor

`StatusRegisters` has the functions that set and clear bits. An activity of a task is the list of its
operations; a read-modify-write is two steps (`BeginUpdate` with `DISABLE_INTERRUPT_MASTER`, `EndUpdate`
with the write), and `masked` keeps everybody else out between them. `reported` is what the registers
hold if nothing is ever lost.

`HealthMonitor` extends it by the health task. A call puts the duties of its body before what the caller
has left to do, so that `RoundDuties` reads like `Monitor`. A duty that is a function of its own in the
code is an action.

| Model | Code |
|---|---|
| `HandleHealthMonitoring`, `RoundDuties`, `NewPeriod` | `HandleHealthMonitoring`, `Monitor` |
| `ClearHit` ... `EndReading` | `Read_AD_Channel` and `Convert_AD`, between two looks at `confirm_hit_result` |
| `HandleHitTrigger` | the hit trigger task, one step: it takes the converter if there is budget left |
| `StoreTemperature`, `TemperatureFailure` | `MeasureTemperature` |
| `StoreVoltage`, `MonitorVoltages` | `MeasureVoltage`, `SelfTest_SU`, `Monitor_DPU_Voltage`, `Monitor_SU_Voltage` |
| `CheckHighVoltage`, `CheckLowVoltage`, `LowVoltageFailure` | `HighVoltageCurrent`, `LowVoltageCurrent` |
| `ServeWatchdog` | `SET_WD_RESET_HIGH` and `SET_WD_RESET_LOW` in rounds 8 and 9 |

A conversion reads a normal or a bad value or does not end. After a hit has taken the converter it may
read anything; otherwise anything but a normal value counts as a failure of the hardware (`failures`).
`late_hit` remembers a hit that comes after the last try of a reading has been decided.

### Classification, MCClassification

An event with its amplitudes and the bytes of the delay counters; the steps of `ClassifyEvent` and of
`CalculateQualityNumber` are numbered in the order of their reads (`at`). `UpdateTarget` sets a level, a
limit of a window or a coefficient, or switches the unit off, between any two of them; `in_force` collects
the settings there have been since the event was accepted. `class_rows` is the table of 256 classes, a row for
each combination of the amplitude bits; each row depends on at most three delays in one way. The properties
are stated with definitions of their own: windows as intervals, the logarithm as the length of a number,
rounding as the nearest byte.

## Runs

| Run | Question | Answer |
|---|---|---|
| `science_calm` | Does the file keep its promise if telemetry begins and ends between acquisitions? | yes: refinement of `EventStore`, no torn record, counters right; only moving queued events makes the checksum wrong |
| `science_overlap` | What is left with telemetry at any moment, and `TM_READY` twice? | events queue only while sending, the file is frozen but for one record, telemetry ends |
| `units_calm` | Do units live as `UnitLifecycle` says without overlaps? | yes; also one unit in test, measured first, no table indexed by no unit, tests end |
| `units_overlap` | What is left with overlaps? | no power without state, modes and states agree, switching ends, and a test gives its number back, so that tests are accepted again |
| `tc_handler` | Any telecommands at any time | never deaf and mute, ends when sent, ignored only what is done, telemetry and writes end |
| `hit_trigger` | Particles, telecommands, self tests at any time | a low line is known and raised, disabled means exceeded; in quiet, one hit per event, all pulses seen |
| `science_end_in_acquisition` | "located always to the first element" (`telem.c:439`) | violated: the telemetry ends after `GetFreeRecord` gave out a later record; an old event is stored again and the new one lost |
| `units_off_in_switching` | Only a telecommand switches on | violated: `Update_SU_State` waits with interrupts enabled and then sets `on_e` whatever came |
| `code_memory` | Patches, upsets and resets of every class at any step of the checksum cycle | the reference follows the program, a patch causes no reset and a corruption does, the program runs on initialised data |
| `health_monitor` | Rounds with hits, failures, telecommands and the TC interrupt at any step | no status bit is lost, no disturbed result is used, what fails is reported and nothing else, watchdog and duties have their turn |
| `health_late_hit` | "If all the conversion tries have been used up" (`health.c:2017`) | violated: one hit after a good conversion makes it discarded, and `MeasureTemperature` then switches the unit off |
| `classification` | Events at their limits, with one or two telecommands between any two reads | after one change class and quality are those of one of the two settings; quality keeps the order of the classes in every case |

What the passing runs check, by name:

- `science_calm`: `ImplementsEventStore`, `FirstOfQueueIsTheEvent`, `FileIsTrue`, `ChecksumFollowsCounters`.
- `science_overlap`: `TypeOK`, `QueueOnlyWhileSending`, `FrozenWhileSending`, `TelemetryEnds`.
- `units_calm`: `ImplementsUnitLifecycle`, `SelfTestEnds`, `OnlyNumberedInTest`, `MonitoredFirst`.
- `units_overlap`: `PoweredNotOff`, `AcquisitionModeUnits`, `SwitchingEnds`, `NumberFreed`.
- `tc_handler`: `TypeOK`, `DeafIsSending`, `SendingHasState`, `IgnoredIsDone`, `EndsWhenSent`, `TelemetryEnds`, `WriteEnds`.
- `hit_trigger`: `OneHitPerEvent`, `LowLineIsKnown`, `DisabledIsExceeded`, `PulsesAreSeen`, `LineReleased`.
- `code_memory`: `ReferenceFollowsCode`, `NoFalseAlarm`, `DataInitialised`, `CorruptionFound`.
- `health_monitor`: `NoUpdateLost`, `FailuresAreReported`, `NoDisturbedResult`, `NoFailureNoError`, `WatchdogServed`, `DutiesRecur`.
- `classification`: `RecordOfOneSetting`, `SelfTestOutranks`.

Each property of a passing run has a mutant of the model, a plausible bug in the code, under which
TLC finds it violated.

Also met while modelling, without a run of their own:

- With overlaps in `SensorUnits`, `OnlyNumberedInTest` and `MonitoredFirst` fail too: a test that begins
  before `Monitor` resets the number of the one it has ended loses its number (`health.c:1067`), and its
  unit stays in `self_test_mon_e` until it is switched off; a unit that is switched off in its test is set to
  a test state without power (`health.c:2511`), and `SU_state` is accessed with index -1. What is left is
  `NumberFreed`: later self tests are accepted. With `start_in_copy`, a
  record can be sent torn.
- A watchdog or checksum reset in a science telemetry keeps the queue but not `TC_state` (`health.c:694`);
  with `"watchdog"` in `ResetClasses`, `FirstOfQueueIsTheEvent` fails.
- `ClearEvents` zeroes the checksum after it has counted the events of the queue (`telem.c:499`), so that
  the next file is sent with a wrong one.
- A SET_TIME byte that is refused is remembered as the previous telecommand, without a timeout
  (`tc_hand.c:1541`); the next byte is accepted after it at any time.
- If two `TM_READY` are in the mailbox, the second ends a telemetry that has just begun; so can a word
  `0xFFFF` left over from a memory block.
- `READ_DATA_MEMORY_MSB` arms no timeout, although `tc_hand.c:1482` expects one; the read waits for its
  second word for ever, or until another telecommand.
- A particle on another unit during a self test is handled for the unit under test; the peak of the unit
  that was hit stays, and its next event mixes two hits. A particle during the 10 ms of round 0 between
  the reset of the peaks and the enabling leaves such a peak too.
- `START_ACQUISITION` resets the delay counters of a hit that is still being acquired.
- `MeasureVoltage` never calls `VoltageFailure`, which its header says handles bad voltages.
- A patch of SRAM1 while the program is executed from PROM, or over a byte that an upset has changed,
  leaves `reference_checksum` wrong; the cycle that follows ends in a checksum reset.
- The header of `Boot` says that error counters are cleared if the boot was not caused by a watchdog reset;
  a checksum reset keeps them as well.
- If the watchdog ends a boot after power-up, the next boot keeps data memory that nobody has initialised.
- The table of classes depends, for plasma 1+ with piezo 2, on the window from plasma 1- to piezo, but for
  plasma 1+ with piezo 1 on that from plasma 1+ (rows 18 and 20 of `class_rows`).
- A difference of the delays above 127 is stored as 127, so that a maximum of 127 or more is always met.
- Two telecommands in one `ClassifyEvent` can mix: the first changes a setting that has been read, the
  second one that has not; the result is that of no set of settings there ever was. A unit that is switched
  off during the classification of its test event has the event rated like a particle.

### Bounds

`ScienceData`: the memory holds 3 records (2 with overlaps), the queue 2 (1): enough to fill both and
to search for the worst. Up to 4 (3) hits of two units, classes and quality numbers: the queue
overflows, memory overflows, better and worse hits come last. Counters end at 2, so they saturate. One
`TM_READY` may be pending, with overlaps two.

`SensorUnits`: 3 units without overlaps (the tested one, the next and another), 2 with; all ten rounds;
2 channel tests, the first and a later one, instead of ten alike.

`TcHandler`: nine addresses, one for each way the code treats them; a mailbox of 2, so that it fills;
a block of one word and its check word; one telemetry word. Longer blocks repeat the same steps.

`CodeMemory`: five bytes of one bit, three of them in SRAM1, in three pieces, the first of which is shorter
as in the code; patches of two bytes at any place, so that one can straddle the byte being added; two
patches and one upset, for a second patch may repair, repeat or hide the first or the upset. XOR treats
each bit alike.

`HealthMonitor`: 2 units, so that an error of one and of the other meet in one register; one temperature
and one voltage channel (further readings repeat the same steps); all ten rounds and cycles of two periods,
with a voltage in one and the temperatures of a unit in each; 1 hit a period and 2 tries, the smallest pair with the budget below the
tries as in the code (20 and 25); one failure and one request of the other tasks.

`Classification`: one unit (settings of the others are not read); amplitudes just below and at a level; bytes
of the counters that give delays below, in and above a window of one value; settings of a reset and two sets
with such levels. Two telecommands, so that one that undoes the other, or repeats it, is met as well; that two
changes can mix is known, and `RecordOfOneSetting` says so (`OneChange`).

`HitTrigger`: 2 units (hit and tested), 2 particles, a budget of 2, which a test uses up; 2 channel
tests, one by pulse and one by software; a mailbox of 2. Rounds 7, 6 and 0 are those that touch the
trigger.

`MaxHits`, `MaxReady`, `MaxPatches`, `MaxUpsets`, `MaxFailures`, `MaxRequests`, `MaxCommands`,
`MaxUnserved` (and what `Overlap` leaves out) bound the models and not the code. The others are sizes of
the code made small.

### Fairness

`ScienceData`, `TcHandler`: weak fairness of the TM interrupt service, which the spacecraft drives as
long as telemetry is enabled, and of the TC task, which is of a high priority and has little to do. No
fairness of telecommands or hits: they may stop coming at any time.

`SensorUnits`: weak fairness of the health task. It has the lowest priority but a second for a round
that takes little; if it does not finish, the watchdog resets the DPU.

`HitTrigger`: weak fairness of the hit trigger task and of `START_ACQUISITION` once begun; strong
fairness of the acquisition and health tasks, which hits preempt again and again but not for good,
for the hit budget bounds the hits of a period.

`CodeMemory`: weak fairness of the start-up, which nothing delays, and of the steps of the health task.

`HealthMonitor`: weak fairness of the steps of all tasks together: the processor does not stop. Nothing is
assumed of the health task itself; that it has its turn follows from the priorities, the hit budget, and the
finite work that a telecommand gives to the tasks above it.

## Theorems

The constants are arbitrary but for the module's `ConstantsAssumption`: sizes are natural numbers
and sets are finite.

| Module | Theorem | Argument |
|---|---|---|
| `ScienceDataProofs` | `TypeCorrect` | inductive as it stands; the queue is shorter than the memory, so that it can be moved there |
| | `QueueOnly`: the queue is empty unless a file is sent (no watchdog reset) | inductive as it stands: `RecordEvent` tests `TC_state` in the step that leaves a record in the queue |
| | `FrozenFile`: what is sent does not change | an action property, from the types |
| | `FirstOfQueue`: the event stored is the one acquired (no `end_in_acquisition`, no watchdog reset) | `AcquisitionInv` follows the hit from the slot given out to the copy; it also says that a `TM_READY` on its way finds no acquisition half done |
| | `ChecksumFollows`: only moving queued events makes the checksum wrong | no hypothesis. `FirstIsHit`: what is counted is the record of a hit, so that it has a counter |
| | `TrueFile`: no record sent is torn, counters count (under `Calm`) | `QueueInv`: the queue holds one whole hit in each record, the oldest first; `SlotsInv`: so does each slot that nothing is being copied to, all different; `CountedInv`; `FileInv`: what was sent is what the slots hold now |
| | `Implementation`: `EventStore` (under `OneReadyMail`) | from the same invariants and `ReadyInv`, by the refinement mapping: each step is one of `EventStore` or none |
| `SensorUnitsProofs` | `TypeCorrect` | |
| | `PowerHasState`, `AcquisitionMode`, with all overlaps | `SwitchingInv`: both, and that the mode is still that of the boot before the health task has begun |
| | `OneUnitInTest`, `UnitsImplementLifecycle` (no overlaps) | `CalmInv`: what the health task assumes at each of its places still holds there; each step then maps to a step of the life cycle or to none |
| | `MeasuredBeforePulses`: first measured, then pulsed (no overlaps) | an action property, from `MeasuredInv`: the unit that the health task measures is the one under test |
| `TcHandlerProofs` | `TypeCorrect`, `DeafIsAlwaysSending` | inductive as they stand |
| | `SendingAlwaysHasState` | `SendingInv`: unless interrupted in its handling, the task is in the state it saw |
| | `IgnoredIsAlwaysDone` | `MailInv`: in a telemetry state the mails are those the interrupt service has executed |
| | `EndsAlwaysWhenSent` | `SentInv`: a telecommand finds no mail under way, so that a word that ends a telemetry was mailed when nothing was left to be sent |
| `HitTriggerProofs` | `TypeCorrect` | |
| | `LowLineIsAlwaysKnown` | `LineInv`: `START_ACQUISITION` runs in standby to its end, and a pseudo trigger has been handled or refused before a self test is over |
| | `DisabledIsAlwaysExceeded` | `DisabledInv`: after the channel tests only an empty budget disables the trigger again |
| `HitTriggerQuietProofs` | `EventIsOneHit`, `AllPulsesAreSeen` | all from `QuietInv`: until something unexpected comes, every hit is followed from its edge to the record, a pulse finds nothing else under way, and whatever a peak detector holds belongs to somebody or is reset before the next hit is let in |
| `CodeMemoryProofs` | `ReferenceCorrect`, `DataCorrect` | `BootInv`: the memory mode follows the failed test, after `Init_DPU` an unpatched SRAM1 is the PROM image, and the boot initialises all that its reset has not kept in order |
| | `AlarmsAreTrue` | `CycleInv`: while `code_not_patched` holds and no upset has come, `code_checksum` is the sum of the bytes before the current one; with the reference correct, a mismatch must come from an upset. It rests on lemmas about XOR sums over disjoint sets of addresses |
| `HealthMonitorProofs` | `TypeCorrect` | the duties of each round are sequences of operations; lemmas for `Head`, `Tail` and concatenation |
| | `ResultsAreUndisturbed`, `OnlyLateHitsDiscard` | `ReadInv`: `tries_left` exceeds the hits that the budget still allows, so that the tries never run out; what is decided undisturbed was so |
| | `UpdatesAreKept` | `CopyInv`: who has interrupts disabled has a copy that is equal to the register |
| | `WatchdogIsServed` | `WatchdogInv`: how long ago the last edge was in each round; the duty for the watchdog is the last of its round |
| | `WorkingSystemIsQuiet` | `QuietInv`: without a failure only harmless operations are in the lists, and every voltage that a check needs is stored in limits before it |
| | `FailuresAreSeen` | `ReportInv`: an error of a unit is followed in the work of the health task by its bit of the error status before interrupts are enabled again; a unit that is switched off gets an error later in that work; the TC execution task clears the error status before the errors of all units. It rests on `CopyInv`, since a lost update would break it |
| `ClassificationProofs` | `TypeCorrect`, `RatingKeepsOrder` | `RatingInv`: the rating so far is at least 400 times the class, in sixteenths, and exceeds it by at most 80 for each term; `ForceInv`: the present settings are among those in force |
| | `RecordsAreOfOneSetting` | `SettingInv`: one of the settings in force gives the bits decided and the terms added so far (`SeenAs`). If the next read does not see that one, the only change is of what is read now, and the settings of now give the same so far (`ReadLemma`). Shifts, windows and rounding are shown equal to the reference definitions by lemmas of their own |

Why strengthening is needed: `LowLineIsKnown`, for instance, says nothing of a line that is low in the
last step of a self test, when the test itself is the reason that somebody knows it; the step that ends
the test preserves it only because the flag that `PseudoTrigger` sets, and no other step of that task
clears, has become a mail or a disabled trigger.

Where a theorem has a hypothesis on the constants, the table names it. `Calm` says that telemetry begins and
ends between acquisitions and that no watchdog reset keeps the queue; the theorems on `SensorUnits` marked
so exclude telecommands for a unit that the health task is working on. The code excludes none of these, and
with them the properties fail (see the runs with overlaps). `OneReadyMail` adds `MaxReady <= 1` to `Calm`:
the TC task takes a `TM_READY` before the TM interrupt mails a second one. With two, TLC finds that the second
ends the next telemetry, and clears what was not sent. For the same reason `OneChange` is part of
`RecordOfOneSetting`: without it TLC finds a record of no setting after two telecommands.

**Only model-checked:** what must happen in the end, since a proof of liveness needs ENABLED, which these
provers do not have: `TelemetryEnds` (in `ScienceData` and `TcHandler`), `WriteEnds`, `SelfTestEnds`,
`SwitchingEnds`, `NumberFreed`, `LineReleased`, `CorruptionFound`, `DutiesRecur`. Every other property of a passing run is
a theorem.

## Not modelled

- `DAC_SelfTest` and its register, the waits and delays of the measurements, `UpdateTime`, the counters of
  resets and failed cells, the contents of the measured values.
- `VoltageFailure`, which is never called.
- What is reported about a telecommand (`TC_ERROR` bits, `TC_word`, time tag, the response) and the
  rejection of one that comes too early. In `TcHandler`, the parameter telecommands are one kind, `OTHER`;
  what those of the classification set is in `Classification`.
- `CALL_PATCH` into code that does not return.
- Trigger levels, pulse levels, analog switches and signal timing: register writes without control flow.
- In `HitTrigger` a particle that comes while the line is low, which the trigger does not see; units are
  all switched on there, since `SensorUnits` has the switching.
- `GetElapsedTime`, and the contents of the status registers.
- The C harness, the target dependent code, the Java port with its simulators and the build tool: they
  stand for the hardware, the kernel or the code itself; what the program needs of them is in the external
  definitions (interrupts, mailboxes, delays, memory).
