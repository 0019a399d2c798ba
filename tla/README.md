# Lamp-Da: specifications and proofs

TLA+ models of the firmware in `src/src`, model-checked with TLC and proved in
part with TLAPS. The code is the reference: a definition carries the name of what
it models, and `PROJECT.json` ("map") gives its lines.

## The system

The lamp is a battery, a charger, a USB-C power delivery stack, a boost converter,
two power gates and a strip, driven by an nRF52 under FreeRTOS. The firmware is a
set of threads that share globals, nearly all without locks:

| thread | priority | runs | shares with others |
|---|---|---|---|
| main loop | low | `global.cpp` `main_loop`: inputs, behaviour machine, alerts | everything |
| user | low | user mode callbacks | brightness, blips of the power gate |
| power | low | `power_handler.cpp` `power_loop` | power machine, gates, PD settings, charger |
| sunset | low | `sunset_timer.cpp` `sunset_process_loop` | end time, brightness, alerts |
| button | high | `button.cpp` `handle_events` (woken by the pin interrupt) | event queue |
| PD, TCPM | - | `power_delivery.cpp`, vendored TCPM | gates, alerts, PD settings |
| interrupts | - | button pin, USB fault | alerts, button state |

Threads of the same priority are time-sliced and higher ones preempt them, so
another thread can come between any two accesses to shared state.

### Components

| component | state | operations | hard part | what makes it correct |
|---|---|---|---|---|
| power gates (`bsp/power_gates.cpp`) | pins, requested / switching flags, switch times, blip | enable_*, disable_gates, blip, cancel_blip, loop | calls of other threads between pin and flag writes | never both gates; the rail is isolated for the delay between two paths; a request is carried out |
| state machine template (`utils/state_machine.h`) | state, age, timeout, state after it, changed flag | set_state, run, skip_timeout | not atomic, used by two threads | a timeout leads where it was asked to |
| power handler (`logic/power_handler.cpp`) | power machine, what is driven, recovery, output ready | eight handlers, go_to_* requests, power_loop | the main thread changes the machine under a running handler | modes only over a cleared rail; gates, charge and discharge follow the mode; clearing ends |
| main behaviour (`logic/behavior.cpp`) | behaviour machine, power on target, charge permission | eight handlers, set_power_on/off, sleep | waits for the power machine with timeouts of its own | no state hangs; off and an unusable battery end the output; no charge while lit |
| alerts (`logic/alerts.cpp`) | raised bits; handled and timed flags per alert | raise, clear, update_alerts, can_use_* | raises from interrupts, clears that race them | a lasting alert blocks and is handled; a cleared one leaves nothing behind |
| sunset timer (`logic/sunset_timer.cpp`) | end time, permission to dim, suspended thread | set_deadline, add, bump, shortcut, cancel, thread loop | two threads on the end time and the brightness | a timer ends; the phaseout only dims; a hold of the button stops it; an alert never extends it |
| brightness (`logic/brightness_handle.cpp`) | current, saved, user and system limits | update, limits | alerts, timer and user load and store it without a lock | (with the timer) |
| button (`component/button.cpp`) | flags and stamps of the interrupt, clicks, hold | interrupt, handle_events | the interrupt falls between any two steps; bounces, missed releases | quick clicks never make a hold; a released button ends its series |
| inputs (`logic/inputs.cpp`, `utils/queue.h`) | queue of 15 events | enqueue, dequeue, brightness holds | unlocked queue, full queue | events in order, every hold ends |
| files (`component/fileSystem.cpp`, `hardware/keystore.hpp`, parameters of `behavior.cpp`) | two files, their maps, clean sleep flag, store mark | load, save, erase, factory reset, migrate | crashes, failed writes and updates between any two files | a skipped sleep is noticed; a start reads what was last saved |
| groups, modes, favorites (`manager_type.hpp`, `group_type.hpp`, `indexable_behavior.hpp`) | active index, memories, favorites, countdowns | clicks, scrolls, ramps, favorite page, Bluetooth patterns and speeds | changes pass through states that are never shown | groups come back as left; the page shows its favorite; hidden groups stay hidden |
| start and watchdogs (`global.cpp`) | reset reason | main_setup | a start that formats | (with the files) |
| charger (`component/charger.cpp`, `bsp/charging_ic.cpp`) | status, cached registers, charge and OTG orders, end of charge | loop, control_OTG, set_enable_charge, setup, shutdown | decides in one turn, writes in the next; keeps its registers over a restart; the main thread stops the OTG between a read and a write | never charges and feeds at once; charges as decided; the charge of a full battery ends |
| battery, balancer, PD | device status | poll, enable | late answers | inputs of the parts above |
| animations, strip, IMU, sound, Bluetooth driver, command line, simulator | - | - | - | not modelled: see below |

How they interact: the button's interrupt and thread make events; the main loop turns
them and the alerts into calls of the behaviour machine, the brightness, the timer
and the mode manager; the behaviour machine calls `power::go_to_*_mode()`, which set
the power machine that the power thread runs; the power handlers call the gates, the
charger, the balancer and the PD settings; the PD thread and user code call the gates
directly; alerts read measures and forbid operations; the sunset thread calls the
brightness and `set_power_off()`; the behaviour machine saves the parameters on its
way to sleep and reads them at the start.

## Modules

| module | models | notes |
|---|---|---|
| `StateMachine` | `state_machine.h` | pure operators on a machine record; the clock is the age of the state and the limit is relative to it |
| `PowerGates` | `power_gates.cpp` | actions on the gates' variables; the power thread's steps in `loop()` and in `switch_delayed_*_gate()` are apart (`pc`), calls of other threads are one step |
| `GateSequence` | the gates with any caller | composes `PowerGates` with an arbitrary sequence of enable / disable / direct calls of the power thread, and blips at any time; its names begin with `Seq` where those of `PowerHandler` would be the same |
| `PowerPath` | `power_gates.h` | the abstract promise of the gates: one path at a time, isolated for the delay in between |
| `PowerHandler` | `power_handler.cpp` over `PowerGates` | power thread, main thread's requests, PD and user calls, recovery, shutdown and restart |
| `PowerMachine` | what the power handler promises the main loop | abstract: mode, the mode a clear ends in, power gate, ready flag. `PowerHandler` implements it, `Behavior` runs over it |
| `Behavior` | `behavior.cpp` over `PowerMachine` | main loop, events of the button, requests of the alerts, battery and vbus, sleep and wake up |
| `Alerts` | `alerts.cpp` | main loop, power thread and USB fault interrupt on the word of raised alerts, load and store apart |
| `Brightness` | `brightness_handle.cpp` | pure operators on a record of limits and levels, one per store |
| `Sunset` | `sunset_timer.cpp` over `Brightness` | the sunset thread and the main thread, one access to shared state at a time |
| `Button` | `button.cpp` | the interrupt at every step of `handle_events()` |
| `Parameters` | `fileSystem.cpp`, `keystore.hpp`, the saves of `behavior.cpp`, the start of `global.cpp` | power cycles, crashes, failed writes, watchdog starts, firmware updates |
| `Favorites`, `MCFavorites` | `manager_type.hpp`, `context_type.hpp`, `group_type.hpp`, `indexable_behavior.hpp` | groups, modes, ramps, the page of the favorites, Bluetooth patterns and speeds; `MCFavorites` gives the layout of the groups |
| `Charger` | `charger.cpp` over `charging_ic.cpp` | the power thread's `loop()` step by step, the stops and the shutdown of the main thread, the BQ25713 with its faults, restarts |
| `PowerProofs` (of `PowerHandler` and `GateSequence`), `AlertsProofs`, `BehaviorProofs`, `SunsetProofs`, `ChargerProofs`, `FavoritesProofs`, `ParametersProofs`, `ButtonProofs` | - | theorems |

**Gates.** `pin` is the set of gates whose enable pin is high, `enabled` and
`switching` the flags of the same names, `switchAge` the time since
`_*GateStartSwitchingTime`, `really` `_isPowerGateReallyEnabled`. `pc` is where the
power thread is: between the test of a switch and each pin write, before the
flags written after `delay_ms(1)`, or between the assignments of
`switch_delayed_*_gate()`. A blip starts and ends at any time: `blip()` and
`cancel_blip()` only test `_isPowerGateReallyEnabled`, which `disable_gates()` leaves set, so
the end of a blip can close the power gate "without checks" while it is not
requested. A brightness update asks for one on the way into the output and on an
alert (`lamp_type.hpp:611`, from `behavior.cpp:582` and `alerts.cpp:361`), and so do user
modes (`brightness_modes.hpp:228`); the indexable lamp alone never does (`power_gates.cpp:155`).
The history `stray` records such an end until both gates are opened again, which each
turn of CLEAR, ERROR and SHUTDOWN does. Properties of the pins hold while it is
down; properties of the requests hold anyway.

**Power handler.** `power` is the machine. A turn of the power thread is
`powergates::loop()`, `RunPowerMachine` (the timeout and the choice of a handler), the
handler, the gate request it leaves, `EndPowerLoop`. A request of the main thread is
two steps, the check `can_switch_states()` with the settings and then
`switch_state()`, so that both threads overlap as in the code. `rail` is the
voltage as this turn's handler compares it, `out` what the thread drives (discharge,
reverse direction, boost, charge, balancing), `pd` the PD settings. Voltages,
components on I2C, the charger's answers and the end of OTG are nondeterministic
inputs of the handlers.

**Main behaviour.** `main` is the machine, `at` where the loop is: the events and the
behaviour in one step, the requests of the alerts in the next, then the waits of the
shutdown. The power thread's steps (those of `PowerMachine`), the sunset thread and the
world (`usable`, `vbus`) come in between. `Behavior` never sees a gate or a voltage:
`is_power_gate_enabled()` and `is_output_mode_ready()` are `gate` and `ready`; `gate` is the flag
the function returns, which stays set until the vbus gate is driven.

**Alerts.** `raised` is the word, as a set. `flag` is `_isRaisedHandled` / `_isLoweredHandled`
of each alert, `age` the turns since its `raisedTime` (`Never` when that is zero). A turn
is `StartUpdate`, then for each alert in the order of `allAlerts[]` (`todo` holds those
left) `HandleRaised`, `HandleLowered`, or a call of `raise()` / `clear()` (`CallFromUpdate`,
`LoadWord`, `StoreWord`), then `FinishHandleAll`. `op` is the call a thread is in the
middle of. `other` stands for the power thread, Bluetooth and the calls the main
loop makes outside of the update; the interrupt (`UsbFault`) is one step. The unit of
time is a turn of the main loop; measures are read once per turn.

**Sunset.** `enabled` and `left` are `sunsetTimerEndTime_s`, zero or the time left; `thread`
is the next access of the sunset thread, `computed` what it holds between reading
and writing, `call` the access the main thread is at in the middle of a call. The calls of
`brightness_handle.cpp` are cut too: the sunset thread loads the system's limit
(`LoadMax`) and stores the user's (`StoreLimit`), the main thread loads the user's limit and
stores it again under a new limit of the system (`LoadUser`, `LowerUser`). `quiet` counts the turns of the phaseout since the
main thread last acted. Suspension and resume are those of the scheduler: a resume of
a thread that runs does nothing.

**Button.** A stamp is kept as its age. `handle_events()` is cut at each read of what the
interrupt writes: the flag, the clock, the stamps, the reset. A stamp taken after the
clock was read may be later than it: its age is -1, and the unsigned subtraction
makes it huge. A bounce is an interrupt; the interrupt of a release may be missed.

**Parameters.** A firmware is the set of keys its modes store, which is its store id
too. `userFile` and `sysFile` are the files, `userMap` and `sysMap` the maps in memory. Each
closed file is a step, and a crash, a watchdog or an update can follow any of them.
A write may fail to open its file, which formats the file system, and may fail again
after that (`opened`, `created`). A crash may leave the file system `broken`: then only a start
of the watchdog goes on, and it formats. A stored value says which firmware wrote it,
so that a value read by another is seen.

**Favorites.** `manager` is the active index with the mode and ramp memories; the page
of the favorites is `favorites`, `lastStep`, `inPage`, `before`; the countdowns of the turns
of `loop()` are `hold`, `pending`, `deleting`. A click series, a hold event, the end of a
countdown and a start are one step each: all run in the main thread. `sped` records that
a Bluetooth speed command (`SpeedCommand`) changed the ramp since a favorite was shown.

**Charger.** `inhibit`, `enOtg` and `fault` are the component's, which a restart of the lamp
leaves alone; the rest are the program's variables. `loop()` is `BeginTurn`, then
`control_charge()` (`DecideCharge` reads, `OrderCharge` writes the register) and `control_OTG()`
(`LookAtOtg` reads, `ControlOtg` writes), `RunStatusUpdate`, `StartAdc` or `ReadAdc`,
`ProgramInputCurrentLimit`, then `Decide` or `DecideOnError`; `OtgOn` enters it at
`control_charge()`. The main thread comes between any two of these: `StopOtg` of
`go_to_output_mode()`, and the two steps of `charging_ic.cpp`'s `shutdown()`: `Shutdown` up to its
current limit, and `ShutdownEnd`, its `control_OTG()` and `control_charge()`. The status register is kept as the
faults it has (`fault`) and those its cached copy has (`seenFault`). The reasons for not
charging that other parts give (mode, cells, source, alerts) are one input, `free`.

### Assumptions of the models

* `StallAssumption`: the power thread is never held up so long that the failure test
  of `handle_clear_power_rails()` (3 s) and the timeout of the state (4.5 s) are in the
  same turn, so stalls are at most 1.5 s. Without it the timeout takes the machine
  to the mode over a rail that was not cleared. Nothing in the code enforces it: the
  watchdogs are longer.
* A call of another thread to the gates, and a call of the state machine template,
  are one step. The split calls of the power thread are the ones that hold a delay
  or that the other threads meet in practice.
* `Alerts`: no time passes within `update_alerts()`, and the test of `is_raised()` in `clear()`
  is one step with the test before it.
* `Behavior`: a turn of the main loop is far shorter than its unit of time (half a
  second), so the two timeouts of one millisecond of POST_OUTPUT_LIGHT are never
  waited for; the main loop is not preempted inside a handler but where the shutdown
  waits. The steps of the power thread are those of `PowerMachine`.
* `Sunset`: the main thread is the only one to write the system's limit and the saved
  brightness, so its own loads of them go with its next store; a user mode may use limits as
  old as it likes. A turn of either thread (3.6 s at most) is shorter than the unit of time
  (half a minute), so time passes between turns.
* `Button`: a press whose interrupt is lost is one the program never sees, so only
  releases are missed. The static_asserts on the timings are the module's assumption
  (`Timings`), with the period of the thread added to the one of `button.cpp:151`: that one alone
  allows a hold limit one unit above debounce and release time, and there a click whose
  release is missed is told as a hold. The code's values (50, 5, 250, 500 ms) are far from it.
  A turn that meets a stamp later than its clock is left out of `HoldMeansHeld`: the code then
  tells a fresh press as the end of a hold (hazard at `button.cpp:71`).
* `Parameters`: a file changes when it is closed (LittleFS), and a file opened to be read is
  not truncated, so that the cleaning of duplicates (`fileSystem.cpp:162`) does nothing.
  The firmwares may store any keys: a shorter file keeps a stale tail, whose last word
  counts against the rule of the others. The setting it is about is lost, and
  `PowerLossKeepsSave` says that no other one is (`StaleWord`).
* `Favorites`: the Bluetooth callback is taken as a step of the main thread; countdowns end
  before the next click series can be told; a ramp is kept at 0 where no mode shows
  it; the slots after `usedFavoriteCount` are never read and left out. `Layout` has the
  static_asserts on the numbers of groups and modes (`manager_type.hpp:155`, `group_type.hpp:49`). After a restart
  the page of the favorites is left to group 0, mode 0: `before` is not saved.
* `Charger`: changing a register, its read included, is one step, and so is `disable_OTG()`;
  writes on I2C fail only where the code looks at their result. A source that can be used
  is there: the power thread sets both flags in one call (`power_delivery.cpp:354`), so
  the code that drops the latch of a full battery when the source goes is not reached. The
  fast role swap is not compiled (`power_delivery.cpp:258`). The alert OTG_FAILED is left out:
  its clear is a test, a load and a store of the word (`Alerts`), so it may be undone
  and the alert stay for ever, whatever `charging_ic.cpp:201` says (a hazard in `PROJECT.json`).
  `NeverBothWays` leaves out the steps up to a reset of the OTG: a write of EN_OTG that comes
  after a stop by the main thread is undone there, after the charge may have gone on.
* A failed `init()` of the power handler is left out: the power thread is then never started.

## Runs

| run | shows |
|---|---|
| `gates` | `GateSequence`: `BreakBeforeMake` (the gates implement `PowerPath`), `SwitchCompletes` (a delayed switch is carried out or called off, under fairness) |
| `power` | `PowerHandler`: `SafeStateIsolates`, `PowerGateFollowsMode`, `NoChargeIntoOutput`, `DischargeIsolated`, `ClearBounded`, `RailsClearedFirst` with the real callers, and `ImplementsPowerMachine` |
| `alerts` | `Alerts`: `BlocksWhileRaised`, `FreesOnceCleared`, and under fairness `HotStops` and `ShortEnds` |
| `behavior` | `Behavior` over `PowerMachine`: `ChargeOffWhileLit`, `NoOutputModeWhileCharging`, and under fairness `TransientStatesEnd`, `OffReached`, `UnusableEnds` |
| `sunset` | `Sunset`: `PhaseoutOnlyDims`, `HoldKeepsBrightness`, `ShortcutNeverExtends`, and under fairness `RunningTimerEnds` |
| `button` | `Button`: `HoldMeansHeld` and, under fairness, `ReleaseEnds` |
| `parameters` | `Parameters`: `SkippedSleepNoticed`, `PowerLossKeepsSave` |
| `favorites` | `Favorites`: `Remembered`, `ShownIsFavorite`, `HiddenOnRequest` |
| `charger` | `Charger`: `NeverBothWays`, `ChargeAsDecided`, and under fairness `FullChargeEnds` |
| `accepted_mode` | an accepted mode switch is overwritten by a handler that was already running |
| `sunset_wakeup` | a deadline set between the sunset thread's test and its suspension never ends the lamp |
| `charger_faults` | the end of a fault that another read of the status register saw first goes unnoticed: the charge stays off |

The last three check one documented claim each, and TLC refutes it; `findings` in
`PROJECT.json` quotes the text. The types are checked where they are more than a
declaration (`power`, whose longest blip is enforced, `favorites`, `charger`); those of `Alerts` and
`Behavior`, and that the gates exclude each other in `PowerHandler` (`GatesExclusive`), are
theorems only. Other statements of
the code that the models show false are told in the notes of the hazards.

**Bounds.** Time is in units; a delay of one or two units is enough because the
code only compares an age with a limit, and ages saturate one past the limit
(`MaxSwitchAge`, `MaxAge`).

* `gates`: delay 2, blips up to 3, so a blip can be shorter, equal or longer than a switch.
* `power`: clear 1 / 2 / 4, startup 0 / 1 / 2 / 3, stalls of 1 unit, which keeps
  the order of the code's constants (10, 3000, 4500 ms; 200, 300, 800, 1000 ms) and
  meets `StallAssumption` with one unit to spare; a gate is driven as soon as time has passed
  (delay 0) and a blip lasts a unit: longer ones are the matter of `gates`. Nothing else is bounded: all
  7.6 million states are reached, with any number of requests, blips and restarts.
* `alerts`: one alert of each kind, a measure with a shutdown (TEMP_CRITICAL), one the
  interrupt raises and a delay clears (USB_PORT_SHORT), one the power thread raises
  and clears (OTG_FAILED). A turn stands for 5 s, so that the delays of five seconds, which are
  strict, are over at the second turn: an age between its raise and its end occurs.
* `behavior`: every delay one unit but the unusable battery's, which is longer than the
  window in which `set_power_off()` is ignored, as in the code. No bound on events,
  sleeps or restarts.
* `sunset`: three brightness levels, a ramp of three minutes, a deadline half a minute
  longer, so that a timer starts outside the phaseout and enters it, and five minutes
  added from anywhere.
* `button`: debounce 1, releases 3 and 2, hold 6, which keeps the order the static_asserts
  ask for; three presses per series, enough for a bounce, a click and another one.
* `parameters`: three firmwares over four keys, one with a key before and one with a key after
  those of the others, so that an update shifts the words of the store, makes it longer or
  shorter and leaves a tail; two levels. Power cycles and updates are not bounded.
* `favorites`: two groups the clicks reach, one with ramps and two modes, and the hidden
  Bluetooth group; two favorites.
* `charger`: a measure is valid for one tick, a charge ends after one tick at its end, so
  that both expire and both are met in time; nothing else is bounded.

**Fairness.** Each module says which steps are fair:

* `GateSequence`: the power thread's turn and time. The scheduler slices threads of equal
  priority and the thread never blocks but for `delay_ms`. No fairness of other threads.
* `Alerts`: the main loop, which the watchdog enforces, and the end of a call another
  thread is in the middle of; raises and faults need not happen. `HotStops` supposes that
  other threads leave the word alone in the end: one that stores an old word before
  every turn can hold the alert back for ever.
* `Behavior`: the main loop, time, and the end of the power machine's startup and of a
  clear that nothing asks for again, which `ClearBounded` and the startup's timeout give.
  Time is strongly fair as the loop runs between its steps. Events are not fair.
* `Sunset`: the sunset thread when it is ready, the end of a call of the main thread, and
  time between turns. `RunningTimerEnds` supposes that the main thread leaves the timer
  alone and that the thread was not suspended with a timer on: `sunset_wakeup` shows that
  it can be.
* `Charger`: the power thread, a refresh of the component again and again (every 10 ms), and
  time. The calls of the handlers and of the main thread, and the faults, are not fair.
* `Button`: the thread (high priority, fixed period) and time. `ReleaseEnds` supposes that
  the button stays up, and no interrupt.

Every property of the passing runs has a mutant in `PROJECT.json`, a definition
changed as a bug would (a delay one unit short, the other gate left on, a charge
not forbidden, a mode entered at once, a file always appended to), which makes TLC refute it.

## Proofs

All for every value of the constants the assumptions allow, with blips at any time. Every safety property that a passing run checks,
invariant or action property, is also a theorem.

* `PowerProofs`, the gates. `SeqSpecTypeOK`; `SpecNeverBothGates`; `SpecBreakBeforeMake`, the
  refinement of `PowerPath`. `NeverBothGates` is not inductive: the invariant `SeqInterlock` says
  which pins and flags are possible at each position of the power thread, e.g. that
  the other gate's pin is already low, and its switch called off, from the moment a
  gate is requested, and how old the isolation of the rail is when a switch is due. It speaks
  of `Closed`, the pins without the one a stray blip may have raised: a blip writes no
  flag, so what it does reaches no further.
* `PowerProofs`, the machine. `SpecTypeOK`; `SpecClearBounded`; `SpecRailsClearedFirst`. The invariant
  `ClearInv` has four parts: only STARTUP and CLEAR have a timeout armed, and that of
  CLEAR ends in a mode (`TimeoutsArmed`); CLEAR is younger than the failure delay plus the stall
  since the power thread last looked, plus one stall while its handler is due
  (`ClearAge`); modes are asked for only after the startup, so that a handler of STARTUP
  cannot run over a request (`StartupOver`); a recovery never overlaps a request for the output or
  OTG (`NoRecoveryIntoOutput`), since in recovery the handler skips the clear. From these:
  the timeout of CLEAR never fires in `run()`, hence `skip_timeout()` after a low
  reading is the only way in.
* `PowerProofs`, its safety. `SpecPowerGatesExclusive` and the other four safety properties of `power`:
  `SpecSafeStateIsolates`, `SpecPowerGateFollowsMode`, `SpecNoChargeIntoOutput`,
  `SpecDischargeIsolated`. None is inductive, and `SafeInv` is so only with all its parts and
  those above. `Interlock`: a gate that is requested, or that the power thread is about to
  drive or request, excludes the other. `OutputOnly`: while the power gate is involved in any
  way (pin but for a stray blip, flag, delayed switch or the position of the power thread) the machine is in
  the output mode or in a safe state, nothing charges and no recovery runs. `DischargeInv`: the
  discharge leaves no gate to close. `Settled`: if nobody changed the machine since the
  power thread looked at it, the handler of its state runs or has run; a handler of a
  safe state runs only in a safe state. The argument: the output mode is entered by the
  clear handler alone, which has just opened the gates and forbidden the charge; every
  other change of the machine under a running handler goes to a safe state, whose
  handler opens the gates before any other mode is entered.
  It also has `SpecImplementsPowerMachine`: each step of `PowerHandler` is a step of
  `PowerMachine` or a stutter, the end of a switch included, so what is checked and proved of `Behavior` is about the
  power handler over its gates. It needs `SafeInv` and `Lingers`: a handler runs for the state
  the machine is in, or was left for a safe one, and the startup is left only for the shutdown.
* `AlertsProofs`. `SpecTypeOK`, `SpecBlocksWhileRaised`, `SpecFreesOnceCleared`. The invariant says that
  an alert already looked at whose bit did not change is handled if and only if it is
  raised (`HandledIfSteady`), and that a call of the main loop in the middle of a load and
  a store agrees with such a bit (`CallIfSteady`), so that its store changes it.
* `BehaviorProofs`. `SpecTypeOK`, `SpecChargeOffWhileLit`, `SpecNoOutputModeWhileCharging`. `IInv` adds to the
  types that only POST_OUTPUT_LIGHT has a timeout and that it is skipped at age zero
  (`TimedInv`), so the machine never falls through behind a handler; in which states the
  charge may be allowed (`ChargeInv`); and that a clear has a mode to end in (`ClearInv`), so
  that the request of PRE_CHARGER_OPERATION has replaced that of the output.
* `SunsetProofs`. `SpecHoldKeepsBrightness`, `SpecShortcutNeverExtends`, `SpecPhaseoutOnlyDims`. `IInv`:
  between the test of the permission to dim and the store, a hold of the button is recent
  (`HoldInv`); between the test of the end and the last store of the limit, so is a new end
  (`EndInv`); between the test of the time left and its assignment by an alert, the timer is
  not behind the phaseout (`ShortcutInv`). That the user's limit stays under the system's, as
  `brightness_handle.cpp:54` says, is not among them: the two are loaded and stored apart, and it
  is false. `PhaseoutOnlyDims` has an invariant of its own, `PhaseInv`: once a turn
  of the phaseout has begun with the timer left alone, what the thread holds is about the
  time left, and once a turn has dimmed the user's limit is at least what the time left
  gives (`Dimmed`), which only falls: the two divisions round down and are monotonic.
* `ChargerProofs`. `SpecTypeOK`, `SpecNeverBothWays`, `SpecChargeAsDecided`. `control_OTG()` writes
  EN_OTG with the `isInOtg_s` it has read, which the main thread may have cleared since, and
  `program_input_current_limit()` writes it again as it was last read. `OtgInv` says why they may:
  `isInOtg_s` is set by the power thread only, so the `control_charge()` just before saw it too
  and has inhibited the charge; and what a late write leaves in EN_OTG, the next
  `control_OTG()` resets, since its statics still say that it is on.
* `FavoritesProofs`. `SpecTypeOK`, `SpecRemembered`, `SpecShownIsFavorite`, `SpecHiddenOnRequest`, for every
  layout. A click passes through several managers that are never shown. `ModeOf` and
  `RampOf` say what a manager remembers, shown mode included; every such step leaves what
  it remembers (`Follows`), which composes, and the history is what the manager remembers
  (`Recalls`). `PageInv` adds that an open page has a favorite and that no favorite is set meanwhile; the ramp
  is the favorite's unless a speed command came.
* `ParametersProofs`. `SpecSkippedSleepNoticed`, `SpecPowerLossKeepsSave`, for all firmwares. A save
  leaves its own words at the start of the user file, by rising key, and what the file held
  after them (`Starts`). A reader takes the first word of a key, so it finds every value saved
  but the one the last word of a longer file is about (`ReadMapFacts`). The system file is
  clean exactly when the last run completed its save (`SysInv`), through failed writes too:
  a format takes the flag with it.
* `ButtonProofs`. `SpecHoldMeansHeld`, for all timings. The invariant relates the ages of the
  two stamps to the presses at each step of the thread: a missed release is noticed in
  the first whole turn that finds the hold older than the debounce time (`Noticed`), so a stamp
  that was renewed after the release is at most that much younger than the hold (`Renewed`), and
  a press that is not counted as a click comes at most two debounce times after the
  hold began (`Held`); a button that is up is told before the hold (`Told`).

Only model-checked: liveness (`SwitchCompletes`, `HotStops`, `ShortEnds`, `TransientStatesEnd`,
`OffReached`, `UnusableEnds`, `RunningTimerEnds`, `ReleaseEnds`, `FullChargeEnds`), which is out of the
prover's reach. Each invariant named here was checked by TLC on the instance of its run
before it was proved.

## Plan

Done: the gates and the power handler, which decide what the battery is connected to; the
main behaviour, which decides when; the alerts, which decide what they may do; the timer,
the brightness, the button, the parameters, the navigation and the charger. What is left, in this
order:

1. The queue between the button thread and the main loop (`utils/queue.h`): FIFO of 15 events
   as the abstract specification, the unlocked array as the detailed one.
2. A variant of `StateMachine` with its assignments apart, under `PowerHandler`.
3. The charger under `PowerHandler`: the handlers' calls in place of `OtgOn`, `OtgOff` and
   the input `free`, with an abstract charger that both implement.

## Not modelled

* The queue of events (`utils/queue.h`): its races are listed as hazards.
* Statistics (counters nothing reads but the command line), the balancer and
  the battery: their answers are inputs of the modules.
* Animations, overlays, strip (drawing code, whose state no other part reads), IMU,
  microphone, indicator, Bluetooth and their drivers (device access), the vendored TCPM
  stack and sensor drivers, the command line, the simulator and scripts. These are most
  of the lines of the repository, so that the share of lines the models cover is small.
* Of the modes: the custom buttons of a mode and the lamp types other than the indexable
  one. Of the start: the feeding of the watchdogs.
* Conversions of measures are reduced to the comparisons made with them. The 32 bit clock
  does not wrap (49 days).
