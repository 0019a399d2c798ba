------------------------------- MODULE Behavior -------------------------------
(***************************************************************************)
(* The main loop of the lamp (src/src/system/global.cpp, main_loop()): the *)
(* events of the button (logic/inputs.cpp), the behaviour machine          *)
(* (logic/behavior.cpp), then the requests of the alerts.  It drives the   *)
(* power machine, which runs on its own thread and is taken here by its    *)
(* specification, PowerMachine; PowerHandler implements it.                *)
(*                                                                         *)
(* A turn of the main loop is two steps, the events and the behaviour in   *)
(* one and the alerts in the other; the power thread, the sunset thread    *)
(* and the world act in between.  The shutdown is cut where it waits.      *)
(*                                                                         *)
(* The measures (battery level, the use of the USB port, the negotiation   *)
(* on vbus, a pressed button) are inputs of the handlers.  The times are   *)
(* in units of half a second, rounded to the units the code compares; a    *)
(* turn of the loop is far shorter, so that the two timed states of        *)
(* POST_OUTPUT_LIGHT always run their handler before their timeout.        *)
(***************************************************************************)
EXTENDS Integers, StateMachine, PowerMachine

CONSTANTS
  TurnOffDelay,   \* SYSTEM_TURN_ON_ALLOW_TURN_OFF_DELAY
  StateTimeout,   \* PRE_CHARGE_STATE_TIMEOUT_ms, PRE_OUTPUT_STATE_TIMEOUT_ms
  GateWait,       \* the second that OUTPUT_LIGHT waits for the power gate
  UnusableDelay,  \* before a lamp with an unusable battery turns off (3 s)
  VbusDebounce,   \* how long vbus may bounce in CHARGER_OPERATIONS (5 s)
  LockoutDelay    \* before a lamp in lockout turns off (950 ms)

ASSUME BehaviorAssumption ==
  {TurnOffDelay, StateTimeout, GateWait, UnusableDelay, VbusDebounce, LockoutDelay}
    \subseteq Nat

VARIABLES
  main,       \* mainMachine
  at,         \* where the main loop is
  target,     \* isTargetPoweredOn_s
  charge,     \* _isChargeEnabled, set with enable_charge()
  lit,        \* time since preOutputLightCalled
  valid,      \* time since lastOutputLightValidTime, in OUTPUT_LIGHT
  lockout,    \* time since SYSTEM_IN_LOCKOUT was raised, or NoLockout
  wasOn,      \* isSystemOn of the inputs
  inError,    \* SYSTEM_IN_ERROR_STATE is raised
  sunset,     \* a sunset timer runs
  usable,     \* is_battery_usable_as_power_source()
  vbus        \* is_charger_powered()

loopVars == <<main, at, target, charge, lit, valid, lockout, wasOn, inError, sunset>>
worldVars == <<usable, vbus>>
vars == <<loopVars, worldVars, powerVars>>

BehaviorStates ==
  {"START_LOGIC", "PRE_CHARGER_OPERATION", "CHARGER_OPERATIONS", "PRE_OUTPUT_LIGHT",
   "OUTPUT_LIGHT", "POST_OUTPUT_LIGHT", "SHUTDOWN", "ERROR"}

LargerOf(a, b) == IF a >= b THEN a ELSE b

NoLockout == -1
MaxMainAge == LargerOf(StateTimeout, VbusDebounce) + 1
MaxLit == LargerOf(UnusableDelay, TurnOffDelay) + 1

Init ==
  /\ PowerInit
  /\ main = NewMachine("START_LOGIC")
  /\ at = "behavior"
  /\ target = FALSE /\ charge = FALSE
  /\ lit = 0 /\ valid = 0
  /\ lockout \in {NoLockout, 0}
  /\ wasOn = FALSE /\ inError = FALSE /\ sunset = FALSE
  /\ usable \in BOOLEAN /\ vbus \in BOOLEAN

-----------------------------------------------------------------------------
(* Parts of the handlers *)

\* set_power_off() is ignored just after the start of the output.
PowerOff == target' = (target /\ lit < TurnOffDelay)

Enters(s) == main' = SetState(main, s)

GoToError == target' = TRUE /\ Enters("ERROR")

\* Mutant: the state to go to is not armed.
LeaveOutputUntimed(s) == Enters("POST_OUTPUT_LIGHT")

\* The output is left through POST_OUTPUT_LIGHT; the timeouts are never waited for.
LeaveOutputFor(s) == main' = SetStateFor(main, "POST_OUTPUT_LIGHT", 1, s)

\* Mutant: only the user turns the lamp off.
UnusableIgnored == FALSE

\* A lamp whose battery may not be used is turned off after a while.
UnusableLongEnough == lit > UnusableDelay

\* check_handle_exit_output_mode() returns true.
ExitsOutput ==
  /\ ~target \/ ~usable
  /\ sunset' = FALSE
  /\ IF target
     THEN /\ IF UnusableLongEnough THEN PowerOff ELSE UNCHANGED target
          /\ UNCHANGED main
     ELSE /\ LeaveOutputFor(IF vbus THEN "PRE_CHARGER_OPERATION" ELSE "SHUTDOWN")
          /\ UNCHANGED target

Handles(s) ==
  /\ at = "behavior"
  /\ at' = "alerts"
  /\ RunMachine(main).state = s
  /\ UNCHANGED <<worldVars, wasOn>>

PowerFailed == mode = "ERROR"

-----------------------------------------------------------------------------
(* The handlers of the states *)

\* With the target off the state is left before the power machine goes to ERROR.
HandleErrorState ==
  /\ Handles("ERROR")
  /\ IF target THEN UNCHANGED main ELSE Enters("SHUTDOWN")
  /\ RequestError
  /\ inError' = TRUE
  /\ UNCHANGED <<target, charge, lit, valid, lockout, sunset>>

\* The lamp was woken by vbus, or by its button, whose click turns it on.
HandleStartLogic ==
  /\ Handles("START_LOGIC")
  /\ charge' = FALSE
  /\ \/ PowerFailed /\ GoToError
     \/ mode = "STARTUP" /\ UNCHANGED <<main, target>>
     \/ mode \notin {"STARTUP", "ERROR"} /\ Enters("PRE_CHARGER_OPERATION") /\ UNCHANGED target
     \/ mode \notin {"STARTUP", "ERROR"} /\ Enters("PRE_OUTPUT_LIGHT") /\ target' = TRUE
  /\ UNCHANGED <<powerVars, lit, valid, lockout, inError, sunset>>

\* Mutant: a machine that is still in the output mode is left there.
AskWhenIdle ==
  IF mode \in {"OTG", "OUTPUT"} THEN UNCHANGED powerVars ELSE RequestMode("CHARGING")

AskForCharge == IF mode = "OTG" THEN UNCHANGED powerVars ELSE RequestMode("CHARGING")

\* Mutant: the state waits for ever.
OnlyPowerFails == PowerFailed

PreStateFails == PowerFailed \/ main.age > StateTimeout

\* The battery may be charged and the USB port is free, or not.
HandlePreCharger ==
  /\ Handles("PRE_CHARGER_OPERATION")
  /\ IF PreStateFails THEN GoToError /\ UNCHANGED powerVars
     ELSE /\ UNCHANGED target
          /\ \/ UNCHANGED <<main, powerVars>>
             \/ Enters("CHARGER_OPERATIONS") /\ AskForCharge
  /\ UNCHANGED <<charge, lit, valid, lockout, inError, sunset>>

\* Mutant: the charge stays allowed when the lamp is turned on.
KeepCharge == UNCHANGED charge

ForbidCharge == charge' = FALSE

\* vbus can be used, or had the time to.
Debounced == main.age > VbusDebounce

\* In OTG, and shortly after it, nothing is done.
HandleCharger ==
  /\ Handles("CHARGER_OPERATIONS")
  /\ \/ PowerFailed /\ GoToError /\ UNCHANGED <<charge, lockout>>
     \/ /\ ~PowerFailed /\ target
        /\ ForbidCharge
        /\ Enters("PRE_OUTPUT_LIGHT")
        /\ UNCHANGED <<target, lockout>>
     \/ /\ ~PowerFailed /\ ~target
        /\ lockout' = NoLockout
        /\ \/ (~Debounced \/ mode = "OTG") /\ UNCHANGED <<main, charge>>
           \/ (Debounced \/ vbus) /\ ~vbus /\ charge' = FALSE /\ Enters("SHUTDOWN")
           \/ vbus /\ charge' = TRUE /\ UNCHANGED main
        /\ UNCHANGED target
  /\ UNCHANGED <<powerVars, lit, valid, inError, sunset>>

\* The lamp may not be powered, or is locked.
OutputForbidden == ~usable \/ lockout # NoLockout

\* A critical level ends in the charge or in the shutdown, with the target on in
\* the latter.  go_to_output_mode() is refused while the battery is recovered.
HandlePreOutput ==
  /\ Handles("PRE_OUTPUT_LIGHT")
  /\ \/ PreStateFails /\ GoToError /\ UNCHANGED <<powerVars, lit, valid, sunset>>
     \/ /\ ~PreStateFails /\ OutputForbidden
        /\ \/ ExitsOutput
           \/ target /\ usable /\ UNCHANGED <<main, target, sunset>>
        /\ UNCHANGED <<powerVars, lit, valid>>
     \/ /\ ~PreStateFails /\ ~OutputForbidden
        /\ \/ vbus /\ target' = FALSE /\ Enters("PRE_CHARGER_OPERATION")
           \/ ~vbus /\ Enters("SHUTDOWN") /\ UNCHANGED target
        /\ UNCHANGED <<powerVars, lit, valid, sunset>>
     \/ /\ ~PreStateFails /\ ~OutputForbidden
        /\ lit' = 0 /\ valid' = 0
        /\ RequestMode("OUTPUT") \/ UNCHANGED powerVars
        /\ Enters("OUTPUT_LIGHT")
        /\ UNCHANGED <<target, sunset>>
  /\ UNCHANGED <<charge, lockout, inError>>

Powered == gate /\ ready

HandleOutputLight ==
  /\ Handles("OUTPUT_LIGHT")
  /\ \/ PowerFailed /\ GoToError /\ UNCHANGED <<valid, sunset>>
     \/ /\ mode = "OTG"
        /\ target' = FALSE
        /\ LeaveOutputFor("PRE_CHARGER_OPERATION")
        /\ UNCHANGED <<valid, sunset>>
     \/ /\ mode \notin {"OTG", "ERROR"} /\ ~Powered
        /\ IF valid > GateWait THEN GoToError ELSE UNCHANGED <<main, target>>
        /\ UNCHANGED <<valid, sunset>>
     \/ /\ mode \notin {"OTG", "ERROR"} /\ Powered
        /\ valid' = 0
        /\ \/ ExitsOutput
           \/ target /\ usable /\ UNCHANGED <<main, target, sunset>>
  /\ UNCHANGED <<powerVars, charge, lit, lockout, inError>>

\* disable_power_gates() leaves is_power_gate_enabled() as it is.
HandlePostOutput ==
  /\ Handles("POST_OUTPUT_LIGHT")
  /\ main' = SkipTimeout(main)
  /\ UNCHANGED <<powerVars, target, charge, lit, valid, lockout, inError, sunset>>

\* go_to_shutdown(); then the threads are suspended and the parameters saved.
BeginShutdown(from) ==
  /\ at = from
  /\ at' = "shutdown"
  /\ RequestShutdown
  /\ UNCHANGED <<worldVars, wasOn, target, charge, lit, valid, lockout, inError, sunset>>

HandleShutdown ==
  /\ BeginShutdown("behavior")
  /\ main.state = "SHUTDOWN"
  /\ UNCHANGED main

\* The lamp sleeps, or failed to: go_to_sleep() returned.
Sleep ==
  /\ at = "shutdown"
  /\ \/ at' = "asleep" /\ UNCHANGED <<main, target>>
     \/ at' = "alerts" /\ GoToError
  /\ UNCHANGED <<worldVars, powerVars, charge, lit, valid, lockout, wasOn, inError, sunset>>

\* The program starts again; a lockout is kept in the parameters.
WakeUp ==
  /\ at = "asleep"
  /\ at' = "behavior"
  /\ main' = NewMachine("START_LOGIC")
  /\ target' = FALSE /\ charge' = FALSE /\ lit' = 0 /\ valid' = 0
  /\ lockout' = IF lockout = NoLockout THEN NoLockout ELSE 0
  /\ wasOn' = FALSE /\ inError' = FALSE /\ sunset' = FALSE
  /\ Restart
  /\ UNCHANGED worldVars

-----------------------------------------------------------------------------
(* The alerts, after the behaviour *)

EndTurn ==
  /\ at = "alerts"
  /\ at' = "behavior"
  /\ IF lockout >= LockoutDelay /\ main.state \in {"PRE_OUTPUT_LIGHT", "OUTPUT_LIGHT"}
     THEN PowerOff \/ UNCHANGED target
     ELSE UNCHANGED target
  /\ UNCHANGED <<worldVars, powerVars, main, charge, lit, valid, lockout, wasOn,
                 inError, sunset>>

\* is_request_shutdown(): the handlers of POST_OUTPUT_LIGHT and SHUTDOWN at once.
EmergencyShutdown ==
  /\ BeginShutdown("alerts")
  /\ main' = SkipTimeout(main)

MainLoop ==
  \/ HandleErrorState \/ HandleStartLogic \/ HandlePreCharger \/ HandleCharger
  \/ HandlePreOutput \/ HandleOutputLight \/ HandlePostOutput \/ HandleShutdown
  \/ Sleep \/ EndTurn

-----------------------------------------------------------------------------
(* The events of the button, before the behaviour *)

MayStart == ~inError

Event ==
  /\ at = "behavior"
  /\ UNCHANGED <<worldVars, at, main, charge, lit, valid, inError>>

\* Three clicks or more unlock a lamp that was off, four lock it.
LockoutAfter(n) ==
  IF wasOn \/ n < 3 THEN lockout
  ELSE IF n = 4 /\ lockout = NoLockout THEN 0
  ELSE NoLockout

\* In lockout nothing is done.  The user code may take a start click, and then
\* turns the lamp on, or any click of the user mode.
HandleClick(n) ==
  \/ UNCHANGED target
  \/ /\ LockoutAfter(n) = NoLockout
     /\ \/ ~wasOn /\ target' = TRUE
        \/ /\ main.state = "OUTPUT_LIGHT"
           /\ (n = 1 /\ wasOn) \/ n >= 10
           /\ PowerOff
        \/ main.state # "OUTPUT_LIGHT" /\ n = 1 /\ target' = TRUE

Click(n) ==
  /\ Event
  /\ IF ~MayStart /\ wasOn
     THEN /\ IF n = 1 THEN PowerOff ELSE UNCHANGED target
          /\ UNCHANGED lockout
     ELSE HandleClick(n) /\ lockout' = LockoutAfter(n)
  /\ wasOn' = target'
  /\ UNCHANGED <<powerVars, sunset>>

\* A long hold: external battery of two, start with three clicks on a lamp that
\* was off; a brightness ramp held too long, or the exit of the user mode.
Hold(n) ==
  /\ Event
  /\ \/ /\ ~wasOn /\ n = 2
        /\ mode \notin {"STARTUP", "ERROR"} /\ RequestMode("OTG")
        /\ UNCHANGED <<target, lockout>>
     \/ /\ ~wasOn /\ n = 3
        /\ target' = TRUE /\ lockout' = NoLockout
        /\ UNCHANGED powerVars
     \/ /\ wasOn \/ n = 1
        /\ lockout = NoLockout /\ main.state = "OUTPUT_LIGHT"
        /\ PowerOff
        /\ UNCHANGED <<powerVars, lockout>>
  /\ wasOn' \in {wasOn, target'}
  /\ UNCHANGED sunset

SetSunset ==
  /\ Event
  /\ main.state = "OUTPUT_LIGHT" /\ ~sunset
  /\ sunset' = TRUE
  /\ UNCHANGED <<powerVars, target, lockout, wasOn>>

Inputs == (\E n \in {1, 3, 4, 10} : Click(n)) \/ (\E n \in 1..3 : Hold(n)) \/ SetSunset

-----------------------------------------------------------------------------
(* The other threads and the world *)

PowerThread == at # "asleep" /\ PowerThreadStep /\ UNCHANGED <<loopVars, worldVars>>

SunsetEnds ==
  /\ sunset /\ at \in {"behavior", "alerts"}
  /\ sunset' = FALSE
  /\ PowerOff
  /\ UNCHANGED <<worldVars, powerVars, main, at, charge, lit, valid, lockout, wasOn, inError>>

World ==
  /\ \/ usable' = ~usable /\ UNCHANGED vbus
     \/ vbus' = ~vbus /\ UNCHANGED usable
  /\ UNCHANGED <<loopVars, powerVars>>

Later(time, most) == IF time < most THEN time + 1 ELSE time

\* A turn takes less than the 100 ms of the timed states.
Tick ==
  /\ at = "behavior" /\ ~main.timed
  /\ main' = Aged(main, MaxMainAge)
  /\ lit' = Later(lit, MaxLit)
  /\ valid' = IF main.state = "OUTPUT_LIGHT" THEN Later(valid, GateWait + 1) ELSE 0
  /\ lockout' = IF lockout = NoLockout THEN NoLockout ELSE Later(lockout, LockoutDelay)
  /\ UNCHANGED <<worldVars, powerVars, at, target, charge, wasOn, inError, sunset>>

Next ==
  \/ MainLoop \/ EmergencyShutdown \/ WakeUp \/ Inputs
  \/ PowerThread \/ SunsetEnds \/ World \/ Tick

Spec == Init /\ [][Next]_vars

\* The main loop goes on and time passes between its turns, whatever the events
\* and the other threads do; the startup and a clear end, in time (PowerHandler).
FairSpec ==
  /\ Spec
  /\ WF_vars(MainLoop) /\ SF_vars(Tick)
  /\ WF_vars(mode = "STARTUP" /\ PowerThread /\ mode' # mode)

-----------------------------------------------------------------------------
(* Properties *)

\* Every variable keeps its type.
TypeOK ==
  /\ main \in Machine(BehaviorStates, MaxMainAge, 1)
  /\ at \in {"behavior", "alerts", "shutdown", "asleep"}
  /\ {target, charge, wasOn, inError, sunset, usable, vbus, gate, ready} \subseteq BOOLEAN
  /\ lit \in 0..MaxLit /\ valid \in 0..(GateWait + 1)
  /\ lockout \in {NoLockout} \cup 0..LockoutDelay
  /\ mode \in ModesOfPower /\ after \in PowerModes \cup {"none"}

\* The battery is not charged from the start of the output to its end, whichever
\* way the lamp got there (behavior.cpp:424).
ChargeOffWhileLit ==
  main.state \in {"PRE_OUTPUT_LIGHT", "OUTPUT_LIGHT", "POST_OUTPUT_LIGHT"} => ~charge

\* While the lamp charges the power machine is not in the output mode, nor on its
\* way to it: the request of PRE_CHARGER_OPERATION replaced the one for the output.
NoOutputModeWhileCharging ==
  main.state = "CHARGER_OPERATIONS" =>
    mode # "OUTPUT" /\ ~(mode = "CLEAR" /\ after = "OUTPUT")

\* The lamp never hangs between two states: whatever the power machine, the battery
\* and the user do, it gets to its powered output, to the charge, to ERROR or to sleep.
TransientStatesEnd ==
  []<>(\/ at = "asleep"
       \/ main.state \in {"CHARGER_OPERATIONS", "ERROR"}
       \/ main.state = "OUTPUT_LIGHT" /\ Powered)

\* A lamp that is asked to turn off leaves its output for sleep or the charge,
\* unless it is asked to turn on again or is in ERROR.
OffReached ==
  []<>(target \/ at = "asleep" \/ main.state \in {"CHARGER_OPERATIONS", "ERROR"})

\* An output that the alerts forbid for ever ends, once the user leaves it alone.
UnusableEnds ==
  <>[](~usable) /\ <>[][~Inputs]_vars => []<>(at = "asleep" \/ main.state # "OUTPUT_LIGHT")
=============================================================================
