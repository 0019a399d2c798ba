---------------------------- MODULE PowerHandler ----------------------------
(***************************************************************************)
(* The power machine of the lamp (src/src/system/logic/power_handler.cpp)  *)
(* over the power gates.  Two threads of equal priority share its state:   *)
(*                                                                         *)
(*   the power thread runs power_loop(): powergates::loop(), then          *)
(*   state_machine_behavior(), in two steps since the machine can change   *)
(*   between the switch on its state and the handler's work, then the end  *)
(*   of the loop;                                                          *)
(*                                                                         *)
(*   the main thread asks for modes with go_to_*_mode(), in two steps, the *)
(*   check that the machine may switch and the switch itself, for the      *)
(*   shutdown and the error state.                                         *)
(*                                                                         *)
(* The PD thread and user code act on the gates (PowerGates).              *)
(*                                                                         *)
(* The voltage of the power rail, the presence of the components on I2C,   *)
(* the answer of the charger and the use of the USB port in OTG mode are   *)
(* inputs of the handlers, and so are the settings the main thread writes  *)
(* at any time for them to read: _isChargeEnabled, and whether a temporary *)
(* output runs.  Voltages and currents are reduced to what the code        *)
(* compares: see rail and out.boost.                                       *)
(***************************************************************************)
EXTENDS StateMachine, PowerGates

CONSTANTS
  ClearMinDelay,       \* clearPowerRailMinDelay_ms
  ClearFailureDelay,   \* clearPowerRailFailureDelay_ms
  ClearTimeout,        \* clearPowerRailFailureDelay_ms * 1.5
  StartupTimeout,      \* startupFailTimeout_ms
  StartupPowerWait,    \* the 200 ms before vbus is said to be unpowered
  StartupDetect,       \* startupFailTimeout_ms * 0.3
  StartupCharge,       \* startupFailTimeout_ms * 0.8
  MaxStall             \* the longest time between two turns of power_loop()

ASSUME PowerAssumption ==
  /\ {ClearMinDelay, ClearFailureDelay, ClearTimeout, StartupTimeout,
      StartupPowerWait, StartupDetect, StartupCharge, MaxStall} \subseteq Nat
  /\ StartupPowerWait <= StartupDetect
  /\ ClearMinDelay < ClearFailureDelay
  /\ StartupTimeout <= ClearTimeout

\* The loop is never held up for long enough to skip the failure test of
\* handle_clear_power_rails() (1500 ms with the code's constants).
ASSUME StallAssumption == ClearFailureDelay + MaxStall <= ClearTimeout

VARIABLES
  power,        \* __private::powerMachine
  stall,        \* time since the power thread last looked at the machine
  rail,         \* get_power_rail_voltage() as the handler of this turn read it
  out,          \* what the power thread drives
  pd,           \* the settings of the power delivery machine
  otg,          \* _hasAutoSwitchedToOTG, isInOtgModeForce
  recovery,     \* _isInBatteryRecoveryMode
  outputReady,  \* s_isOutputModeReady
  call          \* what the main thread is in the middle of

machineVars == <<power, stall, rail, out, pd, otg, recovery, outputReady, call>>
vars == <<gateVars, pc, machineVars>>

PowerStates ==
  {"STARTUP", "IDLE", "CLEAR", "CHARGING", "OUTPUT", "OTG", "SHUTDOWN", "ERROR"}
Modes == {"IDLE", "CHARGING", "OUTPUT", "OTG"}

\* At most 3200 mV; in the strip's range; above it, as a temporary output
\* allows; any other value or no good measure (UINT32_MAX).
Readings == {"low", "window", "high", "other"}
Rail == Readings \cup {"unread"}

\* dischargeVbus, vbusDirection, the last set_otg_parameters(),
\* charger::set_enable_charge(), balancer::enable_balancing()
Outputs ==
  [discharge : BOOLEAN, direction : BOOLEAN, boost : {"off", "output", "temporary", "otg"},
   charge : BOOLEAN, balancing : BOOLEAN]

\* should_run_pd_state_machine, allow_otg(), force_set_to_source_mode()
PdSettings == [run : BOOLEAN, otg : BOOLEAN, source : BOOLEAN]

\* No age is compared with more.
MaxAge == ClearTimeout

Init ==
  /\ GatesInit
  /\ power = SetStateFor(NewMachine("STARTUP"), "STARTUP", StartupTimeout, "ERROR")
  /\ stall = 0
  /\ rail = "unread"
  /\ out = [discharge |-> FALSE, direction |-> FALSE, boost |-> "off",
            charge |-> FALSE, balancing |-> FALSE]
  /\ pd = [run |-> TRUE, otg |-> FALSE, source |-> FALSE]
  /\ otg = [auto |-> FALSE, forced |-> FALSE]
  /\ recovery = FALSE
  /\ outputReady = FALSE
  /\ call = "none"

-----------------------------------------------------------------------------
(* state_machine_behavior() *)

\* Fall through on a timeout and choose the handler: pc is then the state it
\* is for.
RunPowerMachine ==
  /\ pc = "run"
  /\ power' = ReadChanged(RunMachine(power))
  /\ pc' = power'.state
  /\ stall' = 0
  /\ UNCHANGED <<gateVars, rail, out, pd, otg, recovery, outputReady, call>>

Handles(s) == pc = s /\ UNCHANGED <<stall, call>>

HandleIdle ==
  /\ Handles("IDLE")
  /\ pc' = "tail"
  /\ UNCHANGED <<gateVars, rail, power, out, pd, otg, recovery, outputReady>>

\* Mutant: the measure of the rail is not looked at.
DelayElapsed == power.age >= ClearMinDelay

\* The rail is discharged, after a minimal delay.
RailCleared == power.age >= ClearMinDelay /\ rail' = "low"

\* Mutant: a rail that never discharges is waited for.
ClearLate == FALSE

\* The rail did not discharge in time.
ClearFailed == power.age >= ClearFailureDelay

\* Mutant: the charge is not forbidden.
ClearOutputsOnly ==
  [discharge |-> ~RailCleared, direction |-> FALSE, boost |-> "off",
   charge |-> out.charge, balancing |-> FALSE]

\* Mutant: the discharge is left on when the rail is clear.
ClearStillDischarging ==
  [discharge |-> TRUE, direction |-> FALSE, boost |-> "off",
   charge |-> FALSE, balancing |-> FALSE]

\* What the handler drives while it clears the rail.
ClearOutputs ==
  [discharge |-> ~RailCleared, direction |-> FALSE, boost |-> "off",
   charge |-> FALSE, balancing |-> FALSE]

HandleClearPowerRails ==
  /\ Handles("CLEAR")
  /\ pc' = "tail"
  /\ outputReady' = FALSE
  /\ UNCHANGED <<otg, recovery>>
  /\ \/ /\ recovery
        /\ out' = [out EXCEPT !.discharge = FALSE]
        /\ power' = SkipTimeout(power)
        /\ UNCHANGED <<gateVars, rail, pd>>
     \/ /\ ~recovery
        /\ rail' \in Readings
        /\ DisableGates
        /\ pd' = [pd EXCEPT !.run = @ /\ power.after = "OTG", !.otg = FALSE]
        /\ out' = ClearOutputs
        /\ power' = IF RailCleared THEN SkipTimeout(power)
                    ELSE IF ClearFailed THEN SetState(power, "ERROR")
                    ELSE power

HandleChargingMode ==
  /\ Handles("CHARGING")
  /\ EnableGate("vbus", "tail")
  /\ \E allowed \in BOOLEAN :
       out' = IF IsEnabled("vbus")
              THEN [out EXCEPT !.charge = allowed, !.balancing = TRUE] ELSE out
  /\ pd' = [pd EXCEPT !.run = TRUE, !.otg = TRUE]
  /\ UNCHANGED <<power, rail, otg, recovery, outputReady>>

OutputVoltageOk(temporary) == rail' = "window" \/ (rail' = "high" /\ temporary)

HandleOutputVoltageMode ==
  /\ Handles("OUTPUT")
  /\ rail' \in Readings
  /\ pd' = [pd EXCEPT !.run = FALSE]
  /\ \E temporary \in BOOLEAN :
       /\ out' = [out EXCEPT !.boost = IF temporary THEN "temporary" ELSE "output"]
       /\ outputReady' = OutputVoltageOk(temporary)
       /\ \/ OutputVoltageOk(temporary) /\ EnableGate("power", "tail")
          \/ ~OutputVoltageOk(temporary) /\ DisableGates /\ pc' = "tail"
  /\ UNCHANGED <<power, otg, recovery>>

\* The end of OTG: no activity, battery too low, or an alert on the port.
StopOtg ==
  /\ pc' = "tail"
  /\ pd' = [run |-> TRUE, otg |-> FALSE, source |-> FALSE]
  /\ out' = [out EXCEPT !.boost = "off"]
  /\ power' = SetState(power, "CHARGING")
  /\ UNCHANGED gateVars

\* The PD machine is forced to source once, unless OTG was entered by itself.
DriveOtg(forces) ==
  /\ EnableGate("vbus", "tail")
  /\ pd' = [run |-> TRUE, otg |-> TRUE, source |-> pd.source \/ forces]
  /\ out' = [out EXCEPT !.balancing = FALSE, !.charge = FALSE, !.boost = "otg",
                        !.direction = TRUE]
  /\ UNCHANGED power

HandleOtgMode ==
  /\ Handles("OTG")
  /\ \E auto \in {otg.auto, TRUE} :
       \/ StopOtg /\ otg' = [otg EXCEPT !.auto = auto]
       \/ LET forces == ~otg.auto /\ ~otg.forced IN
          DriveOtg(forces) /\ otg' = [auto |-> auto, forced |-> otg.forced \/ forces]
  /\ UNCHANGED <<rail, recovery, outputReady>>

HandleErrorState ==
  /\ Handles("ERROR")
  /\ pc' = "tail"
  /\ recovery' = FALSE
  /\ DisableGates
  /\ out' = [out EXCEPT !.boost = "off"]
  /\ UNCHANGED <<power, rail, pd, otg, outputReady>>

\* handle_shutdown(), called by both threads
CutPower ==
  /\ DisableGates
  /\ out' = [out EXCEPT !.boost = "off", !.balancing = FALSE]

HandleShutdown ==
  /\ Handles("SHUTDOWN")
  /\ pc' = "tail"
  /\ CutPower
  /\ UNCHANGED <<power, rail, pd, otg, recovery, outputReady>>

-----------------------------------------------------------------------------
(* handle_startup(): the components answer on I2C, or the battery is too   *)
(* low to power them and they are powered through the vbus gate.           *)

StartupFails ==
  /\ power' = SetState(power, "ERROR")
  /\ UNCHANGED <<gateVars, out>>

ComponentsAbsent ==
  \/ power.age > StartupPowerWait /\ StartupFails /\ recovery' = FALSE
  \/ /\ power.age <= StartupDetect
     /\ EnableVbusDirect
     /\ recovery' = TRUE
     /\ UNCHANGED <<power, out>>

\* charger::setup() and balancer::init() succeed or not; in recovery a charge
\* cycle is waited for before the balancer is looked for.
ComponentsPresent ==
  /\ UNCHANGED recovery
  /\ \/ StartupFails
     \/ /\ recovery
        /\ out' = [out EXCEPT !.charge = TRUE]
        /\ UNCHANGED <<gateVars, power>>
     \/ /\ recovery => power.age >= StartupCharge
        /\ out' = [out EXCEPT !.charge = @ \/ recovery]
        /\ \E s \in {"ERROR", "IDLE"} : power' = SetState(power, s)
        /\ UNCHANGED gateVars

HandleStartup ==
  /\ Handles("STARTUP")
  /\ pc' = "tail"
  /\ ComponentsAbsent \/ ComponentsPresent
  /\ UNCHANGED <<rail, pd, otg, outputReady>>

\* The rest of power_loop(): recovery ends once the battery is charged enough.
EndPowerLoop ==
  /\ pc = "tail"
  /\ pc' = "loop"
  /\ \/ UNCHANGED recovery
     \/ recovery /\ power.state # "STARTUP" /\ recovery' = FALSE
  /\ rail' = "unread"
  /\ UNCHANGED <<gateVars, power, stall, out, pd, otg, outputReady, call>>

GateSteps ==
  /\ \/ GatesLoop
     \/ \E g \in Gate : FlagSwitching(g) \/ RequestGate(g, "tail")
  /\ UNCHANGED machineVars

PowerThread ==
  \/ GateSteps
  \/ RunPowerMachine
  \/ HandleStartup
  \/ HandleIdle
  \/ HandleClearPowerRails
  \/ HandleChargingMode
  \/ HandleOutputVoltageMode
  \/ HandleOtgMode
  \/ HandleShutdown
  \/ HandleErrorState
  \/ EndPowerLoop

-----------------------------------------------------------------------------
(* The main thread. *)

\* can_switch_states()
CanSwitchStates == power.state # "ERROR"

\* The main thread asks for a mode only once the machine has left STARTUP
\* (behavior.cpp:356).
Asks(mode) ==
  /\ call = "none"
  /\ power.state # "STARTUP"
  /\ CanSwitchStates
  /\ call' = mode
  /\ UNCHANGED <<gateVars, pc, power, stall, rail, recovery, outputReady>>

GoToOutputMode ==
  /\ Asks("OUTPUT")
  /\ ~recovery
  /\ pd' = [run |-> FALSE, otg |-> FALSE, source |-> FALSE]
  /\ out' = [out EXCEPT !.boost = "off"]
  /\ UNCHANGED otg

GoToChargerMode ==
  /\ Asks("CHARGING")
  /\ pd' = [pd EXCEPT !.source = FALSE]
  /\ UNCHANGED <<out, otg>>

\* when the battery and the alerts allow it
GoToOtgMode ==
  /\ Asks("OTG")
  /\ ~recovery
  /\ pd' = [pd EXCEPT !.otg = TRUE]
  /\ otg' = [auto |-> FALSE, forced |-> FALSE]
  /\ UNCHANGED out

GoToIdle == Asks("IDLE") /\ UNCHANGED <<pd, otg, out>>

\* Mutant: the mode is entered without clearing the rails.
SwitchAtOnce ==
  /\ call \in Modes
  /\ call' = "none"
  /\ power' = SetState(power, call)
  /\ UNCHANGED <<gateVars, pc, stall, rail, out, pd, otg, recovery, outputReady>>

\* switch_state(), the end of go_to_*_mode()
SwitchState ==
  /\ call \in Modes
  /\ call' = "none"
  /\ power' = SetStateFor(power, "CLEAR", ClearTimeout, call)
  /\ UNCHANGED <<gateVars, pc, stall, rail, out, pd, otg, recovery, outputReady>>

GoToError ==
  /\ call = "none"
  /\ power.state # "STARTUP"
  /\ power' = SetState(power, "ERROR")
  /\ UNCHANGED <<gateVars, pc, stall, rail, out, pd, otg, recovery, outputReady, call>>

\* go_to_shutdown(): the state first, then handle_shutdown() on this thread.
GoToShutdown ==
  /\ call = "none"
  /\ call' = "SHUTDOWN"
  /\ power' = SetState(power, "SHUTDOWN")
  /\ UNCHANGED <<gateVars, pc, stall, rail, out, pd, otg, recovery, outputReady>>

ShutdownOnMainThread ==
  /\ call = "SHUTDOWN"
  /\ call' = "off"
  /\ CutPower
  /\ UNCHANGED <<pc, power, stall, rail, pd, otg, recovery, outputReady>>

ModeRequests == GoToOutputMode \/ GoToChargerMode \/ GoToOtgMode \/ GoToIdle

MainThread ==
  ModeRequests \/ SwitchState \/ GoToError \/ GoToShutdown \/ ShutdownOnMainThread

OtherThreads == (OtherThreadDisables \/ UserBlips) /\ UNCHANGED machineVars

\* The threads are suspended and the gates opened (behavior.cpp:690-752); the
\* next wake up starts the program again.
PowerOff ==
  /\ call = "off"
  /\ pin' = {} /\ enabled' = {} /\ switching' = {}
  /\ switchAge' = [g \in Gate |-> 0]
  /\ really' = FALSE /\ blipLeft' = NoBlip /\ stray' = FALSE /\ pc' = "loop"
  /\ power' = SetStateFor(NewMachine("STARTUP"), "STARTUP", StartupTimeout, "ERROR")
  /\ stall' = 0
  /\ out' = [discharge |-> FALSE, direction |-> FALSE, boost |-> "off",
             charge |-> FALSE, balancing |-> FALSE]
  /\ pd' = [run |-> TRUE, otg |-> FALSE, source |-> FALSE]
  /\ otg' = [auto |-> FALSE, forced |-> FALSE]
  /\ recovery' = FALSE /\ outputReady' = FALSE /\ call' = "none" /\ rail' = "unread"

Tick ==
  /\ stall < MaxStall
  /\ stall' = stall + 1
  /\ GateTime
  /\ power' = Aged(power, MaxAge)
  /\ UNCHANGED <<pin, enabled, switching, really, stray, pc, rail, out, pd, otg, recovery,
                 outputReady, call>>

Next == PowerThread \/ MainThread \/ OtherThreads \/ PowerOff \/ Tick

Spec == Init /\ [][Next]_vars

-----------------------------------------------------------------------------
(* Properties. *)

TypeOK ==
  /\ GatesTypeOK
  /\ pc \in GatePcs \cup PowerStates \cup {"run", "tail"}
  /\ power \in Machine(PowerStates, MaxAge, MaxAge)
  /\ stall \in 0..MaxStall
  /\ rail \in Rail
  /\ out \in Outputs
  /\ pd \in PdSettings
  /\ otg \in [auto : BOOLEAN, forced : BOOLEAN]
  /\ recovery \in BOOLEAN
  /\ outputReady \in BOOLEAN
  /\ call \in Modes \cup {"none", "SHUTDOWN", "off"}

\* A blip that ends can close the power gate though nothing requests it
\* (power_gates.cpp:181): the properties that speak of the pins hold from the
\* next time both gates are opened, which every turn of CLEAR, ERROR and
\* SHUTDOWN does.  The requests themselves obey them without a proviso.

\* The two gates are never driven together, through every mode, recovery,
\* shutdown and restart (power_gates.cpp:15).
GatesExclusive == ~stray => pin # Gate

\* Once the handler of CLEAR_POWER_RAILS, ERROR or SHUTDOWN ran, no gate is
\* requested, no delayed switch is left that would close one, and both stay open.
SafeStateIsolates ==
  /\ power.state \in {"CLEAR", "ERROR", "SHUTDOWN"}
  /\ ~power.changed
  /\ pc \notin PowerStates
  /\ ~recovery
  => enabled = {} /\ switching = {} /\ (~stray => pin = {})

\* The power gate is closed, or is requested to be.
OutputClosed == "power" \in enabled \cup switching \/ (~stray /\ "power" \in pin)

\* The output is requested and powered only in OUTPUT_VOLTAGE_MODE, or until the
\* handler of one of the states that isolate the rail has run.
PowerGateFollowsMode ==
  OutputClosed => power.state \in {"OUTPUT", "CLEAR", "ERROR", "SHUTDOWN"}

\* The battery is never charged while the output is requested or powered: a
\* charge allowed in charging mode, or by a recovery, is forbidden before.
NoChargeIntoOutput == OutputClosed => ~out.charge

\* The rail is only discharged while no gate is requested and both are open.
DischargeIsolated == out.discharge => enabled = {} /\ (~stray => pin = {})

EntersPoweredMode == power'.state \in {"OUTPUT", "OTG"} /\ power'.state # power.state

\* Output and OTG are entered from CLEAR_POWER_RAILS only, with the rail
\* measured low after the minimal delay, both gates opened by the same turn, the
\* boost and the discharge off.
RailsClearedFirst ==
  [][ EntersPoweredMode =>
        /\ power.state = "CLEAR"
        /\ power.age >= ClearMinDelay
        /\ rail' = "low"
        /\ pin' = {} /\ enabled' = {}
        /\ out'.boost = "off" /\ ~out'.discharge ]_vars

\* Clearing the rails never lasts: in time for the failure test of one turn of
\* the power thread it ends in the mode or in ERROR, long before the timeout.
ClearBounded == power.state = "CLEAR" => power.age < ClearFailureDelay + 2 * MaxStall

Abstract ==
  INSTANCE PowerMachine WITH
    mode <- power.state,
    after <- IF power.state = "CLEAR" THEN power.after ELSE "none",
    gate <- really,
    ready <- outputReady

\* The power machine and its gates are the ones the main loop is modelled over
\* (PowerMachine): a mode is entered with the output not ready, from whatever
\* handler the request interrupted, and is_power_gate_enabled() becomes true only
\* where the output may be driven; it stays true until the vbus gate is driven.
ImplementsPowerMachine == Abstract!PowerSpec

(* What the documentation says, and the code does not do. *)

\* go_to_*_mode() "return true if the mode switch is accepted" (power_handler.h:38):
\* an accepted switch ends in the mode, in ERROR, in the shutdown or in another
\* request.
AcceptedModeKept ==
  [][ power.state = "CLEAR" /\ call # "off" =>
        power'.state \in {"CLEAR", power.after, "ERROR", "SHUTDOWN"} ]_vars
=============================================================================
