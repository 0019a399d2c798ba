------------------------------- MODULE Charger -------------------------------
(***************************************************************************)
(* The charge of the battery and the power it gives back over USB (OTG):   *)
(* src/system/component/charger.cpp over src/system/bsp/charging_ic.cpp.   *)
(* The power thread runs loop() after the handlers of its modes, which     *)
(* call control_OTG() and set_enable_charge(); the main thread stops the   *)
(* OTG (go_to_output_mode) or shuts the charger down at the same time.     *)
(* control_charge() and control_OTG() of the power thread are cut where    *)
(* they have read the variables and not yet written the registers;         *)
(* changing a register, its read included, is one step, and so is each     *)
(* call the main thread makes, but for its shutdown(), which is two.  The  *)
(* component (a BQ25713) keeps its registers when the lamp restarts.  Its  *)
(* faults come at any time; a write fails where the code looks at its      *)
(* result, and nowhere else.                                               *)
(* The status register is cached by every read of it: seenFault is what    *)
(* the last read told of the faults.  PRECHARGE, FASTCHARGE and            *)
(* SLOW_CHARGE, only seen with a current flowing, are one charge status,   *)
(* INACTIVE and POWER_DETECTED one status of the charger: the charge does  *)
(* not tell them apart.  The alert of the OTG is left out: it is a bit of  *)
(* the word that module Alerts is about.  Time is in ticks.                *)
(***************************************************************************)
EXTENDS Integers

CONSTANTS FullDelay,  \* ticks a charge stays at its end before it is over
          Validity    \* ticks a measure is valid

ASSUME Delays == {FullDelay, Validity} \subseteq Nat \ {0}

Never == -1
\* The power thread: in a handler, about to decide or to order the charge, to look at
\* isInOtg_s, to start, keep or reset the OTG, or in the rest of loop().
Steps == {"idle", "decide", "order", "otg", "start", "keep", "reset",
          "status", "adc", "limit", "state"}
IcStatuses == {"uninitialized", "nominal", "error", "component", "faults"}
ChargeStatuses == {"off", "charge"}

VARIABLES
  \* The component and the pin.
  inhibit,       \* CHRG_INHIBIT: the charge is held off
  enOtg,         \* EN_OTG
  fault,         \* one of the faults is up
  pin,           \* Output_EnableOnTheGo
  \* charging_ic.cpp
  isInit,        \* isInit, and isSetup of the charger
  status,        \* status_s
  chargeStatus,  \* chargeStatus_s
  isChargeOk,    \* isChargeOk_s
  isChargeEnabled,
  limited,       \* powerLimits_s.current_mA is zero
  isInOtg,       \* isInOtg_s (isOtgEnabled_s may last longer: the charge is not free)
  otgState,      \* isOTGInitialized_s ("ready"), isOTGReseted ("reset")
  optOtg,        \* EN_OTG as last read or written
  seenFault,     \* the faults as last read
  adcTriggered,  \* isAdcTriggered
  age,           \* the age of the measures, Never before the first
  battery,       \* battery_s
  \* charger.cpp
  full,          \* isBatteryFullLatched_s
  fullAge,       \* the age of batteryFullDeglitchTime
  \* Where the threads are.
  step,          \* the step of the power thread
  may,           \* shouldCharge of the control_charge() it is in
  return,        \* where its control_OTG() returns to
  chargeOk,      \* isChargerOk, the pin as this turn read it
  main           \* the main thread: in shutdown(), or not
ic == <<inhibit, enOtg, fault, pin>>
otg == <<isInOtg, otgState, optOtg>>
measures == <<adcTriggered, age, battery, chargeStatus>>
order == <<isChargeOk, isChargeEnabled, limited>>
turn == <<step, may, return, chargeOk>>
vars == <<ic, isInit, status, seenFault, otg, measures, order, full, fullAge,
        turn, main>>

NoBattery == [present |-> FALSE, full |-> FALSE, flowing |-> FALSE]

\* The statics of a program that starts.
Start ==
    /\ pin' = FALSE
    /\ isInit' = FALSE /\ status' = "uninitialized" /\ chargeStatus' = "off"
    /\ isChargeOk' = FALSE /\ isChargeEnabled' = FALSE /\ limited' = TRUE
    /\ isInOtg' = FALSE /\ otgState' = "start" /\ optOtg' = FALSE
    /\ seenFault' = FALSE /\ adcTriggered' = FALSE /\ age' = Never
    /\ battery' = NoBattery
    /\ full' = FALSE /\ fullAge' = Never
    /\ step' = "idle" /\ may' = FALSE /\ return' = "idle" /\ chargeOk' = FALSE
    /\ main' = "idle"

Init ==
    /\ inhibit \in BOOLEAN /\ enOtg \in BOOLEAN
    /\ fault \in BOOLEAN /\ pin = FALSE
    /\ isInit = FALSE /\ status = "uninitialized" /\ chargeStatus = "off"
    /\ isChargeOk = FALSE /\ isChargeEnabled = FALSE /\ limited = TRUE
    /\ isInOtg = FALSE /\ otgState = "start" /\ optOtg = FALSE
    /\ seenFault = FALSE /\ adcTriggered = FALSE /\ age = Never
    /\ battery = NoBattery
    /\ full = FALSE /\ fullAge = Never
    /\ step = "idle" /\ may = FALSE /\ return = "idle" /\ chargeOk = FALSE
    /\ main = "idle"
-----------------------------------------------------------------------------
(* The component.                                                          *)

program == <<pin, isInit, status, seenFault, otg, measures, order, full, fullAge, turn,
             main>>

FaultComes == ~fault /\ fault' = TRUE /\ UNCHANGED <<inhibit, enOtg, program>>
FaultGoes == fault /\ fault' = FALSE /\ UNCHANGED <<inhibit, enOtg, program>>

\* The component leaves the OTG by itself.
OtgDrops == enOtg /\ enOtg' = FALSE /\ UNCHANGED <<inhibit, fault, program>>
-----------------------------------------------------------------------------
(* The calls of charging_ic.cpp.                                           *)

\* A mutant: the charge goes on under the OTG.
ShouldChargeInOtg ==
    isChargeEnabled /\ isChargeOk /\ ~limited /\ status = "nominal" /\ battery.present

\* What control_charge() reads.
ShouldCharge ==
    /\ isChargeEnabled /\ isChargeOk /\ ~limited
    /\ status = "nominal" /\ battery.present /\ ~isInOtg

\* disable_OTG() writes EN_OTG, then isInOtg_s, in one step: what another thread may do
\* between the two it may also do after both, with the isInOtg_s it has read.
DisableOtg == enOtg' = FALSE /\ optOtg' = FALSE /\ isInOtg' = FALSE

\* is_measurment_valid()
IsMeasured == age \in 0..Validity - 1

DriveOtg == pin' = TRUE /\ enOtg' = TRUE /\ optOtg' = TRUE

\* control_OTG() when isInOtg_s was set for the first time: the status register is read.
StartOtg == DriveOtg /\ seenFault' = fault /\ UNCHANGED isInOtg

\* Then: nothing is done without a measure, or before the voltage has climbed.
KeepOtg ==
    /\ \/ IsMeasured /\ DriveOtg
       \/ UNCHANGED <<pin, enOtg, optOtg>>
    /\ UNCHANGED <<isInOtg, seenFault>>

\* A mutant: the pin is left high.
ResetOtgKeepsPin == DisableOtg /\ UNCHANGED <<pin, seenFault>>

\* control_OTG() when isInOtg_s was not set and the OTG not yet reset.
ResetOtg == DisableOtg /\ pin' = FALSE /\ UNCHANGED seenFault

\* What control_OTG() makes of its statics, and what is left to do.
OtgState == IF isInOtg THEN "ready" ELSE "reset"
OtgTodo ==
    CASE isInOtg /\ otgState # "ready" -> "start"
      [] isInOtg /\ otgState = "ready" -> "keep"
      [] ~isInOtg /\ otgState # "reset" -> "reset"
      [] OTHER -> "none"
-----------------------------------------------------------------------------
(* The handlers of the power thread.                                       *)

InHandler == step = "idle"

\* charger::setup(): the component answers and takes its first registers, its
\* reads at the end of enable() included.
Setup ==
    /\ InHandler /\ status = "uninitialized" /\ isInit' = TRUE
    /\ DisableOtg
    /\ inhibit' = TRUE /\ isChargeEnabled' = FALSE
    /\ seenFault' = fault
    /\ status' = IF fault THEN "faults" ELSE "nominal"
    /\ UNCHANGED <<fault, pin, otgState, measures, isChargeOk, limited, full, fullAge,
         turn, main>>

\* It does not answer, or a write of enable() fails after the OTG is disabled.
SetupFails ==
    /\ InHandler /\ status = "uninitialized"
    /\ \/ /\ status' = "component"
          /\ UNCHANGED <<enOtg, optOtg, isInOtg, inhibit, isChargeEnabled>>
       \/ /\ status' = "error"
          /\ DisableOtg /\ inhibit' = TRUE /\ isChargeEnabled' = FALSE
    /\ UNCHANGED <<fault, pin, isInit, otgState, seenFault, measures, isChargeOk, limited,
         full, fullAge, turn, main>>

\* charger::control_OTG() with a voltage: enable_OTG() goes on with control_charge()
\* and control_OTG().
OtgOn ==
    /\ InHandler /\ isInit
    /\ full' = FALSE /\ optOtg' = enOtg
    /\ isInOtg' = TRUE
    /\ step' = IF isInOtg THEN "idle" ELSE "decide"
    /\ UNCHANGED <<ic, otgState, isInit, status, seenFault, measures, order, fullAge,
         may, return, chargeOk, main>>

\* charger::control_OTG(0, 0)
OtgOff ==
    /\ InHandler /\ isInOtg /\ DisableOtg
    /\ UNCHANGED <<inhibit, fault, pin, isInit, status, otgState, seenFault, measures, order,
         full, fullAge, turn, main>>

\* handle_shutdown() in its state, as the power thread runs it: with isChargeOk_s low
\* to the end the charge is stopped.
ShutdownState ==
    /\ InHandler /\ main # "idle"
    /\ isChargeOk' = FALSE /\ limited' = FALSE
    /\ DisableOtg
    /\ status' \in {status, "error"}
    /\ otgState' = "reset" /\ pin' = (pin /\ otgState = "reset")
    /\ inhibit' = TRUE
    /\ UNCHANGED <<fault, isInit, seenFault, measures, isChargeEnabled, full, fullAge, turn, main>>
-----------------------------------------------------------------------------
(* The main thread.                                                        *)

\* go_to_output_mode() stops the OTG.
StopOtg ==
    /\ main = "idle" /\ isInOtg /\ DisableOtg
    /\ UNCHANGED <<inhibit, fault, pin, isInit, status, seenFault, otgState, measures, order,
         full, fullAge, turn, main>>

\* handle_shutdown(), called by go_to_shutdown(), up to its current limit, which
\* writes EN_OTG as it is.
Shutdown ==
    /\ main = "idle" /\ main' = "shutdown"
    /\ isChargeOk' = FALSE /\ limited' = FALSE
    /\ DisableOtg
    /\ status' \in {status, "error"}
    /\ UNCHANGED <<inhibit, fault, pin, isInit, seenFault, otgState, measures,
         isChargeEnabled, full, fullAge, turn>>

\* Its control_OTG() and control_charge(), for which the power thread may have set
\* isInOtg_s and isChargeOk_s again; then the threads are suspended and the lamp sleeps,
\* until it starts again.  Of what they change only the registers outlive the program.
ShutdownEnd ==
    /\ main = "shutdown" /\ Start
    /\ \/ OtgTodo = "start" /\ enOtg' = TRUE
       \/ OtgTodo = "keep" /\ enOtg' \in {enOtg, enOtg \/ IsMeasured}
       \/ OtgTodo = "reset" /\ enOtg' = FALSE
       \/ OtgTodo = "none" /\ UNCHANGED enOtg
    /\ inhibit' = ~ShouldCharge /\ UNCHANGED fault

\* The lamp restarts; the component does not.
Restart == Start /\ UNCHANGED <<inhibit, enOtg, fault>>
-----------------------------------------------------------------------------
(* loop(), in the power thread.                                            *)

\* The charge and the OTG are updated with what the last turn decided; the
\* rest is done every 10 ms, or as soon as the pin changes.
BeginTurn(due) ==
    /\ step = "idle" /\ isInit /\ step' = "decide"
    /\ \E ok \in BOOLEAN :
          /\ ok # isChargeOk => due
          /\ chargeOk' = ok /\ isChargeOk' = ok
    /\ return' = IF due THEN "status" ELSE "state"
    /\ UNCHANGED <<ic, otg, seenFault, isInit, status, measures, isChargeEnabled, limited,
         full, fullAge, may, main>>

\* control_charge()
DecideCharge ==
    /\ step = "decide" /\ step' = "order"
    /\ may' = ShouldCharge
    /\ UNCHANGED <<ic, isInit, status, seenFault, otg, measures, order, full, fullAge,
         return, chargeOk, main>>

\* control_charge(), the register.
OrderCharge ==
    /\ step = "order" /\ step' = "otg"
    /\ inhibit' = ~may /\ may' = FALSE
    /\ UNCHANGED <<enOtg, fault, pin, isInit, status, seenFault, otg, measures, order,
         full, fullAge, return, chargeOk, main>>

\* control_OTG() looks at isInOtg_s and at its own statics.
LookAtOtg ==
    /\ step = "otg"
    /\ otgState' = OtgState
    /\ IF OtgTodo # "none" THEN step' = OtgTodo /\ UNCHANGED return
       ELSE step' = return /\ return' = "idle"
    /\ UNCHANGED <<ic, isInit, status, seenFault, isInOtg, optOtg, measures, order,
         full, fullAge, may, chargeOk, main>>

\* The end of control_OTG().
ControlOtg ==
    /\ \/ step = "start" /\ StartOtg
       \/ step = "keep" /\ KeepOtg
       \/ step = "reset" /\ ResetOtg
    /\ step' = return /\ return' = "idle"
    /\ UNCHANGED <<inhibit, fault, isInit, status, otgState, measures, order, full, fullAge,
         may, chargeOk, main>>

\* run_fault_detection()
Detected == IF fault THEN "faults" ELSE IF status = "faults" THEN "nominal" ELSE status

\* run_status_update(): the faults are looked at when the register has changed
\* since it was last read; its other bits may change at any time.
RunStatusUpdate ==
    /\ step = "status" /\ step' = "adc"
    /\ \E moved \in BOOLEAN :
          status' = IF moved \/ fault # seenFault THEN Detected ELSE status
    /\ seenFault' = fault
    /\ UNCHANGED <<ic, isInit, otg, measures, order, full, fullAge, may, return,
         chargeOk, main>>

\* Loop goes on to the limits when the component is fine.
AfterAdc(now) == IF now = "nominal" THEN "limit" ELSE "state"

\* run_ADC(): a new conversion, whose order may fail, or the wait for one.
StartAdc ==
    /\ step = "adc"
    /\ \/ ~adcTriggered /\ adcTriggered' = TRUE /\ UNCHANGED status
       \/ ~adcTriggered /\ adcTriggered' = FALSE /\ status' = "error"
       \/ adcTriggered /\ UNCHANGED <<adcTriggered, status>>
    /\ step' = AfterAdc(status')
    /\ UNCHANGED <<ic, isInit, seenFault, otg, age, battery, chargeStatus, order,
         full, fullAge, may, return, chargeOk, main>>

\* update_battery(): a level over 90 %, or over 95 %; a source, unless in OTG.
\* It reads the status register.
UpdateBattery ==
    \E almost, source, flowing, present, isFull \in BOOLEAN :
       /\ isFull => almost
       /\ source => ~isInOtg
       /\ ~present => flowing /\ isFull
       /\ battery' = [present |-> present, full |-> isFull, flowing |-> flowing]
       /\ \/ /\ ~source \/ ~(almost \/ flowing)
             /\ chargeStatus' = "off"
          \/ source /\ almost /\ chargeStatus' = "charge"
          \/ source /\ ~almost /\ flowing /\ chargeStatus' \in {"charge", chargeStatus}
       /\ seenFault' = fault

\* run_ADC() when the conversion is done.
ReadAdc ==
    /\ step = "adc" /\ step' = AfterAdc(status)
    /\ adcTriggered /\ adcTriggered' = FALSE
    /\ age' = 0
    /\ UpdateBattery
    /\ UNCHANGED <<ic, isInit, status, otg, order, full, fullAge, may, return,
         chargeOk, main>>

\* program_input_current_limit(), what it does to the OTG: without the optimization
\* EN_OTG is written again as it was last read.
ProgramInputCurrentLimit ==
    /\ step = "limit" /\ step' = "state"
    /\ \/ isChargeOk /\ ~limited /\ optOtg' = enOtg /\ UNCHANGED enOtg
       \/ enOtg' = optOtg /\ UNCHANGED optOtg
    /\ status' \in {status, "error"}
    /\ UNCHANGED <<inhibit, fault, pin, isInit, seenFault, isInOtg, otgState, measures, order,
         full, fullAge, may, return, chargeOk, main>>

\* update_state_status(): what the charger tells of itself.
ChargerStatus ==
    CASE status = "nominal" /\ chargeStatus = "off" ->
           IF battery.present THEN "inactive" ELSE "missing"
      [] status = "nominal" /\ chargeStatus = "charge" ->
           IF full THEN "finished" ELSE "charging"
      [] status = "component" -> "hardware"
      [] OTHER -> "software"
IsStatusError == ChargerStatus \in {"software", "hardware"}

\* try_clear_faults(): reads the register, and clears the fault it can clear.
TryClearFaults ==
    \/ seenFault' = fault /\ UNCHANGED fault
    \/ fault /\ fault' = FALSE /\ seenFault' = FALSE

\* A mutant: without the quick switch off.
StopChargeLater == isChargeEnabled' = FALSE /\ UNCHANGED inhibit

\* enable_charge(false)
StopCharge == isChargeEnabled' = FALSE /\ inhibit' = TRUE

\* An error stops the charge; the alert waits for the first half second.
DecideOnError ==
    /\ step = "state" /\ step' = "idle" /\ chargeOk' = FALSE
    /\ IsStatusError
    /\ IF status = "faults" THEN TryClearFaults ELSE UNCHANGED <<seenFault, fault>>
    /\ StopCharge
    /\ UNCHANGED <<enOtg, pin, isInit, status, otg, measures, isChargeOk, limited,
         full, fullAge, may, return, main>>

\* should_charge(), up to the balancer.
MayCharge == ~isInOtg /\ IsMeasured

\* should_charge(), the end of the charge.
AtEnd == ~battery.flowing /\ ChargerStatus = "charging"
Ended == AtEnd /\ fullAge > FullDelay

\* A mutant: every look at a charge at its end starts its delay over.
CheckBatteryRestarts ==
    /\ full' = (battery.present /\ IF full THEN battery.full ELSE Ended)
    /\ fullAge' = IF ~battery.present \/ full THEN fullAge
                  ELSE IF ~AtEnd \/ Ended THEN Never ELSE 0

\* should_charge() over the battery: what it leaves in the latches.
CheckBattery ==
    /\ full' = (battery.present /\ IF full THEN battery.full ELSE Ended)
    /\ fullAge' = IF ~battery.present \/ full THEN fullAge
                  ELSE IF ~AtEnd \/ Ended THEN Never
                  ELSE IF fullAge = Never THEN 0 ELSE fullAge

\* should_charge() and what loop() makes of it.  free: the mode of the power
\* handler allows the charge (enableCharge_s, which may change between any two
\* turns), no cell is too high or was in the last 20 seconds, as far as the
\* balancer is needed, the source can be used and no alert is against it.  A source
\* that can be used is there, since the power thread sets both flags in one call: the
\* code that drops the latch when the source is removed is never reached.
Decide ==
    /\ step = "state" /\ step' = "idle" /\ chargeOk' = FALSE
    /\ ~IsStatusError
    /\ \E free \in BOOLEAN :
          LET passes  == chargeOk /\ MayCharge /\ free
              allowed == passes /\ battery.present /\ ~full /\ ~Ended
          IN  /\ IF passes THEN CheckBattery ELSE UNCHANGED <<full, fullAge>>
              /\ \/ /\ allowed /\ isChargeEnabled' = TRUE
                    /\ limited' \in BOOLEAN /\ UNCHANGED inhibit
                 \/ ~allowed /\ StopCharge /\ limited' = TRUE
    /\ UNCHANGED <<enOtg, fault, pin, isInit, status, seenFault, otg, measures, isChargeOk,
         may, return, main>>

Older(a, most) == IF a = Never \/ a = most THEN a ELSE a + 1

Tick ==
    /\ step = "idle" /\ main = "idle"
    /\ age' = Older(age, Validity)
    /\ fullAge' = Older(fullAge, FullDelay + 1)
    /\ UNCHANGED <<ic, isInit, status, seenFault, otg, adcTriggered, battery, chargeStatus,
         order, full, turn, main>>

Component == FaultComes \/ FaultGoes \/ OtgDrops
Handlers == Setup \/ SetupFails \/ OtgOn \/ OtgOff \/ ShutdownState
Main == StopOtg \/ Shutdown \/ ShutdownEnd
Loop ==
    \/ \E due \in BOOLEAN : BeginTurn(due)
    \/ DecideCharge \/ OrderCharge \/ LookAtOtg \/ ControlOtg
    \/ RunStatusUpdate \/ StartAdc \/ ReadAdc
    \/ ProgramInputCurrentLimit \/ DecideOnError \/ Decide
Next == Component \/ Handlers \/ Loop \/ Main \/ Tick \/ Restart

Spec == Init /\ [][Next]_vars

\* The power thread runs for ever, and refreshes every 10 ms; time passes.
FairSpec == Spec /\ WF_vars(Loop) /\ SF_vars(BeginTurn(TRUE)) /\ SF_vars(Tick)
-----------------------------------------------------------------------------
(* Properties.                                                             *)

\* Every variable has its type, and before a shutdown the pin is high only from the
\* start of the OTG to its reset (charging_ic.cpp:243).
TypeOK ==
    /\ {inhibit, enOtg, fault, pin, isInit, isChargeOk, isChargeEnabled, limited, isInOtg,
        optOtg, seenFault, adcTriggered, full, may, chargeOk} \subseteq BOOLEAN
    /\ status \in IcStatuses /\ chargeStatus \in ChargeStatuses
    /\ otgState \in {"start", "ready", "reset"}
    /\ pin /\ main = "idle" => otgState = "ready" \/ step = "reset"
    /\ age \in Never..Validity
    /\ fullAge \in Never..FullDelay + 1
    /\ battery \in [present : BOOLEAN, full : BOOLEAN, flowing : BOOLEAN]
    /\ step \in Steps /\ return \in {"idle", "status", "state"}
    /\ main \in {"idle", "shutdown"}

\* Until it shuts down the program never leaves the component charging the battery
\* and feeding the OTG from it, though the main thread stops the OTG while the power
\* thread is about to drive it (charging_ic.cpp:743, charging_ic.cpp:532).  EN_OTG is then
\* left on with the charge off; the next turn may let the charge go on just before it
\* resets EN_OTG, between its control_charge() and the end of its control_OTG().
NeverBothWays ==
    isInit /\ main = "idle" /\ step \notin {"otg", "reset"} => inhibit \/ ~enOtg

\* Until the lamp shuts down, between two turns the charge is on only if the last
\* turn allowed it (charger.cpp:401, charging_ic.cpp:260), though the component is only
\* told at the beginning of the next.
ChargeAsDecided ==
    isInit /\ main = "idle" /\ step = "idle" /\ ~inhibit => isChargeEnabled

\* A full battery that draws nothing stops being charged for good
\* (charger.cpp:141).
FullBattery ==
    /\ isInit /\ ~isInOtg /\ main = "idle"
    /\ battery.present /\ battery.full /\ ~battery.flowing /\ chargeStatus = "charge"
FullChargeEnds == <>[]FullBattery => <>[]inhibit

\* "if this succeeds, the status will be to NOMINAL next loop call"
\* (charging_ic.h:96): once the faults are over, the charger leaves their
\* status.
FaultsEnd == <>[](isInit /\ main = "idle" /\ ~fault) => []<>(status # "faults")
=============================================================================
