---------------------------- MODULE ChargerProofs ----------------------------
(***************************************************************************)
(* The types and the safety of the charger, for every delay: it never      *)
(* charges the battery and feeds the OTG from it, and charges only when    *)
(* the last turn decided it.                                               *)
(*                                                                         *)
(* NeverBothWays is not inductive: control_OTG() writes EN_OTG with the    *)
(* isInOtg_s it has read, which the main thread may have cleared since,    *)
(* and program_input_current_limit() writes it again as it was last read.  *)
(* OtgInv says why they may: isInOtg_s is only set by the power thread, so *)
(* that the control_charge() just before control_OTG() saw it too and the  *)
(* charge is off; and what such a late write leaves in EN_OTG is reset by  *)
(* the next control_OTG(), since its statics still say it is on.           *)
(***************************************************************************)
EXTENDS Charger, TLAPS

OtgInv ==
    /\ isInit /\ step \notin {"otg", "reset"} /\ (enOtg \/ optOtg) => inhibit
    /\ step = "otg" /\ isInOtg => inhibit
    /\ step \in {"start", "keep"} => inhibit /\ otgState = "ready"
    /\ isInit /\ otgState = "reset" /\ (enOtg \/ optOtg) => step = "reset"

SafeInv ==
    /\ step # "idle" => isInit
    /\ isInit /\ ~inhibit => isChargeEnabled
    /\ step = "order" /\ may => isChargeEnabled /\ ~isInOtg
    /\ main = "idle" => OtgInv

IInv == TypeOK /\ SafeInv

\* Both run_ADC() and the battery's fields have the types of their updates.
LEMMA BatteryType ==
  ASSUME UpdateBattery, chargeStatus \in ChargeStatuses
  PROVE  /\ battery' \in [present : BOOLEAN, full : BOOLEAN, flowing : BOOLEAN]
         /\ chargeStatus' \in ChargeStatuses
         /\ seenFault' = fault
BY DEF UpdateBattery, ChargeStatuses

\* An age grows to its bound and stays there.
LEMMA OlderAge ==
  ASSUME NEW most \in Nat, NEW a \in Never..most
  PROVE  Older(a, most) \in Never..most
BY DEF Older, Never

LEMMA NeverTypes ==
  /\ Never \in Never..Validity /\ 0 \in Never..Validity
  /\ Never \in Never..FullDelay + 1
BY Delays DEF Never

LEMMA InitIInv == Init => IInv
<1> SUFFICES ASSUME Init  PROVE IInv
  OBVIOUS
<1>1. TypeOK
  BY NeverTypes DEF Init, TypeOK, IcStatuses, ChargeStatuses, Steps, NoBattery
<1>2. SafeInv
  BY DEF Init, SafeInv, OtgInv
<1> QED
  BY <1>1, <1>2 DEF IInv

-----------------------------------------------------------------------------
(* The types. *)

LEMMA ComponentTypeOK ==
  TypeOK /\ Component => TypeOK'
<1> SUFFICES ASSUME TypeOK, Component  PROVE TypeOK'
  OBVIOUS
<1> USE DEF TypeOK, program, otg, measures, order, turn
<1>1. CASE FaultComes
  BY <1>1 DEF FaultComes
<1>2. CASE FaultGoes
  BY <1>2 DEF FaultGoes
<1>3. CASE OtgDrops
  BY <1>3 DEF OtgDrops
<1> QED
  BY <1>1, <1>2, <1>3 DEF Component

LEMMA HandlersTypeOK ==
  TypeOK /\ Handlers => TypeOK'
<1> SUFFICES ASSUME TypeOK, Handlers  PROVE TypeOK'
  OBVIOUS
<1> USE DEF TypeOK, ic, measures, order, turn, InHandler, DisableOtg, IcStatuses, Steps
<1>1. CASE Setup
  BY <1>1 DEF Setup
<1>2. CASE SetupFails
  BY <1>2 DEF SetupFails
<1>3. CASE OtgOn
  BY <1>3 DEF OtgOn
<1>4. CASE OtgOff
  BY <1>4 DEF OtgOff
<1>5. CASE ShutdownState
  BY <1>5 DEF ShutdownState
<1> QED
  BY <1>1, <1>2, <1>3, <1>4, <1>5 DEF Handlers

\* control_OTG(), in either thread.
LEMMA OtgTypes ==
  ASSUME TypeOK, StartOtg \/ KeepOtg \/ ResetOtg
  PROVE  /\ {enOtg', optOtg', pin', isInOtg', seenFault'} \subseteq BOOLEAN
         /\ ResetOtg => ~pin'
BY DEF StartOtg, KeepOtg, ResetOtg, DriveOtg, DisableOtg, TypeOK

LEMMA StartTypeOK ==
  ASSUME Start, {inhibit', enOtg', fault'} \subseteq BOOLEAN
  PROVE  TypeOK'
BY NeverTypes DEF Start, TypeOK, IcStatuses, ChargeStatuses, Steps, NoBattery

LEMMA MainTypeOK ==
  TypeOK /\ Main => TypeOK'
<1> SUFFICES ASSUME TypeOK, Main  PROVE TypeOK'
  OBVIOUS
<1> USE DEF ic, otg, measures, order, turn, IcStatuses
<1>1. CASE StopOtg
  BY <1>1 DEF StopOtg, DisableOtg, TypeOK
<1>2. CASE Shutdown
  BY <1>2 DEF Shutdown, DisableOtg, TypeOK
<1>3. CASE ShutdownEnd
  <2>1. {inhibit', enOtg', fault'} \subseteq BOOLEAN
    BY <1>3 DEF ShutdownEnd, ShouldCharge, IsMeasured, TypeOK
  <2> QED
    BY <1>3, <2>1, StartTypeOK DEF ShutdownEnd
<1> QED
  BY <1>1, <1>2, <1>3 DEF Main

\* The power thread drives the pin after it has set its statics.
LEMMA ControlOtgTypeOK ==
  TypeOK /\ SafeInv /\ ControlOtg => TypeOK'
<1> SUFFICES ASSUME TypeOK, SafeInv, ControlOtg  PROVE TypeOK'
  OBVIOUS
<1>1. {enOtg', optOtg', pin', isInOtg', seenFault'} \subseteq BOOLEAN
  BY OtgTypes DEF ControlOtg
<1>2. pin' /\ main' = "idle" => otgState' = "ready" \/ step' = "reset"
  <2>1. CASE step \in {"start", "keep"}
    BY <2>1 DEF ControlOtg, SafeInv, OtgInv
  <2>2. CASE step = "reset"
    BY <2>2, OtgTypes DEF ControlOtg
  <2> QED
    BY <2>1, <2>2 DEF ControlOtg
<1>3. return \in Steps
  BY DEF TypeOK, Steps
<1> QED
  BY <1>1, <1>2, <1>3 DEF ControlOtg, TypeOK, measures, order

LEMMA LoopTypeOK ==
  TypeOK /\ SafeInv /\ Loop => TypeOK'
<1> SUFFICES ASSUME TypeOK, SafeInv, Loop  PROVE TypeOK'
  OBVIOUS
<1> USE DEF ic, otg, measures, order, IcStatuses, Steps
<1>1. ASSUME NEW due \in BOOLEAN, BeginTurn(due)  PROVE TypeOK'
  BY <1>1 DEF BeginTurn, TypeOK
<1>2. CASE DecideCharge
  <2>1. may' \in BOOLEAN
    BY <1>2 DEF DecideCharge, ShouldCharge, TypeOK
  <2> QED
    BY <1>2, <2>1 DEF DecideCharge, TypeOK
<1>3. CASE OrderCharge
  BY <1>3 DEF OrderCharge, TypeOK
<1>4. CASE LookAtOtg
  <2>1. otgState' \in {"start", "ready", "reset"}
    BY <1>4 DEF LookAtOtg, OtgState
  <2>2. step' \in Steps /\ return' \in {"idle", "status", "state"}
    BY <1>4 DEF LookAtOtg, OtgTodo, TypeOK
  <2>3. pin /\ main = "idle" => otgState' = "ready" \/ step' = "reset"
    BY <1>4 DEF LookAtOtg, OtgTodo, OtgState, TypeOK
  <2> QED
    BY <1>4, <2>1, <2>2, <2>3 DEF LookAtOtg, TypeOK
<1>5. CASE ControlOtg
  BY <1>5, ControlOtgTypeOK
<1>6. CASE RunStatusUpdate
  BY <1>6 DEF RunStatusUpdate, Detected, TypeOK
<1>7. CASE StartAdc
  BY <1>7 DEF StartAdc, AfterAdc, TypeOK
<1>8. CASE ReadAdc
  <2>1. 0 \in Never..Validity
    BY NeverTypes
  <2> QED
    BY <1>8, <2>1, BatteryType DEF ReadAdc, AfterAdc, TypeOK
<1>9. CASE ProgramInputCurrentLimit
  BY <1>9 DEF ProgramInputCurrentLimit, TypeOK
<1>10. CASE DecideOnError
  BY <1>10 DEF DecideOnError, TryClearFaults, StopCharge, TypeOK
<1>11. CASE Decide
  <2>1. CheckBattery => full' \in BOOLEAN /\ fullAge' \in Never..FullDelay + 1
    BY Delays DEF CheckBattery, Ended, AtEnd, Never, TypeOK
  <2>2. full' \in BOOLEAN /\ fullAge' \in Never..FullDelay + 1
    BY <1>11, <2>1 DEF Decide, TypeOK
  <2>3. {isChargeEnabled', limited', inhibit'} \subseteq BOOLEAN
    BY <1>11 DEF Decide, StopCharge, TypeOK
  <2> QED
    BY <1>11, <2>2, <2>3 DEF Decide, TypeOK
<1> QED
  BY <1>1, <1>2, <1>3, <1>4, <1>5, <1>6, <1>7, <1>8, <1>9, <1>10, <1>11 DEF Loop

LEMMA NextTypeOK == TypeOK /\ SafeInv /\ [Next]_vars => TypeOK'
<1> SUFFICES ASSUME TypeOK, SafeInv, [Next]_vars  PROVE TypeOK'
  OBVIOUS
<1>1. CASE Tick
  <2>1. Validity \in Nat /\ FullDelay + 1 \in Nat
    BY Delays
  <2>2. age' \in Never..Validity /\ fullAge' \in Never..FullDelay + 1
    BY <1>1, <2>1, OlderAge DEF Tick, TypeOK
  <2> QED
    BY <1>1, <2>2 DEF Tick, TypeOK, ic, otg, order, turn
<1>2. CASE Restart
  <2>1. {inhibit', enOtg', fault'} \subseteq BOOLEAN
    BY <1>2 DEF Restart, TypeOK
  <2> QED
    BY <1>2, <2>1, StartTypeOK DEF Restart
<1>3. CASE UNCHANGED vars
  BY <1>3 DEF vars, TypeOK, ic, otg, measures, order, turn
<1> QED
  BY <1>1, <1>2, <1>3, ComponentTypeOK, HandlersTypeOK, LoopTypeOK, MainTypeOK DEF Next

-----------------------------------------------------------------------------
(* The safety. *)

LEMMA ComponentSafe ==
  SafeInv /\ Component => SafeInv'
BY DEF SafeInv, OtgInv, Component, FaultComes, FaultGoes, OtgDrops, program, otg, order, turn

LEMMA HandlersSafe ==
  TypeOK /\ SafeInv /\ Handlers => SafeInv'
<1> SUFFICES ASSUME TypeOK, SafeInv, Handlers  PROVE SafeInv'
  OBVIOUS
<1> USE DEF SafeInv, OtgInv, ic, order, turn, InHandler, DisableOtg
<1>1. CASE Setup
  BY <1>1 DEF Setup
<1>2. CASE SetupFails
  BY <1>2 DEF SetupFails
<1>3. CASE OtgOn
  BY <1>3 DEF OtgOn
<1>4. CASE OtgOff
  BY <1>4 DEF OtgOff
<1>5. CASE ShutdownState
  BY <1>5 DEF ShutdownState
<1> QED
  BY <1>1, <1>2, <1>3, <1>4, <1>5 DEF Handlers

LEMMA StartSafe == Start => SafeInv'
BY DEF Start, SafeInv, OtgInv

LEMMA MainSafe ==
  SafeInv /\ Main => SafeInv'
<1> SUFFICES ASSUME SafeInv, Main  PROVE SafeInv'
  OBVIOUS
<1> USE DEF ic, order, turn
<1>1. CASE StopOtg
  BY <1>1 DEF StopOtg, DisableOtg, SafeInv, OtgInv
<1>2. CASE Shutdown
  BY <1>2 DEF Shutdown, DisableOtg, SafeInv
<1>3. CASE ShutdownEnd
  BY <1>3, StartSafe DEF ShutdownEnd
<1> QED
  BY <1>1, <1>2, <1>3 DEF Main

\* control_charge() lets the charge go on only when it has seen isInOtg_s low, and
\* control_OTG() then finds it low too.
LEMMA ChargeThenOtg ==
  ASSUME TypeOK, SafeInv, DecideCharge \/ OrderCharge \/ LookAtOtg \/ ControlOtg
  PROVE  SafeInv'
<1> USE DEF ic, otg, order
<1>1. CASE DecideCharge
  BY <1>1 DEF DecideCharge, ShouldCharge, SafeInv, OtgInv
<1>2. CASE OrderCharge
  BY <1>2 DEF OrderCharge, SafeInv, OtgInv, TypeOK
<1>3. CASE LookAtOtg
  <2>1. main = "idle" => OtgInv'
    <3>1. CASE isInOtg
      BY <1>3, <3>1 DEF LookAtOtg, OtgTodo, OtgState, SafeInv, OtgInv, TypeOK
    <3>2. CASE ~isInOtg /\ otgState # "reset"
      BY <1>3, <3>2 DEF LookAtOtg, OtgTodo, OtgState, SafeInv, OtgInv
    <3>3. CASE ~isInOtg /\ otgState = "reset"
      <4>1. step' = return /\ otgState' = "reset"
        BY <1>3, <3>3 DEF LookAtOtg, OtgTodo, OtgState
      <4> QED
        BY <1>3, <3>3, <4>1 DEF LookAtOtg, SafeInv, OtgInv, TypeOK
    <3> QED
      BY <3>1, <3>2, <3>3
  <2>2. step' # "order" /\ isInit
    BY <1>3 DEF LookAtOtg, OtgTodo, SafeInv, TypeOK
  <2> QED
    BY <1>3, <2>1, <2>2 DEF LookAtOtg, SafeInv
<1>4. CASE ControlOtg
  <2>1. step' \in {"idle", "status", "state"} /\ isInit
    BY <1>4 DEF ControlOtg, SafeInv, TypeOK
  <2>2. main = "idle" => OtgInv'
    <3>1. CASE step \in {"start", "keep"}
      BY <1>4, <2>1, <3>1 DEF ControlOtg, SafeInv, OtgInv
    <3>2. CASE step = "reset"
      BY <1>4, <2>1, <3>2 DEF ControlOtg, ResetOtg, DisableOtg, OtgInv
    <3> QED
      BY <1>4, <3>1, <3>2 DEF ControlOtg
  <2> QED
    BY <1>4, <2>1, <2>2 DEF ControlOtg, SafeInv
<1> QED
  BY <1>1, <1>2, <1>3, <1>4

LEMMA LoopSafe ==
  TypeOK /\ SafeInv /\ Loop => SafeInv'
<1> SUFFICES ASSUME TypeOK, SafeInv, Loop  PROVE SafeInv'
  OBVIOUS
<1> USE DEF ic, otg, order
<1>1. ASSUME NEW due \in BOOLEAN, BeginTurn(due)  PROVE SafeInv'
  BY <1>1 DEF BeginTurn, SafeInv, OtgInv
<1>2. CASE DecideCharge \/ OrderCharge \/ LookAtOtg \/ ControlOtg
  BY <1>2, ChargeThenOtg
<1>3. CASE RunStatusUpdate
  BY <1>3 DEF RunStatusUpdate, SafeInv, OtgInv
<1>4. CASE StartAdc
  BY <1>4 DEF StartAdc, AfterAdc, SafeInv, OtgInv
<1>5. CASE ReadAdc
  BY <1>5 DEF ReadAdc, AfterAdc, SafeInv, OtgInv
<1>6. CASE ProgramInputCurrentLimit
  BY <1>6 DEF ProgramInputCurrentLimit, SafeInv, OtgInv
<1>7. CASE DecideOnError
  BY <1>7 DEF DecideOnError, StopCharge, SafeInv, OtgInv
<1>8. CASE Decide
  BY <1>8 DEF Decide, StopCharge, SafeInv, OtgInv
<1> QED
  BY <1>1, <1>2, <1>3, <1>4, <1>5, <1>6, <1>7, <1>8 DEF Loop

LEMMA NextSafe == TypeOK /\ SafeInv /\ [Next]_vars => SafeInv'
<1> SUFFICES ASSUME TypeOK, SafeInv, [Next]_vars  PROVE SafeInv'
  OBVIOUS
<1>1. CASE Tick
  BY <1>1 DEF Tick, ic, otg, order, turn, SafeInv, OtgInv
<1>2. CASE Restart
  BY <1>2, StartSafe DEF Restart
<1>3. CASE UNCHANGED vars
  BY <1>3 DEF vars, ic, otg, order, turn, SafeInv, OtgInv
<1> QED
  BY <1>1, <1>2, <1>3, ComponentSafe, HandlersSafe, LoopSafe, MainSafe DEF Next

-----------------------------------------------------------------------------

\* The inductive invariant of the charger.
THEOREM SpecIInv == Spec => []IInv
<1>1. IInv /\ [Next]_vars => IInv'
  BY NextTypeOK, NextSafe DEF IInv
<1> QED
  BY InitIInv, <1>1, PTL DEF Spec

\* The charger keeps its types, and before a shutdown its pin is high only from the
\* start of the OTG to its reset (charging_ic.cpp:243), for every delay.
THEOREM SpecTypeOK == Spec => []TypeOK
<1>1. IInv => TypeOK
  BY DEF IInv
<1> QED
  BY <1>1, SpecIInv, PTL

\* Until it shuts down the program never leaves the component charging the battery
\* and feeding the OTG from it (charging_ic.cpp:743, charging_ic.cpp:532), for every delay.
THEOREM SpecNeverBothWays == Spec => []NeverBothWays
<1>1. IInv => NeverBothWays
  BY DEF IInv, SafeInv, OtgInv, NeverBothWays
<1> QED
  BY <1>1, SpecIInv, PTL

\* Before a shutdown the charge is on between two turns only when the last turn
\* allowed it (charger.cpp:401, charging_ic.cpp:260), for every delay.
THEOREM SpecChargeAsDecided == Spec => []ChargeAsDecided
<1>1. IInv => ChargeAsDecided
  BY DEF IInv, SafeInv, ChargeAsDecided
<1> QED
  BY <1>1, SpecIInv, PTL
=============================================================================
