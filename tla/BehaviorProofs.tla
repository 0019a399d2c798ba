--------------------------- MODULE BehaviorProofs ---------------------------
(***************************************************************************)
(* The safety properties of the main loop, for every value of its delays.  *)
(*                                                                         *)
(* IInv adds to the types what keeps the three facts true from one step to *)
(* the next: a timeout is only armed by the exit of the output, which is   *)
(* skipped before time passes, so that the machine never falls through to  *)
(* a state behind its handlers; the charge is allowed in one state and the *)
(* states it leaves for; and a clear of the power rail has a mode to end   *)
(* in.                                                                     *)
(***************************************************************************)
EXTENDS Behavior, TLAPS

Mains == Machine(BehaviorStates, MaxMainAge, 1)

\* The only timeout of the main machine: not waited for.
TimedInv ==
  main.timed => /\ main.state = "POST_OUTPUT_LIGHT"
                /\ main.age = 0 /\ main.limit = 1
                /\ main.after \in {"PRE_CHARGER_OPERATION", "SHUTDOWN"}

\* Where the charge may be allowed.
ChargeInv == charge => main.state \in {"CHARGER_OPERATIONS", "ERROR", "SHUTDOWN"}

\* A clear of the power rail has a mode to end in.
ClearInv == mode = "CLEAR" => after # "none"

IInv == TypeOK /\ TimedInv /\ ChargeInv /\ ClearInv /\ NoOutputModeWhileCharging

\* The types, one variable at a time.
Types ==
  /\ main \in Mains
  /\ at \in {"behavior", "alerts", "shutdown", "asleep"}
  /\ target \in BOOLEAN /\ charge \in BOOLEAN /\ wasOn \in BOOLEAN
  /\ inError \in BOOLEAN /\ sunset \in BOOLEAN
  /\ usable \in BOOLEAN /\ vbus \in BOOLEAN /\ gate \in BOOLEAN /\ ready \in BOOLEAN
  /\ lit \in 0..MaxLit /\ valid \in 0..(GateWait + 1)
  /\ lockout \in {NoLockout} \cup 0..LockoutDelay
  /\ mode \in ModesOfPower /\ after \in PowerModes \cup {"none"}

\* TypeOK, as the steps of the proofs use it.
LEMMA TypesAreTypeOK == Types <=> TypeOK
<1>1. {target, charge, wasOn, inError, sunset, usable, vbus, gate, ready} \subseteq BOOLEAN
        <=> /\ target \in BOOLEAN /\ charge \in BOOLEAN /\ wasOn \in BOOLEAN
            /\ inError \in BOOLEAN /\ sunset \in BOOLEAN
            /\ usable \in BOOLEAN /\ vbus \in BOOLEAN /\ gate \in BOOLEAN /\ ready \in BOOLEAN
  BY Zenon
<1> QED
  BY <1>1 DEF Types, TypeOK, Mains

\* The same, after a step.
LEMMA TypesAreTypeOKPrimed == Types' => TypeOK'
BY TypesAreTypeOK, PTL

-----------------------------------------------------------------------------
(* The machine template, for the main machine. *)

\* The bounds are natural numbers.
LEMMA Bounds ==
  /\ TurnOffDelay \in Nat /\ StateTimeout \in Nat /\ GateWait \in Nat
  /\ UnusableDelay \in Nat /\ VbusDebounce \in Nat /\ LockoutDelay \in Nat
  /\ MaxMainAge \in Nat /\ MaxLit \in Nat
BY BehaviorAssumption DEF MaxMainAge, MaxLit, LargerOf

\* The states, by their names.
LEMMA StateNames ==
  /\ "START_LOGIC" \in BehaviorStates /\ "PRE_CHARGER_OPERATION" \in BehaviorStates
  /\ "CHARGER_OPERATIONS" \in BehaviorStates /\ "PRE_OUTPUT_LIGHT" \in BehaviorStates
  /\ "OUTPUT_LIGHT" \in BehaviorStates /\ "POST_OUTPUT_LIGHT" \in BehaviorStates
  /\ "SHUTDOWN" \in BehaviorStates /\ "ERROR" \in BehaviorStates
BY DEF BehaviorStates

\* StateMachine(s)
LEMMA NewMachineIs ==
  ASSUME NEW s \in BehaviorStates
  PROVE  NewMachine(s) \in Mains /\ NewMachine(s).state = s /\ NewMachine(s).timed = FALSE
<1>1. 0 \in 0..MaxMainAge /\ 0 \in 0..1
  BY Bounds
<1> QED
  BY <1>1 DEF NewMachine, Mains, Machine

\* set_state(s, true)
LEMMA ForceStateIs ==
  ASSUME NEW m \in Mains, NEW s \in BehaviorStates
  PROVE  /\ ForceState(m, s) \in Mains
         /\ ForceState(m, s).state = s
         /\ ForceState(m, s).age = 0
         /\ ForceState(m, s).timed = FALSE
<1>1. 0 \in 0..MaxMainAge /\ 0 \in 0..1
  BY Bounds
<1> QED
  BY <1>1 DEF Mains, Machine, ForceState

\* set_state(s): only a machine that is already in s keeps its timeout.
LEMMA SetStateIs ==
  ASSUME NEW m \in Mains, NEW s \in BehaviorStates
  PROVE  /\ SetState(m, s) \in Mains
         /\ SetState(m, s).state = s
         /\ s = m.state => SetState(m, s) = m
         /\ s # m.state => SetState(m, s).timed = FALSE
BY ForceStateIs DEF SetState

\* set_state(POST_OUTPUT_LIGHT, timeout, s), from a state that is not it.
LEMMA SetStateForIs ==
  ASSUME NEW m \in Mains, NEW s \in BehaviorStates, m.state # "POST_OUTPUT_LIGHT"
  PROVE  LET r == SetStateFor(m, "POST_OUTPUT_LIGHT", 1, s) IN
         /\ r \in Mains
         /\ r.state = "POST_OUTPUT_LIGHT" /\ r.timed = TRUE /\ r.after = s
         /\ r.age = 0 /\ r.limit = 1
<1> DEFINE f == ForceState(m, "POST_OUTPUT_LIGHT")
           r == [f EXCEPT !.timed = TRUE, !.limit = 1, !.after = s]
<1>1. SetStateFor(m, "POST_OUTPUT_LIGHT", 1, s) = r
  BY DEF SetStateFor, AcceptsTimed
<1>2. f \in Mains /\ f.state = "POST_OUTPUT_LIGHT" /\ f.age = 0
  BY ForceStateIs, StateNames
<1> HIDE DEF f
<1>3. 1 \in 0..1
  OBVIOUS
<1>4. r \in Mains
  BY <1>2, <1>3 DEF Mains, Machine
<1>5. r.state = "POST_OUTPUT_LIGHT" /\ r.age = 0 /\ r.timed = TRUE /\ r.limit = 1 /\ r.after = s
  BY <1>2 DEF Mains, Machine
<1> QED
  BY <1>1, <1>4, <1>5

\* Time leaves the state and its timeout alone.
LEMMA AgedIs ==
  ASSUME NEW m \in Mains
  PROVE  LET r == Aged(m, MaxMainAge) IN
         r \in Mains /\ r.state = m.state /\ r.timed = m.timed
<1> DEFINE a == IF m.age < MaxMainAge THEN m.age + 1 ELSE m.age
           r == [m EXCEPT !.age = a]
<1>1. m.age \in 0..MaxMainAge /\ a \in 0..MaxMainAge
  BY Bounds DEF Mains, Machine
<1>2. Aged(m, MaxMainAge) = r
  BY DEF Aged
<1> HIDE DEF a
<1>3. r \in Mains
  BY <1>1 DEF Mains, Machine
<1>4. r.state = m.state /\ r.timed = m.timed
  BY DEF Mains, Machine
<1> QED
  BY <1>2, <1>3, <1>4

\* The machine never falls through a timeout, and skips only the one of its output.
LEMMA TimeoutsAre ==
  ASSUME main \in Mains, TimedInv
  PROVE  /\ RunMachine(main) = main
         /\ ~main.timed => SkipTimeout(main) = main
         /\ main.timed => /\ SkipTimeout(main) \in Mains
                          /\ SkipTimeout(main).timed = FALSE
                          /\ SkipTimeout(main).state \in {"PRE_CHARGER_OPERATION", "SHUTDOWN"}
<1>1. ~TimedOut(main)
  BY DEF TimedOut, TimedInv
<1>2. RunMachine(main) = main
  BY <1>1 DEF RunMachine
<1>3. ~main.timed => SkipTimeout(main) = main
  BY DEF SkipTimeout
<1>4. ASSUME main.timed
      PROVE  /\ SkipTimeout(main) \in Mains
             /\ SkipTimeout(main).timed = FALSE
             /\ SkipTimeout(main).state \in {"PRE_CHARGER_OPERATION", "SHUTDOWN"}
  <2>1. SkipTimeout(main) = SetState(main, main.after)
    BY <1>4 DEF SkipTimeout
  <2>2. main.after \in BehaviorStates /\ main.after # main.state
    BY <1>4, StateNames DEF TimedInv
  <2>3. main.after \in {"PRE_CHARGER_OPERATION", "SHUTDOWN"}
    BY <1>4 DEF TimedInv
  <2>4. /\ SetState(main, main.after) \in Mains
        /\ SetState(main, main.after).state = main.after
        /\ SetState(main, main.after).timed = FALSE
    BY <2>2, SetStateIs
  <2> QED
    BY <2>1, <2>3, <2>4
<1> QED
  BY <1>2, <1>3, <1>4

-----------------------------------------------------------------------------
(* The parts of the handlers. *)

\* A handler runs in the state it is named for.
LEMMA HandlesIn ==
  ASSUME IInv, NEW s, Handles(s)
  PROVE  /\ main \in Mains /\ main.state = s
         /\ at' = "alerts" /\ UNCHANGED <<usable, vbus, wasOn>>
<1>1. main \in Mains /\ TimedInv
  BY TypesAreTypeOK DEF IInv, Types
<1>2. RunMachine(main) = main
  BY <1>1, TimeoutsAre
<1> QED
  BY <1>1, <1>2 DEF Handles, worldVars

\* set_state(s) leaves no timeout behind, but for POST_OUTPUT_LIGHT itself.
LEMMA EntersIs ==
  ASSUME main \in Mains, TimedInv, NEW s \in BehaviorStates \ {"POST_OUTPUT_LIGHT"}, Enters(s)
  PROVE  main' \in Mains /\ main'.state = s /\ main'.timed = FALSE
<1>1. main' = SetState(main, s)
  BY DEF Enters
<1>2. main'\in Mains /\ main'.state = s
  BY <1>1, SetStateIs
<1>3. CASE s = main.state
  <2>1. main' = main
    BY <1>1, <1>3, SetStateIs
  <2>2. main.timed \in BOOLEAN /\ ~main.timed
    BY <1>3 DEF TimedInv, Mains, Machine
  <2> QED
    BY <1>2, <2>1, <2>2
<1>4. CASE s # main.state
  <2>1. SetState(main, s).timed = FALSE
    BY <1>4, SetStateIs
  <2> QED
    BY <1>1, <1>2, <2>1
<1> QED
  BY <1>3, <1>4

\* The machine after the exit of the output: its timeout is the one TimedInv allows.
LEMMA LeaveOutputIs ==
  ASSUME main \in Mains, main.state # "POST_OUTPUT_LIGHT",
         NEW s \in {"PRE_CHARGER_OPERATION", "SHUTDOWN"}, LeaveOutputFor(s)
  PROVE  main' \in Mains /\ main'.state = "POST_OUTPUT_LIGHT" /\ TimedInv'
<1>1. s \in BehaviorStates
  BY StateNames
<1>2. main' = SetStateFor(main, "POST_OUTPUT_LIGHT", 1, s)
  BY DEF LeaveOutputFor
<1>3. /\ main' \in Mains
      /\ main'.state = "POST_OUTPUT_LIGHT" /\ main'.timed = TRUE /\ main'.after = s
      /\ main'.age = 0 /\ main'.limit = 1
  BY <1>1, <1>2, SetStateForIs
<1> QED
  BY <1>3 DEF TimedInv

\* set_power_off() only turns the target off.
LEMMA PowerOffIs ==
  ASSUME PowerOff
  PROVE  target' \in BOOLEAN
BY DEF PowerOff

\* Either the output is left, or the machine stays where it is.
LEMMA ExitsOutputIs ==
  ASSUME main \in Mains, main.state # "POST_OUTPUT_LIGHT", target \in BOOLEAN, ExitsOutput
  PROVE  /\ target' \in BOOLEAN /\ sunset' \in BOOLEAN
         /\ \/ main' = main
            \/ main' \in Mains /\ main'.state = "POST_OUTPUT_LIGHT" /\ TimedInv'
<1>1. CASE target
  BY <1>1, PowerOffIs DEF ExitsOutput
<1>2. CASE ~target
  <2>1. PICK s \in {"PRE_CHARGER_OPERATION", "SHUTDOWN"} : LeaveOutputFor(s)
    BY <1>2 DEF ExitsOutput
  <2>2. main' \in Mains /\ main'.state = "POST_OUTPUT_LIGHT" /\ TimedInv'
    BY <2>1, LeaveOutputIs
  <2> QED
    BY <1>2, <2>2 DEF ExitsOutput
<1> QED
  BY <1>1, <1>2

\* The promises of the power machine keep its types, and a mode to end a clear in.
PowerInv ==
  /\ gate \in BOOLEAN /\ ready \in BOOLEAN
  /\ mode \in ModesOfPower /\ after \in PowerModes \cup {"none"}
  /\ ClearInv

\* A request is accepted or the machine is still in STARTUP.
LEMMA RequestModeIs ==
  ASSUME PowerInv, NEW m \in PowerModes, RequestMode(m)
  PROVE  PowerInv' /\ mode' = "CLEAR" /\ after' = m
<1>1. m # "none" /\ "CLEAR" \in ModesOfPower
  BY DEF PowerModes, ModesOfPower
<1> QED
  BY <1>1 DEF PowerInv, RequestMode, ClearInv

\* A forced mode leaves no clear behind.
LEMMA ForceModeIs ==
  ASSUME NEW m \in ModesOfPower \ {"CLEAR"}, ForceMode(m), gate' \in BOOLEAN, ready' \in BOOLEAN
  PROVE  PowerInv' /\ mode' = m
BY DEF PowerInv, ForceMode, ClearInv

\* No step of the power thread goes to the output mode, or asks for it, by itself.
LEMMA PowerThreadIs ==
  ASSUME PowerInv, PowerThreadStep
  PROVE  /\ PowerInv'
         /\ \/ UNCHANGED <<mode, after>>
            \/ mode' # "OUTPUT" /\ mode' # "CLEAR"
            \/ mode = "CLEAR" /\ mode' = after /\ after \in PowerModes
<1> DEFINE Named == {"STARTUP", "IDLE", "CHARGING", "SHUTDOWN", "ERROR", "OUTPUT", "OTG"}
<1>1. Named \subseteq ModesOfPower \ {"CLEAR"} /\ PowerModes \subseteq Named
  BY DEF PowerModes, ModesOfPower
<1>2. CASE Start
  <2>1. PICK m \in {"IDLE", "ERROR"} : ForceMode(m)
    BY <1>2 DEF Start
  <2>2. gate' \in BOOLEAN /\ ready' \in BOOLEAN
    BY <1>2 DEF Start, PowerInv
  <2>3. PowerInv' /\ mode' = m
    BY <1>1, <2>1, <2>2, ForceModeIs
  <2> QED
    BY <2>1, <2>3
<1>3. CASE Fail
  <2>1. gate' \in BOOLEAN /\ ready' \in BOOLEAN
    BY <1>3 DEF Fail, PowerInv
  <2>2. ForceMode("ERROR")
    BY <1>3 DEF Fail
  <2> QED
    BY <1>1, <2>1, <2>2, ForceModeIs
<1>4. CASE EndClear
  <2>1. mode = "CLEAR" /\ ForceMode(after) /\ gate' \in BOOLEAN /\ ready' \in BOOLEAN
    BY <1>4 DEF EndClear, PowerInv
  <2>2. after \in PowerModes
    BY <2>1 DEF PowerInv, ClearInv
  <2>3. PowerInv' /\ mode' = after
    BY <1>1, <2>1, <2>2, ForceModeIs
  <2> QED
    BY <2>1, <2>2, <2>3
<1>5. CASE EndOtg
  <2>1. gate' \in BOOLEAN /\ ready' \in BOOLEAN /\ ForceMode("CHARGING")
    BY <1>5 DEF EndOtg, PowerInv
  <2> QED
    BY <1>1, <2>1, ForceModeIs
<1>6. CASE CheckOutput \/ CutOutput
  <2>1. ready' \in BOOLEAN /\ UNCHANGED <<mode, after, gate>>
    BY <1>6 DEF CheckOutput, CutOutput
  <2> QED
    BY <2>1 DEF PowerInv, ClearInv
<1>7. CASE DrivePowerGate \/ DriveVbusGate
  <2>1. gate' \in BOOLEAN /\ UNCHANGED <<mode, after, ready>>
    BY <1>7 DEF DrivePowerGate, DriveVbusGate
  <2> QED
    BY <2>1 DEF PowerInv, ClearInv
<1> QED
  BY <1>2, <1>3, <1>4, <1>5, <1>6, <1>7 DEF PowerThreadStep

-----------------------------------------------------------------------------
(* The steps. *)

\* IInv, in the form the steps use it.
LEMMA Unfolded ==
  ASSUME IInv
  PROVE  /\ Types /\ TimedInv /\ ChargeInv /\ NoOutputModeWhileCharging /\ PowerInv
         /\ main \in Mains
BY TypesAreTypeOK DEF IInv, Types, PowerInv

\* A step that keeps each part keeps IInv.
LEMMA Folded ==
  ASSUME Types', TimedInv', ChargeInv', ClearInv', NoOutputModeWhileCharging'
  PROVE  IInv'
BY TypesAreTypeOKPrimed DEF IInv

\* What the handlers of the states leave alone, and where the machine may be after them.
MainStep ==
  /\ main' \in Mains
  /\ TimedInv'
  /\ charge' = charge \/ charge' = FALSE
  /\ charge' => main'.state \in {"CHARGER_OPERATIONS", "ERROR", "SHUTDOWN"}
  /\ target' \in BOOLEAN /\ sunset' \in BOOLEAN /\ inError' \in BOOLEAN
  /\ lit' \in 0..MaxLit /\ valid' \in 0..(GateWait + 1)
  /\ lockout' \in {NoLockout} \cup 0..LockoutDelay
  /\ UNCHANGED <<usable, vbus, wasOn>>
  /\ at' \in {"behavior", "alerts", "shutdown", "asleep"}

\* A step of the main loop that leaves the power machine alone, or sends it where
\* the state of the main machine allows.
LEMMA MainStepKeeps ==
  ASSUME IInv, MainStep, PowerInv', NoOutputModeWhileCharging'
  PROVE  IInv'
<1>1. Types'
  BY Unfolded DEF MainStep, Types, PowerInv
<1>2. TimedInv' /\ ChargeInv' /\ ClearInv'
  BY DEF MainStep, ChargeInv, PowerInv
<1> QED
  BY <1>1, <1>2, Folded

\* The power machine does not move.
LEMMA PowerStays ==
  ASSUME PowerInv, UNCHANGED powerVars
  PROVE  PowerInv' /\ UNCHANGED <<mode, after>>
BY DEF PowerInv, powerVars, ClearInv

\* handle_error_state()
LEMMA HandleErrorStateStep ==
  ASSUME IInv, HandleErrorState
  PROVE  IInv'
<1>1. main \in Mains /\ main.state = "ERROR" /\ at' = "alerts" /\ UNCHANGED <<usable, vbus, wasOn>>
  BY HandlesIn DEF HandleErrorState
<1>2. /\ main' \in Mains /\ main'.timed = FALSE
      /\ main'.state \in {"ERROR", "SHUTDOWN"}
  <2>1. CASE target
    <3>1. main' = main
      BY <2>1 DEF HandleErrorState
    <3> QED
      BY <1>1, <3>1, Unfolded DEF TimedInv, Mains, Machine
  <2>2. CASE ~target
    <3>1. Enters("SHUTDOWN") /\ "SHUTDOWN" \in BehaviorStates \ {"POST_OUTPUT_LIGHT"}
      BY <2>2, StateNames DEF HandleErrorState
    <3> QED
      BY <3>1, Unfolded, EntersIs
  <2> QED
    BY <2>1, <2>2
<1>3. MainStep
  <2>1. UNCHANGED <<target, charge, lit, valid, lockout, sunset>> /\ inError' = TRUE
    BY DEF HandleErrorState
  <2> QED
    BY <1>1, <1>2, <2>1, Unfolded DEF MainStep, Types, TimedInv
<1>4. PowerInv' /\ mode' = "ERROR"
  <2>1. ForceMode("ERROR") /\ gate' = gate /\ ready' = ready
    BY DEF HandleErrorState, RequestError
  <2>2. "ERROR" \in ModesOfPower \ {"CLEAR"}
    BY DEF ModesOfPower
  <2> QED
    BY <2>1, <2>2, Unfolded, ForceModeIs DEF PowerInv
<1> QED
  BY <1>2, <1>3, <1>4, MainStepKeeps DEF NoOutputModeWhileCharging

\* A handler stays where it is, goes to ERROR, or enters the state s.
LEMMA StayOrEnter ==
  ASSUME IInv, main.state # "POST_OUTPUT_LIGHT",
         NEW s \in BehaviorStates \ {"POST_OUTPUT_LIGHT"},
         main' = main \/ Enters(s) \/ Enters("ERROR")
  PROVE  /\ main' \in Mains /\ main'.timed = FALSE /\ TimedInv'
         /\ main' = main \/ main'.state = s \/ main'.state = "ERROR"
<1>1. main \in Mains /\ TimedInv
  BY Unfolded
<1>2. CASE main' = main
  BY <1>1, <1>2 DEF TimedInv, Mains, Machine
<1>3. CASE Enters(s)
  BY <1>1, <1>3, EntersIs DEF TimedInv
<1>4. CASE Enters("ERROR")
  <2>1. "ERROR" \in BehaviorStates \ {"POST_OUTPUT_LIGHT"}
    BY StateNames
  <2> QED
    BY <1>1, <1>4, <2>1, EntersIs DEF TimedInv
<1> QED
  BY <1>2, <1>3, <1>4

\* handle_start_logic_state()
LEMMA HandleStartLogicStep ==
  ASSUME IInv, HandleStartLogic
  PROVE  IInv'
<1>1. main \in Mains /\ main.state = "START_LOGIC" /\ at' = "alerts" /\ UNCHANGED <<usable, vbus, wasOn>>
  BY HandlesIn DEF HandleStartLogic
<1>2. PICK s \in {"PRE_CHARGER_OPERATION", "PRE_OUTPUT_LIGHT"} :
        main' = main \/ Enters(s) \/ Enters("ERROR")
  BY DEF HandleStartLogic, GoToError
<1>3. s \in BehaviorStates \ {"POST_OUTPUT_LIGHT"}
  BY StateNames
<1>4. /\ main' \in Mains /\ TimedInv'
      /\ main' = main \/ main'.state = s \/ main'.state = "ERROR"
  BY <1>1, <1>2, <1>3, StayOrEnter
<1>5. target' \in BOOLEAN
  BY Unfolded DEF HandleStartLogic, GoToError, Types
<1>6. MainStep
  BY <1>1, <1>4, <1>5, Unfolded DEF HandleStartLogic, MainStep, Types
<1>7. PowerInv' /\ main'.state # "CHARGER_OPERATIONS"
  BY <1>1, <1>4, Unfolded, PowerStays DEF HandleStartLogic
<1> QED
  BY <1>6, <1>7, MainStepKeeps DEF NoOutputModeWhileCharging

\* handle_pre_charger_operation_state(): the request of the charge replaces any other.
LEMMA HandlePreChargerStep ==
  ASSUME IInv, HandlePreCharger
  PROVE  IInv'
<1>1. /\ main \in Mains /\ main.state = "PRE_CHARGER_OPERATION" /\ at' = "alerts"
      /\ UNCHANGED <<usable, vbus, wasOn>>
  BY HandlesIn DEF HandlePreCharger
<1>2. "CHARGER_OPERATIONS" \in BehaviorStates \ {"POST_OUTPUT_LIGHT"}
  BY StateNames
<1>3. main' = main \/ Enters("CHARGER_OPERATIONS") \/ Enters("ERROR")
  BY DEF HandlePreCharger, GoToError
<1>4. /\ main' \in Mains /\ TimedInv'
      /\ main' = main \/ main'.state = "CHARGER_OPERATIONS" \/ main'.state = "ERROR"
  BY <1>1, <1>2, <1>3, StayOrEnter
<1>5. MainStep
  <2>1. charge' = FALSE
    BY <1>1, Unfolded DEF HandlePreCharger, ChargeInv, Types
  <2>2. target' \in BOOLEAN
    BY Unfolded DEF HandlePreCharger, GoToError, Types
  <2> QED
    BY <1>1, <1>4, <2>1, <2>2, Unfolded DEF HandlePreCharger, MainStep, Types
<1>6. \/ UNCHANGED powerVars /\ (main' = main \/ Enters("ERROR"))
      \/ AskForCharge
  BY DEF HandlePreCharger, GoToError
<1>7. CASE UNCHANGED powerVars /\ (main' = main \/ Enters("ERROR"))
  <2>1. "ERROR" \in BehaviorStates \ {"POST_OUTPUT_LIGHT"}
    BY StateNames
  <2>2. main' = main \/ main'.state = "ERROR"
    BY <1>7, <2>1, Unfolded, EntersIs
  <2>3. main'.state # "CHARGER_OPERATIONS"
    BY <1>1, <2>2
  <2>4. PowerInv'
    BY <1>7, Unfolded, PowerStays
  <2> QED
    BY <1>5, <2>3, <2>4, MainStepKeeps DEF NoOutputModeWhileCharging
<1>8. CASE AskForCharge
  <2>1. CASE mode = "OTG"
    <3>1. UNCHANGED powerVars
      BY <1>8, <2>1 DEF AskForCharge
    <3>2. PowerInv' /\ mode' = "OTG"
      BY <2>1, <3>1, Unfolded, PowerStays
    <3> QED
      BY <1>5, <3>2, MainStepKeeps DEF NoOutputModeWhileCharging
  <2>2. CASE mode # "OTG"
    <3>1. RequestMode("CHARGING") /\ "CHARGING" \in PowerModes
      BY <1>8, <2>2 DEF AskForCharge, PowerModes
    <3>2. PowerInv' /\ mode' = "CLEAR" /\ after' = "CHARGING"
      BY <3>1, Unfolded, RequestModeIs
    <3> QED
      BY <1>5, <3>2, MainStepKeeps DEF NoOutputModeWhileCharging
  <2> QED
    BY <2>1, <2>2
<1> QED
  BY <1>6, <1>7, <1>8

\* handle_charger_operation_state(): the way to the output forbids the charge.
LEMMA HandleChargerStep ==
  ASSUME IInv, HandleCharger
  PROVE  IInv'
<1>1. /\ main \in Mains /\ main.state = "CHARGER_OPERATIONS" /\ at' = "alerts"
      /\ UNCHANGED <<usable, vbus, wasOn>>
  BY HandlesIn DEF HandleCharger
<1>2. PowerInv' /\ UNCHANGED <<mode, after>>
  BY Unfolded, PowerStays DEF HandleCharger
<1>3. NoOutputModeWhileCharging'
  BY <1>1, <1>2, Unfolded DEF NoOutputModeWhileCharging
<1>4. /\ lockout' \in {NoLockout} \cup 0..LockoutDelay
      /\ target' \in BOOLEAN
  BY Unfolded DEF HandleCharger, GoToError, Types
<1>5. UNCHANGED <<lit, valid, inError, sunset>>
  BY DEF HandleCharger
<1>6. CASE Enters("ERROR") /\ UNCHANGED charge
  <2>1. "ERROR" \in BehaviorStates \ {"POST_OUTPUT_LIGHT"}
    BY StateNames
  <2>2. main' \in Mains /\ main'.state = "ERROR" /\ main'.timed = FALSE
    BY <1>6, <2>1, Unfolded, EntersIs
  <2> QED
    BY <1>1, <1>2, <1>3, <1>4, <1>5, <1>6, <2>2, Unfolded, MainStepKeeps
       DEF MainStep, TimedInv, Types
<1>7. CASE (Enters("PRE_OUTPUT_LIGHT") \/ Enters("SHUTDOWN")) /\ charge' = FALSE
  <2>1. PICK s \in {"PRE_OUTPUT_LIGHT", "SHUTDOWN"} : Enters(s)
    BY <1>7
  <2>2. s \in BehaviorStates \ {"POST_OUTPUT_LIGHT"}
    BY StateNames
  <2>3. main' \in Mains /\ main'.timed = FALSE
    BY <2>1, <2>2, Unfolded, EntersIs
  <2> QED
    BY <1>1, <1>2, <1>3, <1>4, <1>5, <1>7, <2>3, Unfolded, MainStepKeeps
       DEF MainStep, TimedInv, Types
<1>8. CASE main' = main /\ charge' \in BOOLEAN
  <2>1. Types'
    BY <1>1, <1>2, <1>4, <1>5, <1>8, Unfolded DEF Types, PowerInv
  <2>2. TimedInv' /\ ChargeInv' /\ ClearInv'
    BY <1>1, <1>2, <1>8, Unfolded DEF TimedInv, ChargeInv, PowerInv
  <2> QED
    BY <1>3, <2>1, <2>2, Folded
<1>9. \/ Enters("ERROR") /\ UNCHANGED charge
      \/ (Enters("PRE_OUTPUT_LIGHT") \/ Enters("SHUTDOWN")) /\ charge' = FALSE
      \/ main' = main /\ charge' \in BOOLEAN
  <2>1. charge \in BOOLEAN
    BY Unfolded DEF Types
  <2> QED
    BY <2>1 DEF HandleCharger, GoToError, ForbidCharge
<1> QED
  BY <1>6, <1>7, <1>8, <1>9

\* handle_pre_output_light_state(): the output is asked for from a lamp that does not charge.
LEMMA HandlePreOutputStep ==
  ASSUME IInv, HandlePreOutput
  PROVE  IInv'
<1>1. /\ main \in Mains /\ main.state = "PRE_OUTPUT_LIGHT" /\ at' = "alerts"
      /\ UNCHANGED <<usable, vbus, wasOn>>
  BY HandlesIn DEF HandlePreOutput
<1>2. charge = FALSE /\ UNCHANGED <<charge, lockout, inError>>
  BY <1>1, Unfolded DEF ChargeInv, Types, HandlePreOutput
<1>3. /\ lit' \in 0..MaxLit /\ valid' \in 0..(GateWait + 1)
  <2>1. 0 \in 0..MaxLit /\ 0 \in 0..(GateWait + 1)
    BY Bounds
  <2> QED
    BY <2>1, Unfolded DEF HandlePreOutput, Types
<1>4. /\ target' \in BOOLEAN /\ sunset' \in BOOLEAN
      /\ main' \in Mains /\ TimedInv' /\ main'.state # "CHARGER_OPERATIONS"
  <2>1. target \in BOOLEAN /\ sunset \in BOOLEAN
    BY Unfolded DEF Types
  <2>2. CASE ExitsOutput
    BY <1>1, <2>1, <2>2, ExitsOutputIs, Unfolded DEF TimedInv
  <2>3. CASE ~ExitsOutput
    <3>1. /\ target' \in BOOLEAN /\ sunset' \in BOOLEAN
          /\ \/ main' = main \/ Enters("ERROR") \/ Enters("PRE_CHARGER_OPERATION")
             \/ Enters("SHUTDOWN") \/ Enters("OUTPUT_LIGHT")
      BY <2>1, <2>3 DEF HandlePreOutput, GoToError
    <3>2. PICK s \in {"PRE_CHARGER_OPERATION", "SHUTDOWN", "OUTPUT_LIGHT"} :
            main' = main \/ Enters(s) \/ Enters("ERROR")
      BY <3>1
    <3>3. s \in BehaviorStates \ {"POST_OUTPUT_LIGHT"}
      BY StateNames
    <3>4. /\ main' \in Mains /\ TimedInv'
          /\ main' = main \/ main'.state = s \/ main'.state = "ERROR"
      BY <1>1, <3>2, <3>3, StayOrEnter
    <3> QED
      BY <1>1, <3>1, <3>4
  <2> QED
    BY <2>2, <2>3
<1>5. MainStep
  BY <1>1, <1>2, <1>3, <1>4, Unfolded DEF MainStep, Types
<1>6. PowerInv'
  <2>1. UNCHANGED powerVars \/ RequestMode("OUTPUT")
    BY DEF HandlePreOutput
  <2>2. "OUTPUT" \in PowerModes
    BY DEF PowerModes
  <2> QED
    BY <2>1, <2>2, Unfolded, PowerStays, RequestModeIs
<1> QED
  BY <1>4, <1>5, <1>6, MainStepKeeps DEF NoOutputModeWhileCharging

\* handle_output_light_state()
LEMMA HandleOutputLightStep ==
  ASSUME IInv, HandleOutputLight
  PROVE  IInv'
<1>1. /\ main \in Mains /\ main.state = "OUTPUT_LIGHT" /\ at' = "alerts"
      /\ UNCHANGED <<usable, vbus, wasOn>>
  BY HandlesIn DEF HandleOutputLight
<1>2. charge = FALSE /\ UNCHANGED <<charge, lit, lockout, inError>>
  BY <1>1, Unfolded DEF ChargeInv, Types, HandleOutputLight
<1>3. valid' \in 0..(GateWait + 1)
  <2>1. 0 \in 0..(GateWait + 1)
    BY Bounds
  <2> QED
    BY <2>1, Unfolded DEF HandleOutputLight, Types
<1>4. /\ target' \in BOOLEAN /\ sunset' \in BOOLEAN
      /\ main' \in Mains /\ TimedInv' /\ main'.state # "CHARGER_OPERATIONS"
  <2>1. target \in BOOLEAN /\ sunset \in BOOLEAN
    BY Unfolded DEF Types
  <2>2. CASE ExitsOutput
    BY <1>1, <2>1, <2>2, ExitsOutputIs, Unfolded DEF TimedInv
  <2>3. CASE LeaveOutputFor("PRE_CHARGER_OPERATION") /\ target' = FALSE /\ sunset' = sunset
    BY <1>1, <2>1, <2>3, LeaveOutputIs
  <2>4. CASE /\ main' = main \/ Enters("ERROR")
             /\ target' \in BOOLEAN /\ sunset' = sunset
    <3>1. "SHUTDOWN" \in BehaviorStates \ {"POST_OUTPUT_LIGHT"}
      BY StateNames
    <3>2. /\ main' \in Mains /\ TimedInv'
          /\ main' = main \/ main'.state = "SHUTDOWN" \/ main'.state = "ERROR"
      BY <1>1, <2>4, <3>1, StayOrEnter
    <3> QED
      BY <1>1, <2>1, <2>4, <3>2
  <2> QED
    BY <2>1, <2>2, <2>3, <2>4 DEF HandleOutputLight, GoToError
<1>5. MainStep
  BY <1>1, <1>2, <1>3, <1>4, Unfolded DEF MainStep, Types
<1>6. PowerInv'
  BY Unfolded, PowerStays DEF HandleOutputLight
<1> QED
  BY <1>4, <1>5, <1>6, MainStepKeeps DEF NoOutputModeWhileCharging

\* skip_timeout() takes a timed machine out of the output, and keeps the others.
LEMMA SkipTimeoutIs ==
  ASSUME IInv, main' = SkipTimeout(main)
  PROVE  /\ main' \in Mains /\ main'.timed = FALSE
         /\ main' = main \/ main'.state \in {"PRE_CHARGER_OPERATION", "SHUTDOWN"}
         /\ charge => main'.state \in {"CHARGER_OPERATIONS", "ERROR", "SHUTDOWN"}
<1>1. main \in Mains /\ TimedInv /\ ChargeInv /\ main.timed \in BOOLEAN
  BY Unfolded DEF Mains, Machine
<1>2. CASE main.timed
  <2>1. ~charge
    BY <1>1, <1>2 DEF TimedInv, ChargeInv
  <2> QED
    BY <1>1, <1>2, <2>1, TimeoutsAre
<1>3. CASE ~main.timed
  <2>1. main' = main
    BY <1>1, <1>3, TimeoutsAre
  <2> QED
    BY <1>1, <1>3, <2>1 DEF ChargeInv
<1> QED
  BY <1>2, <1>3

\* handle_post_output_light_state(): the timeout is skipped.
LEMMA HandlePostOutputStep ==
  ASSUME IInv, HandlePostOutput
  PROVE  IInv'
<1>1. /\ main \in Mains /\ main.state = "POST_OUTPUT_LIGHT" /\ at' = "alerts"
      /\ UNCHANGED <<usable, vbus, wasOn>>
  BY HandlesIn DEF HandlePostOutput
<1>2. /\ main' \in Mains /\ main'.timed = FALSE /\ main'.state # "CHARGER_OPERATIONS"
      /\ charge => main'.state \in {"CHARGER_OPERATIONS", "ERROR", "SHUTDOWN"}
  <2>1. main' = SkipTimeout(main)
    BY DEF HandlePostOutput
  <2> QED
    BY <1>1, <2>1, SkipTimeoutIs
<1>3. MainStep
  BY <1>1, <1>2, Unfolded DEF HandlePostOutput, MainStep, TimedInv, Types
<1>4. PowerInv'
  BY Unfolded, PowerStays DEF HandlePostOutput
<1> QED
  BY <1>2, <1>3, <1>4, MainStepKeeps DEF NoOutputModeWhileCharging

\* The request of the shutdown, from the state machine or from an alert.
LEMMA BeginShutdownStep ==
  ASSUME IInv, NEW from, BeginShutdown(from), main' \in Mains, main'.timed = FALSE,
         charge => main'.state \in {"CHARGER_OPERATIONS", "ERROR", "SHUTDOWN"}
  PROVE  IInv'
<1>1. MainStep
  BY Unfolded DEF BeginShutdown, MainStep, TimedInv, Types, worldVars
<1>2. PowerInv' /\ mode' = "SHUTDOWN"
  <2>1. ForceMode("SHUTDOWN") /\ gate' = gate /\ ready' = ready
    BY DEF BeginShutdown, RequestShutdown
  <2>2. "SHUTDOWN" \in ModesOfPower \ {"CLEAR"}
    BY DEF ModesOfPower
  <2> QED
    BY <2>1, <2>2, Unfolded, ForceModeIs DEF PowerInv
<1> QED
  BY <1>1, <1>2, MainStepKeeps DEF NoOutputModeWhileCharging

\* handle_shutdown_state()
LEMMA HandleShutdownStep ==
  ASSUME IInv, HandleShutdown
  PROVE  IInv'
<1>1. main' \in Mains /\ main'.timed = FALSE /\ main'.state = "SHUTDOWN"
  BY Unfolded DEF HandleShutdown, TimedInv, Mains, Machine
<1> QED
  BY <1>1, BeginShutdownStep DEF HandleShutdown

\* The shutdown that an alert asks for.
LEMMA EmergencyShutdownStep ==
  ASSUME IInv, EmergencyShutdown
  PROVE  IInv'
<1>1. main' = SkipTimeout(main)
  BY DEF EmergencyShutdown
<1> QED
  BY <1>1, SkipTimeoutIs, BeginShutdownStep DEF EmergencyShutdown

\* Asleep, or in ERROR because the sleep failed.
LEMMA SleepStep ==
  ASSUME IInv, Sleep
  PROVE  IInv'
<1>1. PowerInv' /\ UNCHANGED <<mode, after>>
  BY Unfolded, PowerStays DEF Sleep
<1>2. UNCHANGED <<usable, vbus, charge, lit, valid, lockout, wasOn, inError, sunset>>
  BY DEF Sleep, worldVars
<1>3. CASE at' = "asleep" /\ UNCHANGED <<main, target>>
  <2>1. Types'
    BY <1>1, <1>2, <1>3, Unfolded DEF Types, PowerInv
  <2> QED
    BY <1>1, <1>2, <1>3, <2>1, Unfolded, Folded
       DEF TimedInv, ChargeInv, PowerInv, NoOutputModeWhileCharging
<1>4. CASE at' = "alerts" /\ GoToError
  <2>1. Enters("ERROR") /\ "ERROR" \in BehaviorStates \ {"POST_OUTPUT_LIGHT"} /\ target' = TRUE
    BY <1>4, StateNames DEF GoToError
  <2>2. main' \in Mains /\ main'.state = "ERROR" /\ main'.timed = FALSE
    BY <2>1, Unfolded, EntersIs
  <2>3. MainStep
    BY <1>2, <1>4, <2>1, <2>2, Unfolded DEF MainStep, TimedInv, Types
  <2> QED
    BY <1>1, <2>2, <2>3, MainStepKeeps DEF NoOutputModeWhileCharging
<1> QED
  BY <1>3, <1>4 DEF Sleep

\* The program starts again, with the charge not allowed.
LEMMA WakeUpStep ==
  ASSUME IInv, WakeUp
  PROVE  IInv'
<1>1. main' \in Mains /\ main'.state = "START_LOGIC" /\ main'.timed = FALSE
  BY NewMachineIs, StateNames DEF WakeUp
<1>2. PowerInv'
  <2>1. ForceMode("STARTUP") /\ gate' = FALSE /\ ready' = FALSE
    BY DEF WakeUp, Restart
  <2>2. "STARTUP" \in ModesOfPower \ {"CLEAR"}
    BY DEF ModesOfPower
  <2> QED
    BY <2>1, <2>2, ForceModeIs
<1>3. 0 \in 0..MaxLit /\ 0 \in 0..(GateWait + 1) /\ 0 \in 0..LockoutDelay
  BY Bounds
<1>4. Types'
  <2>1. /\ at' = "behavior" /\ target' = FALSE /\ charge' = FALSE /\ lit' = 0 /\ valid' = 0
        /\ lockout' \in {NoLockout, 0}
        /\ wasOn' = FALSE /\ inError' = FALSE /\ sunset' = FALSE
        /\ UNCHANGED <<usable, vbus>>
    BY DEF WakeUp, worldVars
  <2> QED
    BY <1>1, <1>2, <1>3, <2>1, Unfolded DEF Types, PowerInv
<1> QED
  BY <1>1, <1>2, <1>4, Folded
     DEF WakeUp, TimedInv, ChargeInv, PowerInv, NoOutputModeWhileCharging

\* A step that keeps the main machine and the charge keeps IInv when it keeps the
\* types and the power machine does not move towards the output mode.
LEMMA AsideStep ==
  ASSUME IInv, UNCHANGED <<main, charge>>, PowerInv',
         at' \in {"behavior", "alerts", "shutdown", "asleep"},
         target' \in BOOLEAN, wasOn' \in BOOLEAN, sunset' \in BOOLEAN,
         usable' \in BOOLEAN, vbus' \in BOOLEAN,
         lockout' \in {NoLockout} \cup 0..LockoutDelay,
         UNCHANGED <<lit, valid, inError>>,
         NoOutputModeWhileCharging'
  PROVE  IInv'
<1>1. Types'
  BY Unfolded DEF Types, PowerInv
<1>2. TimedInv' /\ ChargeInv' /\ ClearInv'
  BY Unfolded DEF TimedInv, ChargeInv, PowerInv
<1> QED
  BY <1>1, <1>2, Folded

\* The power machine and the main machine do not move.
LEMMA StillCharging ==
  ASSUME NoOutputModeWhileCharging, UNCHANGED <<main, mode, after>>
  PROVE  NoOutputModeWhileCharging'
BY DEF NoOutputModeWhileCharging

\* The alerts, at the end of a turn.
LEMMA EndTurnStep ==
  ASSUME IInv, EndTurn
  PROVE  IInv'
<1>1. UNCHANGED <<usable, vbus, powerVars, main, charge, lit, valid, lockout, wasOn, inError, sunset>>
      /\ at' = "behavior"
  BY DEF EndTurn, worldVars
<1>2. target' \in BOOLEAN
  BY Unfolded DEF EndTurn, PowerOff, Types
<1>3. PowerInv' /\ UNCHANGED <<mode, after>>
  BY <1>1, Unfolded, PowerStays
<1> QED
  BY <1>1, <1>2, <1>3, Unfolded, StillCharging, AsideStep DEF Types

\* The lockout after clicks.
LEMMA LockoutAfterIs ==
  ASSUME lockout \in {NoLockout} \cup 0..LockoutDelay, NEW n \in Nat
  PROVE  LockoutAfter(n) \in {NoLockout} \cup 0..LockoutDelay
<1>1. 0 \in 0..LockoutDelay
  BY Bounds
<1> QED
  BY <1>1 DEF LockoutAfter

\* The events of the button: none of them asks for the output mode.
LEMMA InputsStep ==
  ASSUME IInv, Inputs
  PROVE  IInv'
<1>1. ASSUME Event
      PROVE  at' = "behavior" /\ UNCHANGED <<usable, vbus, main, charge, lit, valid, inError>>
  BY <1>1 DEF Event, worldVars
<1>2. ASSUME NEW n \in {1, 3, 4, 10}, Click(n)
      PROVE  IInv'
  <2>1. Event /\ UNCHANGED <<powerVars, sunset>> /\ wasOn' = target'
    BY <1>2 DEF Click
  <2>2. target' \in BOOLEAN
    BY <1>2, Unfolded DEF Click, HandleClick, PowerOff, Types
  <2>3. lockout' \in {NoLockout} \cup 0..LockoutDelay
    BY <1>2, Unfolded, LockoutAfterIs DEF Click, Types
  <2>4. PowerInv' /\ UNCHANGED <<mode, after>>
    BY <2>1, Unfolded, PowerStays
  <2> QED
    BY <1>1, <2>1, <2>2, <2>3, <2>4, Unfolded, StillCharging, AsideStep DEF Types
<1>3. ASSUME NEW n \in 1..3, Hold(n)
      PROVE  IInv'
  <2>1. Event /\ UNCHANGED sunset
    BY <1>3 DEF Hold
  <2>2. target' \in BOOLEAN /\ wasOn' \in BOOLEAN
    <3>1. target' \in BOOLEAN
      BY <1>3, Unfolded DEF Hold, PowerOff, Types
    <3>2. wasOn' \in {wasOn, target'} /\ wasOn \in BOOLEAN
      BY <1>3, Unfolded DEF Hold, Types
    <3> QED
      BY <3>1, <3>2
  <2>3. lockout' \in {NoLockout} \cup 0..LockoutDelay
    BY <1>3, Unfolded DEF Hold, Types
  <2>4. PowerInv' /\ (UNCHANGED <<mode, after>> \/ (mode' = "CLEAR" /\ after' = "OTG"))
    <3>1. UNCHANGED powerVars \/ RequestMode("OTG")
      BY <1>3 DEF Hold
    <3>2. "OTG" \in PowerModes
      BY DEF PowerModes
    <3> QED
      BY <3>1, <3>2, Unfolded, PowerStays, RequestModeIs
  <2>5. NoOutputModeWhileCharging'
    BY <1>1, <2>1, <2>4, Unfolded DEF NoOutputModeWhileCharging
  <2> QED
    BY <1>1, <2>1, <2>2, <2>3, <2>4, <2>5, Unfolded, AsideStep DEF Types
<1>4. ASSUME SetSunset
      PROVE  IInv'
  <2>1. Event /\ sunset' = TRUE /\ UNCHANGED <<powerVars, target, lockout, wasOn>>
    BY <1>4 DEF SetSunset
  <2>2. PowerInv' /\ UNCHANGED <<mode, after>>
    BY <2>1, Unfolded, PowerStays
  <2> QED
    BY <1>1, <2>1, <2>2, Unfolded, StillCharging, AsideStep DEF Types
<1> QED
  BY <1>2, <1>3, <1>4 DEF Inputs

\* The power thread cannot bring a lamp that charges to the output mode.
LEMMA PowerThreadKeeps ==
  ASSUME IInv, PowerThread
  PROVE  IInv'
<1>1. UNCHANGED <<main, at, target, charge, lit, valid, lockout, wasOn, inError, sunset, usable, vbus>>
  BY DEF PowerThread, loopVars, worldVars
<1>2. /\ PowerInv'
      /\ \/ UNCHANGED <<mode, after>>
         \/ mode' # "OUTPUT" /\ mode' # "CLEAR"
         \/ mode = "CLEAR" /\ mode' = after /\ after \in PowerModes
  BY Unfolded, PowerThreadIs DEF PowerThread
<1>3. NoOutputModeWhileCharging'
  <2>1. "CLEAR" \notin PowerModes
    BY DEF PowerModes
  <2> QED
    BY <1>1, <1>2, <2>1, Unfolded DEF NoOutputModeWhileCharging
<1> QED
  BY <1>1, <1>2, <1>3, Unfolded, AsideStep DEF Types

\* The end of the sunset turns the lamp off, as the user would.
LEMMA SunsetEndsStep ==
  ASSUME IInv, SunsetEnds
  PROVE  IInv'
<1>1. /\ UNCHANGED <<usable, vbus, powerVars, main, at, charge, lit, valid, lockout, wasOn, inError>>
      /\ sunset' = FALSE
  BY DEF SunsetEnds, worldVars
<1>2. target' \in BOOLEAN
  BY PowerOffIs DEF SunsetEnds
<1>3. PowerInv' /\ UNCHANGED <<mode, after>>
  BY <1>1, Unfolded, PowerStays
<1> QED
  BY <1>1, <1>2, <1>3, Unfolded, StillCharging, AsideStep DEF Types

\* The battery and vbus change.
LEMMA WorldStep ==
  ASSUME IInv, World
  PROVE  IInv'
<1>1. UNCHANGED <<main, at, target, charge, lit, valid, lockout, wasOn, inError, sunset, powerVars>>
  BY DEF World, loopVars
<1>2. usable' \in BOOLEAN /\ vbus' \in BOOLEAN
  BY Unfolded DEF World, Types
<1>3. PowerInv' /\ UNCHANGED <<mode, after>>
  BY <1>1, Unfolded, PowerStays
<1> QED
  BY <1>1, <1>2, <1>3, Unfolded, StillCharging, AsideStep DEF Types

\* A time that grows to a bound.
LEMMA LaterIs ==
  ASSUME NEW most \in Nat, NEW time \in 0..most
  PROVE  Later(time, most) \in 0..most
BY DEF Later

\* Time passes for a machine that waits for no timeout.
LEMMA TickStep ==
  ASSUME IInv, Tick
  PROVE  IInv'
<1>1. /\ main' \in Mains /\ main'.timed = FALSE /\ main'.state = main.state
  <2>1. main' = Aged(main, MaxMainAge) /\ ~main.timed /\ main \in Mains /\ main.timed \in BOOLEAN
    BY Unfolded DEF Tick, Mains, Machine
  <2> QED
    BY <2>1, AgedIs
<1>2. UNCHANGED <<usable, vbus, at, target, charge, wasOn, inError, sunset>>
  BY DEF Tick, worldVars
<1>3. PowerInv' /\ UNCHANGED <<mode, after>>
  BY Unfolded, PowerStays DEF Tick
<1>4. lit' \in 0..MaxLit
  BY Unfolded, Bounds, LaterIs DEF Tick, Types
<1>5. valid' \in 0..(GateWait + 1)
  <2>1. GateWait + 1 \in Nat /\ 0 \in 0..(GateWait + 1)
    BY Bounds
  <2> QED
    BY <2>1, Unfolded, LaterIs DEF Tick, Types
<1>6. lockout' \in {NoLockout} \cup 0..LockoutDelay
  BY Unfolded, Bounds, LaterIs DEF Tick, Types
<1>7. Types'
  BY <1>1, <1>2, <1>3, <1>4, <1>5, <1>6, Unfolded DEF Types, PowerInv
<1> QED
  BY <1>1, <1>2, <1>3, <1>7, Unfolded, Folded
     DEF TimedInv, ChargeInv, PowerInv, NoOutputModeWhileCharging

-----------------------------------------------------------------------------
(* The theorems. *)

\* The lamp as it starts satisfies IInv.
LEMMA InitIInv == Init => IInv
<1> SUFFICES ASSUME Init PROVE IInv
  OBVIOUS
<1>1. main \in Mains /\ main.state = "START_LOGIC" /\ main.timed = FALSE
  BY NewMachineIs, StateNames DEF Init
<1>2. 0 \in 0..MaxLit /\ 0 \in 0..(GateWait + 1) /\ 0 \in 0..LockoutDelay
  BY Bounds
<1>3. PowerInv
  BY DEF Init, PowerInit, PowerInv, ModesOfPower, ClearInv
<1>4. Types
  BY <1>1, <1>2, <1>3 DEF Init, Types, PowerInv
<1>5. TypeOK
  BY <1>4, TypesAreTypeOK
<1> QED
  BY <1>1, <1>3, <1>5 DEF Init, IInv, TimedInv, ChargeInv, PowerInv, NoOutputModeWhileCharging

\* Every step keeps IInv.
LEMMA NextIInv == IInv /\ [Next]_vars => IInv'
<1> SUFFICES ASSUME IInv, [Next]_vars PROVE IInv'
  OBVIOUS
<1>1. CASE MainLoop
  BY <1>1, HandleErrorStateStep, HandleStartLogicStep, HandlePreChargerStep,
     HandleChargerStep, HandlePreOutputStep, HandleOutputLightStep,
     HandlePostOutputStep, HandleShutdownStep, SleepStep, EndTurnStep DEF MainLoop
<1>2. CASE EmergencyShutdown \/ WakeUp \/ Inputs
  BY <1>2, EmergencyShutdownStep, WakeUpStep, InputsStep
<1>3. CASE PowerThread \/ SunsetEnds \/ World \/ Tick
  BY <1>3, PowerThreadKeeps, SunsetEndsStep, WorldStep, TickStep
<1>4. CASE UNCHANGED vars
  <2>1. UNCHANGED <<main, at, target, charge, lit, valid, lockout, wasOn, inError, sunset,
                    usable, vbus, powerVars>>
    BY <1>4 DEF vars, loopVars, worldVars
  <2>2. PowerInv' /\ UNCHANGED <<mode, after>>
    BY <2>1, Unfolded, PowerStays
  <2> QED
    BY <2>1, <2>2, Unfolded, StillCharging, AsideStep DEF Types
<1> QED
  BY <1>1, <1>2, <1>3, <1>4 DEF Next

\* The inductive invariant holds in every reachable state of the main loop.
THEOREM SpecIInv == Spec => []IInv
BY InitIInv, NextIInv, PTL DEF Spec

\* Every variable keeps its type, whatever the delays of the main loop.
THEOREM SpecTypeOK == Spec => []TypeOK
<1>1. IInv => TypeOK
  BY DEF IInv
<1> QED
  BY <1>1, SpecIInv, PTL

\* The charge is off from PRE_OUTPUT_LIGHT to POST_OUTPUT_LIGHT (behavior.cpp:424).
THEOREM SpecChargeOffWhileLit == Spec => []ChargeOffWhileLit
<1>1. IInv => ChargeOffWhileLit
  BY Unfolded DEF ChargeInv, ChargeOffWhileLit, Types
<1> QED
  BY <1>1, SpecIInv, PTL

\* A lamp that charges never has its power machine in, or on its way to, the
\* output mode, whatever the power thread does meanwhile.
THEOREM SpecNoOutputModeWhileCharging == Spec => []NoOutputModeWhileCharging
<1>1. IInv => NoOutputModeWhileCharging
  BY DEF IInv
<1> QED
  BY <1>1, SpecIInv, PTL
=============================================================================
