----------------------------- MODULE PowerProofs -----------------------------
(***************************************************************************)
(* Proofs about the power machine, for every delay that PowerAssumption    *)
(* and StallAssumption allow, and about the gates with any caller.         *)
(*                                                                         *)
(* First, type correctness, the bound on the clearing of the rails, and    *)
(* that output and OTG are only entered through it (IInv).                 *)
(*                                                                         *)
(* Then its safety: the gates are never driven together, the output is     *)
(* powered only where the machine allows it, nothing charges into it, the  *)
(* rail is discharged with the gates open and the safe states isolate it;  *)
(* the whole implements PowerMachine.  What is requested of the gates is   *)
(* so in every state, what they drive is so but after a stray blip: Closed *)
(* leaves out the pin that one may have raised.                            *)
(*                                                                         *)
(* SafeInv has four parts, each inductive only with the others and with    *)
(* IInv.  The argument: power reaches the power gate only through the      *)
(* handler of OUTPUT_VOLTAGE_MODE, which runs only for a machine found in  *)
(* that mode; the mode is entered from CLEAR_POWER_RAILS, whose handler    *)
(* opens the gates, forbids the charge and ends the discharge; what the    *)
(* handler of a mode starts is over, or called off, before the power       *)
(* thread looks at the machine again.                                      *)
(***************************************************************************)
EXTENDS GateSequence, PowerHandler, TLAPS

USE GatesAssumption

Machines == Machine(PowerStates, MaxAge, MaxAge)

\* Only STARTUP and CLEAR have a timeout; the latter's ends in a mode.
TimeoutsArmed ==
  /\ power.state = "CLEAR" => power.timed
  /\ power.timed => \/ power.state = "STARTUP" /\ power.after = "ERROR"
                    \/ /\ power.state = "CLEAR"
                       /\ power.limit = ClearTimeout
                       /\ power.after \in Modes

\* Since the last look of the power thread at the machine, and for one turn
\* more once its handler is due.
ClearAge ==
  power.state = "CLEAR" =>
    power.age < ClearFailureDelay + stall + (IF pc = "CLEAR" THEN MaxStall ELSE 0)

\* The main thread asks for a mode only after the startup, and once it shuts
\* the lamp down it asks for nothing more.
StartupOver ==
  /\ call \in Modes \/ (power.timed /\ power.after \in Modes) => power.state # "STARTUP"
  /\ pc = "STARTUP" => power.state = "STARTUP" \/ call \in {"SHUTDOWN", "off"}
  /\ call \in {"SHUTDOWN", "off"} => ~power.timed

\* A recovery never overlaps a request for the output or for OTG.
NoRecoveryIntoOutput ==
  recovery => /\ call \notin {"OUTPUT", "OTG"}
              /\ power.timed => power.after \notin {"OUTPUT", "OTG"}

ClearInv == TimeoutsArmed /\ ClearAge /\ StartupOver /\ NoRecoveryIntoOutput

IInv == TypeOK /\ ClearInv

-----------------------------------------------------------------------------
(* The calls of the gates: the positions of the power thread spelled out,   *)
(* and every call keeps the variables of the gates in their types.          *)

\* The two gates are each other's other gate.
LEMMA GateFacts ==
  /\ \A g : g \in Gate <=> g = "vbus" \/ g = "power"
  /\ Other("vbus") = "power" /\ Other("power") = "vbus"
BY DEF Gate, Other

\* The positions of the power thread, spelled out.
LEMMA PcFacts ==
  /\ Label("vbus", "check") = "loop" /\ Label("power", "check") = "powerCheck"
  /\ Label("vbus", "setPower") = "vbusSetPower" /\ Label("power", "setPower") = "powerSetPower"
  /\ Label("vbus", "setVbus") = "vbusSetVbus" /\ Label("power", "setVbus") = "powerSetVbus"
  /\ Label("vbus", "settle") = "vbusSettle" /\ Label("power", "settle") = "powerSettle"
  /\ Label("vbus", "next") = "powerCheck" /\ Label("power", "next") = "blip"
  /\ Driving("vbus") = {"vbusSetPower", "vbusSetVbus", "vbusSettle"}
  /\ Driving("power") = {"powerSetPower", "powerSetVbus", "powerSettle"}
  /\ Label("vbus", "flag") = "vbusFlag" /\ Label("power", "flag") = "powerFlag"
  /\ Label("vbus", "request") = "vbusRequest" /\ Label("power", "request") = "powerRequest"
  /\ Requesting("vbus") = {"vbusFlag", "vbusRequest"}
  /\ Requesting("power") = {"powerFlag", "powerRequest"}
  /\ \A p : p \in GatePcs <=>
         \/ p \in {"loop", "powerCheck", "blip"}
         \/ p \in {"vbusSetPower", "vbusSetVbus", "vbusSettle", "vbusFlag", "vbusRequest"}
         \/ p \in {"powerSetPower", "powerSetVbus", "powerSettle", "powerFlag", "powerRequest"}
<1>1. \A g \in Gate : Driving(g) = {Label(g, "setPower"), Label(g, "setVbus"), Label(g, "settle")}
  BY DEF Driving
<1>2. \A g \in Gate : Requesting(g) = {Label(g, "flag"), Label(g, "request")}
  BY DEF Requesting
<1>3. \A p : p \in GatePcs <=> \/ p \in {"loop", "powerCheck", "blip"}
                              \/ p \in Driving("vbus") \cup Requesting("vbus")
                              \/ p \in Driving("power") \cup Requesting("power")
  BY DEF GatePcs
<1> QED
  BY <1>1, <1>2, <1>3 DEF Label, Gate

-----------------------------------------------------------------------------

\* The gates start in their types.
LEMMA GatesInitType == GatesInit => GatesTypeOK
<1> SUFFICES ASSUME GatesInit PROVE GatesTypeOK
  OBVIOUS
<1>1. switchAge \in [Gate -> 0..MaxSwitchAge]
  BY DEF GatesInit, MaxSwitchAge
<1>2. blipLeft \in NoBlip..BlipMax
  BY DEF GatesInit, NoBlip
<1> QED
  BY <1>1, <1>2 DEF GatesInit, GatesTypeOK

\* A step that leaves the gates alone.
LEMMA GatesUnchangedType == GatesTypeOK /\ UNCHANGED gateVars => GatesTypeOK'
BY DEF GatesTypeOK, gateVars

\* disable_gates() keeps the types.
LEMMA DisableGatesType == GatesTypeOK /\ DisableGates => GatesTypeOK'
<1> SUFFICES ASSUME GatesTypeOK, DisableGates PROVE GatesTypeOK'
  OBVIOUS
<1>1. stray' \in BOOLEAN
  BY DEF DisableGates
<1> QED
  BY <1>1 DEF GatesTypeOK, DisableGates, NoBlip

\* enable_vbus_gate_DIRECT() keeps the types.
LEMMA EnableVbusDirectType == GatesTypeOK /\ EnableVbusDirect => GatesTypeOK'
<1> SUFFICES ASSUME GatesTypeOK, EnableVbusDirect PROVE GatesTypeOK'
  OBVIOUS
<1> USE DEF GatesTypeOK, EnableVbusDirect
<1>1. pin' \subseteq Gate /\ enabled' \subseteq Gate /\ switching' \subseteq Gate
  BY GateFacts
<1>2. blipLeft' \in NoBlip..BlipMax
  BY DEF NoBlip
<1>3. really' \in BOOLEAN
  OBVIOUS
<1> QED
  BY <1>1, <1>2, <1>3

\* enable_power_gate() and enable_vbus_gate() keep the types, and leave the
\* power thread where the caller says or at the flags of the switch.
LEMMA EnableGateType ==
  ASSUME NEW g \in Gate, NEW after, GatesTypeOK, EnableGate(g, after)
  PROVE  GatesTypeOK' /\ pc' \in {after} \cup GatePcs
<1>1. pc' \in {after} \cup GatePcs
  BY GateFacts, PcFacts DEF EnableGate
<1>2. CASE UNCHANGED gateVars
  BY <1>1, <1>2, GatesUnchangedType
<1>3. CASE ~IsEnabled(g) /\ ~UNCHANGED gateVars
  <2>1. pin' \subseteq Gate /\ enabled' \subseteq Gate /\ switching' \subseteq Gate
    BY <1>3 DEF EnableGate, GatesTypeOK
  <2>2. switchAge' \in [Gate -> 0..MaxSwitchAge]
    BY <1>3 DEF EnableGate, GatesTypeOK, MaxSwitchAge
  <2>3. blipLeft' \in NoBlip..BlipMax /\ really' \in BOOLEAN /\ stray' \in BOOLEAN
    BY <1>3 DEF EnableGate, GatesTypeOK, NoBlip
  <2> QED
    BY <1>1, <2>1, <2>2, <2>3 DEF GatesTypeOK
<1> QED
  BY <1>2, <1>3 DEF EnableGate

\* The end of a switch_delayed_*_gate() keeps the types.
LEMMA RequestType ==
  ASSUME NEW g \in Gate, NEW after, GatesTypeOK, FlagSwitching(g) \/ RequestGate(g, after)
  PROVE  GatesTypeOK' /\ pc' \in {after} \cup GatePcs
BY PcFacts, GateFacts DEF FlagSwitching, RequestGate, GatesTypeOK

\* cancel_blip() keeps the types.
LEMMA CancelBlipType == GatesTypeOK /\ CancelBlip => GatesTypeOK'
<1> SUFFICES ASSUME GatesTypeOK, CancelBlip PROVE GatesTypeOK'
  OBVIOUS
<1>1. pin' \subseteq Gate
  BY DEF GatesTypeOK, CancelBlip, CloseAgain, Gate
<1>2. stray' \in BOOLEAN
  BY DEF GatesTypeOK, CancelBlip, CloseAgain
<1> QED
  BY <1>1, <1>2 DEF GatesTypeOK, CancelBlip, NoBlip

\* loop() keeps the types.
LEMMA GatesLoopType == GatesTypeOK /\ GatesLoop => GatesTypeOK' /\ pc' \in GatePcs \cup {"run"}
<1> SUFFICES ASSUME GatesTypeOK, GatesLoop PROVE GatesTypeOK' /\ pc' \in GatePcs \cup {"run"}
  OBVIOUS
<1>1. ASSUME NEW g \in Gate, CheckSwitch(g) PROVE GatesTypeOK' /\ pc' \in GatePcs
  BY <1>1, PcFacts, GateFacts DEF CheckSwitch, GatesTypeOK, gateVars
<1>2. ASSUME NEW g \in Gate, SetPowerPin(g) PROVE GatesTypeOK' /\ pc' \in GatePcs
  BY <1>2, PcFacts, GateFacts DEF SetPowerPin, GatesTypeOK
<1>3. ASSUME NEW g \in Gate, SetVbusPin(g) PROVE GatesTypeOK' /\ pc' \in GatePcs
  BY <1>3, PcFacts, GateFacts DEF SetVbusPin, GatesTypeOK
<1>4. ASSUME NEW g \in Gate, SettleGate(g) PROVE GatesTypeOK' /\ pc' \in GatePcs
  BY <1>4, PcFacts, GateFacts DEF SettleGate, GatesTypeOK
<1>5. ASSUME EndBlip PROVE GatesTypeOK' /\ pc' = "run"
  <2>1. CASE CancelBlip
    BY <1>5, <2>1, CancelBlipType DEF EndBlip
  <2>2. CASE UNCHANGED gateVars
    BY <1>5, <2>2, GatesUnchangedType DEF EndBlip
  <2>3. CASE blipLeft' = NoBlip /\ UNCHANGED <<pin, enabled, switching, switchAge, really, stray>>
    BY <1>5, <2>3 DEF EndBlip, GatesTypeOK, NoBlip
  <2> QED
    BY <1>5, <2>1, <2>2, <2>3 DEF EndBlip
<1> QED
  BY <1>1, <1>2, <1>3, <1>4, <1>5 DEF GatesLoop

\* The calls of the other threads keep the types.
LEMMA OtherThreadsType == GatesTypeOK /\ (OtherThreadDisables \/ UserBlips) => GatesTypeOK'
<1> SUFFICES ASSUME GatesTypeOK, OtherThreadDisables \/ UserBlips PROVE GatesTypeOK'
  OBVIOUS
<1>1. ASSUME NEW timing \in 0..(BlipMax + 1), Blip(timing) PROVE GatesTypeOK'
  BY <1>1 DEF Blip, NoBlip, GatesTypeOK
<1> QED
  BY <1>1, DisableGatesType, CancelBlipType DEF OtherThreadDisables, UserBlips

\* Time keeps the types.
LEMMA GateTimeType ==
  GatesTypeOK /\ GateTime /\ UNCHANGED <<pin, enabled, switching, really, stray>> => GatesTypeOK'
BY DEF GatesTypeOK, GateTime, MaxSwitchAge, NoBlip

USE PowerAssumption, StallAssumption

-----------------------------------------------------------------------------
(* The machine template. *)

\* set_state(s, true)
LEMMA ForceStateFacts ==
  ASSUME NEW m \in Machines, NEW s \in PowerStates
  PROVE  /\ ForceState(m, s) \in Machines
         /\ ForceState(m, s).state = s
         /\ ForceState(m, s).age = 0
         /\ ForceState(m, s).timed = FALSE
<1>1. 0 \in 0..MaxAge
  BY DEF MaxAge
<1> QED
  BY <1>1 DEF Machines, Machine, ForceState

\* set_state(s): the state is s; a timeout survives only if it was already.
LEMMA SetStateFacts ==
  ASSUME NEW m \in Machines, NEW s \in PowerStates
  PROVE  /\ SetState(m, s) \in Machines
         /\ SetState(m, s).state = s
         /\ s = m.state => SetState(m, s) = m
         /\ s # m.state => ~SetState(m, s).timed /\ SetState(m, s).age = 0
BY ForceStateFacts DEF SetState

\* set_state(s, timeout, after): nothing changes, or all of it does.
LEMMA SetStateForFacts ==
  ASSUME NEW m \in Machines, NEW s \in PowerStates, NEW timeout \in 0..MaxAge,
         NEW after \in PowerStates
  PROVE  LET r == SetStateFor(m, s, timeout, after) IN
         /\ r \in Machines
         /\ r.state = s /\ r.timed /\ r.after = after
         /\ r = m \/ (r.age = 0 /\ r.limit = timeout)
<1> DEFINE r == SetStateFor(m, s, timeout, after)
<1>1. CASE AcceptsTimed(m, s, after)
  <2> DEFINE f == ForceState(m, s)
  <2>1. r = [f EXCEPT !.timed = TRUE, !.limit = timeout, !.after = after]
    BY <1>1 DEF SetStateFor
  <2>2. f \in Machines /\ f.state = s /\ f.age = 0
    BY ForceStateFacts
  <2> HIDE DEF f, r
  <2>3. r \in Machines
    BY <2>1, <2>2 DEF Machines, Machine
  <2>4. r.state = s /\ r.age = 0 /\ r.timed = TRUE /\ r.limit = timeout /\ r.after = after
    BY <2>1, <2>2 DEF Machines, Machine
  <2> QED
    BY <2>3, <2>4 DEF r
<1>2. CASE ~AcceptsTimed(m, s, after)
  BY <1>2 DEF SetStateFor, AcceptsTimed, Machines, Machine
<1> QED
  BY <1>1, <1>2

\* run() and skip_timeout(): the state after the timeout, or nothing.
LEMMA TimeoutFacts ==
  ASSUME NEW m \in Machines
  PROVE  /\ RunMachine(m) = IF m.timed /\ m.age >= m.limit THEN SetState(m, m.after) ELSE m
         /\ SkipTimeout(m) = IF m.timed THEN SetState(m, m.after) ELSE m
         /\ RunMachine(m) \in Machines
         /\ SkipTimeout(m) \in Machines
<1>1. m.after \in PowerStates
  BY DEF Machines, Machine
<1> QED
  BY <1>1, SetStateFacts DEF RunMachine, SkipTimeout, TimedOut

\* Reading the changed flag leaves everything else alone.
LEMMA ReadChangedFacts ==
  ASSUME NEW m \in Machines
  PROVE  LET r == ReadChanged(m) IN
         /\ r \in Machines
         /\ r.state = m.state /\ r.age = m.age /\ r.timed = m.timed
         /\ r.limit = m.limit /\ r.after = m.after
BY DEF Machines, Machine, ReadChanged

\* Time leaves the state and its timeout alone.
LEMMA AgedFacts ==
  ASSUME NEW m \in Machines
  PROVE  LET r == Aged(m, MaxAge) IN
         /\ r \in Machines
         /\ r.state = m.state /\ r.timed = m.timed
         /\ r.limit = m.limit /\ r.after = m.after
         /\ r.age <= m.age + 1
<1> DEFINE a == IF m.age < MaxAge THEN m.age + 1 ELSE m.age
           r == [m EXCEPT !.age = a]
<1>1. m.age \in 0..MaxAge /\ a \in 0..MaxAge /\ a <= m.age + 1
  BY DEF Machines, Machine, MaxAge
<1>2. Aged(m, MaxAge) = r
  BY DEF Aged
<1> HIDE DEF a
<1>3. r \in Machines /\ r.age = a
  BY <1>1 DEF Machines, Machine
<1>4. r.state = m.state /\ r.timed = m.timed /\ r.limit = m.limit /\ r.after = m.after
  BY DEF Machines, Machine
<1> QED
  BY <1>1, <1>2, <1>3, <1>4

-----------------------------------------------------------------------------
(* Types. *)

\* The states that have names of their own.
LEMMA StateFacts ==
  /\ {"STARTUP", "IDLE", "CLEAR", "CHARGING", "OUTPUT", "OTG", "SHUTDOWN", "ERROR"} \subseteq PowerStates
  /\ Modes \subseteq PowerStates
  /\ StartupTimeout \in 0..MaxAge /\ ClearTimeout \in 0..MaxAge
BY DEF PowerStates, Modes, MaxAge

\* The machine as it starts: in STARTUP, with a timeout to ERROR.
LEMMA InitMachine ==
  LET m == SetStateFor(NewMachine("STARTUP"), "STARTUP", StartupTimeout, "ERROR") IN
  m \in Machines /\ m.state = "STARTUP" /\ m.timed /\ m.after = "ERROR"
<1>1. NewMachine("STARTUP") \in Machines
  BY DEF NewMachine, Machines, Machine, PowerStates, MaxAge
<1> QED
  BY <1>1, StateFacts, SetStateForFacts

\* The variables of the power machine beside the gates and pc.
MachineTypeOK ==
  /\ power \in Machines
  /\ stall \in 0..MaxStall
  /\ rail \in Rail
  /\ out \in Outputs
  /\ pd \in PdSettings
  /\ otg \in [auto : BOOLEAN, forced : BOOLEAN]
  /\ recovery \in BOOLEAN
  /\ outputReady \in BOOLEAN
  /\ call \in Modes \cup {"none", "SHUTDOWN", "off"}

Pcs == GatePcs \cup PowerStates \cup {"run", "tail"}

\* TypeOK in three parts, in this state and in the next.
LEMMA TypeParts ==
  /\ TypeOK => GatesTypeOK /\ pc \in Pcs /\ MachineTypeOK
  /\ GatesTypeOK /\ pc \in Pcs /\ MachineTypeOK => TypeOK
  /\ GatesTypeOK' /\ pc' \in Pcs /\ MachineTypeOK' => TypeOK'
BY DEF TypeOK, MachineTypeOK, Pcs, Machines

\* A step of the gates alone.
LEMMA MachineUnchangedType == MachineTypeOK /\ UNCHANGED machineVars => MachineTypeOK'
BY DEF MachineTypeOK, machineVars

\* The position of the power thread after a handler or a call to the gates.
LEMMA PcsFacts == {"tail", "run", "loop"} \cup GatePcs \cup PowerStates \subseteq Pcs
BY PcFacts DEF Pcs

\* The initial state is in its types.
LEMMA InitType == Init => TypeOK
<1> SUFFICES ASSUME Init PROVE TypeOK
  OBVIOUS
<1>1. GatesTypeOK
  BY GatesInitType DEF Init
<1>2. power \in Machines
  BY InitMachine DEF Init
<1>3. out \in Outputs /\ pd \in PdSettings /\ rail \in Rail
  BY DEF Init, Outputs, PdSettings, Rail
<1>4. stall \in 0..MaxStall /\ otg \in [auto : BOOLEAN, forced : BOOLEAN]
  BY DEF Init
<1>5. recovery \in BOOLEAN /\ outputReady \in BOOLEAN /\ call \in Modes \cup {"none", "SHUTDOWN", "off"}
  BY DEF Init
<1>6. pc \in Pcs
  BY PcFacts DEF Init, GatesInit, Pcs
<1> QED
  BY <1>1, <1>2, <1>3, <1>4, <1>5, <1>6, TypeParts DEF MachineTypeOK

\* A turn of handle_startup() keeps the types.
LEMMA StartupType == TypeOK /\ HandleStartup => TypeOK'
<1> SUFFICES ASSUME TypeOK, HandleStartup PROVE TypeOK'
  OBVIOUS
<1>1. GatesTypeOK /\ MachineTypeOK
  BY TypeParts
<1>2. \A s \in PowerStates : SetState(power, s) \in Machines
  BY <1>1, SetStateFacts DEF MachineTypeOK
<1>3. UNCHANGED <<stall, call, rail, pd, otg, outputReady>> /\ pc' = "tail"
  BY DEF HandleStartup, Handles
<1>4. CASE ComponentsAbsent
  <2>1. GatesTypeOK'
    BY <1>1, <1>4, GatesUnchangedType, EnableVbusDirectType DEF ComponentsAbsent, StartupFails
  <2>2. power' \in Machines /\ out' = out /\ recovery' \in BOOLEAN
    BY <1>1, <1>2, <1>4, StateFacts DEF ComponentsAbsent, StartupFails, MachineTypeOK
  <2>3. MachineTypeOK'
    BY <1>1, <1>3, <2>2 DEF MachineTypeOK
  <2> QED
    BY <1>3, <2>1, <2>3, TypeParts, PcsFacts
<1>5. CASE ComponentsPresent
  <2>1. GatesTypeOK'
    BY <1>1, <1>5, GatesUnchangedType DEF ComponentsPresent, StartupFails
  <2>2. power' \in Machines /\ recovery' = recovery
    BY <1>1, <1>2, <1>5, StateFacts DEF ComponentsPresent, StartupFails, MachineTypeOK
  <2>3. out' \in Outputs
    BY <1>1, <1>5 DEF ComponentsPresent, StartupFails, MachineTypeOK, Outputs
  <2>4. MachineTypeOK'
    BY <1>1, <1>3, <2>2, <2>3 DEF MachineTypeOK
  <2> QED
    BY <1>3, <2>1, <2>4, TypeParts, PcsFacts
<1> QED
  BY <1>4, <1>5 DEF HandleStartup

\* A turn of handle_clear_power_rails() keeps the types.
LEMMA ClearType == TypeOK /\ HandleClearPowerRails => TypeOK'
<1> SUFFICES ASSUME TypeOK, HandleClearPowerRails PROVE TypeOK'
  OBVIOUS
<1>1. GatesTypeOK /\ MachineTypeOK
  BY TypeParts
<1>2. SkipTimeout(power) \in Machines /\ SetState(power, "ERROR") \in Machines
  BY <1>1, TimeoutFacts, SetStateFacts, StateFacts DEF MachineTypeOK
<1>3. UNCHANGED <<stall, call, otg, recovery>> /\ pc' = "tail" /\ outputReady' = FALSE
  BY DEF HandleClearPowerRails, Handles
<1>4. GatesTypeOK'
  BY <1>1, GatesUnchangedType, DisableGatesType DEF HandleClearPowerRails
<1>5. power' \in Machines
  <2>1. power' \in {power, SkipTimeout(power), SetState(power, "ERROR")}
    BY DEF HandleClearPowerRails
  <2> QED
    BY <1>1, <1>2, <2>1 DEF MachineTypeOK
<1>6. rail' \in Rail /\ pd' \in PdSettings
  <2>1. rail' \in Readings \cup {rail}
    BY DEF HandleClearPowerRails
  <2>2. \/ pd' = pd
        \/ pd' = [pd EXCEPT !.run = @ /\ power.after = "OTG", !.otg = FALSE]
    BY DEF HandleClearPowerRails
  <2>3. pd \in PdSettings
    BY <1>1 DEF MachineTypeOK
  <2>4. (pd.run /\ power.after = "OTG") \in BOOLEAN
    OBVIOUS
  <2>5. pd' \in PdSettings
    BY <2>2, <2>3, <2>4 DEF PdSettings
  <2> QED
    BY <1>1, <2>1, <2>5 DEF MachineTypeOK, Rail
<1>7. out' \in Outputs
  <2>1. out' = [out EXCEPT !.discharge = FALSE] \/ out' = ClearOutputs
    BY DEF HandleClearPowerRails
  <2>2. out \in Outputs
    BY <1>1 DEF MachineTypeOK
  <2>3. (~RailCleared) \in BOOLEAN
    BY DEF RailCleared
  <2>4. ClearOutputs \in Outputs
    BY <2>3 DEF ClearOutputs, Outputs
  <2> QED
    BY <2>1, <2>2, <2>4 DEF Outputs
<1>8. MachineTypeOK'
  BY <1>1, <1>3, <1>5, <1>6, <1>7 DEF MachineTypeOK
<1> QED
  BY <1>3, <1>4, <1>8, TypeParts, PcsFacts

\* A turn of handle_charging_mode() keeps the types.
LEMMA ChargingType == TypeOK /\ HandleChargingMode => TypeOK'
<1> SUFFICES ASSUME TypeOK, HandleChargingMode PROVE TypeOK'
  OBVIOUS
<1>1. GatesTypeOK /\ MachineTypeOK
  BY TypeParts
<1>2. GatesTypeOK' /\ pc' \in Pcs
  BY <1>1, EnableGateType, GateFacts, PcsFacts DEF HandleChargingMode
<1>3. UNCHANGED <<stall, call, power, rail, otg, recovery, outputReady>>
  BY DEF HandleChargingMode, Handles
<1>4. out' \in Outputs /\ pd' \in PdSettings
  BY <1>1 DEF HandleChargingMode, MachineTypeOK, Outputs, PdSettings
<1>5. MachineTypeOK'
  BY <1>1, <1>3, <1>4 DEF MachineTypeOK
<1> QED
  BY <1>2, <1>5, TypeParts

\* A turn of handle_output_voltage_mode() keeps the types.
LEMMA OutputType == TypeOK /\ HandleOutputVoltageMode => TypeOK'
<1> SUFFICES ASSUME TypeOK, HandleOutputVoltageMode PROVE TypeOK'
  OBVIOUS
<1>1. GatesTypeOK /\ MachineTypeOK
  BY TypeParts
<1>2. GatesTypeOK' /\ pc' \in Pcs
  BY <1>1, EnableGateType, DisableGatesType, GateFacts, PcsFacts DEF HandleOutputVoltageMode
<1>3. UNCHANGED <<stall, call, power, otg, recovery>> /\ rail' \in Rail
  BY DEF HandleOutputVoltageMode, Handles, Rail
<1>4. out' \in Outputs /\ pd' \in PdSettings /\ outputReady' \in BOOLEAN
  BY <1>1 DEF HandleOutputVoltageMode, MachineTypeOK, Outputs, PdSettings, OutputVoltageOk
<1>5. MachineTypeOK'
  BY <1>1, <1>3, <1>4 DEF MachineTypeOK
<1> QED
  BY <1>2, <1>5, TypeParts

\* A turn of handle_otg_mode() keeps the types.
LEMMA OtgType == TypeOK /\ HandleOtgMode => TypeOK'
<1> SUFFICES ASSUME TypeOK, HandleOtgMode PROVE TypeOK'
  OBVIOUS
<1>1. GatesTypeOK /\ MachineTypeOK
  BY TypeParts
<1>2. UNCHANGED <<stall, call, rail, recovery, outputReady>>
  BY DEF HandleOtgMode, Handles
<1>3. ASSUME StopOtg, NEW auto \in {otg.auto, TRUE}, otg' = [otg EXCEPT !.auto = auto]
      PROVE  TypeOK'
  <2>1. power' \in Machines
    BY <1>1, <1>3, SetStateFacts, StateFacts DEF StopOtg, MachineTypeOK
  <2>2. out' \in Outputs /\ pd' \in PdSettings /\ otg' \in [auto : BOOLEAN, forced : BOOLEAN]
    BY <1>1, <1>3 DEF StopOtg, MachineTypeOK, Outputs, PdSettings
  <2>3. MachineTypeOK'
    BY <1>1, <1>2, <2>1, <2>2 DEF MachineTypeOK
  <2> QED
    BY <1>1, <1>3, <2>3, GatesUnchangedType, TypeParts, PcsFacts DEF StopOtg
<1>4. ASSUME NEW forces \in BOOLEAN, DriveOtg(forces), NEW auto \in {otg.auto, TRUE},
             otg' = [auto |-> auto, forced |-> otg.forced \/ forces]
      PROVE  TypeOK'
  <2>1. power' = power
    BY <1>4 DEF DriveOtg
  <2>2. out' \in Outputs /\ pd' \in PdSettings /\ otg' \in [auto : BOOLEAN, forced : BOOLEAN]
    BY <1>1, <1>4 DEF DriveOtg, MachineTypeOK, Outputs, PdSettings
  <2>3. MachineTypeOK'
    BY <1>1, <1>2, <2>1, <2>2 DEF MachineTypeOK
  <2>4. GatesTypeOK' /\ pc' \in Pcs
    BY <1>1, <1>4, EnableGateType, GateFacts, PcsFacts DEF DriveOtg
  <2> QED
    BY <2>3, <2>4, TypeParts
<1>5. (~otg.auto /\ ~otg.forced) \in BOOLEAN
  OBVIOUS
<1> QED
  BY <1>3, <1>4, <1>5 DEF HandleOtgMode

\* The other handlers keep the types.
LEMMA OtherHandlersType ==
  TypeOK /\ (HandleIdle \/ HandleShutdown \/ HandleErrorState) => TypeOK'
<1> SUFFICES ASSUME TypeOK, HandleIdle \/ HandleShutdown \/ HandleErrorState PROVE TypeOK'
  OBVIOUS
<1>1. GatesTypeOK /\ MachineTypeOK
  BY TypeParts
<1>2. UNCHANGED <<stall, call, rail, power, pd, otg, outputReady>> /\ pc' = "tail"
  BY DEF HandleIdle, HandleShutdown, HandleErrorState, Handles
<1>3. GatesTypeOK'
  BY <1>1, GatesUnchangedType, DisableGatesType
     DEF HandleIdle, HandleShutdown, HandleErrorState, CutPower
<1>4. out' \in Outputs /\ recovery' \in BOOLEAN
  BY <1>1 DEF HandleIdle, HandleShutdown, HandleErrorState, CutPower, MachineTypeOK, Outputs
<1>5. MachineTypeOK'
  BY <1>1, <1>2, <1>4 DEF MachineTypeOK
<1> QED
  BY <1>2, <1>3, <1>5, TypeParts, PcsFacts

\* The rest of the power thread's loop keeps the types.
LEMMA LoopType ==
  TypeOK /\ (GateSteps \/ RunPowerMachine \/ EndPowerLoop) => TypeOK'
<1> SUFFICES ASSUME TypeOK, GateSteps \/ RunPowerMachine \/ EndPowerLoop PROVE TypeOK'
  OBVIOUS
<1>1. GatesTypeOK /\ MachineTypeOK
  BY TypeParts
<1>2. CASE GateSteps
  <2>1. MachineTypeOK'
    BY <1>1, <1>2, MachineUnchangedType DEF GateSteps
  <2>2. GatesTypeOK' /\ pc' \in Pcs
    BY <1>1, <1>2, GatesLoopType, RequestType, PcsFacts DEF GateSteps
  <2> QED
    BY <2>1, <2>2, TypeParts
<1>3. CASE RunPowerMachine
  <2>1. power' \in Machines
    BY <1>1, <1>3, TimeoutFacts, ReadChangedFacts DEF RunPowerMachine, MachineTypeOK
  <2>2. stall' \in 0..MaxStall
    BY <1>3 DEF RunPowerMachine
  <2>3. UNCHANGED <<rail, out, pd, otg, recovery, outputReady, call>>
    BY <1>3 DEF RunPowerMachine
  <2>4. MachineTypeOK'
    BY <1>1, <2>1, <2>2, <2>3 DEF MachineTypeOK
  <2>5. pc' \in Pcs
    BY <1>3, <2>1, PcsFacts DEF RunPowerMachine, Machines, Machine
  <2>6. GatesTypeOK'
    BY <1>1, <1>3, GatesUnchangedType DEF RunPowerMachine
  <2> QED
    BY <2>4, <2>5, <2>6, TypeParts
<1>4. CASE EndPowerLoop
  <2>1. UNCHANGED <<gateVars, power, stall, out, pd, otg, outputReady, call>> /\ pc' = "loop"
    BY <1>4 DEF EndPowerLoop
  <2>2. recovery' \in BOOLEAN /\ rail' \in Rail
    BY <1>1, <1>4 DEF EndPowerLoop, MachineTypeOK, Rail
  <2>3. MachineTypeOK'
    BY <1>1, <2>1, <2>2 DEF MachineTypeOK
  <2> QED
    BY <1>1, <2>1, <2>3, GatesUnchangedType, TypeParts, PcsFacts
<1> QED
  BY <1>2, <1>3, <1>4

\* The main thread's calls keep the types.
LEMMA MainThreadType == TypeOK /\ MainThread => TypeOK'
<1> SUFFICES ASSUME TypeOK, MainThread PROVE TypeOK'
  OBVIOUS
<1>1. GatesTypeOK /\ MachineTypeOK /\ pc \in Pcs
  BY TypeParts
<1>2. ASSUME ModeRequests PROVE TypeOK'
  <2>1. UNCHANGED <<gateVars, pc, power, stall, rail, recovery, outputReady>> /\ call' \in Modes
    BY <1>2 DEF ModeRequests, GoToOutputMode, GoToChargerMode, GoToOtgMode, GoToIdle, Asks, Modes
  <2>2. out' \in Outputs
    <3>1. out' = out \/ out' = [out EXCEPT !.boost = "off"]
      BY <1>2 DEF ModeRequests, GoToOutputMode, GoToChargerMode, GoToOtgMode, GoToIdle
    <3>2. out \in Outputs
      BY <1>1 DEF MachineTypeOK
    <3> QED
      BY <3>1, <3>2 DEF Outputs
  <2>3. pd' \in PdSettings
    <3>1. \/ pd' = pd \/ pd' = [run |-> FALSE, otg |-> FALSE, source |-> FALSE]
          \/ pd' = [pd EXCEPT !.source = FALSE] \/ pd' = [pd EXCEPT !.otg = TRUE]
      BY <1>2 DEF ModeRequests, GoToOutputMode, GoToChargerMode, GoToOtgMode, GoToIdle
    <3>2. pd \in PdSettings
      BY <1>1 DEF MachineTypeOK
    <3>3. [run |-> FALSE, otg |-> FALSE, source |-> FALSE] \in PdSettings
      BY DEF PdSettings
    <3>4. [pd EXCEPT !.source = FALSE] \in PdSettings /\ [pd EXCEPT !.otg = TRUE] \in PdSettings
      BY <3>2 DEF PdSettings
    <3> QED
      BY <3>1, <3>2, <3>3, <3>4
  <2>4. otg' \in [auto : BOOLEAN, forced : BOOLEAN]
    <3>1. otg' = otg \/ otg' = [auto |-> FALSE, forced |-> FALSE]
      BY <1>2 DEF ModeRequests, GoToOutputMode, GoToChargerMode, GoToOtgMode, GoToIdle
    <3>2. [auto |-> FALSE, forced |-> FALSE] \in [auto : BOOLEAN, forced : BOOLEAN]
      OBVIOUS
    <3> QED
      BY <1>1, <3>1, <3>2 DEF MachineTypeOK
  <2>5. MachineTypeOK'
    BY <1>1, <2>1, <2>2, <2>3, <2>4 DEF MachineTypeOK
  <2> QED
    BY <1>1, <2>1, <2>5, GatesUnchangedType, TypeParts
<1>3. ASSUME SwitchState \/ GoToError \/ GoToShutdown PROVE TypeOK'
  <2>1. UNCHANGED <<gateVars, pc, stall, rail, out, pd, otg, recovery, outputReady>>
    BY <1>3 DEF SwitchState, GoToError, GoToShutdown
  <2>2. power' \in Machines
    <3>0. power \in Machines
      BY <1>1 DEF MachineTypeOK
    <3>1. CASE SwitchState
      <4>1. call \in PowerStates /\ power' = SetStateFor(power, "CLEAR", ClearTimeout, call)
        BY <3>1, StateFacts DEF SwitchState
      <4>2. "CLEAR" \in PowerStates /\ ClearTimeout \in 0..MaxAge
        BY StateFacts
      <4>3. SetStateFor(power, "CLEAR", ClearTimeout, call) \in Machines
        BY <3>0, <4>1, <4>2, SetStateForFacts
      <4> QED
        BY <4>1, <4>3
    <3>2. CASE GoToError \/ GoToShutdown
      <4>1. power' = SetState(power, "ERROR") \/ power' = SetState(power, "SHUTDOWN")
        BY <3>2 DEF GoToError, GoToShutdown
      <4>2. {"ERROR", "SHUTDOWN"} \subseteq PowerStates
        BY StateFacts
      <4>3. \A s \in {"ERROR", "SHUTDOWN"} : SetState(power, s) \in Machines
        BY <3>0, <4>2, SetStateFacts
      <4> QED
        BY <4>1, <4>3
    <3> QED
      BY <1>3, <3>1, <3>2
  <2>3. call' \in Modes \cup {"none", "SHUTDOWN", "off"}
    BY <1>1, <1>3 DEF SwitchState, GoToError, GoToShutdown, MachineTypeOK
  <2>4. MachineTypeOK'
    BY <1>1, <2>1, <2>2, <2>3 DEF MachineTypeOK
  <2> QED
    BY <1>1, <2>1, <2>4, GatesUnchangedType, TypeParts
<1>4. ASSUME ShutdownOnMainThread PROVE TypeOK'
  <2>1. UNCHANGED <<pc, power, stall, rail, pd, otg, recovery, outputReady>> /\ call' = "off"
    BY <1>4 DEF ShutdownOnMainThread
  <2>2. out' \in Outputs
    BY <1>1, <1>4 DEF ShutdownOnMainThread, CutPower, MachineTypeOK, Outputs
  <2>3. MachineTypeOK'
    BY <1>1, <2>1, <2>2 DEF MachineTypeOK
  <2>4. GatesTypeOK'
    BY <1>1, <1>4, DisableGatesType DEF ShutdownOnMainThread, CutPower
  <2> QED
    BY <1>1, <2>1, <2>3, <2>4, TypeParts
<1> QED
  BY <1>2, <1>3, <1>4 DEF MainThread

\* The other threads, the power cut and time keep the types.
LEMMA OthersType == TypeOK /\ (OtherThreads \/ PowerOff \/ Tick) => TypeOK'
<1> SUFFICES ASSUME TypeOK, OtherThreads \/ PowerOff \/ Tick PROVE TypeOK'
  OBVIOUS
<1>1. GatesTypeOK /\ MachineTypeOK /\ pc \in Pcs
  BY TypeParts
<1>2. CASE OtherThreads
  <2>1. GatesTypeOK' /\ pc' = pc
    BY <1>1, <1>2, OtherThreadsType DEF OtherThreads, OtherThreadDisables, UserBlips
  <2>2. MachineTypeOK'
    BY <1>1, <1>2, MachineUnchangedType DEF OtherThreads
  <2> QED
    BY <1>1, <2>1, <2>2, TypeParts
<1>3. CASE PowerOff
  <2>1. switchAge' \in [Gate -> 0..MaxSwitchAge] /\ blipLeft' \in NoBlip..BlipMax
    BY <1>3 DEF PowerOff, MaxSwitchAge, NoBlip
  <2>2. GatesTypeOK'
    BY <1>3, <2>1 DEF PowerOff, GatesTypeOK
  <2>3. power' \in Machines /\ stall' \in 0..MaxStall
    BY <1>3, InitMachine DEF PowerOff
  <2>4. out' \in Outputs /\ pd' \in PdSettings /\ rail' \in Rail
        /\ otg' \in [auto : BOOLEAN, forced : BOOLEAN]
    BY <1>3 DEF PowerOff, Outputs, PdSettings, Rail
  <2>5. recovery' \in BOOLEAN /\ outputReady' \in BOOLEAN /\ call' = "none" /\ pc' = "loop"
    BY <1>3 DEF PowerOff
  <2>6. MachineTypeOK'
    BY <2>3, <2>4, <2>5 DEF MachineTypeOK
  <2> QED
    BY <2>2, <2>5, <2>6, TypeParts, PcsFacts
<1>4. CASE Tick
  <2>1. power' \in Machines /\ stall' \in 0..MaxStall
    BY <1>1, <1>4, AgedFacts DEF Tick, MachineTypeOK
  <2>2. UNCHANGED <<pc, rail, out, pd, otg, recovery, outputReady, call>>
    BY <1>4 DEF Tick
  <2>3. MachineTypeOK'
    BY <1>1, <2>1, <2>2 DEF MachineTypeOK
  <2>4. GatesTypeOK'
    BY <1>1, <1>4, GateTimeType DEF Tick
  <2> QED
    BY <1>1, <2>2, <2>3, <2>4, TypeParts
<1> QED
  BY <1>2, <1>3, <1>4

\* Every step keeps the types.
LEMMA TypeStep == TypeOK /\ [Next]_vars => TypeOK'
<1> SUFFICES ASSUME TypeOK, [Next]_vars PROVE TypeOK'
  OBVIOUS
<1>1. CASE PowerThread
  BY <1>1, LoopType, StartupType, ClearType, ChargingType, OutputType, OtgType, OtherHandlersType
     DEF PowerThread
<1>2. CASE UNCHANGED vars
  BY <1>2, GatesUnchangedType, MachineUnchangedType, TypeParts DEF vars
<1> QED
  BY <1>1, <1>2, MainThreadType, OthersType DEF Next

\* The machine, the gates and the settings keep their types through every
\* interleaving of the threads (PowerGates and power_handler.cpp).
THEOREM SpecTypeOK == Spec => []TypeOK
<1>1. Spec => TypeOK /\ [][Next]_vars
  BY InitType DEF Spec
<1> QED
  BY <1>1, TypeStep, PTL

-----------------------------------------------------------------------------
(* The invariant of the clearing.  Most steps leave the machine alone or    *)
(* set it to a state with no timeout.                                      *)

Untimed == {"IDLE", "CHARGING", "OUTPUT", "OTG", "SHUTDOWN", "ERROR"}

\* Where the power thread may go without looking at the machine.
LooksAway == pc' = pc \/ (pc # "CLEAR" /\ pc' \notin {"CLEAR", "STARTUP"})

\* The states and the positions of the gates have different names.
LEMMA NameFacts ==
  /\ Untimed \subseteq PowerStates /\ "CLEAR" \notin Untimed /\ "STARTUP" \notin Untimed
  /\ Modes \subseteq Untimed
  /\ "CLEAR" \notin GatePcs /\ "STARTUP" \notin GatePcs
BY PcFacts DEF Untimed, PowerStates, Modes

\* A step that leaves the machine alone.
LEMMA QuietStep ==
  ASSUME IInv, UNCHANGED <<power, stall, call>>, recovery' => recovery, LooksAway
  PROVE  ClearInv'
<1> USE DEF IInv, ClearInv, LooksAway
<1>1. TimeoutsArmed' /\ NoRecoveryIntoOutput' /\ StartupOver'
  BY DEF TimeoutsArmed, NoRecoveryIntoOutput, StartupOver
<1>2. ClearAge'
  BY DEF ClearAge
<1> QED
  BY <1>1, <1>2

\* A step that sets the machine to a state with no timeout.
LEMMA UntimedStep ==
  ASSUME IInv, NEW s \in Untimed, power' = SetState(power, s),
         recovery' => recovery,
         pc' # "STARTUP" \/ call' \in {"SHUTDOWN", "off"},
         call' = call \/ call' = "SHUTDOWN"
  PROVE  ClearInv'
<1>1. power \in Machines
  BY TypeParts DEF IInv, MachineTypeOK
<1>2. power'.state = s /\ ~power'.timed
  <2>1. s = power.state => ~power.timed
    BY NameFacts DEF IInv, ClearInv, TimeoutsArmed
  <2> QED
    BY <1>1, <2>1, NameFacts, SetStateFacts
<1>3. s # "CLEAR" /\ s # "STARTUP"
  BY NameFacts
<1>4. TimeoutsArmed' /\ ClearAge'
  BY <1>2, <1>3 DEF TimeoutsArmed, ClearAge
<1>5. StartupOver'
  BY <1>2, <1>3 DEF StartupOver
<1>6. NoRecoveryIntoOutput'
  BY <1>2 DEF IInv, ClearInv, NoRecoveryIntoOutput
<1> QED
  BY <1>4, <1>5, <1>6 DEF ClearInv

\* skip_timeout() does nothing without a timeout, and else leaves the startup
\* for ERROR and CLEAR for the mode that was asked for.
LEMMA SkipFacts ==
  ASSUME IInv
  PROVE  \/ ~power.timed /\ SkipTimeout(power) = power
         \/ /\ power.timed /\ SkipTimeout(power) = SetState(power, power.after)
            /\ \/ power.state = "STARTUP" /\ power.after = "ERROR"
               \/ power.state = "CLEAR" /\ power.after \in Modes
<1>1. power \in Machines
  BY TypeParts DEF IInv, MachineTypeOK
<1> QED
  BY <1>1, TimeoutFacts DEF IInv, ClearInv, TimeoutsArmed

\* The timeout of CLEAR never expires: the handler gives up before.
LEMMA NoTimeoutInClear ==
  ASSUME IInv, pc # "CLEAR", power.state = "CLEAR"
  PROVE  RunMachine(power) = power
<1>1. power \in Machines /\ stall \in 0..MaxStall
  BY TypeParts DEF IInv, MachineTypeOK
<1>2. power.age \in Nat /\ power.timed /\ power.limit = ClearTimeout
  BY <1>1 DEF IInv, ClearInv, TimeoutsArmed, Machines, Machine, MaxAge
<1>3. power.age < ClearFailureDelay + stall
  BY <1>1 DEF IInv, ClearInv, ClearAge
<1>4. power.age < ClearTimeout
  BY <1>1, <1>2, <1>3
<1> QED
  BY <1>1, <1>2, <1>4, TimeoutFacts

\* The initial state.
LEMMA ClearInvInit == Init => ClearInv
<1> SUFFICES ASSUME Init PROVE ClearInv
  OBVIOUS
<1>1. power.state = "STARTUP" /\ power.timed /\ power.after = "ERROR"
  BY InitMachine DEF Init
<1>2. pc = "loop" /\ call = "none" /\ ~recovery
  BY DEF Init, GatesInit
<1> QED
  BY <1>1, <1>2 DEF ClearInv, TimeoutsArmed, ClearAge, StartupOver, NoRecoveryIntoOutput, Modes

\* The look of the power thread at the machine.
LEMMA RunClearInv == IInv /\ RunPowerMachine => ClearInv'
<1> SUFFICES ASSUME IInv, RunPowerMachine PROVE ClearInv'
  OBVIOUS
<1>1. power \in Machines /\ stall \in 0..MaxStall
  BY TypeParts DEF IInv, MachineTypeOK
<1>2. pc = "run" /\ pc' = power'.state /\ stall' = 0 /\ UNCHANGED <<recovery, call>>
  BY DEF RunPowerMachine
<1>3. CASE RunMachine(power) = power
  <2>1. /\ power'.state = power.state /\ power'.age = power.age /\ power'.timed = power.timed
        /\ power'.limit = power.limit /\ power'.after = power.after
    BY <1>1, <1>3, ReadChangedFacts DEF RunPowerMachine
  <2>2. TimeoutsArmed' /\ NoRecoveryIntoOutput' /\ StartupOver'
    BY <1>2, <2>1 DEF IInv, ClearInv, TimeoutsArmed, NoRecoveryIntoOutput, StartupOver
  <2>3. ClearAge'
    <3>1. SUFFICES ASSUME power.state = "CLEAR"
                   PROVE  power.age < ClearFailureDelay + MaxStall
      BY <1>2, <2>1 DEF ClearAge
    <3>2. power.age < ClearFailureDelay + stall /\ power.age \in Nat
      BY <1>1, <1>2, <3>1 DEF IInv, ClearInv, ClearAge, Machines, Machine
    <3> QED
      BY <1>1, <3>2
  <2> QED
    BY <2>2, <2>3 DEF ClearInv
<1>4. CASE RunMachine(power) # power
  <2>1. power.timed /\ RunMachine(power) = SetState(power, power.after)
    BY <1>1, <1>4, TimeoutFacts
  <2>2. power.state = "STARTUP" /\ power.after = "ERROR"
    BY <1>2, <1>4, <2>1, NoTimeoutInClear DEF IInv, ClearInv, TimeoutsArmed
  <2>3. /\ RunMachine(power) \in Machines
        /\ RunMachine(power).state = "ERROR" /\ ~RunMachine(power).timed
    <3>1. "ERROR" \in PowerStates
      BY StateFacts
    <3> QED
      BY <1>1, <2>1, <2>2, <3>1, SetStateFacts
  <2>4. power'.state = "ERROR" /\ ~power'.timed
    BY <2>3, ReadChangedFacts DEF RunPowerMachine
  <2> QED
    BY <1>2, <2>4 DEF IInv, ClearInv, TimeoutsArmed, ClearAge, StartupOver, NoRecoveryIntoOutput
<1> QED
  BY <1>3, <1>4

\* The handler of CLEAR_POWER_RAILS, in recovery or not.
LEMMA ClearClearInv == IInv /\ HandleClearPowerRails => ClearInv'
<1> SUFFICES ASSUME IInv, HandleClearPowerRails PROVE ClearInv'
  OBVIOUS
<1>1. power \in Machines
  BY TypeParts DEF IInv, MachineTypeOK
<1>2. pc = "CLEAR" /\ pc' = "tail" /\ UNCHANGED <<stall, call, recovery>>
  BY DEF HandleClearPowerRails, Handles
<1>3. CASE power' = power
  <2>1. power.state = "CLEAR" => power.timed /\ power.after # "CLEAR"
    BY DEF IInv, ClearInv, TimeoutsArmed, Modes
  <2>2. ASSUME power.state = "CLEAR"
        PROVE  SkipTimeout(power) # power /\ SetState(power, "ERROR") # power
    <3>1. /\ SkipTimeout(power) = SetState(power, power.after)
          /\ power.after \in PowerStates /\ power.after # "CLEAR"
      BY <2>1, <2>2, SkipFacts, NameFacts
    <3>2. SetState(power, power.after).state = power.after
      BY <1>1, <3>1, SetStateFacts
    <3>3. "ERROR" \in PowerStates
      BY StateFacts
    <3>4. SetState(power, "ERROR").state = "ERROR"
      BY <1>1, <3>3, SetStateFacts
    <3> QED
      BY <2>2, <3>1, <3>2, <3>4
  <2>3. power.state = "CLEAR" => ~ClearFailed
    BY <1>3, <2>2 DEF HandleClearPowerRails
  <2>4. ClearAge'
    <3>0. power' = power /\ stall' = stall /\ pc' # "CLEAR"
      BY <1>2, <1>3
    <3>2. power.age \in Nat /\ stall \in Nat /\ ClearFailureDelay \in Nat
      BY <1>1, TypeParts DEF IInv, MachineTypeOK, Machines, Machine
    <3>1. SUFFICES ASSUME power.state = "CLEAR" PROVE power.age < ClearFailureDelay + stall
      BY <3>0, <3>2 DEF ClearAge
    <3> QED
      BY <2>3, <3>1, <3>2 DEF ClearFailed
  <2>5. TimeoutsArmed' /\ NoRecoveryIntoOutput' /\ StartupOver'
    BY <1>2, <1>3 DEF IInv, ClearInv, TimeoutsArmed, NoRecoveryIntoOutput, StartupOver
  <2> QED
    BY <2>4, <2>5 DEF ClearInv
<1>4. CASE power' # power
  <2>1. power' = SkipTimeout(power) \/ power' = SetState(power, "ERROR")
    BY <1>4 DEF HandleClearPowerRails
  <2>2. power.timed => power.after \in Untimed
    BY NameFacts DEF IInv, ClearInv, TimeoutsArmed, Untimed
  <2>3. \E s \in Untimed : power' = SetState(power, s)
    <3>1. CASE power' = SkipTimeout(power)
      BY <1>4, <2>2, <3>1, SkipFacts
    <3>2. CASE power' = SetState(power, "ERROR")
      BY <3>2 DEF Untimed
    <3> QED
      BY <2>1, <3>1, <3>2
  <2> QED
    BY <1>2, <2>3, UntimedStep
<1> QED
  BY <1>3, <1>4

\* A turn of handle_startup(): a recovery only starts while no mode is asked for.
LEMMA StartupClearInv == IInv /\ HandleStartup => ClearInv'
<1> SUFFICES ASSUME IInv, HandleStartup PROVE ClearInv'
  OBVIOUS
<1>1. pc = "STARTUP" /\ pc' = "tail" /\ UNCHANGED <<stall, call>>
  BY DEF HandleStartup, Handles
<1>2. CASE \E s \in Untimed : power' = SetState(power, s) /\ (recovery' => recovery)
  BY <1>1, <1>2, UntimedStep
<1>3. CASE power' = power /\ (recovery' => recovery)
  BY <1>1, <1>3, QuietStep DEF LooksAway
<1>4. CASE power' = power /\ recovery'
  <2>1. ClearAge' /\ TimeoutsArmed'
    BY <1>1, <1>4 DEF IInv, ClearInv, ClearAge, TimeoutsArmed
  <2>2. StartupOver'
    BY <1>1, <1>4 DEF IInv, ClearInv, StartupOver
  <2>3. NoRecoveryIntoOutput'
    BY <1>1, <1>4 DEF IInv, ClearInv, StartupOver, TimeoutsArmed, NoRecoveryIntoOutput, Modes
  <2> QED
    BY <2>1, <2>2, <2>3 DEF ClearInv
<1>5. \/ \E s \in Untimed : power' = SetState(power, s) /\ (recovery' => recovery)
      \/ power' = power
  BY DEF HandleStartup, ComponentsAbsent, ComponentsPresent, StartupFails, Untimed
<1> QED
  BY <1>2, <1>3, <1>4, <1>5

\* The other steps of the power thread.
LEMMA OtherHandlersClearInv ==
  IInv /\ (\/ GateSteps \/ HandleIdle \/ HandleChargingMode \/ HandleOutputVoltageMode
           \/ HandleOtgMode \/ HandleShutdown \/ HandleErrorState \/ EndPowerLoop)
  => ClearInv'
<1> SUFFICES ASSUME IInv,
                    \/ GateSteps \/ HandleIdle \/ HandleChargingMode \/ HandleOutputVoltageMode
                    \/ HandleOtgMode \/ HandleShutdown \/ HandleErrorState \/ EndPowerLoop
             PROVE  ClearInv'
  OBVIOUS
<1>1. GatesTypeOK
  BY TypeParts DEF IInv
<1>2. CASE GateSteps
  <2>1. pc # "CLEAR"
    BY <1>2, PcFacts, GateFacts
       DEF GateSteps, GatesLoop, CheckSwitch, SetPowerPin, SetVbusPin, SettleGate, EndBlip,
           FlagSwitching, RequestGate
  <2>2. pc' \in GatePcs \cup {"run", "tail"}
    BY <1>1, <1>2, GatesLoopType, RequestType DEF GateSteps
  <2> QED
    BY <1>2, <2>1, <2>2, NameFacts, QuietStep DEF GateSteps, machineVars, LooksAway
<1>3. CASE HandleIdle \/ HandleShutdown \/ HandleErrorState
  BY <1>3, QuietStep DEF HandleIdle, HandleShutdown, HandleErrorState, Handles, LooksAway
<1>4. CASE EndPowerLoop
  BY <1>4, QuietStep DEF EndPowerLoop, LooksAway
<1>5. CASE HandleChargingMode
  <2>1. pc' \in {"tail"} \cup GatePcs
    BY <1>1, <1>5, EnableGateType, GateFacts DEF HandleChargingMode
  <2> QED
    BY <1>5, <2>1, NameFacts, QuietStep DEF HandleChargingMode, Handles, LooksAway
<1>6. CASE HandleOutputVoltageMode
  <2>1. pc' \in {"tail"} \cup GatePcs
    BY <1>1, <1>6, EnableGateType, GateFacts DEF HandleOutputVoltageMode
  <2> QED
    BY <1>6, <2>1, NameFacts, QuietStep DEF HandleOutputVoltageMode, Handles, LooksAway
<1>7. CASE HandleOtgMode
  <2>1. pc = "OTG" /\ UNCHANGED <<stall, call, recovery>>
    BY <1>7 DEF HandleOtgMode, Handles
  <2>2. CASE StopOtg
    BY <2>1, <2>2, UntimedStep DEF StopOtg, Untimed
  <2>3. CASE \E forces \in BOOLEAN : DriveOtg(forces)
    <3>1. pc' \in {"tail"} \cup GatePcs /\ power' = power
      BY <1>1, <2>3, EnableGateType, GateFacts DEF DriveOtg
    <3> QED
      BY <2>1, <3>1, NameFacts, QuietStep DEF LooksAway
  <2>4. (~otg.auto /\ ~otg.forced) \in BOOLEAN
    OBVIOUS
  <2> QED
    BY <1>7, <2>2, <2>3, <2>4 DEF HandleOtgMode
<1> QED
  BY <1>2, <1>3, <1>4, <1>5, <1>6, <1>7

\* The main thread: modes are asked for outside of the startup, and not in
\* recovery for the output and OTG.
LEMMA MainClearInv == IInv /\ MainThread => ClearInv'
<1> SUFFICES ASSUME IInv, MainThread PROVE ClearInv'
  OBVIOUS
<1>1. power \in Machines /\ stall \in 0..MaxStall
  BY TypeParts DEF IInv, MachineTypeOK
<1> USE DEF IInv, ClearInv
<1>2. CASE ModeRequests
  <2>1. /\ call = "none" /\ call' \in Modes /\ UNCHANGED <<pc, power, stall, recovery>>
        /\ power.state # "STARTUP"
        /\ call' \in {"OUTPUT", "OTG"} => ~recovery
    BY <1>2 DEF ModeRequests, GoToOutputMode, GoToChargerMode, GoToOtgMode, GoToIdle, Asks,
                CanSwitchStates, Modes
  <2>2. TimeoutsArmed' /\ ClearAge'
    BY <2>1 DEF TimeoutsArmed, ClearAge
  <2>3. StartupOver' /\ NoRecoveryIntoOutput'
    BY <2>1 DEF StartupOver, NoRecoveryIntoOutput, Modes
  <2> QED
    BY <2>2, <2>3
<1>3. CASE SwitchState
  <2>1. /\ call \in Modes /\ call' = "none" /\ UNCHANGED <<pc, stall, recovery>>
        /\ power' = SetStateFor(power, "CLEAR", ClearTimeout, call)
    BY <1>3 DEF SwitchState
  <2>2. /\ power'.state = "CLEAR" /\ power'.timed /\ power'.after = call
        /\ power' = power \/ (power'.age = 0 /\ power'.limit = ClearTimeout)
    <3>1. call \in PowerStates /\ "CLEAR" \in PowerStates /\ ClearTimeout \in 0..MaxAge
      BY <2>1, StateFacts
    <3> QED
      BY <1>1, <2>1, <3>1, SetStateForFacts
  <2>3. TimeoutsArmed'
    BY <2>1, <2>2 DEF TimeoutsArmed
  <2>4. ClearAge'
    BY <1>1, <2>1, <2>2 DEF ClearAge
  <2>5. StartupOver' /\ NoRecoveryIntoOutput'
    BY <2>1, <2>2 DEF StartupOver, NoRecoveryIntoOutput, Modes
  <2> QED
    BY <2>3, <2>4, <2>5
<1>4. CASE GoToError
  BY <1>4, UntimedStep DEF GoToError, StartupOver, Untimed
<1>5. CASE GoToShutdown
  BY <1>5, UntimedStep DEF GoToShutdown, Untimed
<1>6. CASE ShutdownOnMainThread
  <2>1. call = "SHUTDOWN" /\ call' = "off" /\ UNCHANGED <<pc, power, stall, recovery>>
    BY <1>6 DEF ShutdownOnMainThread
  <2> QED
    BY <2>1 DEF TimeoutsArmed, ClearAge, StartupOver, NoRecoveryIntoOutput, Modes
<1> QED
  BY <1>2, <1>3, <1>4, <1>5, <1>6 DEF MainThread

\* The other threads, the power cut and time.
LEMMA OthersClearInv == IInv /\ (OtherThreads \/ PowerOff \/ Tick) => ClearInv'
<1> SUFFICES ASSUME IInv, OtherThreads \/ PowerOff \/ Tick PROVE ClearInv'
  OBVIOUS
<1>1. CASE OtherThreads
  BY <1>1, QuietStep DEF OtherThreads, OtherThreadDisables, UserBlips, machineVars, LooksAway
<1>2. CASE PowerOff
  <2>1. power'.state = "STARTUP" /\ power'.timed /\ power'.after = "ERROR"
    BY <1>2, InitMachine DEF PowerOff
  <2>2. pc' = "loop" /\ call' = "none" /\ ~recovery'
    BY <1>2 DEF PowerOff
  <2> QED
    BY <2>1, <2>2 DEF ClearInv, TimeoutsArmed, ClearAge, StartupOver, NoRecoveryIntoOutput, Modes
<1>3. CASE Tick
  <2>1. power \in Machines /\ stall \in Nat
    BY TypeParts DEF IInv, MachineTypeOK
  <2>2. /\ power'.state = power.state /\ power'.timed = power.timed
        /\ power'.limit = power.limit /\ power'.after = power.after
        /\ power'.age <= power.age + 1 /\ power' \in Machines
        /\ stall' = stall + 1 /\ UNCHANGED <<pc, recovery, call>>
    BY <1>3, <2>1, AgedFacts DEF Tick
  <2>3. TimeoutsArmed' /\ NoRecoveryIntoOutput' /\ StartupOver'
    BY <2>2 DEF IInv, ClearInv, TimeoutsArmed, NoRecoveryIntoOutput, StartupOver
  <2>4. ClearAge'
    <3>1. power.age \in Nat /\ power'.age \in Nat
      BY <2>1, <2>2 DEF Machines, Machine
    <3> QED
      BY <2>1, <2>2, <3>1 DEF IInv, ClearInv, ClearAge
  <2> QED
    BY <2>3, <2>4 DEF ClearInv
<1> QED
  BY <1>1, <1>2, <1>3

\* Every step keeps the invariant.
LEMMA InvStep == IInv /\ [Next]_vars => IInv'
<1> SUFFICES ASSUME IInv, [Next]_vars PROVE IInv'
  OBVIOUS
<1>1. TypeOK'
  BY TypeStep DEF IInv
<1>2. CASE UNCHANGED vars
  <2>1. UNCHANGED <<pc, power, stall, call, recovery>>
    BY <1>2 DEF vars, machineVars
  <2> QED
    BY <1>1, <2>1, QuietStep DEF LooksAway, IInv
<1>3. CASE PowerThread
  BY <1>1, <1>3, RunClearInv, ClearClearInv, StartupClearInv, OtherHandlersClearInv
     DEF PowerThread, IInv
<1> QED
  BY <1>1, <1>2, <1>3, MainClearInv, OthersClearInv DEF Next, IInv

\* The strengthened invariant holds in every state.
THEOREM SpecInv == Spec => []IInv
<1>1. Init => IInv
  BY InitType, ClearInvInit DEF IInv
<1> QED
  BY <1>1, InvStep, PTL DEF Spec

\* Clearing the rails ends in time, whatever the main thread asks for and
\* however late the power thread runs, up to MaxStall (handle_clear_power_rails).
THEOREM SpecClearBounded == Spec => []ClearBounded
<1>1. IInv => ClearBounded
  <2> SUFFICES ASSUME IInv, power.state = "CLEAR"
               PROVE  power.age < ClearFailureDelay + 2 * MaxStall
    BY DEF ClearBounded
  <2>1. power.age \in Nat /\ stall \in 0..MaxStall
    BY TypeParts DEF IInv, MachineTypeOK, Machines, Machine
  <2> QED
    BY <2>1 DEF IInv, ClearInv, ClearAge
<1> QED
  BY <1>1, SpecInv, PTL

-----------------------------------------------------------------------------
(* The modes that drive the rail. *)

\* What RailsClearedFirst says of a step.
ClearedFirst ==
  EntersPoweredMode =>
    /\ power.state = "CLEAR"
    /\ power.age >= ClearMinDelay
    /\ rail' = "low"
    /\ pin' = {} /\ enabled' = {}
    /\ out'.boost = "off" /\ ~out'.discharge

\* Setting any other state, or the state the machine is in, enters none.
LEMMA NotEntered ==
  ASSUME power \in Machines,
         \/ power' = power
         \/ \E s \in PowerStates \ {"OUTPUT", "OTG"} : power' = SetState(power, s)
  PROVE  ~EntersPoweredMode
BY SetStateFacts DEF EntersPoweredMode

\* The power thread's look at the machine only takes a timeout of the startup.
LEMMA RunNotEntered == IInv /\ RunPowerMachine => ~EntersPoweredMode
<1> SUFFICES ASSUME IInv, RunPowerMachine PROVE ~EntersPoweredMode
  OBVIOUS
<1>1. power \in Machines
  BY TypeParts DEF IInv, MachineTypeOK
<1>2. RunMachine(power) \in Machines
  BY <1>1, TimeoutFacts
<1>3. power'.state = RunMachine(power).state
  BY <1>2, ReadChangedFacts DEF RunPowerMachine
<1>4. CASE RunMachine(power) = power
  BY <1>3, <1>4 DEF EntersPoweredMode
<1>5. CASE RunMachine(power) # power
  <2>1. power.timed /\ RunMachine(power) = SetState(power, power.after)
    BY <1>1, <1>5, TimeoutFacts
  <2>2. pc = "run"
    BY DEF RunPowerMachine
  <2>3. power.after = "ERROR"
    BY <1>5, <2>1, <2>2, NoTimeoutInClear DEF IInv, ClearInv, TimeoutsArmed
  <2>4. "ERROR" \in PowerStates
    BY StateFacts
  <2>5. power'.state = "ERROR"
    BY <1>1, <1>3, <2>1, <2>3, <2>4, SetStateFacts
  <2> QED
    BY <2>5 DEF EntersPoweredMode
<1> QED
  BY <1>4, <1>5

\* handle_clear_power_rails() enters them as RailsClearedFirst says.
LEMMA ClearEnters == IInv /\ HandleClearPowerRails => ClearedFirst
<1> SUFFICES ASSUME IInv, HandleClearPowerRails, EntersPoweredMode
             PROVE  /\ power.state = "CLEAR"
                    /\ power.age >= ClearMinDelay
                    /\ rail' = "low"
                    /\ pin' = {} /\ enabled' = {}
                    /\ out'.boost = "off" /\ ~out'.discharge
  BY DEF ClearedFirst
<1>1. power \in Machines /\ "ERROR" \in PowerStates
  BY TypeParts, StateFacts DEF IInv, MachineTypeOK
<1>2. SetState(power, "ERROR").state = "ERROR"
  BY <1>1, SetStateFacts
<1>3. power' # power /\ power' # SetState(power, "ERROR")
  BY <1>2 DEF EntersPoweredMode
<1>4. /\ power' = SkipTimeout(power)
      /\ \/ recovery
         \/ RailCleared /\ DisableGates /\ out' = ClearOutputs
  BY <1>3 DEF HandleClearPowerRails
<1>5. power.timed /\ power' = SetState(power, power.after) /\ power.after \in PowerStates
  BY <1>1, <1>3, <1>4, SkipFacts DEF Machines, Machine
<1>6. power'.state = power.after
  BY <1>1, <1>5, SetStateFacts
<1>7. power.after \in {"OUTPUT", "OTG"} /\ power.state = "CLEAR"
  BY <1>5, <1>6 DEF EntersPoweredMode, IInv, ClearInv, TimeoutsArmed
<1>8. ~recovery
  BY <1>5, <1>7 DEF IInv, ClearInv, NoRecoveryIntoOutput
<1>9. RailCleared /\ DisableGates /\ out' = ClearOutputs
  BY <1>4, <1>8
<1>10. out'.boost = "off" /\ ~out'.discharge
  BY <1>9 DEF ClearOutputs
<1> QED
  BY <1>7, <1>9, <1>10 DEF RailCleared, DisableGates

\* No other step enters them.
LEMMA OthersNotEnter ==
  IInv /\ [Next]_vars => HandleClearPowerRails \/ RunPowerMachine \/ ~EntersPoweredMode
<1> SUFFICES ASSUME IInv, [Next]_vars, ~HandleClearPowerRails, ~RunPowerMachine
             PROVE  ~EntersPoweredMode
  OBVIOUS
<1> DEFINE Free == PowerStates \ {"OUTPUT", "OTG"}
<1>1. power \in Machines
  BY TypeParts DEF IInv, MachineTypeOK
<1>2. {"IDLE", "ERROR", "CHARGING", "SHUTDOWN"} \subseteq Free
  BY DEF PowerStates
<1> HIDE DEF Free
<1>3. ASSUME power' = power PROVE ~EntersPoweredMode
  BY <1>3 DEF EntersPoweredMode
<1>4. ASSUME NEW s \in {"IDLE", "ERROR", "CHARGING", "SHUTDOWN"}, power' = SetState(power, s)
      PROVE  ~EntersPoweredMode
  BY <1>1, <1>2, <1>4, NotEntered DEF Free
<1>5. CASE UNCHANGED vars
  BY <1>3, <1>5 DEF vars, machineVars
<1>6. CASE GateSteps \/ EndPowerLoop \/ HandleIdle \/ HandleShutdown \/ HandleErrorState
  BY <1>3, <1>6 DEF GateSteps, EndPowerLoop, HandleIdle, HandleShutdown, HandleErrorState,
                    machineVars
<1>7. CASE HandleChargingMode \/ HandleOutputVoltageMode
  BY <1>3, <1>7 DEF HandleChargingMode, HandleOutputVoltageMode
<1>8. CASE HandleOtgMode
  <2>1. power' = power \/ power' = SetState(power, "CHARGING")
    BY <1>8 DEF HandleOtgMode, StopOtg, DriveOtg
  <2> QED
    BY <1>3, <1>4, <2>1
<1>9. CASE HandleStartup
  <2>1. power' = power \/ \E s \in {"IDLE", "ERROR"} : power' = SetState(power, s)
    BY <1>9 DEF HandleStartup, ComponentsAbsent, ComponentsPresent, StartupFails
  <2> QED
    BY <1>3, <1>4, <2>1
<1>10. CASE MainThread
  <2>1. CASE ModeRequests \/ ShutdownOnMainThread
    BY <1>3, <2>1 DEF ModeRequests, GoToOutputMode, GoToChargerMode, GoToOtgMode, GoToIdle, Asks,
                      ShutdownOnMainThread
  <2>2. CASE GoToError \/ GoToShutdown
    BY <1>4, <2>2 DEF GoToError, GoToShutdown
  <2>3. CASE SwitchState
    <3>1. call \in PowerStates /\ "CLEAR" \in PowerStates /\ ClearTimeout \in 0..MaxAge
      BY <2>3, StateFacts DEF SwitchState
    <3>2. power'.state = "CLEAR"
      BY <1>1, <2>3, <3>1, SetStateForFacts DEF SwitchState
    <3> QED
      BY <3>2 DEF EntersPoweredMode
  <2> QED
    BY <1>10, <2>1, <2>2, <2>3 DEF MainThread
<1>11. CASE OtherThreads
  BY <1>3, <1>11 DEF OtherThreads, machineVars
<1>12. CASE PowerOff
  <2>1. power'.state = "STARTUP"
    BY <1>12, InitMachine DEF PowerOff
  <2> QED
    BY <2>1 DEF EntersPoweredMode
<1>13. CASE Tick
  BY <1>1, <1>13, AgedFacts DEF Tick, EntersPoweredMode
<1> QED
  BY <1>5, <1>6, <1>7, <1>8, <1>9, <1>10, <1>11, <1>12, <1>13 DEF Next, PowerThread

\* Output and OTG are only ever entered by handle_clear_power_rails(), once the
\* rail is measured low with the gates open and the boost off.
THEOREM SpecRailsClearedFirst == Spec => RailsClearedFirst
<1>1. IInv /\ [Next]_vars => [ClearedFirst]_vars
  BY ClearEnters, RunNotEntered, OthersNotEnter DEF ClearedFirst
<1>2. Spec => [][ClearedFirst]_vars
  BY <1>1, SpecInv, PTL DEF Spec
<1> QED
  BY <1>2 DEF RailsClearedFirst, ClearedFirst

-----------------------------------------------------------------------------
(* Safety. *)

\* The gates that are driven, but for the power gate after a stray blip.
Closed == IF stray THEN pin \ {"power"} ELSE pin

\* A gate that is driven, requested, or about to be.
Involved(g) == g \in Closed \/ g \in enabled \/ g \in switching
Isolated == ~Involved("power") /\ ~Involved("vbus")

\* Where loop() and power_loop() are with nothing to drive.
LoopPcs == {"tail", "loop", "powerCheck", "blip", "run"}

SafeStates == {"CLEAR", "ERROR", "SHUTDOWN"}

\* The power gate is on its way, or may be put on it.
PowerUsed ==
  Involved("power") \/ pc \in Driving("power") \cup Requesting("power") \/ pc = "OUTPUT"

\* A requested gate excludes the other one.
RequestExcludes ==
  \A g \in Gate : g \in enabled => Other(g) \notin Closed /\ Other(g) \notin enabled

\* So does one that is driven or about to be requested.
DrivingExcludes ==
  \A g \in Gate : pc \in Driving(g) \cup Requesting(g) => Other(g) \notin Closed /\ Other(g) \notin enabled

SwitchingRequested ==
  \A g \in Gate : g \in switching => g \in enabled \/ pc = Label(g, "request")

Interlock ==
  GatesExclusive /\ RequestExcludes /\ DrivingExcludes /\ SwitchingRequested

\* The output is powered in OUTPUT_VOLTAGE_MODE and until a safe state isolates it;
\* until then nothing charges and no recovery runs.
OutputOnly ==
  /\ PowerUsed => /\ power.state \in {"OUTPUT"} \cup SafeStates
                  /\ ~out.charge /\ ~recovery
  /\ pc \in PowerStates \ {"OUTPUT"} => power.state # "OUTPUT"
  /\ pc \in {"STARTUP", "IDLE", "CHARGING", "OTG"} => ~PowerUsed
  /\ power.state = "OUTPUT" => ~out.charge /\ ~recovery

\* The rail is discharged by CLEAR_POWER_RAILS, and may stay so in ERROR.
DischargeInv ==
  out.discharge => Isolated /\ power.state \in SafeStates /\ pc \in LoopPcs \cup SafeStates

\* A machine that nobody changed since the power thread looked at it has run, or
\* runs, the handler of its state; one that was changed meanwhile is in a safe state.
Settled ==
  /\ ~power.changed =>
       /\ pc \in PowerStates => pc = power.state
       /\ power.state \in SafeStates /\ pc \notin PowerStates => Isolated /\ pc \in LoopPcs
  /\ pc \in SafeStates => power.state \in SafeStates

SafeInv == Interlock /\ OutputOnly /\ DischargeInv /\ Settled

-----------------------------------------------------------------------------
(* The gates. *)

\* The names of the states are not positions of loop().
LEMMA PcNames ==
  /\ \A s \in PowerStates : s \notin GatePcs /\ s \notin LoopPcs
  /\ {"loop", "powerCheck", "blip"} \subseteq LoopPcs
  /\ "tail" \in LoopPcs /\ "run" \in LoopPcs
  /\ SafeStates \subseteq PowerStates
  /\ "OUTPUT" \in PowerStates /\ "OUTPUT" \notin SafeStates
  /\ \A p \in LoopPcs : p \notin Driving("power") \cup Requesting("power")
  /\ \A p \in LoopPcs : p \notin Driving("vbus") \cup Requesting("vbus")
BY PcFacts DEF PowerStates, LoopPcs, SafeStates

\* What a step that is no handler does to the gates: it starts nothing.
Follows ==
  /\ Interlock'
  /\ PowerUsed' => PowerUsed
  /\ pc' = pc \/ (pc \notin PowerStates /\ pc' \notin PowerStates)
  /\ Isolated /\ pc \in LoopPcs \cup SafeStates => Isolated' /\ pc' \in LoopPcs \cup {pc}

\* A step of loop(), or of a delayed switch.
LEMMA LoopFollows ==
  ASSUME GatesTypeOK, Interlock,
         GatesLoop \/ \E g \in Gate : FlagSwitching(g) \/ RequestGate(g, "tail")
  PROVE  Follows
<1> USE PcFacts, GateFacts, PcNames
        DEF Follows, Interlock, GatesExclusive, RequestExcludes, DrivingExcludes,
            SwitchingRequested, Closed, PowerUsed, Involved, Isolated,
            GatesTypeOK, gateVars
<1>1. ASSUME CheckSwitch("vbus") PROVE Follows
  BY <1>1 DEF CheckSwitch
<1>2. ASSUME CheckSwitch("power") PROVE Follows
  BY <1>2 DEF CheckSwitch
<1>3. ASSUME SetPowerPin("vbus") PROVE Follows
  BY <1>3 DEF SetPowerPin
<1>4. ASSUME SetPowerPin("power") PROVE Follows
  BY <1>4 DEF SetPowerPin
<1>5. ASSUME SetVbusPin("vbus") PROVE Follows
  BY <1>5 DEF SetVbusPin
<1>6. ASSUME SetVbusPin("power") PROVE Follows
  BY <1>6 DEF SetVbusPin
<1>7. ASSUME SettleGate("vbus") PROVE Follows
  BY <1>7 DEF SettleGate
<1>8. ASSUME SettleGate("power") PROVE Follows
  BY <1>8 DEF SettleGate
<1>9. ASSUME EndBlip PROVE Follows
  BY <1>9 DEF EndBlip, CancelBlip, CloseAgain
<1>10. ASSUME FlagSwitching("vbus") \/ RequestGate("vbus", "tail") PROVE Follows
  BY <1>10 DEF FlagSwitching, RequestGate
<1>11. ASSUME FlagSwitching("power") \/ RequestGate("power", "tail") PROVE Follows
  BY <1>11 DEF FlagSwitching, RequestGate
<1> QED
  <2> HIDE DEF Follows
  <2> QED
    BY <1>1, <1>2, <1>3, <1>4, <1>5, <1>6, <1>7, <1>8, <1>9, <1>10, <1>11 DEF GatesLoop

\* The calls of the other threads open gates, or close again the one of a blip.
LEMMA OthersFollow ==
  ASSUME GatesTypeOK, Interlock, OtherThreadDisables \/ UserBlips
  PROVE  Follows
<1> USE PcFacts, GateFacts, PcNames
        DEF Follows, Interlock, GatesExclusive, RequestExcludes, DrivingExcludes,
            SwitchingRequested, Closed, PowerUsed, Involved, Isolated,
            GatesTypeOK, gateVars
<1>1. ASSUME OtherThreadDisables PROVE Follows
  BY <1>1 DEF OtherThreadDisables, DisableGates
<1>2. ASSUME CancelBlip, pc' = pc PROVE Follows
  BY <1>2 DEF CancelBlip, CloseAgain
<1>3. ASSUME NEW timing \in 0..(BlipMax + 1), Blip(timing), pc' = pc
      PROVE  Follows
  BY <1>3 DEF Blip
<1> QED
  <2> HIDE DEF Follows
  <2> QED
    BY <1>1, <1>2, <1>3 DEF UserBlips

\* A step that leaves the gates and the power thread alone.
LEMMA StillFollows ==
  ASSUME Interlock, UNCHANGED gateVars, pc' = pc
  PROVE  Follows
BY DEF Follows, Interlock, GatesExclusive, RequestExcludes, DrivingExcludes,
       SwitchingRequested, Closed, PowerUsed, Involved, Isolated, gateVars

\* Time for the gates.
LEMMA TimeFollows ==
  ASSUME GatesTypeOK, Interlock, GateTime,
         UNCHANGED <<pin, enabled, switching, really, stray, pc>>
  PROVE  Follows
BY DEF Follows, Interlock, GatesExclusive, RequestExcludes, DrivingExcludes, GateTime, NoBlip,
       SwitchingRequested, Closed, PowerUsed, Involved, Isolated, GatesTypeOK

\* The power thread goes on in loop() or power_loop() and leaves the gates alone.
LEMMA WalkFollows ==
  ASSUME Interlock, UNCHANGED gateVars, pc' \in LoopPcs,
         pc \in LoopPcs \cup PowerStates
  PROVE  Interlock' /\ (PowerUsed' => PowerUsed) /\ (Isolated => Isolated')
<1>1. pc \notin Requesting("vbus") \cup Requesting("power")
  BY PcNames, PcFacts
<1>2. \A g \in Gate : pc # Label(g, "request") /\ pc' \notin Driving(g) \cup Requesting(g)
  BY <1>1, PcNames, PcFacts, GateFacts
<1>3. pc' # "OUTPUT" /\ pc' \notin Driving("power") \cup Requesting("power")
  BY PcNames
<1> QED
  BY <1>2, <1>3
  DEF Interlock, GatesExclusive, RequestExcludes, DrivingExcludes, SwitchingRequested, Closed, PowerUsed, Involved, Isolated, gateVars

\* disable_gates(), wherever the caller goes on.
LEMMA DisableIsolates ==
  ASSUME DisableGates
  PROVE  Interlock' /\ Isolated'
BY GateFacts DEF DisableGates, Interlock, GatesExclusive, RequestExcludes, DrivingExcludes,
       SwitchingRequested, Closed, Involved, Isolated

\* enable_vbus_gate_DIRECT(), which is called from the startup.
LEMMA DirectExcludes ==
  ASSUME GatesTypeOK, Interlock, EnableVbusDirect, pc \in PowerStates, pc' = "tail"
  PROVE  Interlock' /\ ~Involved("power")'
<1>1. \A g \in Gate : pc # Label(g, "request") /\ pc' \notin Driving(g) \cup Requesting(g)
  BY PcNames, PcFacts, GateFacts
<1> QED
  BY <1>1, GateFacts
  DEF EnableVbusDirect, Interlock, GatesExclusive, RequestExcludes, DrivingExcludes,
      SwitchingRequested, Closed, Involved, GatesTypeOK

\* enable_vbus_gate() and enable_power_gate(), from the handler of a mode.
LEMMA EnableExcludes ==
  ASSUME GatesTypeOK, Interlock, NEW g \in Gate, EnableGate(g, "tail"), pc \in PowerStates
  PROVE  /\ Interlock'
         /\ g = "vbus" /\ ~Involved("power") => ~PowerUsed'
         /\ pc' \notin PowerStates
<1>1. \A h \in Gate : pc # Label(h, "request")
  BY PcNames, PcFacts, GateFacts
<1> USE <1>1, PcFacts, GateFacts, PcNames
    DEF EnableGate, Interlock, GatesExclusive, RequestExcludes, DrivingExcludes,
        SwitchingRequested, Closed, PowerUsed, Involved, GatesTypeOK, gateVars
<1>2. CASE g = "vbus"
  BY <1>2
<1>3. CASE g = "power"
  BY <1>3
<1> QED
  BY <1>2, <1>3, GateFacts

-----------------------------------------------------------------------------
(* The machine. *)

\* set_state(s) changes nothing, or raises the flag that the state changed.
LEMMA SetStateChanged ==
  ASSUME NEW m \in Machines, NEW s \in PowerStates
  PROVE  SetState(m, s) = m \/ (SetState(m, s).state = s /\ SetState(m, s).changed = TRUE)
BY DEF SetState, ForceState, Machines, Machine

\* So does set_state(s, timeout, after).
LEMMA SetStateForChanged ==
  ASSUME NEW m \in Machines, NEW s \in PowerStates, NEW timeout, NEW after
  PROVE  LET r == SetStateFor(m, s, timeout, after) IN
         r = m \/ (r.state = s /\ r.changed = TRUE)
BY DEF SetStateFor, ForceState, Machines, Machine

\* The flag after the other operations.
LEMMA OtherChanged ==
  ASSUME NEW m \in Machines, NEW cap
  PROVE  ReadChanged(m).changed = FALSE /\ Aged(m, cap).changed = m.changed
BY DEF ReadChanged, Aged, Machines, Machine

\* IInv and SafeInv give the types.
LEMMA TypesOf ==
  ASSUME IInv
  PROVE  /\ power \in Machines /\ power.state \in PowerStates /\ power.changed \in BOOLEAN
         /\ out \in Outputs /\ recovery \in BOOLEAN /\ pc \in Pcs /\ GatesTypeOK
BY TypeParts DEF IInv, MachineTypeOK, Machines, Machine

\* A step that starts nothing and keeps the state of the machine.
LEMMA FollowKeeps ==
  ASSUME SafeInv, Follows, power'.state = power.state, power'.changed = power.changed,
         out'.charge = out.charge, out'.discharge = out.discharge, recovery' => recovery
  PROVE  SafeInv'
<1> USE DEF SafeInv, Follows
<1>1. OutputOnly'
  BY DEF OutputOnly, PowerStates
<1>2. DischargeInv'
  BY PcNames DEF DischargeInv
<1>3. Settled'
  BY PcNames DEF Settled
<1> QED
  BY <1>1, <1>2, <1>3

\* A step that starts nothing and changes the machine to a safe state.
LEMMA ChangeKeeps ==
  ASSUME SafeInv, Follows, power'.state \in SafeStates, power'.changed = TRUE,
         out'.charge = out.charge, out'.discharge = out.discharge, recovery' => recovery
  PROVE  SafeInv'
<1> USE DEF SafeInv, Follows
<1>1. OutputOnly'
  BY PcNames DEF OutputOnly, PowerStates
<1>2. DischargeInv'
  BY PcNames DEF DischargeInv
<1>3. Settled'
  BY DEF Settled
<1> QED
  BY <1>1, <1>2, <1>3

\* The requests of the main thread.
LEMMA MainKeepsSafe ==
  ASSUME IInv, SafeInv, MainThread
  PROVE  SafeInv'
<1>1. power \in Machines /\ out \in Outputs
  BY TypesOf
<1>2. CASE ModeRequests
  <2>1. UNCHANGED gateVars /\ pc' = pc /\ power' = power /\ recovery' = recovery
    BY <1>2 DEF ModeRequests, GoToOutputMode, GoToChargerMode, GoToOtgMode, GoToIdle, Asks
  <2>2. out' = out \/ out' = [out EXCEPT !.boost = "off"]
    BY <1>2 DEF ModeRequests, GoToOutputMode, GoToChargerMode, GoToOtgMode, GoToIdle
  <2>3. out'.charge = out.charge /\ out'.discharge = out.discharge
    BY <1>1, <2>2 DEF Outputs
  <2>4. Follows
    BY <2>1, StillFollows DEF SafeInv
  <2> QED
    BY <2>1, <2>3, <2>4, FollowKeeps
<1>3. CASE SwitchState \/ GoToError \/ GoToShutdown
  <2>1. UNCHANGED gateVars /\ pc' = pc /\ out' = out /\ recovery' = recovery
    BY <1>3 DEF SwitchState, GoToError, GoToShutdown
  <2>2. power' = power \/ (power'.state \in SafeStates /\ power'.changed = TRUE)
    <3>1. "CLEAR" \in PowerStates /\ "ERROR" \in PowerStates /\ "SHUTDOWN" \in PowerStates
      BY StateFacts
    <3>2. \/ power' = SetStateFor(power, "CLEAR", ClearTimeout, call)
          \/ power' = SetState(power, "ERROR") \/ power' = SetState(power, "SHUTDOWN")
      BY <1>3 DEF SwitchState, GoToError, GoToShutdown
    <3>3. CASE power' = SetStateFor(power, "CLEAR", ClearTimeout, call)
      <4>1. SetStateFor(power, "CLEAR", ClearTimeout, call) = power \/
              (/\ SetStateFor(power, "CLEAR", ClearTimeout, call).state = "CLEAR"
               /\ SetStateFor(power, "CLEAR", ClearTimeout, call).changed = TRUE)
        BY <1>1, <3>1, SetStateForChanged
      <4> QED
        BY <3>3, <4>1 DEF SafeStates
    <3>4. CASE power' = SetState(power, "ERROR")
      BY <1>1, <3>1, <3>4, SetStateChanged DEF SafeStates
    <3>5. CASE power' = SetState(power, "SHUTDOWN")
      BY <1>1, <3>1, <3>5, SetStateChanged DEF SafeStates
    <3> QED
      BY <3>2, <3>3, <3>4, <3>5
  <2>3. Follows
    BY <2>1, StillFollows DEF SafeInv
  <2> QED
    BY <2>1, <2>2, <2>3, FollowKeeps, ChangeKeeps
<1>4. CASE ShutdownOnMainThread
  <2>1. DisableGates /\ pc' = pc /\ power' = power /\ recovery' = recovery
    BY <1>4 DEF ShutdownOnMainThread, CutPower
  <2>2. out'.charge = out.charge /\ out'.discharge = out.discharge
    BY <1>1, <1>4 DEF ShutdownOnMainThread, CutPower, Outputs
  <2>3. Follows
    BY <2>1, DisableIsolates DEF Follows, PowerUsed, Isolated
  <2> QED
    BY <2>1, <2>2, <2>3, FollowKeeps
<1> QED
  BY <1>2, <1>3, <1>4 DEF MainThread

\* The other threads, the delays of the gates, and the restart of the program.
LEMMA OthersKeepSafe ==
  ASSUME IInv, SafeInv, GateSteps \/ OtherThreads \/ Tick \/ PowerOff
  PROVE  SafeInv'
<1>1. power \in Machines /\ GatesTypeOK
  BY TypesOf
<1>2. CASE GateSteps
  <2>1. Follows
    BY <1>1, <1>2, LoopFollows DEF GateSteps, SafeInv
  <2>2. power' = power /\ out' = out /\ recovery' = recovery
    BY <1>2 DEF GateSteps, machineVars
  <2> QED
    BY <2>1, <2>2, FollowKeeps
<1>3. CASE OtherThreads
  <2>1. Follows
    BY <1>1, <1>3, OthersFollow DEF OtherThreads, SafeInv
  <2>2. power' = power /\ out' = out /\ recovery' = recovery
    BY <1>3 DEF OtherThreads, machineVars
  <2> QED
    BY <2>1, <2>2, FollowKeeps
<1>4. CASE Tick
  <2>1. GateTime /\ UNCHANGED <<pin, enabled, switching, really, stray, pc, out, recovery>>
    BY <1>4 DEF Tick
  <2>2. power' = Aged(power, MaxAge)
    BY <1>4 DEF Tick
  <2>3. power'.state = power.state /\ power'.changed = power.changed
    BY <1>1, <2>2, AgedFacts, OtherChanged
  <2>4. Follows
    BY <1>1, <2>1, TimeFollows DEF SafeInv
  <2> QED
    BY <2>1, <2>3, <2>4, FollowKeeps
<1>5. CASE PowerOff
  <2>1. /\ pin' = {} /\ enabled' = {} /\ switching' = {} /\ blipLeft' = NoBlip /\ pc' = "loop"
        /\ recovery' = FALSE /\ ~stray'
        /\ out' = [discharge |-> FALSE, direction |-> FALSE, boost |-> "off",
                   charge |-> FALSE, balancing |-> FALSE]
        /\ power' = SetStateFor(NewMachine("STARTUP"), "STARTUP", StartupTimeout, "ERROR")
    BY <1>5 DEF PowerOff
  <2>2. power'.state = "STARTUP"
    BY <2>1, InitMachine
  <2>3. "loop" \in LoopPcs /\ "loop" \notin PowerStates /\ "STARTUP" \notin SafeStates
    BY PcNames DEF LoopPcs, SafeStates
  <2>4. ~PowerUsed'
    BY <2>1, PcNames DEF PowerUsed, Involved, Closed
  <2>5. Interlock'
    BY <2>1, GateFacts DEF Interlock, GatesExclusive, RequestExcludes, DrivingExcludes,
       SwitchingRequested, Closed
  <2>6. OutputOnly' /\ DischargeInv' /\ Settled'
    BY <2>1, <2>2, <2>3, <2>4, PcNames DEF OutputOnly, DischargeInv, Settled
  <2> QED
    BY <2>5, <2>6 DEF SafeInv
<1> QED
  BY <1>2, <1>3, <1>4, <1>5

-----------------------------------------------------------------------------
(* The power thread. *)

\* Where a handler leaves the power thread, what it must leave behind.
LEMMA EndsSafe ==
  ASSUME Interlock', pc' \notin PowerStates,
         PowerUsed' => /\ power'.state \in {"OUTPUT"} \cup SafeStates
                       /\ ~out'.charge /\ ~recovery',
         power'.state = "OUTPUT" => ~out'.charge /\ ~recovery',
         out'.discharge => Isolated' /\ power'.state \in SafeStates /\ pc' \in LoopPcs,
         ~power'.changed /\ power'.state \in SafeStates => Isolated' /\ pc' \in LoopPcs
  PROVE  SafeInv'
<1>1. pc' \notin SafeStates /\ pc' \notin {"STARTUP", "IDLE", "CHARGING", "OTG"}
  BY PcNames DEF PowerStates
<1> QED
  BY <1>1 DEF SafeInv, OutputOnly, DischargeInv, Settled

\* The handlers of the safe states leave the gates open, and end a discharge or stay.
LEMMA EndsIsolated ==
  ASSUME DisableGates, pc' = "tail",
         power'.state = "OUTPUT" => ~out'.charge /\ ~recovery',
         out'.discharge => power'.state \in SafeStates
  PROVE  SafeInv'
<1>1. Interlock' /\ Isolated' /\ pc' \in LoopPcs /\ pc' \notin PowerStates
  BY DisableIsolates, PcNames
<1>2. ~PowerUsed'
  BY <1>1, PcNames DEF PowerUsed, Isolated
<1> QED
  BY <1>1, <1>2, EndsSafe

\* What is known while the handler of a mode that isolates nothing runs.
LEMMA ModeFacts ==
  ASSUME IInv, SafeInv, pc \in {"STARTUP", "IDLE", "CHARGING", "OTG"}
  PROVE  /\ ~PowerUsed /\ ~Involved("power") /\ ~out.discharge
         /\ power.state # "OUTPUT"
         /\ ~power.changed => power.state = pc /\ power.state \notin SafeStates
<1>1. pc \in PowerStates \ {"OUTPUT"} /\ pc \notin SafeStates
  BY DEF PowerStates, SafeStates
<1>2. pc \notin LoopPcs
  BY <1>1, PcNames
<1> QED
  BY <1>1, <1>2 DEF SafeInv, OutputOnly, DischargeInv, Settled, PowerUsed

\* state_machine_behavior() finds a timeout only in the startup.
LEMMA RunKeepsState ==
  ASSUME IInv, RunPowerMachine
  PROVE  power'.state = power.state \/ (power.state = "STARTUP" /\ power'.state = "ERROR")
<1>1. power \in Machines
  BY TypesOf
<1>2. RunMachine(power) \in Machines
  BY <1>1, TimeoutFacts
<1>3. power'.state = RunMachine(power).state
  BY <1>2, ReadChangedFacts DEF RunPowerMachine
<1>4. CASE RunMachine(power) # power
  <2>1. power.timed /\ RunMachine(power) = SetState(power, power.after)
    BY <1>1, <1>4, TimeoutFacts
  <2>2. power.state = "STARTUP" /\ power.after = "ERROR"
    BY <1>4, <2>1, NoTimeoutInClear DEF IInv, ClearInv, TimeoutsArmed, RunPowerMachine
  <2>3. "ERROR" \in PowerStates
    BY StateFacts
  <2> QED
    BY <1>1, <1>3, <2>1, <2>2, <2>3, SetStateFacts
<1> QED
  BY <1>3, <1>4

\* Then the handler of the state it found is due.
LEMMA RunKeepsSafe ==
  ASSUME IInv, SafeInv, RunPowerMachine
  PROVE  SafeInv'
<1>1. /\ pc = "run" /\ pc' = power'.state /\ out' = out /\ recovery' = recovery
      /\ UNCHANGED gateVars
  BY DEF RunPowerMachine
<1>2. power'.state \in PowerStates
  BY TypesOf, RunKeepsState, StateFacts
<1>3. \A g \in Gate : pc # Label(g, "request") /\ pc' \notin Driving(g) \cup Requesting(g)
  BY <1>1, <1>2, PcNames, PcFacts, GateFacts
<1>4. Interlock'
  BY <1>1, <1>3 DEF SafeInv, Interlock, GatesExclusive, RequestExcludes, DrivingExcludes,
     SwitchingRequested, Closed, gateVars
<1>5. \A g \in Gate : Involved(g)' = Involved(g)
  BY <1>1 DEF Involved, Closed, gateVars
<1>6. Isolated => Isolated'
  BY <1>5, GateFacts DEF Isolated
<1>7. Involved("power") => power.state \in {"OUTPUT"} \cup SafeStates /\ ~out.charge /\ ~recovery
  BY DEF SafeInv, OutputOnly, PowerUsed
<1>8. PowerUsed' => Involved("power") \/ power'.state = "OUTPUT"
  BY <1>1, <1>3, <1>5, GateFacts DEF PowerUsed
<1>9. power'.state = "OUTPUT" => power.state = "OUTPUT" /\ ~out.charge /\ ~recovery
  BY RunKeepsState DEF SafeInv, OutputOnly
<1>10. power.state \in {"OUTPUT"} \cup SafeStates => power'.state = power.state
  BY RunKeepsState DEF SafeStates
<1>11. OutputOnly'
  <2>1. PowerUsed' => power'.state \in {"OUTPUT"} \cup SafeStates /\ ~out'.charge /\ ~recovery'
    BY <1>1, <1>7, <1>8, <1>9, <1>10
  <2>2. power'.state \in {"STARTUP", "IDLE", "CHARGING", "OTG"} => ~PowerUsed'
    BY <2>1 DEF SafeStates
  <2> QED
    BY <1>1, <1>9, <2>1, <2>2 DEF OutputOnly
<1>12. DischargeInv'
  BY <1>1, <1>6, <1>10 DEF SafeInv, DischargeInv
<1>13. Settled'
  BY <1>1, <1>2 DEF Settled
<1> QED
  BY <1>4, <1>11, <1>12, <1>13 DEF SafeInv

\* handle_clear_power_rails(): in a recovery the rails are not cleared, but no
\* recovery meets a request for the output.
LEMMA ClearKeepsSafe ==
  ASSUME IInv, SafeInv, HandleClearPowerRails
  PROVE  SafeInv'
<1>1. power \in Machines /\ out \in Outputs
  BY TypesOf
<1>2. pc = "CLEAR" /\ pc' = "tail" /\ recovery' = recovery
  BY DEF HandleClearPowerRails, Handles
<1>3. power.state \in SafeStates
  BY <1>2 DEF SafeInv, Settled, SafeStates
<1>4. pc' \in LoopPcs /\ pc' \notin PowerStates /\ pc \in PowerStates
  BY <1>2, PcNames, StateFacts
<1>5. SkipTimeout(power) = power \/ SkipTimeout(power) = SetState(power, power.after)
  BY <1>1, TimeoutFacts
<1>6. CASE recovery
  <2>1. /\ out' = [out EXCEPT !.discharge = FALSE] /\ power' = SkipTimeout(power)
        /\ UNCHANGED gateVars
    BY <1>6 DEF HandleClearPowerRails
  <2>2. Interlock' /\ ~PowerUsed'
    BY <1>4, <1>6, <2>1, WalkFollows DEF SafeInv, OutputOnly
  <2>3. ~out'.discharge
    BY <1>1, <2>1 DEF Outputs
  <2>4. CASE power.timed
    <3>1. power.after \in PowerStates /\ power.after # "OUTPUT" /\ power.state # power.after
      BY <1>3, <1>6, <2>4, StateFacts
         DEF IInv, ClearInv, NoRecoveryIntoOutput, TimeoutsArmed, SafeStates, Modes
    <3>2. power' = SetState(power, power.after)
      BY <1>1, <2>1, <2>4, TimeoutFacts
    <3>3. power'.state = power.after
      BY <1>1, <3>1, <3>2, SetStateFacts
    <3>4. power'.changed = TRUE
      BY <1>1, <3>1, <3>2, <3>3, SetStateChanged
    <3> QED
      BY <1>4, <2>2, <2>3, <3>1, <3>3, <3>4, EndsSafe
  <2>5. CASE ~power.timed
    <3>1. power' = power
      BY <1>1, <2>1, <2>5, TimeoutFacts
    <3>2. power.changed /\ power.state # "OUTPUT"
      BY <1>2, <1>3, <1>4, <2>5
         DEF SafeInv, Settled, IInv, ClearInv, TimeoutsArmed, SafeStates
    <3> QED
      BY <1>4, <2>2, <2>3, <3>1, <3>2, EndsSafe
  <2> QED
    BY <2>4, <2>5
<1>7. CASE ~recovery
  <2>1. /\ DisableGates /\ out' = ClearOutputs
        /\ power' = IF RailCleared THEN SkipTimeout(power)
                    ELSE IF ClearFailed THEN SetState(power, "ERROR")
                    ELSE power
    BY <1>7 DEF HandleClearPowerRails
  <2>2. ~out'.charge /\ out'.discharge = ~RailCleared
    BY <2>1 DEF ClearOutputs
  <2>3. ~RailCleared => power'.state \in SafeStates
    <3>1. "ERROR" \in PowerStates
      BY StateFacts
    <3>2. SetState(power, "ERROR").state = "ERROR"
      BY <1>1, <3>1, SetStateFacts
    <3> QED
      BY <1>3, <2>1, <3>2 DEF SafeStates
  <2> QED
    BY <1>2, <1>7, <2>1, <2>2, <2>3, EndsIsolated
<1> QED
  BY <1>6, <1>7

\* The handlers that drive the vbus gate find the power gate open.
LEMMA VbusKeepsSafe ==
  ASSUME IInv, SafeInv, HandleChargingMode \/ HandleOtgMode
  PROVE  SafeInv'
<1>1. power \in Machines /\ out \in Outputs /\ GatesTypeOK
  BY TypesOf
<1>2. pc \in {"CHARGING", "OTG"} /\ recovery' = recovery
  BY DEF HandleChargingMode, HandleOtgMode, Handles
<1>3. /\ ~PowerUsed /\ ~Involved("power") /\ ~out.discharge
      /\ power.state # "OUTPUT"
      /\ ~power.changed => power.state \notin SafeStates
  BY <1>2, ModeFacts
<1>4. pc \in PowerStates /\ pc \notin SafeStates
  BY <1>2 DEF PowerStates, SafeStates
<1>5. ASSUME EnableGate("vbus", "tail"), power' = power, out'.discharge = out.discharge
      PROVE  SafeInv'
  <2>1. "vbus" \in Gate
    BY GateFacts
  <2>2. Interlock' /\ ~PowerUsed' /\ pc' \notin PowerStates
    BY <1>1, <1>3, <1>4, <1>5, <2>1, EnableExcludes DEF SafeInv
  <2> QED
    BY <1>3, <1>5, <2>2, EndsSafe
<1>6. CASE HandleChargingMode
  <2>1. EnableGate("vbus", "tail") /\ power' = power
    BY <1>6 DEF HandleChargingMode
  <2>2. out'.discharge = out.discharge
    BY <1>1, <1>6 DEF HandleChargingMode, Outputs
  <2> QED
    BY <1>5, <2>1, <2>2
<1>7. CASE HandleOtgMode
  <2>1. CASE StopOtg
    <3>1. /\ pc' = "tail" /\ UNCHANGED gateVars /\ power' = SetState(power, "CHARGING")
          /\ out' = [out EXCEPT !.boost = "off"]
      BY <2>1 DEF StopOtg
    <3>2. power'.state = "CHARGING"
      BY <1>1, <3>1, StateFacts, SetStateFacts
    <3>3. pc' \in LoopPcs /\ pc' \notin PowerStates
      BY <3>1, PcNames
    <3>4. Interlock' /\ ~PowerUsed'
      BY <1>3, <1>4, <3>1, <3>3, WalkFollows DEF SafeInv
    <3>5. ~out'.discharge
      BY <1>1, <1>3, <3>1 DEF Outputs
    <3> QED
      BY <3>2, <3>3, <3>4, <3>5, EndsSafe DEF SafeStates
  <2>2. ASSUME NEW forces, DriveOtg(forces) PROVE SafeInv'
    <3>1. EnableGate("vbus", "tail") /\ power' = power
      BY <2>2 DEF DriveOtg
    <3>2. out'.discharge = out.discharge
      BY <1>1, <2>2 DEF DriveOtg, Outputs
    <3> QED
      BY <1>5, <3>1, <3>2
  <2> QED
    BY <1>7, <2>1, <2>2 DEF HandleOtgMode
<1> QED
  BY <1>6, <1>7

\* handle_output_voltage_mode(): what it needs was established by
\* handle_clear_power_rails() and kept since.
LEMMA OutputKeepsSafe ==
  ASSUME IInv, SafeInv, HandleOutputVoltageMode
  PROVE  SafeInv'
<1>1. power \in Machines /\ out \in Outputs /\ GatesTypeOK
  BY TypesOf
<1>2. pc = "OUTPUT" /\ recovery' = recovery /\ power' = power
  BY DEF HandleOutputVoltageMode, Handles
<1>3. out'.discharge = out.discharge /\ out'.charge = out.charge
  BY <1>1 DEF HandleOutputVoltageMode, Outputs
<1>4. pc \in PowerStates /\ pc \notin LoopPcs /\ pc \notin SafeStates
  BY <1>2, PcNames
<1>5. /\ power.state \in {"OUTPUT"} \cup SafeStates /\ ~out.charge /\ ~recovery
      /\ ~out.discharge
      /\ ~power.changed => power.state \notin SafeStates
  BY <1>2, <1>4 DEF SafeInv, OutputOnly, DischargeInv, Settled, PowerUsed
<1>6. Interlock' /\ pc' \notin PowerStates
  <2>1. CASE EnableGate("power", "tail")
    BY <1>1, <1>4, <2>1, EnableExcludes, GateFacts DEF SafeInv
  <2>2. CASE DisableGates /\ pc' = "tail"
    BY <2>2, DisableIsolates, PcNames
  <2> QED
    BY <2>1, <2>2 DEF HandleOutputVoltageMode
<1> QED
  BY <1>2, <1>3, <1>5, <1>6, EndsSafe

\* The handlers of the other states, and the end of power_loop().
LEMMA QuietKeepsSafe ==
  ASSUME IInv, SafeInv, HandleIdle \/ HandleErrorState \/ HandleShutdown \/ EndPowerLoop
  PROVE  SafeInv'
<1>1. out \in Outputs
  BY TypesOf
<1>2. CASE HandleIdle
  <2>1. /\ pc = "IDLE" /\ pc' = "tail" /\ UNCHANGED <<gateVars, power, out, recovery>>
    BY <1>2 DEF HandleIdle, Handles
  <2>2. pc' \in LoopPcs /\ pc' \notin PowerStates /\ pc \in PowerStates
    BY <2>1, PcNames, StateFacts
  <2>3. Interlock' /\ ~PowerUsed'
    BY <2>1, <2>2, ModeFacts, WalkFollows DEF SafeInv
  <2> QED
    BY <2>1, <2>2, <2>3, ModeFacts, EndsSafe
<1>3. CASE HandleErrorState
  <2>1. /\ pc = "ERROR" /\ pc' = "tail" /\ DisableGates /\ power' = power
        /\ out' = [out EXCEPT !.boost = "off"]
    BY <1>3 DEF HandleErrorState, Handles
  <2>2. power.state \in SafeStates /\ power.state # "OUTPUT"
    BY <2>1 DEF SafeInv, Settled, SafeStates
  <2> QED
    BY <2>1, <2>2, EndsIsolated
<1>4. CASE HandleShutdown
  <2>1. /\ pc = "SHUTDOWN" /\ pc' = "tail" /\ DisableGates /\ power' = power
    BY <1>4 DEF HandleShutdown, Handles, CutPower
  <2>2. power.state \in SafeStates /\ power.state # "OUTPUT"
    BY <2>1 DEF SafeInv, Settled, SafeStates
  <2> QED
    BY <2>1, <2>2, EndsIsolated
<1>5. CASE EndPowerLoop
  <2>1. /\ pc = "tail" /\ pc' = "loop" /\ UNCHANGED <<gateVars, power, out>>
        /\ recovery' => recovery
    BY <1>5 DEF EndPowerLoop
  <2>2. pc \in LoopPcs /\ pc' \in LoopPcs /\ pc \notin PowerStates /\ pc' \notin PowerStates
    BY <2>1, PcNames
  <2>3. Follows
    BY <2>1, <2>2, WalkFollows DEF Follows, SafeInv
  <2> QED
    BY <2>1, <2>3, FollowKeeps
<1> QED
  BY <1>2, <1>3, <1>4, <1>5

\* handle_startup(): the recovery drives the vbus gate, and may charge.
LEMMA StartupKeepsSafe ==
  ASSUME IInv, SafeInv, HandleStartup
  PROVE  SafeInv'
<1>1. power \in Machines /\ out \in Outputs /\ GatesTypeOK
  BY TypesOf
<1>2. pc = "STARTUP" /\ pc' = "tail"
  BY DEF HandleStartup, Handles
<1>3. /\ ~PowerUsed /\ ~out.discharge /\ power.state # "OUTPUT"
      /\ ~power.changed => power.state = "STARTUP" /\ power.state \notin SafeStates
  BY <1>2, ModeFacts
<1>4. pc' \in LoopPcs /\ pc' \notin PowerStates /\ pc \in PowerStates
  BY <1>2, PcNames, StateFacts
<1>5. power' = power \/ \E s \in {"ERROR", "IDLE"} : power' = SetState(power, s)
  BY DEF HandleStartup, ComponentsAbsent, ComponentsPresent, StartupFails
<1>6. /\ power'.state # "OUTPUT"
      /\ power'.changed = TRUE \/ power'.state \notin SafeStates
  <2>1. CASE power' = power
    BY <1>1, <1>3, <2>1, TypesOf
  <2>2. ASSUME NEW s \in {"ERROR", "IDLE"}, power' = SetState(power, s)
        PROVE  /\ power'.state # "OUTPUT"
               /\ power'.changed = TRUE \/ power'.state \notin SafeStates
    <3>1. s \in PowerStates /\ s # "OUTPUT"
      BY <2>2, StateFacts
    <3>2. power'.state = s
      BY <1>1, <2>2, <3>1, SetStateFacts
    <3>3. SetState(power, s) = power \/ SetState(power, s).changed = TRUE
      BY <1>1, <3>1, SetStateChanged
    <3> QED
      BY <1>1, <1>3, <2>2, <3>1, <3>2, <3>3, TypesOf
  <2> QED
    BY <1>5, <2>1, <2>2
<1>7. out'.discharge = out.discharge
  BY <1>1 DEF HandleStartup, ComponentsAbsent, ComponentsPresent, StartupFails, Outputs
<1>8. Interlock' /\ ~PowerUsed'
  <2>1. CASE UNCHANGED gateVars
    BY <1>3, <1>4, <2>1, WalkFollows DEF SafeInv
  <2>2. CASE EnableVbusDirect
    <3>1. Interlock' /\ ~Involved("power")'
      BY <1>1, <1>2, <1>4, <2>2, DirectExcludes DEF SafeInv
    <3> QED
      BY <1>2, <1>4, <3>1, PcNames DEF PowerUsed
  <2> QED
    BY <2>1, <2>2 DEF HandleStartup, ComponentsAbsent, ComponentsPresent, StartupFails
<1> QED
  BY <1>3, <1>4, <1>6, <1>7, <1>8, EndsSafe

-----------------------------------------------------------------------------
(* The specification. *)

\* The initial state is safe.
LEMMA InitSafe == Init => SafeInv
<1> SUFFICES ASSUME Init PROVE SafeInv
  OBVIOUS
<1>1. /\ pin = {} /\ enabled = {} /\ switching = {} /\ blipLeft = NoBlip /\ pc = "loop"
      /\ ~stray /\ ~out.discharge
  BY DEF Init, GatesInit
<1>2. power.state = "STARTUP"
  BY InitMachine DEF Init
<1>3. pc \in LoopPcs /\ pc \notin PowerStates /\ power.state \notin SafeStates
  BY <1>1, <1>2, PcNames DEF SafeStates
<1>4. ~PowerUsed
  BY <1>1, <1>3, PcNames DEF PowerUsed, Involved, Closed
<1>5. Interlock
  BY <1>1, GateFacts, PcFacts DEF Interlock, GatesExclusive, RequestExcludes, DrivingExcludes,
     SwitchingRequested, Closed
<1>6. pc \notin SafeStates
  BY <1>3, PcNames
<1> QED
  BY <1>1, <1>2, <1>3, <1>4, <1>5, <1>6 DEF SafeInv, OutputOnly, DischargeInv, Settled

\* Every step keeps it.
LEMMA SafeStep == IInv /\ SafeInv /\ [Next]_vars => SafeInv'
<1> SUFFICES ASSUME IInv, SafeInv, [Next]_vars PROVE SafeInv'
  OBVIOUS
<1>1. CASE UNCHANGED vars
  <2>1. UNCHANGED <<gateVars, pc, power, out, recovery>>
    BY <1>1 DEF vars, machineVars
  <2>2. Follows
    BY <2>1, StillFollows DEF SafeInv
  <2> QED
    BY <2>1, <2>2, FollowKeeps
<1>2. CASE PowerThread
  BY <1>2, OthersKeepSafe, RunKeepsSafe, ClearKeepsSafe, VbusKeepsSafe, OutputKeepsSafe,
     QuietKeepsSafe, StartupKeepsSafe DEF PowerThread
<1> QED
  BY <1>1, <1>2, MainKeepsSafe, OthersKeepSafe DEF Next

\* The four parts hold in every state, for every delay, blips at any time included.
THEOREM SpecSafeInv == Spec => []SafeInv
<1>1. Init => SafeInv
  BY InitSafe
<1>2. IInv /\ SafeInv /\ [Next]_vars => SafeInv'
  BY SafeStep
<1> QED
  BY <1>1, <1>2, SpecInv, PTL DEF Spec

\* The two gates are never driven together, whatever the machine and the other
\* threads ask of them, but after a stray blip (power_gates.cpp).
THEOREM SpecPowerGatesExclusive == Spec => []GatesExclusive
<1>1. SafeInv => GatesExclusive
  BY DEF SafeInv, Interlock
<1> QED
  BY <1>1, SpecSafeInv, PTL

\* Once the handler of a safe state ran, no gate is requested, and the rail is
\* isolated and stays so but after a stray blip (handle_clear_power_rails,
\* handle_error_state, handle_shutdown).
THEOREM SpecSafeStateIsolates == Spec => []SafeStateIsolates
<1>1. IInv /\ SafeInv => SafeStateIsolates
  <2> SUFFICES ASSUME IInv, SafeInv,
                      power.state \in SafeStates, ~power.changed, pc \notin PowerStates
               PROVE  enabled = {} /\ switching = {} /\ (~stray => pin = {})
    BY DEF SafeStateIsolates, SafeStates
  <2>1. GatesTypeOK /\ Isolated
    BY TypesOf DEF SafeInv, Settled
  <2>2. \A g \in Gate : ~Involved(g)
    BY <2>1, GateFacts DEF Isolated
  <2> QED
    BY <2>1, <2>2 DEF Involved, Closed, GatesTypeOK
<1> QED
  BY <1>1, SpecInv, SpecSafeInv, PTL

\* The output is requested, and but for a stray blip powered, only in
\* OUTPUT_VOLTAGE_MODE and on the way out of it.
THEOREM SpecPowerGateFollowsMode == Spec => []PowerGateFollowsMode
<1>1. SafeInv => PowerGateFollowsMode
  BY DEF SafeInv, OutputOnly, PowerUsed, Involved, Closed, OutputClosed, PowerGateFollowsMode,
         SafeStates
<1> QED
  BY <1>1, SpecSafeInv, PTL

\* The battery is never charged while the output is requested, or powered but for
\* a stray blip.
THEOREM SpecNoChargeIntoOutput == Spec => []NoChargeIntoOutput
<1>1. SafeInv => NoChargeIntoOutput
  BY DEF SafeInv, OutputOnly, PowerUsed, Involved, Closed, OutputClosed, NoChargeIntoOutput
<1> QED
  BY <1>1, SpecSafeInv, PTL

\* The rail is only discharged with no gate requested, and both open but after a
\* stray blip.
THEOREM SpecDischargeIsolated == Spec => []DischargeIsolated
<1>1. IInv /\ SafeInv => DischargeIsolated
  <2> SUFFICES ASSUME IInv, SafeInv, out.discharge
               PROVE  enabled = {} /\ (~stray => pin = {})
    BY DEF DischargeIsolated
  <2>1. GatesTypeOK /\ Isolated
    BY TypesOf DEF SafeInv, DischargeInv
  <2>2. \A g \in Gate : ~Involved(g)
    BY <2>1, GateFacts DEF Isolated
  <2> QED
    BY <2>1, <2>2 DEF Involved, Closed, GatesTypeOK
<1> QED
  BY <1>1, SpecInv, SpecSafeInv, PTL
-----------------------------------------------------------------------------
(***************************************************************************)
(* The power machine and its gates implement PowerMachine, the             *)
(* specification the main loop is modelled over.                           *)
(*                                                                         *)
(* Each step of PowerHandler is a step of PowerMachine or a stutter.  What *)
(* has to be known of the state is which mode a running handler can be     *)
(* late by (Lingers), and that the modes which power the output are the    *)
(* only ones in which the power gate is driven (SafeInv).                  *)
(***************************************************************************)

\* A handler runs for the state the machine is in, or was left for a safe one; the
\* startup is left only for the shutdown.
Lingers ==
  /\ pc \in PowerStates => power.state = pc \/ power.state \in SafeStates
  /\ pc = "STARTUP" => power.state \in {"STARTUP", "SHUTDOWN"}

-----------------------------------------------------------------------------
(* Lingers is an invariant. *)

\* The power thread leaves its handler, whatever that did.
LEMMA HandlerLeaves ==
  ASSUME IInv,
         \/ GateSteps \/ HandleStartup \/ HandleIdle \/ HandleClearPowerRails
         \/ HandleChargingMode \/ HandleOutputVoltageMode \/ HandleOtgMode
         \/ HandleShutdown \/ HandleErrorState \/ EndPowerLoop
  PROVE  pc' \notin PowerStates
<1>1. GatesTypeOK /\ "vbus" \in Gate /\ "power" \in Gate
  BY TypesOf, GateFacts
<1>2. \A s \in {"tail", "run", "loop"} \cup GatePcs : s \notin PowerStates
  BY PcNames
<1>3. CASE GateSteps
  BY <1>1, <1>2, <1>3, GatesLoopType, RequestType DEF GateSteps
<1>4. CASE HandleChargingMode \/ HandleOutputVoltageMode
  BY <1>1, <1>2, <1>4, EnableGateType DEF HandleChargingMode, HandleOutputVoltageMode
<1>5. CASE HandleOtgMode
  <2>1. ASSUME NEW forces, DriveOtg(forces) PROVE pc' \in {"tail"} \cup GatePcs
    BY <1>1, <2>1, EnableGateType DEF DriveOtg
  <2>2. StopOtg => pc' = "tail"
    BY DEF StopOtg
  <2> QED
    BY <1>2, <1>5, <2>1, <2>2 DEF HandleOtgMode
<1> QED
  BY <1>2, <1>3, <1>4, <1>5
  DEF HandleStartup, HandleIdle, HandleClearPowerRails, HandleShutdown, HandleErrorState,
      EndPowerLoop

\* The other threads change the machine to a safe state only, and not during the
\* startup but for the shutdown.
LEMMA LingersStep == IInv /\ Lingers /\ [Next]_vars => Lingers'
<1> SUFFICES ASSUME IInv, Lingers, [Next]_vars PROVE Lingers'
  OBVIOUS
<1>1. power \in Machines
  BY TypesOf
<1>2. ASSUME pc' = pc, power'.state = power.state PROVE Lingers'
  BY <1>2 DEF Lingers
<1>3. ASSUME pc' \notin PowerStates PROVE Lingers'
  BY <1>3, StateFacts DEF Lingers
<1>4. CASE RunPowerMachine
  <2>1. pc' = power'.state
    BY <1>4 DEF RunPowerMachine
  <2> QED
    BY <2>1 DEF Lingers
<1>5. CASE PowerThread /\ ~RunPowerMachine
  BY <1>3, <1>5, HandlerLeaves DEF PowerThread
<1>6. CASE ModeRequests \/ ShutdownOnMainThread \/ UNCHANGED vars
  BY <1>2, <1>6
  DEF ModeRequests, GoToOutputMode, GoToChargerMode, GoToOtgMode, GoToIdle, Asks,
      ShutdownOnMainThread, vars, machineVars
<1>7. CASE SwitchState
  <2>1. pc' = pc /\ pc # "STARTUP"
    BY <1>7 DEF SwitchState, IInv, ClearInv, StartupOver, Modes
  <2>2. call \in PowerStates /\ "CLEAR" \in PowerStates /\ ClearTimeout \in 0..MaxAge
    BY <1>7, StateFacts DEF SwitchState
  <2>3. power'.state = "CLEAR"
    BY <1>1, <1>7, <2>2, SetStateForFacts DEF SwitchState
  <2> QED
    BY <2>1, <2>3 DEF Lingers, SafeStates
<1>8. CASE GoToError
  <2>1. pc' = pc /\ power'.state = "ERROR" /\ call = "none" /\ power.state # "STARTUP"
    BY <1>1, <1>8, StateFacts, SetStateFacts DEF GoToError
  <2>2. pc # "STARTUP"
    BY <2>1 DEF IInv, ClearInv, StartupOver
  <2> QED
    BY <2>1, <2>2 DEF Lingers, SafeStates
<1>9. CASE GoToShutdown
  <2>1. pc' = pc /\ power'.state = "SHUTDOWN"
    BY <1>1, <1>9, StateFacts, SetStateFacts DEF GoToShutdown
  <2> QED
    BY <2>1 DEF Lingers, SafeStates
<1>10. CASE OtherThreads
  BY <1>2, <1>10 DEF OtherThreads, OtherThreadDisables, UserBlips, machineVars
<1>11. CASE PowerOff
  BY <1>3, <1>11, PcNames DEF PowerOff
<1>12. CASE Tick
  BY <1>1, <1>2, <1>12, AgedFacts DEF Tick
<1> QED
  BY <1>4, <1>5, <1>6, <1>7, <1>8, <1>9, <1>10, <1>11, <1>12 DEF Next, MainThread

-----------------------------------------------------------------------------
(* The steps of PowerMachine. *)

Step == [Abstract!PowerNext]_(Abstract!powerVars)

\* A step that PowerMachine does not see.
LEMMA StutterMaps ==
  ASSUME power'.state = power.state, power'.after = power.after,
         really' = really, outputReady' = outputReady
  PROVE  Step
BY DEF Step, Abstract!powerVars

\* The output handler.
LEMMA OutputMaps ==
  ASSUME power.state \in {"OUTPUT"} \cup SafeStates, power' = power, really' = really,
         outputReady' \in BOOLEAN
  PROVE  Step
<1>1. power.state \in Abstract!OutputModes
  BY DEF Abstract!OutputModes, SafeStates
<1> QED
  BY <1>1 DEF Step, Abstract!PowerNext, Abstract!PowerThreadStep, Abstract!CheckOutput

\* The handlers that end the output.
LEMMA CutMaps ==
  ASSUME power' = power, really' = really, ~outputReady', outputReady' \in BOOLEAN
  PROVE  Step
<1>1. Abstract!CutOutput
  BY DEF Abstract!CutOutput
<1> QED
  BY <1>1 DEF Step, Abstract!PowerNext, Abstract!PowerThreadStep

\* The power gate is driven.
LEMMA PowerGateMaps ==
  ASSUME power.state \in {"OUTPUT"} \cup SafeStates, power' = power, really' = TRUE,
         outputReady' = outputReady
  PROVE  Step
<1>1. power.state \in Abstract!OutputModes
  BY DEF Abstract!OutputModes, SafeStates
<1> QED
  BY <1>1 DEF Step, Abstract!PowerNext, Abstract!PowerThreadStep, Abstract!DrivePowerGate

\* The vbus gate is driven.
LEMMA VbusGateMaps ==
  ASSUME power' = power, really' = FALSE, outputReady' = outputReady
  PROVE  Step
BY DEF Step, Abstract!PowerNext, Abstract!PowerThreadStep, Abstract!DriveVbusGate

\* The machine fails.
LEMMA FailMaps ==
  ASSUME power'.state = "ERROR", really' = really, outputReady' \in {outputReady, FALSE}
  PROVE  Step
<1>1. Abstract!ForceMode("ERROR")
  BY DEF Abstract!ForceMode
<1>2. Abstract!Fail
  BY <1>1 DEF Abstract!Fail
<1> QED
  BY <1>2 DEF Step, Abstract!PowerNext, Abstract!PowerThreadStep

\* The machine leaves CLEAR_POWER_RAILS for the mode asked for.
LEMMA EndClearMaps ==
  ASSUME power.state = "CLEAR", power.after \in Modes, power'.state = power.after,
         really' = really, ~outputReady', outputReady' \in BOOLEAN
  PROVE  Step
<1>1. power'.state # "CLEAR"
  BY DEF Modes
<1> QED
  BY <1>1
  DEF Step, Abstract!PowerNext, Abstract!PowerThreadStep, Abstract!EndClear, Abstract!ForceMode

-----------------------------------------------------------------------------
(* Each step of PowerHandler. *)

\* The invariants together, and what they say of a handler that runs.
Known == IInv /\ SafeInv /\ Lingers

LEMMA KnownFacts ==
  ASSUME Known
  PROVE  /\ power \in Machines /\ outputReady \in BOOLEAN
         /\ PowerUsed => power.state \in {"OUTPUT"} \cup SafeStates
<1>1. power \in Machines /\ outputReady \in BOOLEAN
  BY TypeParts DEF Known, IInv, MachineTypeOK
<1> QED
  BY <1>1 DEF Known, SafeInv, OutputOnly

\* loop() ends the switch of a gate, or goes on.
LEMMA GatesMap == ASSUME Known, GateSteps PROVE Step
<1>1. power' = power /\ outputReady' = outputReady /\ outputReady \in BOOLEAN
  BY KnownFacts DEF GateSteps, machineVars
<1>2. CASE SettleGate("power")
  <2>1. pc = "powerSettle" /\ really' = TRUE
    BY <1>2, PcFacts DEF SettleGate
  <2>2. PowerUsed
    BY <2>1, PcFacts DEF PowerUsed
  <2> QED
    BY <1>1, <2>1, <2>2, KnownFacts, PowerGateMaps
<1>3. CASE SettleGate("vbus")
  <2>1. really' = FALSE
    BY <1>3 DEF SettleGate
  <2> QED
    BY <1>1, <2>1, VbusGateMaps
<1>4. CASE ~SettleGate("power") /\ ~SettleGate("vbus")
  <2>1. really' = really
    BY <1>4, GateFacts
    DEF GateSteps, GatesLoop, CheckSwitch, SetPowerPin, SetVbusPin, EndBlip,
        CancelBlip, FlagSwitching, RequestGate, gateVars
  <2> QED
    BY <1>1, <2>1, StutterMaps
<1> QED
  BY <1>2, <1>3, <1>4

\* The look at the machine finds the timeout of the startup, or nothing.
LEMMA RunMaps == ASSUME Known, RunPowerMachine PROVE Step
<1>1. power \in Machines /\ outputReady' = outputReady /\ really' = really
  BY KnownFacts DEF RunPowerMachine, gateVars
<1>2. CASE power'.state = "ERROR"
  BY <1>1, <1>2, FailMaps
<1>3. CASE power'.state # "ERROR"
  <2>1. power'.state = power.state
    BY <1>3, RunKeepsState DEF Known
  <2>2. RunMachine(power) \in Machines /\ power'.state = RunMachine(power).state
        /\ power'.after = RunMachine(power).after
    BY <1>1, TimeoutFacts, ReadChangedFacts DEF RunPowerMachine
  <2>3. RunMachine(power) = power
    <3>1. power.after \in PowerStates
      BY <1>1 DEF Machines, Machine
    <3>2. RunMachine(power) = power \/ RunMachine(power) = SetState(power, power.after)
      BY <1>1, TimeoutFacts
    <3>3. SetState(power, power.after).state = power.after
      BY <1>1, <3>1, SetStateFacts
    <3>4. power.after = power.state => SetState(power, power.after) = power
      BY <1>1, <3>1, SetStateFacts
    <3> QED
      BY <2>1, <2>2, <3>2, <3>3, <3>4
  <2> QED
    BY <1>1, <2>1, <2>2, <2>3, StutterMaps
<1> QED
  BY <1>2, <1>3

\* handle_clear_power_rails() ends the clear, fails, or goes on.
LEMMA ClearMaps == ASSUME Known, HandleClearPowerRails PROVE Step
<1>1. /\ power \in Machines /\ ~outputReady'
      /\ outputReady' \in {outputReady, FALSE} /\ outputReady' \in BOOLEAN
  BY KnownFacts DEF HandleClearPowerRails
<1>2. really' = really
  BY DEF HandleClearPowerRails, DisableGates, gateVars
<1>3. power' \in {power, SkipTimeout(power), SetState(power, "ERROR")}
  BY DEF HandleClearPowerRails
<1>4. CASE power' = power
  BY <1>1, <1>2, <1>4, CutMaps
<1>5. CASE power' = SetState(power, "ERROR")
  BY <1>1, <1>2, <1>5, StateFacts, SetStateFacts, FailMaps
<1>6. CASE power' = SkipTimeout(power) /\ power' # power
  <2>1. power.timed /\ power' = SetState(power, power.after)
        /\ \/ power.state = "STARTUP" /\ power.after = "ERROR"
           \/ power.state = "CLEAR" /\ power.after \in Modes
    BY <1>6, SkipFacts DEF Known
  <2>2. power.after \in PowerStates
    BY <2>1, StateFacts
  <2>3. power'.state = power.after
    BY <1>1, <2>1, <2>2, SetStateFacts
  <2> QED
    BY <1>1, <1>2, <2>1, <2>3, FailMaps, EndClearMaps
<1> QED
  BY <1>3, <1>4, <1>5, <1>6

\* handle_startup() leaves the startup, or the state the shutdown set meanwhile.
LEMMA StartupMaps == ASSUME Known, HandleStartup PROVE Step
<1>1. /\ power \in Machines /\ outputReady' = outputReady
      /\ power.state \in {"STARTUP", "SHUTDOWN"}
  BY KnownFacts DEF Known, Lingers, HandleStartup, Handles
<1>3. \/ power' = power /\ really' = FALSE
      \/ power' = power /\ really' = really
      \/ really' = really /\ \E s \in {"ERROR", "IDLE"} : power' = SetState(power, s)
  BY DEF HandleStartup, ComponentsAbsent, ComponentsPresent, StartupFails, EnableVbusDirect,
         gateVars
<1>4. CASE power' = power /\ (really' = FALSE \/ really' = really)
  BY <1>1, <1>4, StutterMaps, VbusGateMaps
<1>5. ASSUME really' = really, NEW s \in {"ERROR", "IDLE"}, power' = SetState(power, s) PROVE Step
  <2>0. s \in PowerStates /\ s # "CLEAR" /\ s \in {"IDLE", "ERROR"}
    BY <1>5, StateFacts
  <2>1. power'.state = s
    BY <1>1, <1>5, <2>0, SetStateFacts
  <2>2. Abstract!ForceMode(s)
    BY <2>0, <2>1 DEF Abstract!ForceMode
  <2>3. Abstract!Start
    BY <1>1, <1>5, <2>0, <2>2 DEF Abstract!Start
  <2> QED
    BY <2>3 DEF Step, Abstract!PowerNext, Abstract!PowerThreadStep
<1> QED
  BY <1>3, <1>4, <1>5

\* The handlers that request the vbus gate.
LEMMA VbusMaps == ASSUME Known, HandleChargingMode \/ HandleOtgMode PROVE Step
<1>1. power \in Machines /\ outputReady' = outputReady
  BY KnownFacts DEF HandleChargingMode, HandleOtgMode
<1>2. ASSUME EnableGate("vbus", "tail"), power' = power PROVE Step
  <2>1. really' = really
    BY <1>2 DEF EnableGate, gateVars
  <2> QED
    BY <1>1, <1>2, <2>1, StutterMaps
<1>3. CASE HandleChargingMode
  BY <1>2, <1>3 DEF HandleChargingMode
<1>4. ASSUME HandleOtgMode, StopOtg PROVE Step
  <2>1. power'.state = "CHARGING" /\ really' = really
    BY <1>1, <1>4, StateFacts, SetStateFacts DEF StopOtg, gateVars
  <2>2. power.state \in {"OTG", "CLEAR", "ERROR", "SHUTDOWN"}
    BY <1>4, StateFacts DEF Known, Lingers, SafeStates, HandleOtgMode, Handles
  <2> QED
    BY <1>1, <2>1, <2>2
    DEF Step, Abstract!PowerNext, Abstract!PowerThreadStep, Abstract!EndOtg, Abstract!ForceMode
<1>5. ASSUME NEW forces, DriveOtg(forces) PROVE Step
  BY <1>2, <1>5 DEF DriveOtg
<1> QED
  BY <1>3, <1>4, <1>5 DEF HandleOtgMode

\* The other handlers and the end of the loop.
LEMMA OtherHandlersMap ==
  ASSUME Known,
         \/ HandleIdle \/ HandleOutputVoltageMode \/ HandleShutdown \/ HandleErrorState
         \/ EndPowerLoop
  PROVE  Step
<1>1. CASE HandleIdle \/ EndPowerLoop
  BY <1>1, StutterMaps DEF HandleIdle, EndPowerLoop, gateVars
<1>2. CASE HandleShutdown \/ HandleErrorState
  BY <1>2, StutterMaps DEF HandleShutdown, HandleErrorState, CutPower, DisableGates
<1>3. CASE HandleOutputVoltageMode
  <2>1. PowerUsed /\ power' = power /\ outputReady' \in BOOLEAN
    BY <1>3 DEF HandleOutputVoltageMode, Handles, PowerUsed, OutputVoltageOk
  <2>2. really' = really
    BY <1>3 DEF HandleOutputVoltageMode, EnableGate, DisableGates, gateVars
  <2> QED
    BY <2>1, <2>2, KnownFacts, OutputMaps
<1> QED
  BY <1>1, <1>2, <1>3

\* The main thread asks for a mode, for ERROR or for the shutdown.
LEMMA MainMaps == ASSUME Known, MainThread PROVE Step
<1>1. power \in Machines
  BY KnownFacts
<1>2. CASE ModeRequests
  BY <1>2, StutterMaps
  DEF ModeRequests, GoToOutputMode, GoToChargerMode, GoToOtgMode, GoToIdle, Asks, gateVars
<1>3. CASE SwitchState
  <2>1. call \in Modes /\ really' = really /\ outputReady' = outputReady
    BY <1>3 DEF SwitchState, gateVars
  <2>2. call \in PowerStates /\ "CLEAR" \in PowerStates /\ ClearTimeout \in 0..MaxAge
    BY <2>1, StateFacts
  <2>3. power'.state = "CLEAR" /\ power'.after = call
    BY <1>1, <1>3, <2>2, SetStateForFacts DEF SwitchState
  <2>4. power.state # "STARTUP" /\ call \in Abstract!PowerModes
    BY <2>1 DEF Known, IInv, ClearInv, StartupOver, Modes, Abstract!PowerModes
  <2>5. Abstract!RequestMode(call)
    BY <2>1, <2>3, <2>4 DEF Abstract!RequestMode
  <2> QED
    BY <2>4, <2>5 DEF Step, Abstract!PowerNext
<1>4. CASE GoToError
  <2>1. power'.state = "ERROR"
    BY <1>1, <1>4, StateFacts, SetStateFacts DEF GoToError
  <2> QED
    BY <1>4, <2>1, FailMaps DEF GoToError, gateVars
<1>5. CASE GoToShutdown
  <2>1. power'.state = "SHUTDOWN" /\ really' = really /\ outputReady' = outputReady
    BY <1>1, <1>5, StateFacts, SetStateFacts DEF GoToShutdown, gateVars
  <2> QED
    BY <2>1 DEF Step, Abstract!PowerNext, Abstract!RequestShutdown, Abstract!ForceMode
<1>6. CASE ShutdownOnMainThread
  BY <1>6, StutterMaps DEF ShutdownOnMainThread, CutPower, DisableGates
<1> QED
  BY <1>2, <1>3, <1>4, <1>5, <1>6 DEF MainThread

\* The other threads open the gates or blip; the program starts again; time passes.
LEMMA OthersMap == ASSUME Known, OtherThreads \/ PowerOff \/ Tick PROVE Step
<1>1. power \in Machines
  BY KnownFacts
<1>2. CASE OtherThreads
  <2>1. power' = power /\ outputReady' = outputReady
    BY <1>2 DEF OtherThreads, machineVars
  <2>2. really' = really
    BY <1>2 DEF OtherThreads, OtherThreadDisables, DisableGates, UserBlips, Blip, CancelBlip
  <2> QED
    BY <2>1, <2>2, StutterMaps
<1>3. CASE PowerOff
  <2>1. power'.state = "STARTUP"
    BY <1>3, InitMachine DEF PowerOff
  <2>2. really' = FALSE /\ ~outputReady' /\ outputReady' \in BOOLEAN
    BY <1>3 DEF PowerOff
  <2> QED
    BY <1>3, <2>1, <2>2
    DEF PowerOff, Step, Abstract!PowerNext, Abstract!Restart, Abstract!ForceMode
<1>4. CASE Tick
  BY <1>1, <1>4, AgedFacts, StutterMaps DEF Tick
<1> QED
  BY <1>2, <1>3, <1>4

\* Every step of PowerHandler is one of PowerMachine, or none.
LEMMA StepMaps == Known /\ [Next]_vars => Step
<1> SUFFICES ASSUME Known, [Next]_vars PROVE Step
  OBVIOUS
<1>1. CASE UNCHANGED vars
  BY <1>1, StutterMaps DEF vars, machineVars, gateVars
<1> QED
  BY <1>1, GatesMap, RunMaps, ClearMaps, StartupMaps, VbusMaps, OtherHandlersMap, MainMaps,
     OthersMap DEF Next, PowerThread

\* What the main loop relies on (PowerMachine) holds of the power handler over its
\* gates, for every delay: a mode is entered from CLEAR_POWER_RAILS, with the output
\* not ready, and is_power_gate_enabled() becomes true only in the modes of the
\* output.
THEOREM SpecImplementsPowerMachine == Spec => ImplementsPowerMachine
<1>1. Init => Lingers
  <2> SUFFICES ASSUME Init PROVE Lingers
    OBVIOUS
  <2>1. pc \notin PowerStates
    BY PcNames DEF Init, GatesInit
  <2> QED
    BY <2>1, StateFacts DEF Lingers
<1>2. Spec => []Lingers
  BY <1>1, LingersStep, SpecInv, PTL DEF Spec
<1>3. Spec => Abstract!PowerInit
  <2>1. Init => power.state = "STARTUP"
    BY InitMachine DEF Init
  <2>2. Init => Abstract!PowerInit
    BY <2>1 DEF Init, GatesInit, Abstract!PowerInit
  <2> QED
    BY <2>2 DEF Spec
<1>4. IInv /\ SafeInv /\ Lingers /\ [Next]_vars => Step
  BY StepMaps DEF Known
<1>5. Spec => [][Abstract!PowerNext]_(Abstract!powerVars)
  BY <1>2, <1>4, SpecInv, SpecSafeInv, PTL DEF Spec, Step
<1> QED
  BY <1>3, <1>5 DEF ImplementsPowerMachine, Abstract!PowerSpec

-----------------------------------------------------------------------------
(* The gates with any caller (GateSequence), for every switch delay and     *)
(* blip limit: break before make.                                           *)

PathName(g) == IF g = "power" THEN "output" ELSE "usb"

\* The history variables follow the pins.
History ==
  /\ PathOf(pin) # "none" => last = PathOf(pin) /\ openAge = 0
  /\ stray => openAge = 0

\* The delay of a switch is covered by the time both gates have been open.
Dwell ==
  ~stray =>
    \A g \in Gate : last = PathName(Other(g)) =>
      /\ g \in switching \/ pc = Label(g, "flag") => openAge >= switchAge[g]
      /\ pc \in Driving(g) => openAge > GateSwitchDelay

\* The real status can only be stale in favour of the path closed last.
ReallyLast ==
  /\ pc \in {"powerSetVbus", "powerSettle"} => last = "output"
  /\ really => pc = "vbusSettle" \/ (last = "output" /\ "vbus" \notin pin)

SeqInterlock == Interlock /\ History /\ Dwell /\ ReallyLast

SeqIInv == SeqTypeOK /\ SeqInterlock

\* The path each gate closes.
LEMMA PathNames == PathName("vbus") = "usb" /\ PathName("power") = "output"
BY DEF PathName

\* The initial state satisfies the invariant.
LEMMA SeqInitInv == SeqInit => SeqIInv
<1> SUFFICES ASSUME SeqInit PROVE SeqIInv
  OBVIOUS
<1> USE DEF SeqInit, GatesInit
<1>1. SeqTypeOK
  <2>1. GatesTypeOK
    <3>1. switchAge \in [Gate -> 0..MaxSwitchAge] /\ blipLeft \in NoBlip..BlipMax
      BY DEF MaxSwitchAge, NoBlip
    <3> QED
      BY <3>1 DEF GatesTypeOK
  <2>2. pc \in GatePcs \cup {"run"} /\ last \in {"none", "usb", "output"}
    BY PcFacts
  <2>3. openAge \in 0..MaxSwitchAge
    BY DEF MaxSwitchAge
  <2> QED
    BY <2>1, <2>2, <2>3 DEF SeqTypeOK
<1>2. GatesExclusive
  BY DEF GatesExclusive, Gate
<1>3. RequestExcludes /\ DrivingExcludes /\ SwitchingRequested
  BY PathNames, GateFacts, PcFacts DEF RequestExcludes, DrivingExcludes, SwitchingRequested, Closed
<1>4. History /\ Dwell /\ ReallyLast
  BY PathNames, GateFacts, PcFacts DEF History, Dwell, ReallyLast, PathOf
<1> QED
  BY <1>1, <1>2, <1>3, <1>4 DEF SeqIInv, SeqInterlock, Interlock

\* Every step keeps the variables in their types.
LEMMA SeqTypeStep == SeqTypeOK /\ [SeqNext]_seqVars => SeqTypeOK'
<1> SUFFICES ASSUME SeqTypeOK, [SeqNext]_seqVars PROVE SeqTypeOK'
  OBVIOUS
<1>t. GatesTypeOK
  BY DEF SeqTypeOK
<1>1. ASSUME Record PROVE last' \in {"none", "usb", "output"} /\ openAge' \in 0..MaxSwitchAge
  BY <1>1 DEF Record, PathOf, MaxSwitchAge, SeqTypeOK
<1>2. ASSUME GatesTypeOK', pc' \in GatePcs \cup {"run"}, Record PROVE SeqTypeOK'
  BY <1>1, <1>2 DEF SeqTypeOK
<1>3. "loop" \in GatePcs
  BY PcFacts
<1>4. ASSUME Caller PROVE GatesTypeOK' /\ pc' \in GatePcs \cup {"run"}
  <2>1. ASSUME NEW g \in Gate, EnableGate(g, "loop")
        PROVE  GatesTypeOK' /\ pc' \in GatePcs \cup {"run"}
    BY <1>t, <1>3, <2>1, EnableGateType
  <2> QED
    BY <1>t, <1>3, <1>4, <2>1, GatesUnchangedType, EnableVbusDirectType DEF Caller
<1>5. ASSUME SeqPowerThread PROVE GatesTypeOK' /\ pc' \in GatePcs \cup {"run"}
  <2>1. ASSUME NEW g \in Gate, FlagSwitching(g) \/ RequestGate(g, "loop")
        PROVE  GatesTypeOK' /\ pc' \in GatePcs \cup {"run"}
    BY <1>t, <1>3, <2>1, RequestType
  <2> QED
    BY <1>t, <1>4, <1>5, <2>1, GatesLoopType DEF SeqPowerThread
<1>6. ASSUME SeqOtherThreads PROVE GatesTypeOK' /\ pc' \in GatePcs \cup {"run"}
  <2>1. pc' = pc
    BY <1>6 DEF SeqOtherThreads, OtherThreadDisables, UserBlips
  <2> QED
    BY <1>t, <1>6, <2>1, OtherThreadsType DEF SeqOtherThreads, SeqTypeOK
<1>7. ASSUME SeqTick PROVE SeqTypeOK'
  <2>1. openAge' \in 0..MaxSwitchAge
    BY <1>7 DEF SeqTick, MaxSwitchAge, SeqTypeOK
  <2>2. GatesTypeOK'
    BY <1>t, <1>7, GateTimeType DEF SeqTick
  <2> QED
    BY <1>7, <2>1, <2>2 DEF SeqTick, SeqTypeOK
<1>8. CASE UNCHANGED seqVars
  BY <1>8 DEF seqVars, SeqTypeOK, GatesTypeOK
<1> QED
  BY <1>2, <1>5, <1>6, <1>7, <1>8 DEF SeqNext

\* Every step keeps the interlock.
LEMMA SeqInterlockStep == SeqIInv /\ [SeqNext]_seqVars => SeqInterlock'
<1> SUFFICES ASSUME SeqIInv, [SeqNext]_seqVars PROVE SeqInterlock'
  OBVIOUS
<1> USE DEF SeqInterlock, Interlock, GatesExclusive, RequestExcludes, DrivingExcludes,
        SwitchingRequested, History, Dwell, ReallyLast, gateVars, Closed
<1>t. SeqTypeOK /\ SeqTypeOK'
  BY SeqTypeStep DEF SeqIInv
<1>i. SeqInterlock
  BY DEF SeqIInv
<1>1. ASSUME CheckSwitch("vbus"), Record PROVE SeqInterlock'
  BY <1>1, <1>i, <1>t, PcFacts, GateFacts, PathNames DEF CheckSwitch, Record, CheckedPath, PathOf, Switched, SeqTypeOK, GatesTypeOK
<1>1p. ASSUME CheckSwitch("power"), Record PROVE SeqInterlock'
  BY <1>1p, <1>i, <1>t, PcFacts, GateFacts, PathNames DEF CheckSwitch, Record, CheckedPath, PathOf, Switched, SeqTypeOK, GatesTypeOK
<1>2. ASSUME SetPowerPin("vbus"), Record PROVE SeqInterlock'
  BY <1>2, <1>i, <1>t, PcFacts, GateFacts, PathNames DEF SetPowerPin, Record, CheckedPath, PathOf, SeqTypeOK, GatesTypeOK
<1>2p. ASSUME SetPowerPin("power"), Record PROVE SeqInterlock'
  BY <1>2p, <1>i, <1>t, PcFacts, GateFacts, PathNames DEF SetPowerPin, Record, CheckedPath, PathOf, SeqTypeOK, GatesTypeOK
<1>3. ASSUME SetVbusPin("vbus"), Record PROVE SeqInterlock'
  BY <1>3, <1>i, <1>t, PcFacts, GateFacts, PathNames DEF SetVbusPin, Record, CheckedPath, PathOf, SeqTypeOK, GatesTypeOK
<1>3p. ASSUME SetVbusPin("power"), Record PROVE SeqInterlock'
  BY <1>3p, <1>i, <1>t, PcFacts, GateFacts, PathNames DEF SetVbusPin, Record, CheckedPath, PathOf, SeqTypeOK, GatesTypeOK
<1>4. ASSUME SettleGate("vbus"), Record PROVE SeqInterlock'
  <2>1. /\ pc = "vbusSettle" /\ pc' = "powerCheck" /\ ~really' /\ switching' = switching \ {"vbus"}
        /\ UNCHANGED <<pin, enabled, switchAge, stray>>
    BY <1>4, PcFacts DEF SettleGate
  <2>2. UNCHANGED <<last, openAge>> \/ (last' = PathOf(pin) /\ openAge' = 0)
    BY <1>4, <2>1, <1>i DEF Record, CheckedPath, PathOf
  <2>3. Interlock'
    BY <1>i, <1>t, <2>1, PcFacts, GateFacts DEF SeqTypeOK, GatesTypeOK
  <2>4. History'
    BY <1>4, <1>i, <2>1 DEF Record, CheckedPath, PathOf
  <2>5. Dwell' /\ ReallyLast'
    BY <1>4, <1>i, <1>t, <2>1, PcFacts, GateFacts, PathNames
       DEF Record, CheckedPath, PathOf, SeqTypeOK, GatesTypeOK
  <2> QED
    BY <2>3, <2>4, <2>5
<1>4p. ASSUME SettleGate("power"), Record PROVE SeqInterlock'
  BY <1>4p, <1>i, <1>t, PcFacts, GateFacts, PathNames DEF SettleGate, Record, CheckedPath, PathOf, SeqTypeOK, GatesTypeOK
<1>c. ASSUME CancelBlip, Record, pc' = pc \/ (pc = "blip" /\ pc' = "run") PROVE SeqInterlock'
  BY <1>c, <1>i, <1>t, PcFacts, GateFacts, PathNames DEF CancelBlip, CloseAgain, Record, CheckedPath, PathOf, SeqTypeOK, GatesTypeOK
<1>5. ASSUME EndBlip, Record PROVE SeqInterlock'
  BY <1>5, <1>c, <1>i, <1>t, PcFacts, GateFacts, PathNames DEF EndBlip, Record, CheckedPath, PathOf, SeqTypeOK, GatesTypeOK
<1>6. ASSUME Caller, Record PROVE SeqInterlock'
  <2>1. ASSUME EnableGate("vbus", "loop") PROVE SeqInterlock'
    BY <1>6, <2>1, <1>i, <1>t, PcFacts, GateFacts, PathNames
       DEF Caller, EnableGate, IsEnabled, Switched, Record, CheckedPath, PathOf, SeqTypeOK, GatesTypeOK
  <2>2. ASSUME EnableGate("power", "loop") PROVE SeqInterlock'
    BY <1>6, <2>2, <1>i, <1>t, PcFacts, GateFacts, PathNames
       DEF Caller, EnableGate, IsEnabled, Switched, Record, CheckedPath, PathOf, SeqTypeOK, GatesTypeOK
  <2>3. ASSUME pc' = "loop", EnableVbusDirect, last # "output" PROVE SeqInterlock'
    BY <1>6, <2>3, <1>i, <1>t, PcFacts, GateFacts, PathNames DEF Caller, EnableVbusDirect, Record, CheckedPath, PathOf, SeqTypeOK, GatesTypeOK
  <2>4. CASE pc' = "loop" /\ UNCHANGED gateVars
    BY <1>6, <2>4, <1>i, <1>t, PcFacts, GateFacts, PathNames DEF Caller, Record, CheckedPath, PathOf, SeqTypeOK, GatesTypeOK
  <2> QED
    BY <1>6, <2>1, <2>2, <2>3, <2>4, PathNames, GateFacts DEF Caller
<1>61. ASSUME NEW g \in Gate, FlagSwitching(g), Record PROVE SeqInterlock'
  BY <1>61, <1>i, <1>t, PcFacts, GateFacts, PathNames DEF FlagSwitching, Record, CheckedPath, PathOf, SeqTypeOK, GatesTypeOK
<1>62. ASSUME NEW g \in Gate, RequestGate(g, "loop"), Record PROVE SeqInterlock'
  BY <1>62, <1>i, <1>t, PcFacts, GateFacts, PathNames DEF RequestGate, Record, CheckedPath, PathOf, SeqTypeOK, GatesTypeOK
<1>7. ASSUME OtherThreadDisables, Record PROVE SeqInterlock'
  BY <1>7, <1>i, <1>t, PcFacts, GateFacts, PathNames DEF OtherThreadDisables, DisableGates, Switches, Record, CheckedPath, PathOf, SeqTypeOK, GatesTypeOK
<1>8. ASSUME UserBlips, Record PROVE SeqInterlock'
  <2>1. ASSUME NEW timing \in 0..(BlipMax + 1), Blip(timing), pc' = pc
        PROVE  SeqInterlock'
    BY <1>8, <2>1, <1>i, <1>t, PcFacts, GateFacts, PathNames DEF Blip, Record, CheckedPath, PathOf, SeqTypeOK, GatesTypeOK
  <2> QED
    BY <1>8, <1>c, <2>1 DEF UserBlips
<1>9. ASSUME SeqTick PROVE SeqInterlock'
  BY <1>9, <1>i, <1>t, PcFacts, GateFacts, PathNames DEF SeqTick, GateTime, CheckedPath, PathOf, SeqTypeOK, GatesTypeOK, NoBlip, MaxSwitchAge
<1>10. CASE UNCHANGED seqVars
  BY <1>10, <1>i DEF seqVars
<1> QED
  <2> HIDE DEF SeqInterlock
  <2> QED
    BY <1>1, <1>1p, <1>2, <1>2p, <1>3, <1>3p, <1>4, <1>4p, <1>5, <1>6, <1>61, <1>62, <1>7, <1>8,
       <1>9, <1>10,
       PathNames, GateFacts DEF SeqNext, SeqPowerThread, SeqOtherThreads, GatesLoop

-----------------------------------------------------------------------------

\* The invariant holds throughout.
THEOREM SeqSpecInv == SeqSpec => []SeqIInv
<1>1. SeqIInv /\ [SeqNext]_seqVars => SeqIInv'
  BY SeqTypeStep, SeqInterlockStep DEF SeqIInv
<1> QED
  BY SeqInitInv, <1>1, PTL DEF SeqSpec

\* The variables stay in their types, for every delay, blips at any time included.
THEOREM SeqSpecTypeOK == SeqSpec => []SeqTypeOK
<1>1. SeqInit => SeqTypeOK
  BY SeqInitInv DEF SeqIInv
<1> QED
  BY <1>1, SeqTypeStep, PTL DEF SeqSpec

\* The two gates are never driven together, whatever other threads call while
\* the power thread is between its pin writes, for every delay, but after a stray
\* blip.
THEOREM SpecNeverBothGates == SeqSpec => []NeverBothGates
<1>1. SeqIInv => NeverBothGates
  BY DEF SeqIInv, SeqInterlock, Interlock, GatesExclusive, NeverBothGates
<1> QED
  BY SeqSpecInv, <1>1, PTL

\* A step of the gates is a step of PowerPath or leaves the paths alone.
LEMMA PathStep == SeqIInv /\ [SeqNext]_seqVars => [PathOfPins!PathNext]_(PathOfPins!pathVars)
<1> DEFINE Path == [PathOfPins!PathNext]_(PathOfPins!pathVars)
<1> SUFFICES ASSUME SeqIInv, [SeqNext]_seqVars PROVE Path
  OBVIOUS
<1> USE DEF gateVars
<1>i. SeqTypeOK /\ SeqInterlock
  BY DEF SeqIInv
<1>b. stray \in BOOLEAN
  BY <1>i DEF SeqTypeOK, GatesTypeOK
<1>s. ASSUME stray', Record PROVE Path
  <2>1. CheckedPath' = "unchecked" /\ last' \in {last, "usb", "output"} /\ openAge' = 0
    BY <1>s DEF Record, CheckedPath, PathOf
  <2> QED
    BY <2>1 DEF PathOfPins!PathNext, PathOfPins!Uncheck
<1>e. ASSUME stray, ~stray', pin' = {}, Record PROVE Path
  <2>1. CheckedPath = "unchecked" /\ CheckedPath' = "none" /\ last' = last /\ openAge' = 0
    BY <1>e DEF Record, CheckedPath, PathOf
  <2> QED
    BY <2>1 DEF PathOfPins!PathNext, PathOfPins!Open
<1>o. ASSUME ~stray, ~stray', pin' \subseteq pin, Record PROVE Path
  BY <1>o, <1>i DEF Record, CheckedPath, PathOf, SeqTypeOK, GatesTypeOK, Gate, SeqInterlock, Interlock, History, GatesExclusive,
     PathOfPins!PathNext, PathOfPins!Open, PathOfPins!pathVars
<1>c. ASSUME NEW g \in Gate, ~stray, ~stray', pin' = pin \cup {g}, Record, Other(g) \notin pin,
             last # PathName(Other(g)) \/ openAge > GateSwitchDelay
      PROVE Path
  BY <1>c, <1>i, PathNames, GateFacts DEF Record, CheckedPath, PathOf, SeqTypeOK, GatesTypeOK, SeqInterlock, History,
     PathOfPins!PathNext, PathOfPins!Close, PathOfPins!pathVars
<1>t. ASSUME SeqTick PROVE Path
  <2>1. UNCHANGED <<pin, stray, last>> /\ CheckedPath' = CheckedPath
    BY <1>t DEF SeqTick, CheckedPath, PathOf
  <2>2. CASE CheckedPath = "none"
    BY <1>t, <2>1, <2>2 DEF SeqTick, PathOfPins!PathNext, PathOfPins!Isolated
  <2>3. CASE CheckedPath # "none"
    BY <1>t, <2>1, <2>3 DEF SeqTick, PathOfPins!pathVars
  <2> QED
    BY <2>2, <2>3
<1>u. CASE UNCHANGED seqVars
  BY <1>u DEF seqVars, CheckedPath, PathOf, PathOfPins!pathVars
<1>n. ASSUME pin' \subseteq pin, stray' = stray, Record PROVE Path
  BY <1>b, <1>n, <1>o, <1>s
<1>1. ASSUME NEW g \in Gate, CheckSwitch(g) \/ SettleGate(g), Record PROVE Path
  BY <1>1, <1>n DEF CheckSwitch, SettleGate
<1>2. ASSUME NEW g \in Gate, SetPowerPin(g), Record PROVE Path
  <2>1. stray' = stray
    BY <1>2 DEF SetPowerPin
  <2>2. CASE ~stray
    BY <1>2, <1>o, <1>c, <1>i, <2>1, <2>2, PathNames, GateFacts, PcFacts
       DEF SetPowerPin, SeqInterlock, Interlock, DrivingExcludes, Closed, Dwell, SeqTypeOK,
           GatesTypeOK
  <2> QED
    BY <1>2, <1>s, <2>1, <2>2
<1>3. ASSUME NEW g \in Gate, SetVbusPin(g), Record PROVE Path
  <2>1. stray' = stray
    BY <1>3 DEF SetVbusPin
  <2>2. CASE ~stray
    BY <1>3, <1>o, <1>c, <1>i, <2>1, <2>2, PathNames, GateFacts, PcFacts
       DEF SetVbusPin, SeqInterlock, Interlock, DrivingExcludes, Closed, Dwell, SeqTypeOK,
           GatesTypeOK
  <2> QED
    BY <1>3, <1>s, <2>1, <2>2
<1>4. ASSUME CancelBlip, Record PROVE Path
  <2>1. CASE really /\ CloseAgain /\ ~stray'
    <3>1. ~stray /\ "power" \in enabled /\ pin' = pin \cup {"power"}
      BY <2>1 DEF CloseAgain
    <3>2. "vbus" \notin pin
      BY <1>i, <3>1, GateFacts DEF SeqInterlock, Interlock, RequestExcludes, Closed
    <3>3. pc # "vbusSettle"
      BY <1>i, <3>1, GateFacts, PcFacts DEF SeqInterlock, Interlock, DrivingExcludes
    <3>4. last = "output"
      BY <1>i, <2>1, <3>3 DEF SeqInterlock, ReallyLast
    <3> QED
      BY <1>4, <1>c, <2>1, <3>1, <3>2, <3>4, PathNames, GateFacts
  <2>2. CASE UNCHANGED <<pin, stray>>
    BY <1>4, <1>n, <2>2
  <2> QED
    BY <1>4, <1>s, <2>1, <2>2 DEF CancelBlip
<1>5. ASSUME EndBlip, Record PROVE Path
  BY <1>5, <1>4, <1>n DEF EndBlip
<1>6. ASSUME Caller, Record PROVE Path
  <2>1. ASSUME NEW g \in Gate, EnableGate(g, "loop") PROVE Path
    BY <1>6, <2>1, <1>n DEF EnableGate
  <2>2. ASSUME EnableVbusDirect, last # "output", ~stray PROVE Path
    <3>1. "power" \notin pin
      BY <1>i, <2>2 DEF SeqInterlock, History, PathOf
    <3>2. ~stray' /\ pin' = {"vbus"}
      BY <2>2 DEF EnableVbusDirect
    <3> QED
      BY <1>6, <1>c, <1>i, <2>2, <3>1, <3>2, PathNames, GateFacts DEF SeqTypeOK, GatesTypeOK
  <2>3. ASSUME EnableVbusDirect, stray PROVE Path
    BY <1>6, <1>s, <2>3 DEF EnableVbusDirect
  <2> QED
    BY <1>6, <1>b, <1>n, <2>1, <2>2, <2>3 DEF Caller
<1>61. ASSUME NEW g \in Gate, FlagSwitching(g) \/ RequestGate(g, "loop"), Record PROVE Path
  BY <1>61, <1>n DEF FlagSwitching, RequestGate
<1>7. ASSUME OtherThreadDisables, Record PROVE Path
  <2>1. pin' = {} /\ (stray' => stray)
    BY <1>7 DEF OtherThreadDisables, DisableGates
  <2> QED
    BY <1>7, <1>b, <1>e, <1>o, <1>s, <2>1
<1>8. ASSUME UserBlips, Record PROVE Path
  <2>1. ASSUME NEW timing, Blip(timing) PROVE Path
    BY <1>8, <1>n, <2>1 DEF Blip
  <2> QED
    BY <1>8, <1>4, <2>1 DEF UserBlips
<1> QED
  <2> HIDE DEF Path
  <2> QED
    BY <1>1, <1>2, <1>3, <1>5, <1>6, <1>61, <1>7, <1>8, <1>t, <1>u
       DEF SeqNext, SeqPowerThread, SeqOtherThreads, GatesLoop

\* Break before make: the pins follow PowerPath, with the whole switch delay
\* between two different paths, for every delay.
THEOREM SpecBreakBeforeMake == SeqSpec => BreakBeforeMake
<1>1. SeqInit => PathOfPins!PathInit
  BY DEF SeqInit, GatesInit, CheckedPath, PathOf, PathOfPins!PathInit
<1>2. SeqIInv /\ [SeqNext]_seqVars => [PathOfPins!PathNext]_(PathOfPins!pathVars)
  BY PathStep
<1> QED
  BY SeqSpecInv, <1>1, <1>2, PTL DEF SeqSpec, BreakBeforeMake, PathOfPins!PathSpec

=============================================================================
