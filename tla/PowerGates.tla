----------------------------- MODULE PowerGates -----------------------------
(***************************************************************************)
(* The two power gates of the board (src/src/system/bsp/power_gates.cpp):  *)
(* the vbus gate connects the USB port to the power rail, the power gate   *)
(* connects the rail to the board output.  Opening one and closing the     *)
(* other is separated by gateSwitchDelay_ms.                               *)
(*                                                                         *)
(* Threads.  loop() and the enable_* calls run on the power thread, whose  *)
(* position in loop() is pc.  disable_gates(), blip() and cancel_blip()    *)
(* are called by other threads at any time: the PD thread when the partner *)
(* asks to stop pulling current (power_delivery.cpp:253), the main thread  *)
(* after the output phase (behavior.cpp:663), the main and the user thread *)
(* for blips.  Their calls are one step each.  The power thread can lose   *)
(* the processor between the test of a switch, the write of each pin and   *)
(* the write of the flags after hal::delay_ms(1), and between the          *)
(* assignments of switch_delayed_*_gate().                                 *)
(*                                                                         *)
(* Blips.  blip() only tests _isPowerGateReallyEnabled, which nothing      *)
(* resets until the vbus gate is driven: a blip can start, and its end     *)
(* close the power gate "without checks", while the gate is not requested. *)
(* stray records it until the gates are opened again.                      *)
(*                                                                         *)
(* Time is counted in units of Tick: ages saturate one past the delay they *)
(* are compared with.                                                      *)
(***************************************************************************)
EXTENDS Integers

CONSTANTS
  GateSwitchDelay,   \* gateSwitchDelay_ms
  BlipMax            \* BLIP_MAX_TIME

ASSUME GatesAssumption ==
  /\ GateSwitchDelay \in Nat
  /\ BlipMax \in Nat \ {0}

VARIABLES
  pin,         \* the gates whose enable pin is high
  enabled,     \* the gates whose _is*GateEnabled is set
  switching,   \* the gates whose _is*GateSwitching is set
  switchAge,   \* time_ms() - _*GateStartSwitchingTime
  really,      \* _isPowerGateReallyEnabled
  blipLeft,    \* _blipWakeUpTime_ms - time_ms(), NoBlip when it is 0
  stray,       \* history: the end of a blip closed the power gate while it
               \* was not requested, and the gates were not opened since
  pc           \* the power thread's next step

gateVars == <<pin, enabled, switching, switchAge, really, blipLeft, stray>>

Gate == {"vbus", "power"}
Other(g) == IF g = "vbus" THEN "power" ELSE "vbus"
NoBlip == -1
MaxSwitchAge == GateSwitchDelay + 1

GatesTypeOK ==
  /\ pin \subseteq Gate
  /\ enabled \subseteq Gate
  /\ switching \subseteq Gate
  /\ switchAge \in [Gate -> 0..MaxSwitchAge]
  /\ really \in BOOLEAN
  /\ blipLeft \in NoBlip..BlipMax
  /\ stray \in BOOLEAN

\* Mutant: a delay that is one unit too short.
SwitchedEarly(g) == switchAge[g] >= GateSwitchDelay

\* is_vbus_gate_switched, is_power_gate_switched
Switched(g) == switchAge[g] > GateSwitchDelay

\* is_vbus_gate_enabled, __is_power_gate_enabled
IsEnabled(g) == g \in enabled /\ Switched(g)

IsBliping == blipLeft # NoBlip

GatesInit ==
  /\ pin = {}
  /\ enabled = {}
  /\ switching = {}
  /\ switchAge = [g \in Gate |-> 0]
  /\ really = FALSE
  /\ blipLeft = NoBlip
  /\ stray = FALSE
  /\ pc = "loop"

-----------------------------------------------------------------------------
(* The positions of the power thread around the switch of gate g. *)

Label(g, step) ==
  CASE step = "check"    -> IF g = "vbus" THEN "loop" ELSE "powerCheck"
    [] step = "setPower" -> IF g = "vbus" THEN "vbusSetPower" ELSE "powerSetPower"
    [] step = "setVbus"  -> IF g = "vbus" THEN "vbusSetVbus" ELSE "powerSetVbus"
    [] step = "settle"   -> IF g = "vbus" THEN "vbusSettle" ELSE "powerSettle"
    [] step = "flag"     -> IF g = "vbus" THEN "vbusFlag" ELSE "powerFlag"
    [] step = "request"  -> IF g = "vbus" THEN "vbusRequest" ELSE "powerRequest"
    [] step = "next"     -> IF g = "vbus" THEN "powerCheck" ELSE "blip"

\* inside enable_gate(g = "vbus")
Driving(g) == {Label(g, "setPower"), Label(g, "setVbus"), Label(g, "settle")}

\* inside switch_delayed_*_gate(true)
Requesting(g) == {Label(g, "flag"), Label(g, "request")}

\* The power thread is driving a gate, or requesting one.
Switches == \E g \in Gate : pc \in Driving(g) \cup Requesting(g)

-----------------------------------------------------------------------------
(* Calls, as changes of gateVars. *)

\* Mutant: the delayed switches are not called off.
DisablePinsOnly ==
  /\ pin' = {}
  /\ enabled' = {}
  /\ blipLeft' = NoBlip
  /\ stray' = (stray /\ Switches)
  /\ UNCHANGED <<switching, switchAge, really>>

\* disable_gates()
DisableGates ==
  /\ pin' = {}
  /\ enabled' = {}
  /\ switching' = {}
  /\ blipLeft' = NoBlip
  /\ stray' = (stray /\ Switches)
  /\ UNCHANGED <<switchAge, really>>

\* enable_vbus_gate_DIRECT(): no delay; the vbus flags are left alone.
EnableVbusDirect ==
  /\ pin' = {"vbus"}
  /\ enabled' = enabled \ {"power"}
  /\ switching' = switching \ {"power"}
  /\ blipLeft' = NoBlip
  /\ really' = FALSE
  /\ UNCHANGED <<switchAge, stray>>

\* Mutant: the longest blip is not enforced.
BlipUnbounded(timing) ==
  /\ UNCHANGED <<enabled, switching, switchAge, really, stray>>
  /\ IF timing = 0 \/ ~really
     THEN blipLeft' = NoBlip /\ UNCHANGED pin
     ELSE blipLeft' = timing /\ pin' = pin \ {"power"}

\* power::blip(timing), timing \in 0..BlipMax + 1
Blip(timing) ==
  /\ UNCHANGED <<enabled, switching, switchAge, really, stray>>
  /\ IF timing = 0 \/ timing > BlipMax \/ ~really
     THEN blipLeft' = NoBlip /\ UNCHANGED pin
     ELSE blipLeft' = timing /\ pin' = pin \ {"power"}

\* The power gate is closed "without checks".
CloseAgain ==
  /\ pin' = pin \cup {"power"}
  /\ stray' = (stray \/ "power" \notin enabled)

\* power::cancel_blip()
CancelBlip ==
  /\ \/ IsBliping /\ really /\ CloseAgain
     \/ ~(IsBliping /\ really) /\ UNCHANGED <<pin, stray>>
  /\ blipLeft' = NoBlip
  /\ UNCHANGED <<enabled, switching, switchAge, really>>

-----------------------------------------------------------------------------
(* loop(), on the power thread.  g is the gate whose switch is looked at. *)

GatePcs ==
  {"loop", "powerCheck", "blip"} \cup Driving("vbus") \cup Driving("power")
    \cup Requesting("vbus") \cup Requesting("power")

CheckSwitch(g) ==
  /\ pc = Label(g, "check")
  /\ pc' = IF g \in switching /\ Switched(g) THEN Label(g, "setPower") ELSE Label(g, "next")
  /\ UNCHANGED gateVars

\* enable_gate(g = "vbus"): the power pin is written first, then the vbus pin.
SetPowerPin(g) ==
  /\ pc = Label(g, "setPower")
  /\ pc' = Label(g, "setVbus")
  /\ pin' = IF g = "power" THEN pin \cup {"power"} ELSE pin \ {"power"}
  /\ UNCHANGED <<enabled, switching, switchAge, really, blipLeft, stray>>

SetVbusPin(g) ==
  /\ pc = Label(g, "setVbus")
  /\ pc' = Label(g, "settle")
  /\ pin' = IF g = "vbus" THEN pin \cup {"vbus"} ELSE pin \ {"vbus"}
  /\ UNCHANGED <<enabled, switching, switchAge, really, blipLeft, stray>>

\* after delay_ms(1): the real status, then loop()'s end-of-switch flag
SettleGate(g) ==
  /\ pc = Label(g, "settle")
  /\ pc' = Label(g, "next")
  /\ really' = (g = "power")
  /\ switching' = switching \ {g}
  /\ UNCHANGED <<pin, enabled, switchAge, blipLeft, stray>>

\* The end of loop(): a blip that is over closes the gate again.
EndBlip ==
  /\ pc = "blip"
  /\ pc' = "run"
  /\ \/ really /\ blipLeft = 0 /\ CancelBlip
     \/ really /\ blipLeft # 0 /\ UNCHANGED gateVars
     \/ /\ ~really
        /\ blipLeft' = NoBlip
        /\ UNCHANGED <<pin, enabled, switching, switchAge, really, stray>>

GatesLoop ==
  \/ \E g \in Gate : CheckSwitch(g) \/ SetPowerPin(g) \/ SetVbusPin(g) \/ SettleGate(g)
  \/ EndBlip

-----------------------------------------------------------------------------
(* enable_power_gate(), enable_vbus_gate(), called by the power thread after *)
(* loop().  The thread goes on at position after.                            *)

\* Mutant: a gate asked for again starts its delay over.
EnableGateAgain(g, after) ==
  \/ /\ IsEnabled(g)
     /\ pc' = after
     /\ UNCHANGED gateVars
  \/ /\ ~IsEnabled(g)
     /\ pin' = pin \ {Other(g)}
     /\ enabled' = enabled \ {Other(g)}
     /\ switching' = switching \ {Other(g)}
     /\ blipLeft' = IF g = "vbus" THEN NoBlip ELSE blipLeft
     /\ pc' = Label(g, "flag")
     /\ switchAge' = [switchAge EXCEPT ![g] = 0]
     /\ UNCHANGED <<really, stray>>

\* Nothing if g is already enabled; else the other gate is disabled and g's
\* delayed switch starts, unless it was requested before.
EnableGate(g, after) ==
  \/ /\ IsEnabled(g)
     /\ pc' = after
     /\ UNCHANGED gateVars
  \/ /\ ~IsEnabled(g)
     /\ pin' = pin \ {Other(g)}
     /\ enabled' = enabled \ {Other(g)}
     /\ switching' = switching \ {Other(g)}
     /\ blipLeft' = IF g = "vbus" THEN NoBlip ELSE blipLeft
     /\ pc' = IF g \in enabled THEN after ELSE Label(g, "flag")
     /\ switchAge' = [switchAge EXCEPT ![g] = IF g \in enabled THEN @ ELSE 0]
     /\ UNCHANGED <<really, stray>>

FlagSwitching(g) ==
  /\ pc = Label(g, "flag")
  /\ pc' = Label(g, "request")
  /\ switching' = switching \cup {g}
  /\ UNCHANGED <<pin, enabled, switchAge, really, blipLeft, stray>>

RequestGate(g, after) ==
  /\ pc = Label(g, "request")
  /\ pc' = after
  /\ enabled' = enabled \cup {g}
  /\ UNCHANGED <<pin, switching, switchAge, really, blipLeft, stray>>

-----------------------------------------------------------------------------
(* The calls of the other threads. *)

OtherThreadDisables == DisableGates /\ UNCHANGED pc

UserBlips ==
  /\ CancelBlip \/ \E timing \in 0..(BlipMax + 1) : Blip(timing)
  /\ UNCHANGED pc

\* A unit of time passes for the delays of the gates.
GateTime ==
  /\ switchAge' = [g \in Gate |-> IF switchAge[g] < MaxSwitchAge
                                  THEN switchAge[g] + 1 ELSE switchAge[g]]
  /\ blipLeft' = IF blipLeft > 0 THEN blipLeft - 1 ELSE blipLeft

=============================================================================
