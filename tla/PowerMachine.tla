----------------------------- MODULE PowerMachine -----------------------------
(***************************************************************************)
(* What the power handler promises to the main loop, without its gates'    *)
(* timing, voltages and handlers: a mode is reached through a clear of the *)
(* power rail, which either ends with the output not ready or fails, and   *)
(* the power gate is driven only for the output.  The main loop reads the  *)
(* gate in a flag that disable_gates() does not reset: it stays set until  *)
(* the vbus gate is driven.  PowerHandler implements this module.          *)
(*                                                                         *)
(* The clear is asked for by the main thread, and a request can be         *)
(* overwritten by a handler of the power thread that was already running:  *)
(* Start, Fail and EndOtg are not limited to the mode they belong to.      *)
(***************************************************************************)

VARIABLES
  mode,   \* the state of the power machine
  after,  \* the mode that follows, while the rail is cleared
  gate,   \* is_power_gate_enabled(), i.e. _isPowerGateReallyEnabled
  ready   \* is_output_mode_ready()

powerVars == <<mode, after, gate, ready>>

PowerModes == {"IDLE", "CHARGING", "OUTPUT", "OTG"}
ModesOfPower == PowerModes \cup {"STARTUP", "CLEAR", "SHUTDOWN", "ERROR"}

\* The modes in which the output handler runs, or may still be running.
OutputModes == {"OUTPUT", "CLEAR", "ERROR", "SHUTDOWN"}

PowerInit == mode = "STARTUP" /\ after = "none" /\ gate = FALSE /\ ready = FALSE

-----------------------------------------------------------------------------
(* The main thread's calls *)

RequestMode(m) ==
  /\ mode # "STARTUP"
  /\ mode' = "CLEAR"
  /\ after' = m
  /\ UNCHANGED <<gate, ready>>

ForceMode(m) == mode' = m /\ after' = "none"

RequestError == ForceMode("ERROR") /\ UNCHANGED <<gate, ready>>

RequestShutdown == ForceMode("SHUTDOWN") /\ UNCHANGED <<gate, ready>>

Restart == ForceMode("STARTUP") /\ gate' = FALSE /\ ready' = FALSE

-----------------------------------------------------------------------------
(* The power thread *)

Start ==
  /\ mode \in {"STARTUP", "SHUTDOWN"}
  /\ \E m \in {"IDLE", "ERROR"} : ForceMode(m)
  /\ UNCHANGED <<gate, ready>>

Fail ==
  /\ ForceMode("ERROR")
  /\ ready' \in {ready, FALSE}
  /\ UNCHANGED gate

EndClear ==
  /\ mode = "CLEAR"
  /\ ForceMode(after)
  /\ ready' = FALSE
  /\ UNCHANGED gate

EndOtg ==
  /\ mode \in {"OTG", "CLEAR", "ERROR", "SHUTDOWN"}
  /\ ForceMode("CHARGING")
  /\ UNCHANGED <<gate, ready>>

\* A turn of the output's handler, or of the clear's.
CheckOutput ==
  /\ mode \in OutputModes
  /\ ready' \in BOOLEAN
  /\ UNCHANGED <<mode, after, gate>>

\* The other handlers that run after the mode changed can only end it.
CutOutput == ready' = FALSE /\ UNCHANGED <<mode, after, gate>>

\* A switch of the gates ends.
DrivePowerGate ==
  /\ mode \in OutputModes
  /\ gate' = TRUE
  /\ UNCHANGED <<mode, after, ready>>

DriveVbusGate == gate' = FALSE /\ UNCHANGED <<mode, after, ready>>

PowerThreadStep ==
  \/ Start \/ Fail \/ EndClear \/ EndOtg
  \/ CheckOutput \/ CutOutput \/ DrivePowerGate \/ DriveVbusGate

PowerNext ==
  \/ PowerThreadStep
  \/ \E m \in PowerModes : RequestMode(m)
  \/ RequestError \/ RequestShutdown \/ Restart

PowerSpec == PowerInit /\ [][PowerNext]_powerVars

=============================================================================
