------------------------------ MODULE PowerPath ------------------------------
(***************************************************************************)
(* What the power gates promise (power_gates.h:40-59): at most one of the  *)
(* two paths through the power rail is closed, and a path is closed after  *)
(* the other one was only once the rail was isolated for longer than the   *)
(* switch delay.  Closing the path that was closed last needs no delay:    *)
(* that is the end of a blip.  Nothing is promised from the end of a blip  *)
(* that closes a gate nobody requests until the rail is isolated again:    *)
(* path is "unchecked" for as long.                                        *)
(***************************************************************************)
EXTENDS Naturals

CONSTANT GateSwitchDelay

VARIABLES
  path,      \* the closed path, or "unchecked"
  last,      \* the path closed now or, if none is, most recently
  openAge    \* how long no path has been closed, up to GateSwitchDelay + 1

pathVars == <<path, last, openAge>>

Path == {"none", "usb", "output", "unchecked"}

PathInit == path = "none" /\ last = "none" /\ openAge = 0

\* The end of every state of the path: the rail is isolated.
Open ==
  /\ path # "none"
  /\ path' = "none"
  /\ openAge' = 0
  /\ UNCHANGED last

Close(p) ==
  /\ path = "none"
  /\ last \in {"none", p} \/ openAge > GateSwitchDelay
  /\ path' = p
  /\ last' = p
  /\ openAge' = 0

Isolated ==
  /\ path = "none"
  /\ openAge' = IF openAge <= GateSwitchDelay THEN openAge + 1 ELSE openAge
  /\ UNCHANGED <<path, last>>

Uncheck ==
  /\ path' = "unchecked"
  /\ last' \in {last, "usb", "output"}
  /\ openAge' = 0

PathNext == Open \/ Isolated \/ Uncheck \/ \E p \in {"usb", "output"} : Close(p)

PathSpec == PathInit /\ [][PathNext]_pathVars

=============================================================================
