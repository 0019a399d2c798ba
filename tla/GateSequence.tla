---------------------------- MODULE GateSequence ----------------------------
(***************************************************************************)
(* The power gates under every sequence of calls their users can make,     *)
(* with the history of the paths they closed, and the properties of them.  *)
(***************************************************************************)
EXTENDS PowerGates

VARIABLES
  last,        \* history: the path closed now or most recently
  openAge      \* history: how long neither pin has been high, from the end of
               \* a stray blip on

seqVars == <<pin, enabled, switching, switchAge, really, blipLeft, stray, pc, last, openAge>>

PathOf(p) ==
  IF "power" \in p THEN "output" ELSE IF "vbus" \in p THEN "usb" ELSE "none"

\* The path that the gates closed as they were asked to.
CheckedPath == IF stray THEN "unchecked" ELSE PathOf(pin)

SeqInit == GatesInit /\ last = "none" /\ openAge = 0

\* The power thread between two loop() calls: nothing, or a mode's enable call.
\* enable_vbus_gate_DIRECT is only called by handle_startup, before any output.
Caller ==
  /\ pc = "run"
  /\ \/ pc' = "loop" /\ UNCHANGED gateVars
     \/ \E g \in Gate : EnableGate(g, "loop")
     \/ /\ last # "output"
        /\ pc' = "loop"
        /\ EnableVbusDirect

SeqPowerThread ==
  \/ GatesLoop
  \/ Caller
  \/ \E g \in Gate : FlagSwitching(g) \/ RequestGate(g, "loop")

SeqOtherThreads == OtherThreadDisables \/ UserBlips

Record ==
  /\ last' = IF PathOf(pin') = "none" THEN last ELSE PathOf(pin')
  /\ openAge' = IF CheckedPath' = "none" /\ CheckedPath = "none" THEN openAge ELSE 0

SeqTick ==
  /\ GateTime
  /\ openAge' = IF CheckedPath = "none" /\ openAge <= GateSwitchDelay
                THEN openAge + 1 ELSE openAge
  /\ UNCHANGED <<pin, enabled, switching, really, stray, pc, last>>

SeqNext ==
  \/ /\ SeqPowerThread \/ SeqOtherThreads
     /\ Record
  \/ SeqTick

\* The power thread is never suspended while the lamp runs, and time passes.
Fairness == WF_seqVars(SeqPowerThread /\ Record) /\ WF_seqVars(SeqTick)

SeqSpec == SeqInit /\ [][SeqNext]_seqVars
SeqFairSpec == SeqSpec /\ Fairness

-----------------------------------------------------------------------------

SeqTypeOK ==
  /\ GatesTypeOK
  /\ pc \in GatePcs \cup {"run"}
  /\ last \in {"none", "usb", "output"}
  /\ openAge \in 0..MaxSwitchAge

\* The two gates are never driven together, whatever the interleaving of the
\* power thread's pin writes with the calls of the other threads
\* (power_gates.cpp:15, "potentially destructive behavior"), unless a stray blip
\* closed the power gate since the gates were last opened (power_gates.cpp:181).
NeverBothGates == ~stray => pin # Gate

\* The pins follow PowerPath: break before make, with the full switch delay
\* between two different paths (power_gates.h:41-42, 52-53), whatever blips start
\* and end on the way, but for the time a stray one holds the power gate closed.
PathOfPins == INSTANCE PowerPath WITH path <- CheckedPath
BreakBeforeMake == PathOfPins!PathSpec

\* A delayed switch that is not called off is carried out: asking again for a
\* gate that is already switching does not start its delay over.
SwitchCompletes ==
  \A g \in Gate : g \in switching ~> (g \in pin \/ g \notin switching)
=============================================================================
