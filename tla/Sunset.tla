-------------------------------- MODULE Sunset --------------------------------
(***************************************************************************)
(* The sunset timer (src/src/system/logic/sunset_timer.cpp): a deadline    *)
(* after which the lamp turns itself off, dimmed over the last minutes.    *)
(* Two threads of the same priority share it, without a lock:              *)
(*                                                                         *)
(*   the sunset thread runs sunset_process_loop() and is suspended while   *)
(*   there is no deadline;                                                 *)
(*                                                                         *)
(*   the main thread sets, moves and cancels the deadline, forbids the     *)
(*   dimming while the user holds the button, and changes the brightness.  *)
(*                                                                         *)
(* A step of a thread is an access to what the other one writes: a load or *)
(* a store.  Only the main thread writes the limit of the system and the   *)
(* saved brightness, so its own loads of them go with its next store; the  *)
(* sunset thread's are steps.  A unit of time is half a minute: a turn of  *)
(* either thread is far shorter (3.6 s at most, sunset_timer.cpp:43), so   *)
(* time passes only between turns, and the share of the ramp that is left  *)
(* is taken at that precision.                                             *)
(***************************************************************************)
EXTENDS Brightness

CONSTANTS
  Ramp,       \* brightnessRampDownTime_s, in half minutes
  Deadlines,  \* the times left that set_deadline() is called with
  Minutes     \* the minutes that are added

ASSUME SunsetAssumption ==
  /\ Ramp \in Nat \ {0}
  /\ Deadlines \subseteq Nat
  /\ Minutes \subseteq Nat

VARIABLES
  enabled,     \* sunsetTimerEndTime_s > 0
  left,        \* sunsetTimerEndTime_s - time_s(), when it is
  controls,    \* isAllowedToControlBrightness
  shown,       \* the alert SUNSET_TIMER_ENABLED is raised
  b,           \* the brightness
  poweredOff,  \* set_power_off() was called for the timer
  thread,      \* where the sunset thread is
  computed,    \* the part of the ramp, then the limit, that it holds
  call,        \* what the main thread is in the middle of
  quiet        \* turns of the phaseout begun since the main thread last acted

timerVars == <<enabled, left, controls, shown, poweredOff>>
vars == <<timerVars, b, thread, computed, call, quiet>>

\* The main thread at a step of a call, with the time left it wants to set, or
\* the user limit it has loaded, and what it does that for.
Call(step, at, for) == [step |-> step, at |-> at, for |-> for]
NoCall == Call("none", 0, "none")

CallSteps ==
  {"none", "test", "start", "raise", "resume", "update", "limit", "shortcut", "bump",
   "cancel", "unlock", "restore", "clear", "load", "lower", "level", "save", "free"}

Init ==
  /\ enabled = FALSE /\ left = 0
  /\ controls = TRUE
  /\ shown = FALSE
  /\ b = NewBrightness
  /\ poweredOff = FALSE
  /\ thread = "suspended"
  /\ computed = 0
  /\ call = NoCall
  /\ quiet = 0

-----------------------------------------------------------------------------
(* cancel_timer(), called by both threads *)

ReleaseTimer == enabled' = FALSE /\ left' = 0 /\ UNCHANGED <<controls, shown, poweredOff, b>>

SetControl(allowed) ==
  controls' = allowed /\ UNCHANGED <<enabled, left, shown, poweredOff, b>>

LimitUser(v) == b' = StoreUser(b, v, b.max) /\ UNCHANGED timerVars

ShowAlert(on) == shown' = on /\ UNCHANGED <<enabled, left, controls, poweredOff, b>>

-----------------------------------------------------------------------------
(* sunset_process_loop() *)

Goes(from, to) == thread = from /\ thread' = to

BeginTurn ==
  /\ Goes("delay", IF enabled THEN "due" ELSE "suspend")
  /\ UNCHANGED <<timerVars, b, computed, call, quiet>>

\* The end time is read again: it may be zero by now.
TestRampDown ==
  /\ Goes("due", IF left <= Ramp THEN "progress" ELSE "delay")
  /\ quiet' = IF left <= Ramp THEN Lower(quiet + 1, 2) ELSE quiet
  /\ UNCHANGED <<timerVars, b, computed, call>>

SuspendThisThread ==
  /\ Goes("suspend", "suspended")
  /\ UNCHANGED <<timerVars, b, computed, call, quiet>>

\* Mutant: a timer that may not dim does not end either.
DueWhenControlling == ~enabled \/ (left <= 0 /\ controls)

\* signal_sunset_update() returns 1: the end time has passed, or is zero.
Due == ~enabled \/ left <= 0

SignalProgress ==
  /\ \/ Due /\ Goes("progress", "zero") /\ UNCHANGED computed
     \/ ~Due /\ Goes("progress", "control") /\ computed' = Lower(left, Ramp)
  /\ UNCHANGED <<timerVars, b, call, quiet>>

\* Mutant: the permission is not asked for.
DimsAnyway == TRUE

MayDim == controls

\* Mutant: the share of the ramp that has passed.
PassedShare(part) == ((Ramp - part) * b.saved) \div Ramp

LeftShare(part) == (part * b.saved) \div Ramp

ChooseBrightness ==
  /\ \/ ~MayDim /\ Goes("control", "delay") /\ computed' = 0
     \/ MayDim /\ Goes("control", "share") /\ UNCHANGED computed
     \/ Goes("share", "cap") /\ computed' = LeftShare(computed)
  /\ UNCHANGED <<timerVars, b, call, quiet>>

\* set_max_user_brightness() loads the limit of the system, then stores its own.
LoadMax ==
  /\ \/ Goes("cap", "dim") /\ computed' = Lower(computed, b.max)
     \/ Goes("recap", "store") /\ computed' = Lower(computed, b.max)
     \/ Goes("restore", "recap") /\ computed' = b.max
  /\ UNCHANGED <<timerVars, b, call, quiet>>

StoreLimit ==
  /\ Goes("dim", "delay") \/ Goes("store", "clear")
  /\ b' = StoreUser(b, computed, computed)
  /\ computed' = 0
  /\ UNCHANGED <<timerVars, call, quiet>>

SetPowerOff == poweredOff' = TRUE /\ UNCHANGED <<enabled, left, controls, shown, b>>

\* set_max_user_brightness(0), set_power_off(), cancel_timer()
EndTimer ==
  /\ \/ Goes("zero", "off") /\ LimitUser(0)
     \/ Goes("off", "cancel") /\ SetPowerOff
     \/ Goes("cancel", "unlock") /\ ReleaseTimer
     \/ Goes("unlock", "restore") /\ SetControl(TRUE)
     \/ Goes("clear", "delay") /\ ShowAlert(FALSE)
  /\ UNCHANGED <<computed, call, quiet>>

SunsetThread ==
  \/ BeginTurn
  \/ TestRampDown
  \/ SuspendThisThread
  \/ SignalProgress
  \/ ChooseBrightness
  \/ LoadMax
  \/ StoreLimit
  \/ EndTimer

-----------------------------------------------------------------------------
(* The calls of the main thread *)

Acts == quiet' = 0 /\ UNCHANGED computed

Starts(next) == call = NoCall /\ call' = next /\ Acts

Steps(from, to) ==
  /\ call.step = from
  /\ call' = IF to = "none" THEN NoCall ELSE [call EXCEPT !.step = to]
  /\ Acts

\* A deadline in the past is refused.
SetDeadline ==
  /\ \E t \in Deadlines \ {0} : Starts(Call("test", t, "set"))
  /\ UNCHANGED <<timerVars, b, thread>>

\* From now on, not from the deadline; at most ten.
TimeAdded(minutes) == 2 * Lower(10, minutes)

AddTimeMinutes ==
  /\ \E m \in Minutes \ {0} : Starts(Call("test", TimeAdded(m), "add"))
  /\ UNCHANGED <<timerVars, b, thread>>

\* The rest of set_deadline(): the test of is_enabled(), the assignments of each
\* branch, then the limit.
TestEnabled ==
  /\ Steps("test", IF enabled THEN "update" ELSE "start")
  /\ UNCHANGED <<timerVars, b, thread>>

AssignEnd ==
  /\ Steps("start", "raise") \/ Steps("update", "limit")
  /\ enabled' = TRUE
  /\ left' = call.at
  /\ UNCHANGED <<controls, shown, poweredOff, b, thread>>

RaiseAlert == Steps("raise", "resume") /\ ShowAlert(TRUE) /\ UNCHANGED thread

\* A thread that runs is not changed by it.
ResumeThread ==
  /\ Steps("resume", "limit")
  /\ thread' = IF thread = "suspended" THEN "delay" ELSE thread
  /\ UNCHANGED <<timerVars, b>>

RestoreSaved == Steps("limit", "none") /\ LimitUser(b.saved) /\ UNCHANGED thread

\* Mutant: the end of a timer in its phaseout is moved as well.
AlwaysShortcuts == TRUE

BeforePhaseout == left > Ramp

ShortcutToPhaseout ==
  /\ call.step = "shortcut"
  /\ call' = IF enabled /\ BeforePhaseout THEN Call("test", Ramp, "shortcut") ELSE NoCall
  /\ Acts
  /\ UNCHANGED <<timerVars, b, thread>>

\* round() of the minutes left
MinutesLeft == (left + 1) \div 2

\* The difference is unsigned: a timer past its end has much time left.
BumpTimer ==
  /\ call.step = "bump"
  /\ call' = IF enabled /\ 0 <= left /\ left < Ramp
             THEN Call("test", TimeAdded(1 + ((Ramp \div 2) - MinutesLeft)), "bump")
             ELSE NoCall
  /\ Acts
  /\ UNCHANGED <<timerVars, b, thread>>

\* The lamp leaves the output mode; no call for the off request is pending any more.
ExitOutput ==
  /\ \/ Starts(Call("cancel", 0, "cancel")) /\ UNCHANGED <<timerVars, b>>
     \/ Steps("cancel", "unlock") /\ ReleaseTimer
     \/ Steps("unlock", "restore") /\ SetControl(TRUE)
     \/ Steps("restore", "clear") /\ LimitUser(b.max)
     \/ Steps("clear", "none") /\ ShowAlert(FALSE)
  /\ UNCHANGED thread

SetPowerOn ==
  /\ Starts(NoCall)
  /\ poweredOff
  /\ poweredOff' = FALSE
  /\ UNCHANGED <<enabled, left, controls, shown, b, thread>>

-----------------------------------------------------------------------------
(* What else changes the brightness *)

\* update_saved_brightness(), then what the caller does next
SaveLevel == Steps("save", "free") /\ b' = StoreSaved(b) /\ UNCHANGED <<timerVars, thread>>

FreeUser ==
  /\ \/ call.for = "bump" /\ Steps("free", "bump")
     \/ call.for = "shortcut" /\ Steps("free", "shortcut")
     \/ call.for = "none" /\ Steps("free", "none")
  /\ LimitUser(b.max)
  /\ UNCHANGED thread

\* An event of a hold: the timer may not dim, the level is a step of the ramp.
HoldButton ==
  /\ Starts(Call("save", 0, "none"))
  /\ \E v \in Levels \ {0} : b' = StoreLevel(b, v, b.max)
  /\ controls' = FALSE
  /\ UNCHANGED <<enabled, left, shown, poweredOff, thread>>

\* The end of the hold; after a ramp up the timer is bumped.
ReleaseButton ==
  /\ \E for \in {"none", "bump"} : Starts(Call("save", 0, for))
  /\ SetControl(TRUE)
  /\ UNCHANGED thread

\* The level a Bluetooth command asks for.
SetLevelRemotely ==
  /\ Starts(Call("save", 0, "bump"))
  /\ \E v \in Levels : b' = StoreLevel(b, v, b.max)
  /\ UNCHANGED <<timerVars, thread>>

\* on_raised() of the alerts that limit the brightness
LimitOnAlert ==
  /\ Starts(Call("load", 0, "shortcut"))
  /\ \E v \in Levels \ {0} : b' = StoreMax(b, v)
  /\ UNCHANGED <<timerVars, thread>>

\* handle_all() with no alert left
FreeLimit ==
  /\ Starts(Call("load", 0, "free"))
  /\ b' = StoreMax(b, AbsoluteMax)
  /\ UNCHANGED <<timerVars, thread>>

\* The rest of set_max_brightness(): the user limit is loaded, and stored again
\* under the new limit, whatever the sunset thread stored meanwhile.
LoadUser ==
  /\ call.step = "load"
  /\ call' = Call("lower", b.user, call.for)
  /\ Acts
  /\ UNCHANGED <<timerVars, b, thread>>

LowerUser ==
  /\ \/ call.for = "shortcut" /\ Steps("lower", "level")
     \/ call.for = "free" /\ Steps("lower", "none")
  /\ LimitUser(call.at)
  /\ UNCHANGED thread

RestoreLevel ==
  /\ Steps("level", "save")
  /\ b' = StoreLevel(b, b.saved, b.max)
  /\ UNCHANGED <<timerVars, thread>>

MainThread ==
  \/ SetDeadline \/ AddTimeMinutes \/ TestEnabled \/ AssignEnd \/ RaiseAlert
  \/ ResumeThread \/ RestoreSaved \/ ShortcutToPhaseout \/ BumpTimer \/ ExitOutput
  \/ SetPowerOn \/ SaveLevel \/ FreeUser \/ HoldButton \/ ReleaseButton
  \/ SetLevelRemotely \/ LimitOnAlert \/ FreeLimit \/ LoadUser \/ LowerUser
  \/ RestoreLevel

\* A user mode sets a temporary level; the limits it loaded before may be old ones,
\* up to the absolute maximum.
UserThread ==
  /\ \E v \in Levels : b' = StoreLevel(b, v, AbsoluteMax)
  /\ UNCHANGED <<timerVars, thread, computed, call, quiet>>

TimeLeft == IF left < 0 THEN left ELSE left - 1

Tick ==
  /\ enabled
  /\ thread \in {"delay", "suspended"}
  /\ call = NoCall
  /\ left' = TimeLeft
  /\ UNCHANGED <<enabled, controls, shown, poweredOff, b, thread, computed, call, quiet>>

Next == SunsetThread \/ MainThread \/ UserThread \/ Tick

Spec == Init /\ [][Next]_vars

\* The scheduler runs a thread that is ready, a call ends, and the time passes
\* between the turns of the threads again and again.
FairSpec ==
  Spec /\ WF_vars(SunsetThread) /\ SF_vars(Tick) /\ WF_vars(call # NoCall /\ MainThread)

-----------------------------------------------------------------------------
(* Properties *)

\* A phase out that starts while the main thread leaves the timer alone only dims:
\* until the timer ends and frees the limit (sunset_timer.cpp:208), no store of the
\* sunset thread gives the user a higher limit than the one before.
PhaseoutOnlyDims ==
  [][ StoreLimit /\ thread = "dim" /\ quiet = 2 => b'.user <= b.user ]_vars

\* While the user holds the button, the sunset thread changes the user limit only
\* to finish a turn during which the main thread has acted, or because the time is
\* over, whatever the lock (inputs.cpp:301, sunset_timer.cpp:96 and 208).
HoldKeepsBrightness ==
  [][ SunsetThread /\ b'.user # b.user /\ ~controls => quiet = 0 \/ Due ]_vars

\* An alert starts the phaseout early and never extends a timer, whatever the
\* sunset thread and the time did between its steps (sunset_timer.cpp:177).
ShortcutNeverExtends ==
  [][ call.for = "shortcut" /\ AssignEnd /\ enabled => left' <= left ]_vars

\* Once the main thread leaves it alone, a timer whose thread was not suspended
\* ends, even if the brightness stays locked for ever.
RunningTimerEnds ==
  /\ <>[][~MainThread]_vars
  /\ <>[](enabled => thread \notin {"suspend", "suspended"})
  => []<>~enabled

(* What the documentation says, and the code does not do. *)

\* set_deadline() is to "start the timer, or upate it if needed"
\* (sunset_timer.h:19): a timer the main thread does not touch again ends.
TimerEnds == <>[][~MainThread]_vars => []<>(~enabled)
=============================================================================
