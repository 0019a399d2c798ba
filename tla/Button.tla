------------------------------- MODULE Button -------------------------------
(***************************************************************************)
(* The recognition of clicks and holds: src/system/component/button.cpp.   *)
(* The interrupt of the pin (button_state_interrupt) falls between any two *)
(* steps of the button thread (handle_events).  Time is in ticks; a time   *)
(* stamp is kept as its age.  A stamp the interrupt takes after the thread *)
(* has read the clock may be later than that clock: its age is then -1,    *)
(* which the unsigned subtraction of the thread makes huge.                *)
(* A press whose interrupt is lost is one the program never sees, so only  *)
(* a release may be missed.                                                *)
(***************************************************************************)
EXTENDS Integers

CONSTANTS Debounce,      \* RELEASE_BETWEEN_CLICKS, in ticks
          ClicksRelease, \* RELEASE_TIMING_CLICKS_MS
          HoldsRelease,  \* RELEASE_TIMING_HOLDS_MS
          HoldMin,       \* HOLD_BUTTON_MIN_MS
          MaxPresses     \* bound: presses in a series

\* The static_asserts of init(), the second with the period of the thread, a
\* tick at most, on top (50 + 5 + 250 < 500 ms): without it a click whose release
\* is missed is told as a hold.
ASSUME Timings ==
    /\ {Debounce, ClicksRelease, HoldsRelease, HoldMin, MaxPresses} \subseteq Nat \ {0}
    /\ Debounce < ClicksRelease /\ Debounce + 1 + ClicksRelease < HoldMin
    /\ Debounce < HoldsRelease /\ Debounce + HoldsRelease < HoldMin

MaxAge == HoldMin + 1          \* older stamps are all the same to the code

VARIABLES pin,         \* the button is down
          detected,    \* wasButtonPressedDetected
          clicks,      \* nbClicksCounted
          long,        \* isLongPressed
          isPressed,   \* isPressed
          triggered,   \* wasTriggered
          sincePress,  \* the age of lastPressTime
          sinceHold,   \* the age of firstHoldTime
          step,        \* where handle_events() is
          seen,        \* isButtonPressDetected, its copy of detected
          since,       \* sinceLastCall
          duration,    \* pressDuration
          ran,         \* the thread ran since the last tick
          report,      \* the last event of this turn
          presses,     \* history: presses since the last series reported
          up,          \* history: ticks since the button was last down
          steady       \* history: ticks since the last press that is not a bounce
button == <<clicks, long, isPressed, triggered, sincePress, sinceHold>>
turn == <<step, seen, since, duration, ran, report>>
history == <<presses, up, steady>>
vars == <<pin, detected, button, turn, history>>

Older(age) == IF age >= MaxAge THEN MaxAge ELSE IF age < 0 THEN 1 ELSE age + 1
NotLater(age) == IF age < 0 THEN 0 ELSE age

\* currentTime - stamp on 32 bits.
Elapsed(age) == IF age < 0 THEN MaxAge ELSE age

\* The age the thread will find in a stamp taken now.
NowAges == IF step \in {"clock", "since"} THEN {0, -1} ELSE {0}

Idle ==
    /\ detected = FALSE /\ clicks = 0 /\ isPressed = FALSE /\ triggered = FALSE
    /\ sincePress \in {0, MaxAge} /\ sinceHold = sincePress
    /\ presses = 0 /\ up = MaxAge /\ steady = MaxAge

\* init() when the button woke the system up: one click is counted.
StartedFromButton ==
    /\ detected = TRUE /\ clicks = 1 /\ isPressed = TRUE /\ triggered = TRUE
    /\ sincePress = 0 /\ sinceHold = 0
    /\ presses = 1 /\ up = 0 /\ steady = 0

Init ==
    /\ pin \in BOOLEAN
    /\ (Idle /\ ~pin) \/ StartedFromButton
    /\ long = FALSE
    /\ step = "idle" /\ seen = FALSE /\ since = 0 /\ duration = 0
    /\ ran = FALSE /\ report = "none"
-----------------------------------------------------------------------------
(* The pin and its interrupt.                                              *)

\* A mutant: the hold is timed from the first click of the series.
KeepsFirstHold(stamp) ==
    /\ clicks' = clicks + 1
    /\ sinceHold' = IF clicks = 0 THEN stamp ELSE sinceHold

\* A press that is not a bounce.
CountClick(stamp) == clicks' = clicks + 1 /\ sinceHold' = stamp

\* button_state_interrupt() on a press.
Press ==
    /\ ~pin /\ presses < MaxPresses
    /\ pin' = TRUE /\ detected' = TRUE
    /\ presses' = presses + 1
    /\ up' = 0 /\ steady' = IF up > Debounce + 1 THEN 0 ELSE steady
    /\ \E stamp \in NowAges :
          /\ IF ~long /\ sincePress > Debounce
             THEN CountClick(stamp)
             ELSE UNCHANGED <<clicks, sinceHold>>
          /\ sincePress' = stamp
    /\ triggered' = TRUE /\ isPressed' = TRUE
    /\ UNCHANGED <<long, turn>>

\* button_state_interrupt() on a release.
Release ==
    /\ pin /\ pin' = FALSE /\ detected' = FALSE
    /\ UNCHANGED <<button, turn, history>>

\* A release whose interrupt is missed.
ReleaseMissed ==
    /\ pin /\ pin' = FALSE
    /\ UNCHANGED <<detected, button, turn, history>>
-----------------------------------------------------------------------------
(* handle_events().                                                        *)

ReadClock ==
    /\ step = "idle" /\ step' = "clock"
    /\ seen' = detected
    /\ sincePress' = NotLater(sincePress) /\ sinceHold' = NotLater(sinceHold)
    /\ report' = "none"
    /\ UNCHANGED <<pin, detected, clicks, long, isPressed, triggered, since,
                   duration, ran, history>>

ReadSince ==
    /\ step = "clock" /\ step' = "since"
    /\ since' = Elapsed(sincePress)
    /\ UNCHANGED <<pin, detected, button, seen, duration, ran, report, history>>

ReadDuration ==
    /\ step = "since" /\ step' = "duration"
    /\ duration' = Elapsed(sinceHold)
    /\ long' = (isPressed /\ duration' > HoldMin)
    /\ UNCHANGED <<pin, detected, clicks, isPressed, triggered, sincePress,
                   sinceHold, seen, since, ran, report, history>>

SeriesOver ==
    /\ triggered
    /\ \/ ~long /\ since > ClicksRelease
       \/ long /\ since > HoldsRelease

Report ==
    /\ step = "duration"
    /\ IF SeriesOver
       THEN /\ step' = "reset"
            /\ report' = IF long THEN "end" ELSE "click"
       ELSE step' = "finish" /\ report' = report
    /\ UNCHANGED <<pin, detected, button, seen, since, duration, ran, history>>

ResetButton ==
    /\ isPressed' = FALSE /\ long' = FALSE /\ triggered' = FALSE
    /\ clicks' = 0 /\ sinceHold' = 0

Reset ==
    /\ step = "reset" /\ step' = "finish"
    /\ ResetButton
    /\ presses' = 0
    /\ UNCHANGED <<pin, detected, up, steady, sincePress, seen, since, duration, ran, report>>

\* A mutant: a missed interrupt is never noticed.
NeverLocked == FALSE

\* The safety: a missed interrupt leaves the button pressed for the program.
LogicLocked == seen /\ ~pin /\ duration > Debounce

Finish ==
    /\ step = "finish" /\ step' = "idle"
    /\ sincePress' = IF seen THEN 0 ELSE sincePress
    /\ triggered' = (triggered \/ long)
    /\ report' = IF long THEN "hold" ELSE report
    /\ detected' = (detected /\ ~LogicLocked)
    /\ seen' = FALSE /\ since' = 0 /\ duration' = 0
    /\ ran' = TRUE
    /\ UNCHANGED <<pin, clicks, long, isPressed, sinceHold, history>>

\* The thread runs at least once in a tick: thread_throttle_time_ms is less
\* than RELEASE_BETWEEN_CLICKS.
Tick ==
    /\ step = "idle" /\ ran /\ ran' = FALSE
    /\ sincePress' = Older(sincePress) /\ sinceHold' = Older(sinceHold)
    /\ up' = IF pin THEN 0 ELSE Older(up)
    /\ steady' = Older(steady)
    /\ report' = "none"
    /\ UNCHANGED <<pin, detected, clicks, long, isPressed, triggered, step, seen,
                   since, duration, presses>>

Thread == ReadClock \/ ReadSince \/ ReadDuration \/ Report \/ Reset \/ Finish
Next == Press \/ Release \/ ReleaseMissed \/ Thread \/ Tick

Spec == Init /\ [][Next]_vars

\* The thread has a high priority and a fixed period; time passes however often
\* it runs.
FairSpec == Spec /\ WF_vars(Thread) /\ SF_vars(Tick)
-----------------------------------------------------------------------------
(* Properties.                                                             *)

\* Unless a turn meets a stamp later than its clock, a press becomes a hold only
\* when it is as old as a hold but for two debounce times, and the button was
\* not up for longer than clicks take to be told, bounces and missed interrupts
\* included (button.cpp:49, button.cpp:75): quick clicks never add up to a hold.
LongEnough == steady + 2 * Debounce >= HoldMin /\ up <= ClicksRelease + 2
HoldMeansHeld ==
    [][~long /\ long' /\ sinceHold > HoldMin => LongEnough]_vars

\* When the button stays up, the series is reported and the program leaves the
\* pressed state, even when interrupts are missed (button.cpp:132).
ReleaseEnds == <>[](~pin) => <>[](~isPressed /\ ~triggered /\ ~detected)
=============================================================================
