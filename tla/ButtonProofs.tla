---------------------------- MODULE ButtonProofs ----------------------------
(***************************************************************************)
(* Proofs about the button, for all the timings that Timings allows: quick *)
(* clicks never add up to a hold, whatever bounces and whichever releases  *)
(* are missed.                                                             *)
(*                                                                         *)
(* A press that is counted as a click starts the hold anew.  One that is   *)
(* not a bounce goes uncounted only when the thread has just renewed the   *)
(* stamp of the last press, believing the button down.  It believes so for *)
(* one whole turn at most once the hold is older than the debounce time    *)
(* (Noticed), so a stamp renewed after the release is at most that much    *)
(* younger than the hold (Renewed), and so is the press after it (Held).   *)
(***************************************************************************)
EXTENDS Button, TLAPS

Steps == {"idle", "clock", "since", "duration", "reset", "finish"}
Stamp == -1 .. MaxAge
Age == 0 .. MaxAge

Flags ==
    /\ pin \in BOOLEAN /\ detected \in BOOLEAN /\ long \in BOOLEAN /\ isPressed \in BOOLEAN
    /\ triggered \in BOOLEAN /\ seen \in BOOLEAN /\ ran \in BOOLEAN

Ages ==
    /\ sincePress \in Stamp /\ sinceHold \in Stamp
    /\ since \in Age /\ duration \in Age /\ up \in Age /\ steady \in Age
    /\ step \in Steps

Types == Flags /\ Ages

\* Once the button is up for a tick, every stamp is in the past.
Down == pin \/ sincePress < 0 \/ sinceHold < 0 => up = 0

Triggered == (isPressed => triggered) /\ (long => isPressed)

\* What a turn read is still so, unless the button was pressed in the meantime.
Read == up >= 1 =>
    /\ step # "idle" /\ detected => seen
    /\ step \in {"since", "duration"} => since = sincePress
    /\ step \in {"duration", "reset", "finish"} => sinceHold <= duration

\* A missed release is noticed in the first whole turn that finds the hold older
\* than the debounce time.
Noticed ==
    /\ step = "idle" => ~seen
    /\ step = "idle" /\ ran /\ detected /\ up >= 1 => sinceHold <= Debounce
    /\ (detected \/ seen) /\ up >= 2 => sinceHold <= Debounce + 1

\* A stamp the thread renewed after the release is that much younger than the hold.
Renewed == sincePress + 1 < up => sinceHold <= sincePress + Debounce + 1

\* The hold is hardly older than the last press that is not a bounce.
Held == \/ long /\ sinceHold = MaxAge
        \/ sinceHold <= steady + 2 * Debounce + 1

\* A hold told early, on a stamp later than the clock, ends with the next turn.
Early == long =>
    \/ sinceHold = -1 \/ sinceHold = MaxAge
    \/ sinceHold <= 1 /\ (step \in {"clock", "since"} \/ (step = "idle" /\ ~ran))

\* Once the button is up for that long its clicks are told before it is a hold.
Told ==
    isPressed /\ ~long =>
        /\ up >= ClicksRelease + 3 => sinceHold <= HoldMin
        /\ up >= ClicksRelease + 2 /\ (step = "finish" \/ (step = "idle" /\ ran))
              => sinceHold < HoldMin

IInv == /\ Types /\ Down /\ Triggered /\ Read /\ Noticed
        /\ Renewed /\ Held /\ Early /\ Told

-----------------------------------------------------------------------------

\* The timings, as the steps below use them.
LEMMA TimingFacts ==
    /\ Debounce \in Nat \ {0} /\ ClicksRelease \in Nat \ {0} /\ HoldMin \in Nat \ {0}
    /\ Debounce < ClicksRelease /\ Debounce + 1 + ClicksRelease < HoldMin
BY Timings

\* The initial states satisfy the invariant, pressed at the start or not.
LEMMA InitInv == Init => IInv
<1> SUFFICES ASSUME Init PROVE IInv
  OBVIOUS
<1> USE TimingFacts DEF Init, Idle, StartedFromButton, MaxAge
<1>1. Types
  <2>1. Flags
    BY DEF Flags
  <2>2. Ages
    BY DEF Ages, Steps, Stamp, Age
  <2> QED
    BY <2>1, <2>2 DEF Types
<1>2. Down /\ Triggered /\ Read /\ Noticed
  BY DEF Down, Triggered, Read, Noticed
<1>3. Renewed /\ Held /\ Early /\ Told
  BY DEF Renewed, Held, Early, Told
<1> QED
  BY <1>1, <1>2, <1>3 DEF IInv

\* A press: a bounce, or a click unless the stamp was renewed.
LEMMA PressInv == IInv /\ Press => IInv'
<1> SUFFICES ASSUME IInv, Press PROVE IInv'
  OBVIOUS
<1> USE TimingFacts DEF IInv, Press, CountClick, NowAges, MaxAge, Types, Flags, Ages, Steps, Stamp, Age, button, turn, history
<1>1. Types'
  <2>1. Flags'
    BY DEF Flags
  <2>2. Ages'
    BY DEF Ages
  <2> QED
    BY <2>1, <2>2 DEF Types
<1>2. Down'
  BY DEF Down
<1>3. Triggered'
  BY DEF Triggered
<1>4. Read'
  BY DEF Read, Down
<1>5. Noticed'
  BY DEF Noticed, Down, Read
<1>6. Renewed'
  BY DEF Renewed, Down, Noticed
<1>7. Held'
  BY DEF Held, Down, Renewed, Early
<1>8. Early'
  BY DEF Early, Down
<1>9. Told'
  BY DEF Told, Down, Read, Renewed, Triggered
<1> QED
  BY <1>1, <1>2, <1>3, <1>4, <1>5, <1>6, <1>7, <1>8, <1>9 DEF IInv

\* A release that is seen.
LEMMA ReleaseInv == IInv /\ Release => IInv'
<1> SUFFICES ASSUME IInv, Release PROVE IInv'
  OBVIOUS
<1> USE TimingFacts DEF IInv, Release, MaxAge, Types, Flags, Ages, Steps, Stamp, Age, button, turn, history
<1>1. Types'
  <2>1. Flags'
    BY DEF Flags
  <2>2. Ages'
    BY DEF Ages
  <2> QED
    BY <2>1, <2>2 DEF Types
<1>2. Down'
  BY DEF Down
<1>3. Triggered'
  BY DEF Triggered
<1>4. Read'
  BY DEF Read, Down
<1>5. Noticed'
  BY DEF Noticed, Down, Read
<1>6. Renewed'
  BY DEF Renewed, Down, Noticed
<1>7. Held'
  BY DEF Held, Down, Renewed, Early
<1>8. Early'
  BY DEF Early, Down
<1>9. Told'
  BY DEF Told, Down, Read, Renewed, Triggered
<1> QED
  BY <1>1, <1>2, <1>3, <1>4, <1>5, <1>6, <1>7, <1>8, <1>9 DEF IInv

\* A release that is missed leaves the flag up.
LEMMA ReleaseMissedInv == IInv /\ ReleaseMissed => IInv'
<1> SUFFICES ASSUME IInv, ReleaseMissed PROVE IInv'
  OBVIOUS
<1> USE TimingFacts DEF IInv, ReleaseMissed, MaxAge, Types, Flags, Ages, Steps, Stamp, Age, button, turn, history
<1>1. Types'
  <2>1. Flags'
    BY DEF Flags
  <2>2. Ages'
    BY DEF Ages
  <2> QED
    BY <2>1, <2>2 DEF Types
<1>2. Down'
  BY DEF Down
<1>3. Triggered'
  BY DEF Triggered
<1>4. Read'
  BY DEF Read, Down
<1>5. Noticed'
  BY DEF Noticed, Down, Read
<1>6. Renewed'
  BY DEF Renewed, Down, Noticed
<1>7. Held'
  BY DEF Held, Down, Renewed, Early
<1>8. Early'
  BY DEF Early, Down
<1>9. Told'
  BY DEF Told, Down, Read, Renewed, Triggered
<1> QED
  BY <1>1, <1>2, <1>3, <1>4, <1>5, <1>6, <1>7, <1>8, <1>9 DEF IInv

\* The turn begins: its copy of the flag, and its clock.
LEMMA ReadClockInv == IInv /\ ReadClock => IInv'
<1> SUFFICES ASSUME IInv, ReadClock PROVE IInv'
  OBVIOUS
<1> USE TimingFacts DEF IInv, ReadClock, NotLater, MaxAge, Types, Flags, Ages, Steps, Stamp, Age, button, turn, history
<1>1. Types'
  <2>1. Flags'
    BY DEF Flags
  <2>2. Ages'
    BY DEF Ages
  <2> QED
    BY <2>1, <2>2 DEF Types
<1>2. Down'
  BY DEF Down
<1>3. Triggered'
  BY DEF Triggered
<1>4. Read'
  BY DEF Read, Down
<1>5. Noticed'
  BY DEF Noticed, Down, Read
<1>6. Renewed'
  BY DEF Renewed, Down, Noticed
<1>7. Held'
  BY DEF Held, Down, Renewed, Early
<1>8. Early'
  BY DEF Early, Down
<1>9. Told'
  BY DEF Told, Down, Read, Renewed, Triggered
<1> QED
  BY <1>1, <1>2, <1>3, <1>4, <1>5, <1>6, <1>7, <1>8, <1>9 DEF IInv

\* The age of the last press.
LEMMA ReadSinceInv == IInv /\ ReadSince => IInv'
<1> SUFFICES ASSUME IInv, ReadSince PROVE IInv'
  OBVIOUS
<1> USE TimingFacts DEF IInv, ReadSince, Elapsed, MaxAge, Types, Flags, Ages, Steps, Stamp, Age, button, turn, history
<1>1. Types'
  <2>1. Flags'
    BY DEF Flags
  <2>2. Ages'
    BY DEF Ages
  <2> QED
    BY <2>1, <2>2 DEF Types
<1>2. Down'
  BY DEF Down
<1>3. Triggered'
  BY DEF Triggered
<1>4. Read'
  BY DEF Read, Down
<1>5. Noticed'
  BY DEF Noticed, Down, Read
<1>6. Renewed'
  BY DEF Renewed, Down, Noticed
<1>7. Held'
  BY DEF Held, Down, Renewed, Early
<1>8. Early'
  BY DEF Early, Down
<1>9. Told'
  BY DEF Told, Down, Read, Renewed, Triggered
<1> QED
  BY <1>1, <1>2, <1>3, <1>4, <1>5, <1>6, <1>7, <1>8, <1>9 DEF IInv

\* The age of the hold: a press becomes a hold, or a hold told early ends.
LEMMA ReadDurationInv == IInv /\ ReadDuration => IInv'
<1> SUFFICES ASSUME IInv, ReadDuration PROVE IInv'
  OBVIOUS
<1> USE TimingFacts DEF IInv, ReadDuration, Elapsed, MaxAge, Types, Flags, Ages, Steps, Stamp, Age, button, turn, history
<1>t. /\ long' => isPressed /\ Elapsed(sinceHold) > HoldMin
      /\ ~long' => ~(isPressed /\ Elapsed(sinceHold) > HoldMin)
  OBVIOUS
<1>1. Types'
  <2>1. Flags'
    BY DEF Flags
  <2>2. Ages'
    BY DEF Ages
  <2> QED
    BY <2>1, <2>2 DEF Types
<1>2. Down'
  BY DEF Down
<1>3. Triggered'
  BY DEF Triggered
<1>4. Read'
  BY DEF Read, Down
<1>5. Noticed'
  BY DEF Noticed, Down, Read
<1>6. Renewed'
  BY DEF Renewed, Down, Noticed
<1>7. Held'
  BY <1>t DEF Held, Triggered
<1>8. Early'
  BY <1>t DEF Early
<1>9. Told'
  BY DEF Told, Down, Read, Renewed, Triggered
<1> QED
  BY <1>1, <1>2, <1>3, <1>4, <1>5, <1>6, <1>7, <1>8, <1>9 DEF IInv

\* A series that is over is told: one that is not is not old enough for a hold.
LEMMA ReportInv == IInv /\ Report => IInv'
<1> SUFFICES ASSUME IInv, Report PROVE IInv'
  OBVIOUS
<1> USE TimingFacts DEF IInv, Report, SeriesOver, MaxAge, Types, Flags, Ages, Steps, Stamp, Age, button, turn, history
<1>1. Types'
  <2>1. Flags'
    BY DEF Flags
  <2>2. Ages'
    BY DEF Ages
  <2> QED
    BY <2>1, <2>2 DEF Types
<1>2. Down'
  BY DEF Down
<1>3. Triggered'
  BY DEF Triggered
<1>4. Read'
  BY DEF Read, Down
<1>5. Noticed'
  BY DEF Noticed, Down, Read
<1>6. Renewed'
  BY DEF Renewed, Down, Noticed
<1>7. Held'
  BY DEF Held, Down, Renewed, Early
<1>8. Early'
  BY DEF Early, Down
<1>9. Told'
  BY DEF Told, Down, Read, Renewed, Triggered
<1> QED
  BY <1>1, <1>2, <1>3, <1>4, <1>5, <1>6, <1>7, <1>8, <1>9 DEF IInv

\* Nothing is pressed or long after a series.
LEMMA ResetInv == IInv /\ Reset => IInv'
<1> SUFFICES ASSUME IInv, Reset PROVE IInv'
  OBVIOUS
<1> USE TimingFacts DEF IInv, Reset, ResetButton, MaxAge, Types, Flags, Ages, Steps, Stamp, Age, button, turn, history
<1>1. Types'
  <2>1. Flags'
    BY DEF Flags
  <2>2. Ages'
    BY DEF Ages
  <2> QED
    BY <2>1, <2>2 DEF Types
<1>2. Down'
  BY DEF Down
<1>3. Triggered'
  BY DEF Triggered
<1>4. Read'
  BY DEF Read, Down
<1>5. Noticed'
  BY DEF Noticed, Down, Read
<1>6. Renewed'
  BY DEF Renewed, Down, Noticed
<1>7. Held'
  BY DEF Held, Down, Renewed, Early
<1>8. Early'
  BY DEF Early, Down
<1>9. Told'
  BY DEF Told, Down, Read, Renewed, Triggered
<1> QED
  BY <1>1, <1>2, <1>3, <1>4, <1>5, <1>6, <1>7, <1>8, <1>9 DEF IInv

\* The stamp is renewed, and a missed release noticed.
LEMMA FinishInv == IInv /\ Finish => IInv'
<1> SUFFICES ASSUME IInv, Finish PROVE IInv'
  OBVIOUS
<1> USE TimingFacts DEF IInv, Finish, LogicLocked, MaxAge, Types, Flags, Ages, Steps, Stamp, Age, button, turn, history
<1>1. Types'
  <2>1. Flags'
    BY DEF Flags
  <2>2. Ages'
    BY DEF Ages
  <2> QED
    BY <2>1, <2>2 DEF Types
<1>2. Down'
  BY DEF Down
<1>3. Triggered'
  BY DEF Triggered
<1>4. Read'
  BY DEF Read, Down
<1>5. Noticed'
  <2>1. detected' => detected /\ ~LogicLocked
    OBVIOUS
  <2>2. CASE detected' /\ up >= 1
    <3>1. seen /\ ~pin /\ sinceHold <= duration
      BY <2>1, <2>2 DEF Down, Read
    <3>2. sinceHold <= Debounce
      BY <2>1, <2>2, <3>1
    <3> QED
      BY <3>2 DEF Noticed
  <2>3. CASE ~(detected' /\ up >= 1)
    BY <2>3 DEF Noticed
  <2> QED
    BY <2>2, <2>3
<1>6. Renewed'
  BY DEF Renewed, Down, Noticed
<1>7. Held'
  BY DEF Held, Down, Renewed, Early
<1>8. Early'
  BY DEF Early, Down
<1>9. Told'
  BY DEF Told, Down, Read, Renewed, Triggered
<1> QED
  BY <1>1, <1>2, <1>3, <1>4, <1>5, <1>6, <1>7, <1>8, <1>9 DEF IInv

\* Time passes after a whole turn.
LEMMA TickInv == IInv /\ Tick => IInv'
<1> SUFFICES ASSUME IInv, Tick PROVE IInv'
  OBVIOUS
<1> USE TimingFacts DEF IInv, Tick, Older, MaxAge, Types, Flags, Ages, Steps, Stamp, Age, button, turn, history
<1>1. Types'
  <2>1. Flags'
    BY DEF Flags
  <2>2. Ages'
    BY DEF Ages
  <2> QED
    BY <2>1, <2>2 DEF Types
<1>2. Down'
  BY DEF Down
<1>3. Triggered'
  BY DEF Triggered
<1>4. Read'
  BY DEF Read, Down
<1>5. Noticed'
  BY DEF Noticed, Down, Read
<1>6. Renewed'
  BY DEF Renewed, Down, Noticed
<1>7. Held'
  BY DEF Held, Down, Renewed, Early
<1>8. Early'
  BY DEF Early, Down
<1>9. Told'
  BY DEF Told, Down, Read, Renewed, Triggered
<1> QED
  BY <1>1, <1>2, <1>3, <1>4, <1>5, <1>6, <1>7, <1>8, <1>9 DEF IInv

\* Every step keeps the invariant.
LEMMA InvStep == IInv /\ [Next]_vars => IInv'
<1>1. IInv /\ UNCHANGED vars => IInv'
  BY DEF IInv, vars, button, turn, history, Types, Flags, Ages, Down, Triggered, Read, Noticed, Renewed, Held, Early, Told
<1> QED
  BY <1>1, PressInv, ReleaseInv, ReleaseMissedInv, ReadClockInv, ReadSinceInv, ReadDurationInv,
     ReportInv, ResetInv, FinishInv, TickInv DEF Next, Thread

\* The invariant holds throughout.
THEOREM SpecIInv == Spec => []IInv
BY InitInv, InvStep, PTL DEF Spec

\* Quick clicks never add up to a hold, for all timings: see HoldMeansHeld.
THEOREM SpecHoldMeansHeld == Spec => HoldMeansHeld
<1> DEFINE Kept == ~long /\ long' /\ sinceHold > HoldMin => LongEnough
<1>1. IInv /\ [Next]_vars => [Kept]_vars
  <2> SUFFICES ASSUME IInv, Next, ~long, long', sinceHold > HoldMin PROVE LongEnough
    OBVIOUS
  <2>1. ReadDuration
    BY DEF Next, Thread, Press, Release, ReleaseMissed, ReadClock, ReadSince, Report, Reset,
           ResetButton, Finish, Tick, button, turn, history, IInv, Types, Flags, Ages
  <2> QED
    BY <2>1, TimingFacts DEF ReadDuration, IInv, Types, Flags, Ages, Stamp, Age, MaxAge, Held, Told, LongEnough
<1> QED
  BY SpecIInv, <1>1, PTL DEF Spec, HoldMeansHeld

=============================================================================
