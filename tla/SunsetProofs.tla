---------------------------- MODULE SunsetProofs ----------------------------
(***************************************************************************)
(* The safety properties of the sunset timer, for every ramp, every set of *)
(* deadlines and every number of brightness levels.  IInv is for the first *)
(* two, PhaseInv for the last one.                                         *)
(*                                                                         *)
(* The first are facts about a thread that was overtaken: a hold that      *)
(* begins between the test of the permission and the store of the limit is *)
(* recent, so is a deadline that moves the end of a timer found to be over,*)
(* and a timer that was found before its phaseout is still before it, or   *)
(* cancelled, when its end is moved.  The last one is about a thread that  *)
(* is left alone: once a turn has dimmed, the user limit is at least the   *)
(* share of the time left, which only shrinks.                             *)
(***************************************************************************)
EXTENDS Sunset, TLAPS

\* The calls of the main thread; what set_max_brightness() has loaded is a level.
Calls ==
  [step : CallSteps, at : Int,
   for : {"none", "set", "add", "shortcut", "bump", "cancel", "free"}]
Callable(c) == c \in Calls /\ (c.step = "lower" => c.at \in Nat)

\* What the threads hold: a part of the ramp, then a level.
ComputedInv ==
  /\ computed \in Nat
  /\ thread \in {"dim", "recap", "store"} => computed \in Levels
  /\ left \in Int
  /\ Callable(call)

\* Between the test of the permission and the store of the limit, a hold is recent.
HoldInv == thread \in {"share", "cap", "dim"} /\ ~controls => quiet = 0

\* From the test of the end time to the last store, so is a new end.
EndInv ==
  /\ thread = "zero" => quiet = 0 \/ Due
  /\ thread \in {"unlock", "restore", "recap", "store", "clear"} => quiet = 0 \/ ~enabled

\* Between the test of the time left and its assignment, the timer does not fall
\* behind the phaseout.
ShortcutInv ==
  call.for = "shortcut" /\ call.step \in {"test", "start", "update"} =>
    call.at = Ramp /\ (enabled => left >= Ramp)

IInv == b \in Brightnesses /\ ComputedInv /\ HoldInv /\ EndInv /\ ShortcutInv

\* The user limit is at least what a turn would choose now.
Dimmed == left >= 0 => Lower(LeftShare(left), b.max) <= b.user

\* Once a turn of the phaseout has begun with the timer left alone, what the
\* thread holds is about the time left.  Once that turn is over the timer has
\* ended, may not dim, or has dimmed.
PhaseInv ==
  /\ quiet \in 0..2
  /\ quiet >= 1 =>
       /\ left <= Ramp
       /\ thread \in {"control", "share"} => enabled /\ left >= 0 /\ computed = left
       /\ thread = "cap" => enabled /\ left >= 0 /\ computed = LeftShare(left)
       /\ thread = "dim" => enabled /\ left >= 0 /\ computed = Lower(LeftShare(left), b.max)
       /\ \/ thread \in {"delay", "due"}
          \/ quiet = 2 /\ thread \in {"progress", "control", "share", "cap", "dim"}
          => ~enabled \/ ~controls \/ Dimmed

-----------------------------------------------------------------------------
(* The calls of the brightness. *)

\* The smaller of two numbers.
LEMMA LowerIs ==
  ASSUME NEW x \in Int, NEW y \in Int
  PROVE  Lower(x, y) \in {x, y} /\ Lower(x, y) <= x /\ Lower(x, y) <= y
BY DEF Lower

\* A limit of a number of levels.
LEMMA LowerLevel ==
  ASSUME NEW v \in Nat, NEW l \in Levels
  PROVE  Lower(v, l) \in Levels /\ Lower(v, l) <= l
BY AbsoluteMaxAssumption DEF Lower, Levels

\* Each store keeps the record of levels.
LEMMA StoresKeep ==
  ASSUME NEW x \in Brightnesses, NEW v \in Nat, NEW limit \in Levels
  PROVE  /\ StoreUser(x, v, limit) \in Brightnesses
         /\ StoreLevel(x, v, limit) \in Brightnesses
         /\ StoreMax(x, v) \in Brightnesses
         /\ StoreSaved(x) \in Brightnesses
<1> DEFINE l == Lower(v, limit)
           m == Lower(v, AbsoluteMax)
<1>1. AbsoluteMax \in Levels
  BY AbsoluteMaxAssumption DEF Levels
<1>2. l \in Levels /\ m \in Levels
  BY <1>1, LowerLevel
<1>3. /\ StoreUser(x, v, limit) = [x EXCEPT !.user = l]
      /\ StoreLevel(x, v, limit) = [x EXCEPT !.level = l]
      /\ StoreMax(x, v) = [x EXCEPT !.max = m]
      /\ StoreSaved(x) = [x EXCEPT !.saved = x.level]
  BY DEF StoreUser, StoreLevel, StoreMax, StoreSaved
<1> HIDE DEF l, m
<1> QED
  BY <1>2, <1>3 DEF Brightnesses

\* A store of the user limit leaves the rest alone.
LEMMA StoreUserWrites ==
  ASSUME NEW x \in Brightnesses, NEW v, NEW limit
  PROVE  LET y == StoreUser(x, v, limit)
         IN  y.user = Lower(v, limit) /\ y.max = x.max /\ y.saved = x.saved
BY DEF StoreUser, Brightnesses

\* The levels and the limits are natural numbers.
LEMMA LevelsAreNat ==
  ASSUME b \in Brightnesses
  PROVE  b.max \in Nat /\ b.saved \in Nat /\ b.user \in Nat /\ b.max \in Levels
BY AbsoluteMaxAssumption DEF Brightnesses, Levels

\* The share of the saved brightness is a natural number.
LEMMA ShareIsNat ==
  ASSUME b \in Brightnesses, NEW part \in Nat
  PROVE  LeftShare(part) \in Nat
<1>1. b.saved \in Nat
  BY AbsoluteMaxAssumption DEF Brightnesses, Levels
<1>2. part * b.saved \in Nat
  BY <1>1
<1>3. Ramp \in Nat /\ Ramp > 0
  BY SunsetAssumption
<1> DEFINE p == part * b.saved
<1>4. p \in Nat
  BY <1>2
<1>5. LeftShare(part) = p \div Ramp
  BY DEF LeftShare
<1> HIDE DEF p
<1>6. p \div Ramp \in Nat
  BY <1>3, <1>4
<1> QED
  BY <1>5, <1>6

-----------------------------------------------------------------------------
(* The steps of the sunset thread. *)

\* LimitUser() keeps the record.
LEMMA LimitUserKeeps ==
  ASSUME b \in Brightnesses, NEW v \in Nat, LimitUser(v)
  PROVE  (b \in Brightnesses)'
BY LevelsAreNat, StoresKeep DEF LimitUser

\* signal_sunset_update(): either the end, or a part of the ramp.
LEMMA SignalProgressStep ==
  ASSUME IInv, SignalProgress
  PROVE  IInv'
<1>1. UNCHANGED <<timerVars, b, call, quiet>> /\ thread' \in {"zero", "control"}
  BY DEF SignalProgress, Goes
<1>2. computed' \in Nat
  <2>1. CASE Due
    BY <2>1 DEF SignalProgress, IInv, ComputedInv
  <2>2. CASE ~Due
    <3>1. computed' = Lower(left, Ramp) /\ left > 0 /\ left \in Int /\ Ramp \in Nat
      BY <2>2, SunsetAssumption DEF SignalProgress, Due, IInv, ComputedInv
    <3> QED
      BY <3>1, LowerIs
  <2> QED
    BY <2>1, <2>2
<1>3. thread' = "zero" => Due
  BY DEF SignalProgress, Goes
<1>4. Due' <=> Due
  BY <1>1 DEF Due, timerVars
<1> QED
  BY <1>1, <1>2, <1>3, <1>4 DEF IInv, ComputedInv, HoldInv, EndInv, ShortcutInv, timerVars

\* The permission is read just before the brightness is chosen.
LEMMA ChooseBrightnessStep ==
  ASSUME IInv, ChooseBrightness
  PROVE  IInv'
<1>1. UNCHANGED <<timerVars, b, call, quiet>> /\ thread' \in {"delay", "share", "cap"}
  BY DEF ChooseBrightness, Goes
<1>2. computed' \in Nat
  <2>1. LeftShare(computed) \in Nat
    BY ShareIsNat DEF IInv, ComputedInv
  <2> QED
    BY <2>1 DEF ChooseBrightness, IInv, ComputedInv
<1>3. thread' \in {"share", "cap"} => controls \/ thread = "share"
  BY DEF ChooseBrightness, Goes, MayDim
<1> QED
  BY <1>1, <1>2, <1>3 DEF IInv, ComputedInv, HoldInv, EndInv, ShortcutInv, timerVars

\* The limit of the system is loaded.
LEMMA LoadMaxStep ==
  ASSUME IInv, LoadMax
  PROVE  IInv'
<1>1. UNCHANGED <<timerVars, b, call, quiet>>
  BY DEF LoadMax
<1>2. \/ thread = "cap" /\ thread' = "dim"
      \/ thread \in {"recap", "restore"} /\ thread' \in {"store", "recap"}
  BY DEF LoadMax, Goes
<1>3. computed' \in Levels
  <2>1. b.max \in Levels /\ computed \in Nat
    BY LevelsAreNat DEF IInv, ComputedInv
  <2>2. Lower(computed, b.max) \in Levels
    BY <2>1, LowerLevel
  <2> QED
    BY <2>1, <2>2 DEF LoadMax
<1>4. computed' \in Nat
  BY <1>3, AbsoluteMaxAssumption DEF Levels
<1> QED
  BY <1>1, <1>2, <1>3, <1>4 DEF IInv, ComputedInv, HoldInv, EndInv, ShortcutInv, timerVars

\* The limit is stored.
LEMMA StoreLimitStep ==
  ASSUME IInv, StoreLimit
  PROVE  IInv'
<1>1. /\ \/ thread = "dim" /\ thread' = "delay"
         \/ thread = "store" /\ thread' = "clear"
      /\ computed' = 0 /\ UNCHANGED <<timerVars, call, quiet>>
  BY DEF StoreLimit, Goes
<1>2. (b \in Brightnesses)'
  <2>1. computed \in Nat /\ computed \in Levels
    BY <1>1 DEF IInv, ComputedInv
  <2> QED
    BY <2>1, StoresKeep DEF StoreLimit, IInv
<1> QED
  BY <1>1, <1>2 DEF IInv, ComputedInv, HoldInv, EndInv, ShortcutInv, timerVars

\* The end of the timer cancels it.
LEMMA EndTimerStep ==
  ASSUME IInv, EndTimer
  PROVE  IInv'
<1>1. UNCHANGED <<computed, call, quiet>>
  BY DEF EndTimer
<1>2. CASE thread = "zero" /\ thread' = "off" /\ LimitUser(0)
  <2>1. (b \in Brightnesses)' /\ UNCHANGED timerVars
    BY <1>2, LimitUserKeeps DEF IInv, LimitUser
  <2> QED
    BY <1>1, <1>2, <2>1 DEF IInv, ComputedInv, HoldInv, EndInv, ShortcutInv, timerVars
<1>3. CASE thread' = "unlock" /\ ReleaseTimer
  BY <1>1, <1>3 DEF ReleaseTimer, IInv, ComputedInv, HoldInv, EndInv, ShortcutInv
<1>4. CASE /\ SetControl(TRUE) \/ ShowAlert(FALSE) \/ SetPowerOff
           /\ \/ thread' \in {"cancel", "delay"}
              \/ thread = "unlock" /\ thread' = "restore"
  <2>1. UNCHANGED <<b, left, enabled>>
    BY <1>4 DEF SetControl, ShowAlert, SetPowerOff
  <2> QED
    BY <1>1, <1>4, <2>1 DEF IInv, ComputedInv, HoldInv, EndInv, ShortcutInv
<1> QED
  BY <1>2, <1>3, <1>4 DEF EndTimer, Goes

\* The turn begins, or the thread suspends itself: nothing is written.
LEMMA BeginTurnStep ==
  ASSUME IInv, BeginTurn \/ TestRampDown \/ SuspendThisThread
  PROVE  IInv'
<1>1. /\ thread' \in {"due", "suspend", "progress", "delay", "suspended"}
      /\ UNCHANGED <<timerVars, b, computed, call>>
  BY DEF BeginTurn, TestRampDown, SuspendThisThread, Goes
<1> QED
  BY <1>1 DEF IInv, ComputedInv, HoldInv, EndInv, ShortcutInv, timerVars

-----------------------------------------------------------------------------
(* The steps of the main thread. *)

\* What every step of the main thread does to the other parts: a thread that it
\* resumes starts with its delay.
Resumes == thread' = thread \/ thread' = "delay"

\* A step of the main thread keeps IInv when it keeps the levels and the calls.
LEMMA MainKeeps ==
  ASSUME IInv, Acts, Resumes, (b \in Brightnesses)', left' \in Int, Callable(call'), ShortcutInv'
  PROVE  IInv'
BY DEF IInv, ComputedInv, HoldInv, EndInv, Acts, Resumes

\* A call that starts, or ends, is not at the steps of the shortcut.
LEMMA StartsIs ==
  ASSUME IInv, NEW step \in CallSteps \ {"lower"}, NEW t \in Int,
         NEW for \in {"none", "set", "add", "shortcut", "bump", "cancel", "free"},
         for = "shortcut" => step \notin {"test", "start", "update"},
         Starts(Call(step, t, for))
  PROVE  Acts /\ Callable(call') /\ ShortcutInv'
<1>1. call' = Call(step, t, for) /\ Acts
  BY DEF Starts
<1>2. Call(step, t, for) \in Calls /\ Call(step, t, for).for = for /\ Call(step, t, for).step = step
  BY DEF Call, Calls
<1> QED
  BY <1>1, <1>2 DEF ShortcutInv, Callable

\* The idle main thread is at a call as well.
LEMMA NoCallIs == Callable(NoCall) /\ NoCall = Call("none", 0, "none") /\ NoCall.for = "none"
<1>1. "none" \in CallSteps /\ 0 \in Int
  BY DEF CallSteps
<1>2. NoCall \in Calls /\ NoCall.step = "none" /\ NoCall.for = "none"
  BY <1>1 DEF NoCall, Call, Calls
<1> QED
  BY <1>2 DEF NoCall, Callable

\* A step of a call keeps what it is for and its time.
LEMMA StepsIs ==
  ASSUME IInv, NEW from, NEW to \in CallSteps \ {"lower"}, Steps(from, to)
  PROVE  /\ Acts /\ Callable(call')
         /\ to = "none" => call'.for = "none"
         /\ to # "none" => call'.for = call.for /\ call'.at = call.at /\ call'.step = to
<1>1. call \in Calls
  BY DEF IInv, ComputedInv, Callable
<1>2. CASE to = "none"
  BY <1>2, NoCallIs DEF Steps
<1>3. CASE to # "none"
  <2> DEFINE c == [call EXCEPT !.step = to]
  <2>1. call' = c
    BY <1>3 DEF Steps
  <2>2. c \in Calls /\ c.for = call.for /\ c.at = call.at /\ c.step = to
    BY <1>1 DEF Calls
  <2>3. Callable(c)
    BY <2>2 DEF Callable
  <2> QED
    BY <1>3, <2>1, <2>2, <2>3 DEF Steps
<1> QED
  BY <1>2, <1>3

\* A step of a call that is not one of the shortcut's.
LEMMA OtherStep ==
  ASSUME IInv, NEW from,
         NEW to \in {"none", "unlock", "restore", "clear", "level", "save", "free", "bump",
                     "shortcut"},
         Steps(from, to)
  PROVE  Acts /\ Callable(call') /\ ShortcutInv'
<1>1. to \in CallSteps \ {"lower"}
  BY DEF CallSteps
<1>2. Acts /\ Callable(call') /\ (call'.for = "none" \/ call'.step = to)
  BY <1>1, StepsIs
<1> QED
  BY <1>2 DEF ShortcutInv

\* The names of the steps.
LEMMA StepNames ==
  {"none", "test", "start", "raise", "resume", "update", "limit", "shortcut", "bump",
   "cancel", "unlock", "restore", "clear", "load", "level", "save", "free"}
    \subseteq CallSteps \ {"lower"}
BY DEF CallSteps

\* A deadline or minutes are asked for.
LEMMA RequestStep ==
  ASSUME IInv, SetDeadline \/ AddTimeMinutes
  PROVE  IInv'
<1>1. UNCHANGED <<timerVars, b, thread>>
  BY DEF SetDeadline, AddTimeMinutes
<1>2. PICK t \in Int, for \in {"set", "add"} : Starts(Call("test", t, for))
  <2>1. CASE SetDeadline
    BY <2>1, SunsetAssumption DEF SetDeadline
  <2>2. CASE AddTimeMinutes
    <3>1. PICK m \in Minutes : Starts(Call("test", TimeAdded(m), "add"))
      BY <2>2 DEF AddTimeMinutes
    <3>2. m \in Int
      BY SunsetAssumption
    <3>3. TimeAdded(m) \in Int
      BY <3>2 DEF TimeAdded, Lower
    <3> QED
      BY <3>1, <3>3
  <2> QED
    BY <2>1, <2>2
<1>3. Acts /\ Callable(call') /\ ShortcutInv'
  BY <1>2, StartsIs, StepNames
<1> QED
  BY <1>1, <1>3, MainKeeps DEF Resumes, IInv, ComputedInv, timerVars

\* The rest of set_deadline(): the end is the time the call was made for.
LEMMA SetDeadlineSteps ==
  ASSUME IInv, TestEnabled \/ AssignEnd \/ RaiseAlert \/ ResumeThread \/ RestoreSaved
  PROVE  IInv'
<1>1. Callable(call) /\ left \in Int /\ Ramp \in Int
  BY SunsetAssumption DEF IInv, ComputedInv
<1>2. CASE TestEnabled
  <2>1. PICK to \in {"update", "start"} : Steps("test", to)
    BY <1>2 DEF TestEnabled
  <2>2. Acts /\ Callable(call') /\ call'.for = call.for /\ call'.at = call.at /\ call.step = "test"
    BY <2>1, StepsIs, StepNames DEF Steps
  <2>3. UNCHANGED <<timerVars, b, thread>>
    BY <1>2 DEF TestEnabled
  <2>4. ShortcutInv'
    BY <2>2, <2>3 DEF IInv, ShortcutInv, timerVars
  <2> QED
    BY <1>1, <2>2, <2>3, <2>4, MainKeeps DEF Resumes, IInv, timerVars
<1>3. CASE AssignEnd
  <2>1. PICK to \in {"raise", "limit"} : Steps("start", to) \/ Steps("update", to)
    BY <1>3 DEF AssignEnd
  <2>2. Acts /\ Callable(call') /\ call'.step = to
    BY <2>1, StepsIs, StepNames
  <2>3. left' = call.at /\ UNCHANGED <<b, thread>>
    BY <1>3 DEF AssignEnd
  <2>4. ShortcutInv'
    BY <2>1, <2>2 DEF ShortcutInv
  <2>5. left' \in Int
    BY <1>1, <2>3 DEF Calls, Callable
  <2> QED
    BY <2>2, <2>3, <2>4, <2>5, MainKeeps DEF Resumes, IInv
<1>4. CASE RaiseAlert
  <2>1. Acts /\ Callable(call') /\ call'.step = "resume"
    BY <1>4, StepsIs, StepNames DEF RaiseAlert
  <2>2. UNCHANGED <<left, b, thread>>
    BY <1>4 DEF RaiseAlert, ShowAlert
  <2>3. ShortcutInv'
    BY <2>1 DEF ShortcutInv
  <2> QED
    BY <1>1, <2>1, <2>2, <2>3, MainKeeps DEF Resumes, IInv
<1>5. CASE ResumeThread
  <2>1. Acts /\ Callable(call') /\ call'.step = "limit"
    BY <1>5, StepsIs, StepNames DEF ResumeThread
  <2>2. UNCHANGED <<left, b>> /\ Resumes
    BY <1>5 DEF ResumeThread, Resumes, timerVars
  <2>3. ShortcutInv'
    BY <2>1 DEF ShortcutInv
  <2> QED
    BY <1>1, <2>1, <2>2, <2>3, MainKeeps DEF IInv
<1>6. CASE RestoreSaved
  <2>1. Acts /\ Callable(call') /\ call'.for = "none"
    BY <1>6, StepsIs, StepNames DEF RestoreSaved
  <2>2. (b \in Brightnesses)'
    BY <1>6, LevelsAreNat, LimitUserKeeps DEF RestoreSaved, IInv
  <2>3. UNCHANGED <<left, thread>>
    BY <1>6 DEF RestoreSaved, LimitUser, timerVars
  <2>4. ShortcutInv'
    BY <2>1 DEF ShortcutInv
  <2> QED
    BY <1>1, <2>1, <2>2, <2>3, <2>4, MainKeeps DEF Resumes
<1> QED
  BY <1>2, <1>3, <1>4, <1>5, <1>6

\* shortcut_to_phaseout(): the time left was more than the ramp when it was tested.
LEMMA ShortcutStep ==
  ASSUME IInv, ShortcutToPhaseout
  PROVE  IInv'
<1>1. Acts /\ UNCHANGED <<timerVars, b, thread>>
  BY DEF ShortcutToPhaseout
<1>2. Ramp \in Int /\ left \in Int
  BY SunsetAssumption DEF IInv, ComputedInv
<1>3. CASE enabled /\ BeforePhaseout
  <2>1. call' = Call("test", Ramp, "shortcut")
    BY <1>3 DEF ShortcutToPhaseout
  <2>2. /\ Callable(Call("test", Ramp, "shortcut"))
        /\ Call("test", Ramp, "shortcut").at = Ramp
    BY <1>2, StepNames DEF Call, Calls, Callable
  <2>3. left >= Ramp
    BY <1>2, <1>3 DEF BeforePhaseout
  <2>4. ShortcutInv'
    BY <1>1, <2>1, <2>2, <2>3 DEF ShortcutInv, timerVars
  <2> QED
    BY <1>1, <1>2, <2>1, <2>2, <2>4, MainKeeps DEF Resumes, IInv, timerVars
<1>4. CASE ~(enabled /\ BeforePhaseout)
  <2>1. call' = NoCall
    BY <1>4 DEF ShortcutToPhaseout
  <2>2. Callable(call') /\ ShortcutInv'
    BY <2>1, NoCallIs DEF ShortcutInv
  <2> QED
    BY <1>1, <1>2, <2>2, MainKeeps DEF Resumes, IInv, timerVars
<1> QED
  BY <1>3, <1>4

\* bump_timer() adds minutes.
LEMMA BumpStep ==
  ASSUME IInv, BumpTimer
  PROVE  IInv'
<1>1. Acts /\ UNCHANGED <<timerVars, b, thread>>
  BY DEF BumpTimer
<1>2. Ramp \in Int /\ left \in Int
  BY SunsetAssumption DEF IInv, ComputedInv
<1>3. Callable(call') /\ ShortcutInv'
  <2> DEFINE added == TimeAdded(1 + ((Ramp \div 2) - MinutesLeft))
  <2>1. added \in Int
    <3>1. Ramp \div 2 \in Int /\ (left + 1) \div 2 \in Int
      BY <1>2
    <3> QED
      BY <3>1 DEF TimeAdded, Lower, MinutesLeft
  <2>2. call' = Call("test", added, "bump") \/ call' = NoCall
    BY DEF BumpTimer
  <2> HIDE DEF added
  <2>3. Callable(Call("test", added, "bump")) /\ Call("test", added, "bump").for = "bump"
    BY <2>1, StepNames DEF Call, Calls, Callable
  <2> QED
    BY <2>2, <2>3, NoCallIs DEF ShortcutInv
<1> QED
  BY <1>1, <1>2, <1>3, MainKeeps DEF Resumes, IInv, timerVars

\* cancel_timer(), from the exit of the output.
LEMMA ExitOutputStep ==
  ASSUME IInv, ExitOutput
  PROVE  IInv'
<1>1. thread' = thread
  BY DEF ExitOutput
<1>2. (b \in Brightnesses)' /\ left' \in Int
  <2>1. CASE LimitUser(b.max)
    <3>1. left' = left
      BY <2>1 DEF LimitUser, timerVars
    <3> QED
      BY <2>1, <3>1, LevelsAreNat, LimitUserKeeps DEF IInv, ComputedInv
  <2>2. CASE UNCHANGED b /\ left' \in {left, 0}
    BY <2>2 DEF IInv, ComputedInv
  <2> QED
    BY <2>1, <2>2 DEF ExitOutput, ReleaseTimer, SetControl, ShowAlert, timerVars
<1>3. Acts /\ Callable(call') /\ ShortcutInv'
  <2>1. CASE Starts(Call("cancel", 0, "cancel"))
    BY <2>1, StartsIs, StepNames
  <2>2. CASE \E from, to : to \in {"unlock", "restore", "clear", "none"} /\ Steps(from, to)
    BY <2>2, OtherStep
  <2> QED
    BY <2>1, <2>2 DEF ExitOutput
<1> QED
  BY <1>1, <1>2, <1>3, MainKeeps DEF Resumes

\* set_max_brightness() loads the user limit, which is a level.
LEMMA LoadUserStep ==
  ASSUME IInv, LoadUser
  PROVE  IInv'
<1> DEFINE c == Call("lower", b.user, call.for)
<1>1. call \in Calls /\ b.user \in Nat
  BY LevelsAreNat DEF IInv, ComputedInv, Callable
<1>2. "lower" \in CallSteps
  BY DEF CallSteps
<1>3. c \in Calls /\ c.step = "lower" /\ c.at = b.user
  BY <1>1, <1>2 DEF Call, Calls
<1>4. call' = c
  BY DEF LoadUser
<1> HIDE DEF c
<1>5. Acts /\ UNCHANGED <<left, b, thread>>
  BY DEF LoadUser, timerVars
<1>6. Callable(call') /\ ShortcutInv'
  BY <1>1, <1>3, <1>4 DEF Callable, ShortcutInv
<1> QED
  BY <1>5, <1>6, MainKeeps DEF Resumes, IInv, ComputedInv

\* The other calls of the main thread store levels.
LEMMA StoreCallsStep ==
  ASSUME IInv,
         \/ SetPowerOn \/ SaveLevel \/ FreeUser \/ HoldButton \/ ReleaseButton
         \/ SetLevelRemotely \/ LimitOnAlert \/ FreeLimit \/ LowerUser \/ RestoreLevel
  PROVE  IInv'
<1>1. UNCHANGED <<left, enabled, thread>>
  BY DEF SetPowerOn, SaveLevel, FreeUser, HoldButton, ReleaseButton, SetLevelRemotely,
         LimitOnAlert, FreeLimit, LowerUser, RestoreLevel, LimitUser, SetControl, timerVars
<1>2. Levels \subseteq Nat /\ AbsoluteMax \in Nat /\ b \in Brightnesses
  BY AbsoluteMaxAssumption DEF Levels, IInv
<1>3. b.max \in Levels /\ b.max \in Nat /\ b.saved \in Nat
  BY <1>2, LevelsAreNat
<1>4. (b \in Brightnesses)'
  <2>1. CASE SetPowerOn \/ ReleaseButton
    BY <1>2, <2>1 DEF SetPowerOn, ReleaseButton, SetControl
  <2>2. CASE SaveLevel
    <3>1. b' = StoreSaved(b)
      BY <2>2 DEF SaveLevel
    <3> QED
      BY <1>2, <1>3, <3>1, StoresKeep
  <2>3. CASE FreeUser
    BY <1>2, <1>3, <2>3, LimitUserKeeps DEF FreeUser
  <2>4. CASE HoldButton \/ SetLevelRemotely
    <3>1. PICK v \in Levels : b' = StoreLevel(b, v, b.max)
      BY <2>4 DEF HoldButton, SetLevelRemotely
    <3> QED
      BY <1>2, <1>3, <3>1, StoresKeep
  <2>5. CASE LimitOnAlert \/ FreeLimit
    <3>1. PICK v \in Nat : b' = StoreMax(b, v)
      BY <1>2, <2>5 DEF LimitOnAlert, FreeLimit
    <3> QED
      BY <1>2, <1>3, <3>1, StoresKeep
  <2>6. CASE LowerUser
    <3>1. call.step = "lower"
      BY <2>6 DEF LowerUser, Steps
    <3>2. call.at \in Nat
      BY <3>1 DEF IInv, ComputedInv, Callable
    <3> QED
      BY <1>2, <2>6, <3>2, LimitUserKeeps DEF LowerUser
  <2>7. CASE RestoreLevel
    <3>1. b' = StoreLevel(b, b.saved, b.max)
      BY <2>7 DEF RestoreLevel
    <3> QED
      BY <1>2, <1>3, <3>1, StoresKeep
  <2> QED
    BY <2>1, <2>2, <2>3, <2>4, <2>5, <2>6, <2>7
<1>5. Acts /\ Callable(call') /\ ShortcutInv'
  <2>1. CASE Starts(NoCall)
    <3>1. Starts(Call("none", 0, "none"))
      BY <2>1, NoCallIs
    <3> QED
      BY <3>1, StartsIs, StepNames
  <2>2. CASE \E for \in {"none", "bump"} : Starts(Call("save", 0, for))
    BY <2>2, StartsIs, StepNames
  <2>3. CASE \E for \in {"shortcut", "free"} : Starts(Call("load", 0, for))
    BY <2>3, StartsIs, StepNames
  <2>4. CASE \E from, to : /\ to \in {"none", "level", "save", "free", "bump", "shortcut"}
                         /\ Steps(from, to)
    BY <2>4, OtherStep
  <2> QED
    BY <2>1, <2>2, <2>3, <2>4
       DEF SetPowerOn, SaveLevel, FreeUser, HoldButton, ReleaseButton, SetLevelRemotely,
           LimitOnAlert, FreeLimit, LowerUser, RestoreLevel
<1>6. left' \in Int
  BY <1>1 DEF IInv, ComputedInv
<1> QED
  BY <1>1, <1>4, <1>5, <1>6, MainKeeps DEF Resumes

-----------------------------------------------------------------------------
(* The user thread and the time. *)

\* A user mode sets a level.
LEMMA UserThreadStep ==
  ASSUME IInv, UserThread
  PROVE  IInv'
<1>1. PICK v \in Levels : b' = StoreLevel(b, v, AbsoluteMax)
  BY DEF UserThread
<1>2. v \in Nat /\ AbsoluteMax \in Levels
  BY AbsoluteMaxAssumption DEF Levels
<1>3. (b \in Brightnesses)'
  BY <1>1, <1>2, StoresKeep DEF IInv
<1>4. UNCHANGED <<timerVars, thread, computed, call, quiet>>
  BY DEF UserThread
<1> QED
  BY <1>3, <1>4 DEF IInv, ComputedInv, HoldInv, EndInv, ShortcutInv, Due, timerVars

\* Time passes between the turns and the calls.
LEMMA TickStep ==
  ASSUME IInv, Tick
  PROVE  IInv'
<1>1. left' \in Int /\ call' = NoCall /\ UNCHANGED <<b, controls, thread, computed, quiet>>
  BY DEF Tick, TimeLeft, IInv, ComputedInv
<1>2. thread \in {"delay", "suspended"}
  BY DEF Tick
<1> QED
  BY <1>1, <1>2, NoCallIs DEF IInv, ComputedInv, HoldInv, EndInv, ShortcutInv

-----------------------------------------------------------------------------
(* The theorems. *)

\* The timer as it starts.
LEMMA InitIInv == Init => IInv
<1> SUFFICES ASSUME Init PROVE IInv
  OBVIOUS
<1>1. AbsoluteMax \in Levels
  BY AbsoluteMaxAssumption DEF Levels
<1>2. b \in Brightnesses
  BY <1>1 DEF Init, NewBrightness, Brightnesses
<1>3. ComputedInv /\ HoldInv /\ EndInv /\ ShortcutInv
  BY NoCallIs DEF Init, ComputedInv, HoldInv, EndInv, ShortcutInv
<1> QED
  BY <1>2, <1>3 DEF IInv

\* Every step keeps IInv.
LEMMA NextIInv == IInv /\ [Next]_vars => IInv'
<1> SUFFICES ASSUME IInv, [Next]_vars PROVE IInv'
  OBVIOUS
<1>1. CASE SunsetThread
  BY <1>1, BeginTurnStep, SignalProgressStep, ChooseBrightnessStep, LoadMaxStep, StoreLimitStep,
     EndTimerStep DEF SunsetThread
<1>2. CASE MainThread
  BY <1>2, RequestStep, SetDeadlineSteps, ShortcutStep, BumpStep, ExitOutputStep, LoadUserStep,
     StoreCallsStep DEF MainThread
<1>3. CASE UserThread \/ Tick
  BY <1>3, UserThreadStep, TickStep
<1>4. CASE UNCHANGED vars
  BY <1>4 DEF vars, timerVars, IInv, ComputedInv, HoldInv, EndInv, ShortcutInv, Due
<1> QED
  BY <1>1, <1>2, <1>3, <1>4 DEF Next

\* The inductive invariant holds in every reachable state.
THEOREM SpecIInv == Spec => []IInv
BY InitIInv, NextIInv, PTL DEF Spec

\* While the user holds the button the sunset thread changes the user limit only to
\* finish a turn during which the main thread acted, or because the time is over.
THEOREM SpecHoldKeepsBrightness == Spec => HoldKeepsBrightness
<1> DEFINE Kept == SunsetThread /\ b'.user # b.user /\ ~controls => quiet = 0 \/ Due
<1>1. IInv => Kept
  <2> SUFFICES ASSUME IInv, SunsetThread, b'.user # b.user, ~controls PROVE quiet = 0 \/ Due
    OBVIOUS
  <2>1. b' # b
    OBVIOUS
  <2>2. thread \in {"dim", "store", "zero"}
    BY <2>1 DEF SunsetThread, BeginTurn, TestRampDown, SuspendThisThread, SignalProgress,
                ChooseBrightness, LoadMax, StoreLimit, EndTimer, SetPowerOff, ReleaseTimer,
                SetControl, ShowAlert, Goes
  <2> QED
    BY <2>2 DEF IInv, HoldInv, EndInv, Due
<1>2. IInv /\ [Next]_vars => [Kept]_vars
  BY <1>1
<1> QED
  BY <1>2, SpecIInv, PTL DEF Spec, HoldKeepsBrightness

\* An alert never extends a timer, for every ramp and every deadline.
THEOREM SpecShortcutNeverExtends == Spec => ShortcutNeverExtends
<1>1. IInv => (call.for = "shortcut" /\ AssignEnd /\ enabled => left' <= left)
  <2> SUFFICES ASSUME IInv, call.for = "shortcut", AssignEnd, enabled
               PROVE  left' <= left
    OBVIOUS
  <2>1. call.step \in {"start", "update"} /\ left' = call.at
    BY DEF AssignEnd, Steps
  <2>2. call.at = Ramp /\ left >= Ramp
    BY <2>1 DEF IInv, ShortcutInv
  <2>3. left \in Int /\ Ramp \in Int
    BY SunsetAssumption DEF IInv, ComputedInv
  <2> QED
    BY <2>1, <2>2, <2>3
<1>2. IInv /\ [Next]_vars => [call.for = "shortcut" /\ AssignEnd /\ enabled => left' <= left]_vars
  BY <1>1
<1> QED
  BY <1>2, SpecIInv, PTL DEF Spec, ShortcutNeverExtends

-----------------------------------------------------------------------------
(* A phaseout that is left alone. *)

\* With less time left a turn chooses no higher brightness.
LEMMA ShareGrows ==
  ASSUME b \in Brightnesses, NEW p \in Nat, NEW q \in Nat, p <= q
  PROVE  LeftShare(p) <= LeftShare(q)
<1>1. b.saved \in Nat /\ Ramp \in Nat /\ Ramp > 0
  BY AbsoluteMaxAssumption, SunsetAssumption DEF Brightnesses, Levels
<1> DEFINE x == p * b.saved
           y == q * b.saved
<1>2. x \in Nat /\ y \in Nat /\ x <= y
  <2>1. \A s \in Nat : p * s \in Nat /\ q * s \in Nat /\ p * s <= q * s
    <3> SUFFICES ASSUME NEW s \in Nat PROVE p * s \in Nat /\ q * s \in Nat /\ p * s <= q * s
      OBVIOUS
    <3>1. q * s = p * s + (q - p) * s /\ q - p \in Nat
      OBVIOUS
    <3>2. p * s \in Nat /\ q * s \in Nat /\ (q - p) * s \in Nat
      BY <3>1
    <3> QED
      BY <3>1, <3>2
  <2> QED
    BY <1>1, <2>1
<1>3. LeftShare(p) = x \div Ramp /\ LeftShare(q) = y \div Ramp
  BY DEF LeftShare
<1> HIDE DEF x, y
<1>4. x \div Ramp <= y \div Ramp
  BY <1>1, <1>2
<1> QED
  BY <1>3, <1>4

\* Dimmed only needs the limits, the saved level and that no time is added.
LEMMA DimmedKeeps ==
  ASSUME IInv, Dimmed, left' \in Int, left' <= left,
         b'.user = b.user, b'.max = b.max, b'.saved = b.saved
  PROVE  Dimmed'
<1> SUFFICES ASSUME left' >= 0 PROVE Lower(LeftShare(left'), b.max) <= b.user
  BY DEF Dimmed, LeftShare
<1>1. left \in Nat /\ left' \in Nat /\ b \in Brightnesses
  BY DEF IInv, ComputedInv
<1>2. /\ LeftShare(left') <= LeftShare(left)
      /\ LeftShare(left') \in Nat /\ LeftShare(left) \in Nat
  BY <1>1, ShareGrows, ShareIsNat
<1>3. Lower(LeftShare(left), b.max) <= b.user /\ b.max \in Nat /\ b.user \in Nat
  BY <1>1, LevelsAreNat DEF Dimmed, IInv
<1> QED
  BY <1>2, <1>3 DEF Lower

\* The limits that a store of the level leaves alone.
LEMMA StoreLevelWrites ==
  ASSUME NEW x \in Brightnesses, NEW v, NEW limit
  PROVE  LET y == StoreLevel(x, v, limit)
         IN  y.user = x.user /\ y.max = x.max /\ y.saved = x.saved
BY DEF StoreLevel, Brightnesses

\* The limit the sunset thread stores.
LEMMA StoreLimitWrites ==
  ASSUME IInv, StoreLimit
  PROVE  b'.user = computed /\ b'.max = b.max /\ b'.saved = b.saved
<1>1. b' = StoreUser(b, computed, computed) /\ b \in Brightnesses /\ computed \in Nat
  BY DEF StoreLimit, IInv, ComputedInv
<1>2. Lower(computed, computed) = computed
  BY DEF Lower
<1> QED
  BY <1>1, <1>2, StoreUserWrites

\* A turn keeps Dimmed when it writes neither the timer nor the brightness.
LEMMA DimmedSame ==
  ASSUME UNCHANGED <<left, b>>
  PROVE  (Dimmed' <=> Dimmed) /\ LeftShare(left)' = LeftShare(left)
BY DEF Dimmed, LeftShare

LEMMA PhaseSunset ==
  ASSUME IInv, PhaseInv, SunsetThread
  PROVE  PhaseInv'
<1>0. left \in Int /\ Ramp \in Nat /\ computed \in Nat
  BY SunsetAssumption DEF IInv, ComputedInv
<1>1. CASE BeginTurn
  <2>1. UNCHANGED <<enabled, left, controls, b, computed, quiet>> /\ thread = "delay"
    BY <1>1 DEF BeginTurn, timerVars, Goes
  <2>2. thread' \in {"due", "suspend"}
    BY <1>1 DEF BeginTurn, Goes
  <2> QED
    BY <2>1, <2>2, DimmedSame DEF PhaseInv
<1>2. CASE TestRampDown
  <2>1. UNCHANGED <<enabled, left, controls, b, computed>> /\ thread = "due"
    BY <1>2 DEF TestRampDown, timerVars, Goes
  <2>2. /\ quiet' \in 0..2 /\ (quiet' = 2 => quiet >= 1)
        /\ quiet' >= 1 => left <= Ramp
    BY <1>0, <1>2 DEF TestRampDown, PhaseInv, Lower
  <2>3. /\ thread' = "delay" => left > Ramp
        /\ thread' \in {"delay", "progress"}
    BY <1>0, <1>2 DEF TestRampDown, Goes
  <2>4. quiet' >= 1 => thread' # "delay"
    BY <1>0, <2>2, <2>3
  <2> QED
    BY <2>1, <2>2, <2>3, <2>4, DimmedSame DEF PhaseInv
<1>3. CASE SuspendThisThread
  BY <1>3 DEF SuspendThisThread, Goes, timerVars, PhaseInv
<1>4. CASE SignalProgress
  <2>1. UNCHANGED <<enabled, left, controls, b, quiet>>
    BY <1>4 DEF SignalProgress, timerVars
  <2>2. CASE Due
    BY <1>4, <2>1, <2>2 DEF SignalProgress, Goes, PhaseInv
  <2>3. CASE ~Due
    <3>1. thread = "progress" /\ thread' = "control" /\ computed' = Lower(left, Ramp)
      BY <1>4, <2>3 DEF SignalProgress, Goes
    <3>2. enabled /\ left >= 0 /\ (quiet >= 1 => computed' = left)
      BY <1>0, <2>3, <3>1 DEF Due, PhaseInv, Lower
    <3> QED
      BY <2>1, <3>1, <3>2, DimmedSame DEF PhaseInv
  <2> QED
    BY <2>2, <2>3
<1>5. CASE ChooseBrightness
  <2>1. UNCHANGED <<enabled, left, controls, b, quiet>>
    BY <1>5 DEF ChooseBrightness, timerVars
  <2>2. \/ thread = "control" /\ thread' = "delay" /\ ~controls
        \/ thread = "control" /\ thread' = "share" /\ computed' = computed
        \/ thread = "share" /\ thread' = "cap" /\ computed' = LeftShare(computed)
    BY <1>5 DEF ChooseBrightness, Goes, MayDim
  <2>3. quiet >= 1 => left >= 0 /\ LeftShare(computed) = LeftShare(left)
    BY <2>2 DEF PhaseInv
  <2> QED
    BY <2>1, <2>2, <2>3, DimmedSame DEF PhaseInv
<1>6. CASE LoadMax
  <2>1. UNCHANGED <<enabled, left, controls, b, quiet>>
    BY <1>6 DEF LoadMax, timerVars
  <2>2. \/ thread = "cap" /\ thread' = "dim" /\ computed' = Lower(computed, b.max)
        \/ thread' \in {"recap", "store"}
    BY <1>6 DEF LoadMax, Goes
  <2>3. quiet >= 1 /\ thread = "cap" =>
          Lower(computed, b.max) = Lower(LeftShare(left), b.max)
    BY DEF PhaseInv
  <2>4. Lower(LeftShare(left), b.max)' = Lower(LeftShare(left), b.max)
    BY <2>1 DEF LeftShare, Lower
  <2> QED
    BY <2>1, <2>2, <2>3, <2>4, DimmedSame DEF PhaseInv
<1>7. CASE StoreLimit
  <2>1. /\ UNCHANGED <<enabled, left, quiet>>
        /\ \/ thread = "dim" /\ thread' = "delay"
           \/ thread = "store" /\ thread' = "clear"
    BY <1>7 DEF StoreLimit, Goes, timerVars
  <2>2. b'.user = computed /\ b'.max = b.max /\ b'.saved = b.saved
    BY <1>7, StoreLimitWrites
  <2>3. ASSUME quiet >= 1, thread = "dim" PROVE Dimmed'
    <3>1. computed = Lower(LeftShare(left), b.max)
      BY <2>3 DEF PhaseInv
    <3>2. Lower(LeftShare(left), b.max)' = Lower(LeftShare(left), b.max)
      BY <2>1, <2>2 DEF LeftShare, Lower
    <3>3. b'.user = Lower(LeftShare(left), b.max)'
      BY <2>2, <3>1, <3>2
    <3>4. Lower(LeftShare(left), b.max)' \in Int
      BY <1>0, <3>1, <3>2
    <3> QED
      BY <3>3, <3>4 DEF Dimmed
  <2> QED
    BY <2>1, <2>3 DEF PhaseInv
<1>8. CASE EndTimer
  <2>1. UNCHANGED quiet
    BY <1>8 DEF EndTimer
  <2>2. \/ thread' \in {"off", "cancel"} /\ UNCHANGED left
        \/ thread' = "unlock" /\ left' = 0
        \/ thread = "unlock" /\ thread' = "restore" /\ UNCHANGED left
        \/ thread = "clear" /\ thread' = "delay" /\ UNCHANGED <<enabled, left>>
    BY <1>8 DEF EndTimer, Goes, LimitUser, SetPowerOff, ReleaseTimer, SetControl, ShowAlert, timerVars
  <2>3. quiet >= 1 /\ thread = "clear" => ~enabled
    BY DEF IInv, EndInv
  <2> QED
    BY <1>0, <2>1, <2>2, <2>3 DEF PhaseInv
<1> QED
  BY <1>1, <1>2, <1>3, <1>4, <1>5, <1>6, <1>7, <1>8 DEF SunsetThread

LEMMA PhaseNext == IInv /\ PhaseInv /\ [Next]_vars => PhaseInv'
<1> SUFFICES ASSUME IInv, PhaseInv, [Next]_vars PROVE PhaseInv'
  OBVIOUS
<1>1. CASE MainThread
  <2>1. quiet' = 0
    BY <1>1 DEF MainThread, SetDeadline, AddTimeMinutes, TestEnabled, AssignEnd, RaiseAlert,
                ResumeThread, RestoreSaved, ShortcutToPhaseout, BumpTimer, ExitOutput,
                SetPowerOn, SaveLevel, FreeUser, HoldButton, ReleaseButton, SetLevelRemotely,
                LimitOnAlert, FreeLimit, LoadUser, LowerUser, RestoreLevel, Starts, Steps, Acts
  <2> QED
    BY <2>1 DEF PhaseInv
<1>2. CASE UserThread
  <2>1. b'.user = b.user /\ b'.max = b.max /\ b'.saved = b.saved
    BY <1>2, StoreLevelWrites DEF UserThread, IInv
  <2>2. UNCHANGED <<enabled, left, controls, thread, computed, quiet>>
    BY <1>2 DEF UserThread, timerVars
  <2>3. LeftShare(left)' = LeftShare(left) /\ (Dimmed' <=> Dimmed)
    BY <2>1, <2>2 DEF LeftShare, Dimmed
  <2>4. Lower(LeftShare(left), b.max)' = Lower(LeftShare(left), b.max)
    BY <2>1, <2>3 DEF Lower
  <2> QED
    BY <2>2, <2>3, <2>4 DEF PhaseInv
<1>3. CASE Tick
  <2>1. left' \in Int /\ left' <= left /\ left \in Int
    BY <1>3 DEF Tick, TimeLeft, IInv, ComputedInv
  <2>2. thread \in {"delay", "suspended"} /\ UNCHANGED <<enabled, controls, b, thread, quiet>>
    BY <1>3 DEF Tick
  <2>3. Dimmed => Dimmed'
    BY <2>1, <2>2, DimmedKeeps
  <2>4. Ramp \in Nat
    BY SunsetAssumption
  <2> QED
    BY <2>1, <2>2, <2>3, <2>4 DEF PhaseInv
<1>4. CASE UNCHANGED vars
  <2>1. UNCHANGED <<enabled, left, controls, b, thread, computed, quiet>>
    BY <1>4 DEF vars, timerVars
  <2>2. LeftShare(left)' = LeftShare(left) /\ (Dimmed' <=> Dimmed)
    BY <2>1 DEF LeftShare, Dimmed
  <2> QED
    BY <2>1, <2>2 DEF PhaseInv
<1> QED
  BY <1>1, <1>2, <1>3, <1>4, PhaseSunset DEF Next

\* A turn of a phaseout that is left alone finds what the one before left.
THEOREM SpecPhaseInv == Spec => []PhaseInv
<1>1. Init => PhaseInv
  BY DEF Init, PhaseInv
<1> QED
  BY <1>1, PhaseNext, SpecIInv, PTL DEF Spec

\* A phaseout that the main thread leaves alone only dims, for every ramp, every
\* deadline and every number of levels: the brightness chosen is rounded down, and
\* the division that rounds it keeps the order.
THEOREM SpecPhaseoutOnlyDims == Spec => PhaseoutOnlyDims
<1> DEFINE Dims == StoreLimit /\ thread = "dim" /\ quiet = 2 => b'.user <= b.user
<1>1. IInv /\ PhaseInv => Dims
  <2> SUFFICES ASSUME IInv, PhaseInv, StoreLimit, thread = "dim", quiet = 2
               PROVE  b'.user <= b.user
    OBVIOUS
  <2>1. b'.user = computed
    BY StoreLimitWrites
  <2>2. enabled /\ left >= 0 /\ computed = Lower(LeftShare(left), b.max) /\ controls
    BY DEF IInv, HoldInv, PhaseInv
  <2> QED
    BY <2>1, <2>2 DEF PhaseInv, Dimmed
<1>2. IInv /\ PhaseInv /\ [Next]_vars => [Dims]_vars
  BY <1>1
<1> QED
  BY <1>2, SpecIInv, SpecPhaseInv, PTL DEF Spec, PhaseoutOnlyDims
=============================================================================
