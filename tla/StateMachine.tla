---------------------------- MODULE StateMachine ----------------------------
(***************************************************************************)
(* The state machine template shared by the power machine and the main     *)
(* behaviour machine (src/src/system/utils/state_machine.h).  A machine is *)
(* a record                                                                *)
(*                                                                         *)
(*   state        current                                                  *)
(*   age          time_ms() - stateSetTime, saturating at the bound the    *)
(*                caller gives to Aged                                     *)
(*   timed        isTimeoutSet                                             *)
(*   limit        timeout_ms - stateSetTime: the two are always assigned   *)
(*                together, so the deadline is kept relative to the age    *)
(*   after        afterTimeoutState                                        *)
(*   changed      didStateJustChanged                                      *)
(*                                                                         *)
(* lastState and changedWithTimeout only select the text of an error       *)
(* message (power_handler.cpp, handle_error_state) and are left out.       *)
(***************************************************************************)
EXTENDS Naturals

Machine(States, MaxAge, MaxLimit) ==
  [state : States, age : 0..MaxAge, timed : BOOLEAN, limit : 0..MaxLimit,
   after : States, changed : BOOLEAN]

\* StateMachine(s): a machine with no timeout armed.
NewMachine(s) ==
  [state |-> s, age |-> 0, timed |-> FALSE, limit |-> 0, after |-> s, changed |-> FALSE]

\* set_state(s, true).  afterTimeoutState keeps its old value.
ForceState(m, s) ==
  [m EXCEPT !.state = s, !.age = 0, !.timed = FALSE, !.limit = 0, !.changed = TRUE]

\* set_state(s): the current state again is ignored, and keeps its timeout.
SetState(m, s) == IF s = m.state THEN m ELSE ForceState(m, s)

\* Whether set_state(s, timeout, after) does anything.
AcceptsTimed(m, s, after) == ~m.timed \/ s # m.state \/ after # m.after

\* set_state(s, timeout, after).
SetStateFor(m, s, timeout, after) ==
  IF AcceptsTimed(m, s, after)
  THEN [ForceState(m, s) EXCEPT !.timed = TRUE, !.limit = timeout, !.after = after]
  ELSE m

TimedOut(m) == m.timed /\ m.age >= m.limit

\* run(): fall through to the state after the timeout once the deadline passed.
RunMachine(m) == IF TimedOut(m) THEN SetState(m, m.after) ELSE m

\* skip_timeout(): take the timeout's transition now.
SkipTimeout(m) == IF m.timed THEN SetState(m, m.after) ELSE m

\* state_just_changed(): the flag is reset by the read.
ReadChanged(m) == [m EXCEPT !.changed = FALSE]

\* One unit of time passes; the age saturates at cap.
Aged(m, cap) == [m EXCEPT !.age = IF @ < cap THEN @ + 1 ELSE @]

=============================================================================
