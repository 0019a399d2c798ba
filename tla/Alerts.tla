------------------------------- MODULE Alerts -------------------------------
(***************************************************************************)
(* The alerts of the lamp (src/src/system/logic/alerts.cpp).  A word holds *)
(* a bit per raised alert.  The main loop looks at every alert on each of  *)
(* its turns (update_alerts()), raises and clears those that follow a      *)
(* measure or a delay, and handles the others; what the lamp may do        *)
(* depends on the alerts that are handled, not on the bits.                *)
(*                                                                         *)
(* raise() and clear() test the bit, load the word and store it, with      *)
(* other threads and the USB fault interrupt in between.  The calls of the *)
(* main loop outside of update_alerts() are among those of "other".        *)
(*                                                                         *)
(* The unit of time is a turn of the main loop, Turn milliseconds long.    *)
(* The measures are read once per turn.  What update_brightness() and the  *)
(* sunset timer do when the limit is lowered is not part of this module,   *)
(* nor is what the indicator shows.                                        *)
(***************************************************************************)
EXTENDS Integers, Sequences

CONSTANTS
  Present,       \* the alerts of allAlerts[] that are looked at
  Turn,          \* milliseconds per turn of the main loop
  Temperatures,  \* "cool", "warm", "hot", "critical", or some of them
  Batteries      \* "charging", "ok", "low", "critical", "unknown", or some

ASSUME TurnAssumption == Turn \in Nat \ {0}

VARIABLES
  raised,     \* _current
  flag,       \* _isRaisedHandled ("raised"), _isLoweredHandled ("lowered")
  age,        \* turns since raisedTime, or Never when it is zero
  requested,  \* _request_shutdown
  limit,      \* MaxBrightnessLimit, in quarters of the absolute maximum
  measures,   \* what the measures of this turn say
  updating,   \* the main loop is in handle_all()
  todo,       \* the alerts update_alerts() has still to look at
  op,         \* the raise() or clear() each thread is in the middle of
  steady      \* the bits that did not change since this update started

vars ==
  <<raised, flag, age, requested, limit, measures, updating, todo, op, steady>>

AllAlerts == <<
  "SYSTEM_OFF_FAILED", "BATTERY_MISSING", "HARDWARE_ALERT", "TEMP_CRITICAL",
  "USB_PORT_SHORT", "SYSTEM_SLEEP_SKIPPED", "BATTERY_CRITICAL", "TEMP_TOO_HIGH",
  "BATTERY_READINGS_INCOHERENT", "BATTERY_LOW", "OTG_FAILED",
  "SYSTEM_IN_ERROR_STATE", "SYSTEM_IN_LOCKOUT", "LONG_LOOP_UPDATE",
  "BLUETOOTH_ADVERT", "FAVORITE_SET", "SUNSET_TIMER_ENABLED", "CHARGER_ERROR">>

ASSUME PresentAssumption ==
  Present \subseteq { AllAlerts[i] : i \in 1..Len(AllAlerts) }

Indices == 1..Len(AllAlerts)

\* The one of these alerts that comes first.
IsFirst(a, alerts) ==
  /\ a \in alerts
  /\ \E i \in Indices :
       AllAlerts[i] = a /\ \A j \in 1..(i - 1) : AllAlerts[j] \notin alerts

\* After which an alert is cleared by itself, in milliseconds.
ClearDelay ==
  [BATTERY_READINGS_INCOHERENT |-> 2000, BLUETOOTH_ADVERT |-> 2500,
   FAVORITE_SET |-> 1000, SYSTEM_OFF_FAILED |-> 2000,
   SYSTEM_SLEEP_SKIPPED |-> 3000, USB_PORT_SHORT |-> 5000]

\* alert_shutdown_timeout()
ShutdownTimeout == [BATTERY_CRITICAL |-> 2000, TEMP_CRITICAL |-> 5000]

FullLimit == 4

\* The limit on_raised() sets.
RaisedLimit == [BATTERY_LOW |-> 1, TEMP_TOO_HIGH |-> 2]

\* The alerts that prevent each use of the battery.
PreventsEverything ==
  {"BATTERY_READINGS_INCOHERENT", "BATTERY_MISSING", "TEMP_CRITICAL",
   "HARDWARE_ALERT", "SYSTEM_OFF_FAILED", "SYSTEM_IN_ERROR_STATE"}

Prevents ==
  [output |-> PreventsEverything \cup {"OTG_FAILED"},
   charge |-> PreventsEverything \cup {"USB_PORT_SHORT"},
   usb    |-> PreventsEverything \cup {"USB_PORT_SHORT"}]

\* Raised by update_alerts() alone, from a measure.
Measured == {"BATTERY_CRITICAL", "BATTERY_LOW", "TEMP_TOO_HIGH", "TEMP_CRITICAL"}

\* Cleared by other code than update_alerts().
ClearedElsewhere ==
  {"BLUETOOTH_ADVERT", "CHARGER_ERROR", "LONG_LOOP_UPDATE", "OTG_FAILED",
   "SUNSET_TIMER_ENABLED", "SYSTEM_IN_LOCKOUT"}

Threads == {"main", "other"}
Never == -1
MaxAge == (5000 \div Turn) + 1

\* A call that has tested the bit and not stored the word.  word is empty until
\* the word is loaded.
NoCall == [kind |-> "none", alert |-> "none", word |-> {}]
Call(kind, a) == [kind |-> kind, alert |-> a, word |-> {}]
Calls ==
  {NoCall} \cup [kind : {"raise", "clear"}, alert : Present,
                 word : {{}} \cup { {w} : w \in SUBSET Present }]

Init ==
  /\ raised = {}
  /\ flag = [a \in Present |-> "none"]
  /\ age = [a \in Present |-> Never]
  /\ requested = FALSE
  /\ limit = FullLimit
  /\ measures \in [temp : Temperatures, battery : Batteries]
  /\ updating = FALSE
  /\ todo = {}
  /\ op = [t \in Threads |-> NoCall]
  /\ steady = Present

-----------------------------------------------------------------------------
(* The word of raised alerts *)

SetRaised(word) ==
  /\ raised' = word
  /\ steady' = { a \in steady : a \in raised <=> a \in word }

LoadWord(t) ==
  /\ op[t] # NoCall
  /\ op[t].word = {}
  /\ op' = [op EXCEPT ![t].word = {raised}]
  /\ UNCHANGED <<raised, flag, age, requested, limit, measures, updating, todo, steady>>

\* _current |= type, _current ^= type
Stored(call, word) ==
  IF call.kind = "raise" \/ call.alert \notin word
  THEN word \cup {call.alert}
  ELSE word \ {call.alert}

StoreWord(t) ==
  /\ \E word \in op[t].word : SetRaised(Stored(op[t], word))
  /\ op' = [op EXCEPT ![t] = NoCall]
  /\ todo' = IF t = "main" THEN todo \ {op[t].alert} ELSE todo
  /\ UNCHANGED <<flag, age, requested, limit, measures, updating>>

-----------------------------------------------------------------------------
(* update_alerts() and handle_all() *)

Aged(n) == IF n = Never THEN n ELSE IF n < MaxAge THEN n + 1 ELSE n

StartUpdate ==
  /\ ~updating
  /\ updating' = TRUE
  /\ todo' = Present
  /\ age' = [a \in Present |-> Aged(age[a])]
  /\ measures' \in [temp : Temperatures, battery : Batteries]
  /\ steady' = Present
  /\ UNCHANGED <<raised, flag, requested, limit, op>>

\* update_alerts() looks at alert a.
Visits(a) ==
  /\ IsFirst(a, todo)
  /\ op["main"] = NoCall
  /\ UNCHANGED <<raised, measures, updating, steady>>

IsBatteryLevel(a) == a \in {"BATTERY_CRITICAL", "BATTERY_LOW"}

ShouldBeRaised(a) ==
  \/ a = "TEMP_CRITICAL" /\ measures.temp = "critical"
  \/ a = "TEMP_TOO_HIGH" /\ measures.temp \in {"hot", "critical"}
  \/ /\ IsBatteryLevel(a)
     /\ raised \cap {"BATTERY_MISSING", "BATTERY_READINGS_INCOHERENT"} = {}
     /\ measures.battery \in {"critical"} \cup (IF a = "BATTERY_LOW" THEN {"low"} ELSE {})

\* Mutant: no alert is cleared by a delay.
ShouldBeClearedByMeasure(a) ==
  \/ a = "TEMP_TOO_HIGH" /\ measures.temp = "cool"
  \/ /\ IsBatteryLevel(a)
     /\ \/ "BATTERY_READINGS_INCOHERENT" \in raised
        \/ measures.battery = "charging"

ShouldBeCleared(a) ==
  \/ /\ a \in DOMAIN ClearDelay
     /\ age[a] # Never
     /\ age[a] * Turn > ClearDelay[a]
  \/ a = "TEMP_TOO_HIGH" /\ measures.temp = "cool"
  \/ /\ IsBatteryLevel(a)
     /\ \/ "BATTERY_READINGS_INCOHERENT" \in raised
        \/ measures.battery = "charging"

\* manager.raise() and manager.clear(), up to the test of the bit.
CallFromUpdate(a) ==
  /\ Visits(a)
  /\ \/ /\ a \in raised
        /\ ShouldBeCleared(a)
        /\ op' = [op EXCEPT !["main"] = Call("clear", a)]
     \/ /\ a \notin raised
        /\ ShouldBeRaised(a)
        /\ op' = [op EXCEPT !["main"] = Call("raise", a)]
  /\ UNCHANGED <<flag, age, requested, limit, todo>>

\* is_in_charge_state() holds the shutdown of BATTERY_CRITICAL back.
ShouldShutdown(a, n, inChargeState) ==
  /\ a \in DOMAIN ShutdownTimeout
  /\ ~(a = "BATTERY_CRITICAL" /\ inChargeState)
  /\ n * Turn > ShutdownTimeout[a]

\* Mutant: the raise time is taken again on each turn.
RaisedAgeAgain(a) == 0

\* handle_raised_state() takes the time when the alert was not handled.
RaisedAge(a) == IF flag[a] = "raised" THEN age[a] ELSE 0

HandleRaised(a) ==
  /\ Visits(a)
  /\ a \in raised
  /\ ~ShouldBeCleared(a)
  /\ flag' = [flag EXCEPT ![a] = "raised"]
  /\ age' = [age EXCEPT ![a] = RaisedAge(a)]
  /\ limit' = IF flag[a] # "raised" /\ a \in DOMAIN RaisedLimit
              THEN RaisedLimit[a] ELSE limit
  /\ \E inChargeState \in BOOLEAN :
       requested' = (requested \/ ShouldShutdown(a, RaisedAge(a), inChargeState))
  /\ todo' = todo \ {a}
  /\ UNCHANGED op

\* Mutant: the handled flag of the raise is kept.
LoweredFlagKept(a) == IF flag[a] = "raised" THEN "raised" ELSE "lowered"

\* _isRaisedHandled and _isLoweredHandled once handle_lowered_state() ran.
LoweredFlag(a) == "lowered"

HandleLowered(a) ==
  /\ Visits(a)
  /\ a \notin raised
  /\ ~ShouldBeRaised(a)
  /\ flag' = [flag EXCEPT ![a] = LoweredFlag(a)]
  /\ age' = IF flag[a] = "lowered" THEN age ELSE [age EXCEPT ![a] = Never]
  /\ todo' = todo \ {a}
  /\ UNCHANGED <<requested, limit, op>>

\* The rest of handle_all().
FinishHandleAll ==
  /\ updating
  /\ todo = {}
  /\ updating' = FALSE
  /\ limit' = IF raised = {} THEN FullLimit ELSE limit
  /\ UNCHANGED <<raised, flag, age, requested, measures, todo, op, steady>>

MainLoop ==
  \/ StartUpdate
  \/ \E a \in Present : CallFromUpdate(a) \/ HandleRaised(a) \/ HandleLowered(a)
  \/ LoadWord("main")
  \/ StoreWord("main")
  \/ FinishHandleAll

-----------------------------------------------------------------------------
(* Other threads and the interrupt *)

\* raise() of an alert that is raised takes its time again.
UpdateRaiseTime(a) == a \in raised /\ age' = [age EXCEPT ![a] = 0]

OtherRaises(a) ==
  /\ op["other"] = NoCall
  /\ \/ UpdateRaiseTime(a) /\ UNCHANGED op
     \/ /\ a \notin raised
        /\ op' = [op EXCEPT !["other"] = Call("raise", a)]
        /\ UNCHANGED age
  /\ UNCHANGED <<raised, flag, requested, limit, measures, updating, todo, steady>>

OtherClears(a) ==
  /\ op["other"] = NoCall
  /\ a \in raised
  /\ op' = [op EXCEPT !["other"] = Call("clear", a)]
  /\ UNCHANGED <<raised, flag, age, requested, limit, measures, updating, todo, steady>>

FinishOtherCall == LoadWord("other") \/ StoreWord("other")

\* The callback of usbFault, which nothing interrupts.
UsbFault ==
  /\ "USB_PORT_SHORT" \in Present
  /\ \/ UpdateRaiseTime("USB_PORT_SHORT") /\ UNCHANGED <<raised, steady>>
     \/ /\ "USB_PORT_SHORT" \notin raised
        /\ SetRaised(raised \cup {"USB_PORT_SHORT"})
        /\ UNCHANGED age
  /\ UNCHANGED <<flag, requested, limit, measures, updating, todo, op>>

Others ==
  \/ \E a \in Present \ (Measured \cup {"USB_PORT_SHORT"}) : OtherRaises(a)
  \/ \E a \in Present \cap ClearedElsewhere : OtherClears(a)
  \/ FinishOtherCall
  \/ UsbFault

Next == MainLoop \/ Others

Spec == Init /\ [][Next]_vars

\* The main loop keeps running, and a call of another thread ends.
FairSpec == Spec /\ WF_vars(MainLoop) /\ WF_vars(FinishOtherCall)

-----------------------------------------------------------------------------
(* Properties *)

\* Mutant: only the alert that is shown is asked.
CanUseShown(use) ==
  \/ raised = {}
  \/ \A a \in Present \cap Prevents[use] : ~IsFirst(a, { b \in Present : flag[b] = "raised" })

\* can_use_output_power(), can_charge_battery(), can_use_usb_port()
CanUse(use) ==
  \/ raised = {}
  \/ \A a \in Present \cap Prevents[use] : flag[a] # "raised"

\* Every variable keeps its type, and the main loop is in the middle of a call
\* only for the alert it looks at.
TypeOK ==
  /\ raised \in SUBSET Present
  /\ flag \in [Present -> {"none", "raised", "lowered"}]
  /\ age \in [Present -> Never..MaxAge]
  /\ requested \in BOOLEAN
  /\ limit \in {1, 2, FullLimit}
  /\ measures \in [temp : Temperatures, battery : Batteries]
  /\ updating \in BOOLEAN
  /\ todo \in SUBSET Present
  /\ op \in [Threads -> Calls]
  /\ steady \in SUBSET Present
  /\ op["main"] # NoCall => op["main"].alert \in todo

\* Once a turn of the main loop ended, an alert that was raised through all of it
\* blocks what it prevents, whatever the other alerts, the lost updates of the
\* word and the earlier raises of the alert.
BlocksWhileRaised ==
  ~updating => \A use \in DOMAIN Prevents :
                steady \cap raised \cap Prevents[use] # {} => ~CanUse(use)

\* Once a turn ended through which the bits did not change, only a raised alert
\* blocks a use: an alert that was cleared leaves nothing behind.
FreesOnceCleared ==
  ~updating /\ steady = Present =>
    \A use \in DOMAIN Prevents : raised \cap Prevents[use] = {} => CanUse(use)

\* A temperature that stays critical makes the system shut down, once the other
\* threads leave the word alone: neither the handling of the alert nor a lost bit
\* starts the timeout over for ever.
HotStops ==
  <>[](measures.temp = "critical" /\ op["other"] = NoCall) => <>requested

\* An alert of the USB port that no fault raises again ends, even when another
\* thread stores an old word with its bit.
ShortEnds ==
  <>[][~UsbFault]_vars => []<>("USB_PORT_SHORT" \notin raised)
=============================================================================
