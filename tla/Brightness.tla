------------------------------ MODULE Brightness ------------------------------
(***************************************************************************)
(* The brightness of the lamp (src/src/system/logic/brightness_handle.cpp) *)
(* as operators on a record                                                *)
(*                                                                         *)
(*   max      MaxBrightnessLimit, lowered by alerts                        *)
(*   user     MaxUserBrightnessLimit, lowered by the sunset timer          *)
(*   level    BRIGHTNESS                                                   *)
(*   saved    savedBrightness, what is kept for the next start             *)
(*                                                                         *)
(* The levels are steps of the absolute maximum.  No call takes a lock: an *)
(* operator is one store, and a thread loads what it stores before.  The   *)
(* user callbacks and the time of the last update change none of it.       *)
(***************************************************************************)
EXTENDS Integers

CONSTANT AbsoluteMax  \* absoluteMaximumBrightness

ASSUME AbsoluteMaxAssumption == AbsoluteMax \in Nat \ {0}

Levels == 0..AbsoluteMax
Brightnesses == [max : Levels, user : Levels, level : Levels, saved : Levels]

Lower(a, b) == IF a <= b THEN a ELSE b

NewBrightness ==
  [max |-> AbsoluteMax, user |-> AbsoluteMax, level |-> AbsoluteMax, saved |-> AbsoluteMax]

\* set_max_user_brightness(), with the limit of the system that was loaded
StoreUser(b, v, limit) == [b EXCEPT !.user = Lower(v, limit)]

\* set_max_brightness(), before the user limit is set again
StoreMax(b, v) == [b EXCEPT !.max = Lower(v, AbsoluteMax)]

\* update_saved_brightness(), before the user limit is freed
StoreSaved(b) == [b EXCEPT !.saved = b.level]

\* update_brightness(), with the limit of the system that was loaded
StoreLevel(b, v, limit) == [b EXCEPT !.level = Lower(v, limit)]

=============================================================================
