--------------------------- MODULE FavoritesProofs ---------------------------
(***************************************************************************)
(* What the user navigates, for every layout of the groups and number of   *)
(* favorites: everything shown and remembered exists, each group comes     *)
(* back as it was left, the page of the favorites shows its favorite, and  *)
(* the hidden groups stay hidden.                                          *)
(*                                                                         *)
(* A change of mode goes through states that are never shown: a group is   *)
(* entered at its remembered mode, left again for another one, and the     *)
(* favorite's ramp is put over the one the mode had.  Each of them saves   *)
(* what it leaves.  ModeOf and RampOf say what a manager remembers, the    *)
(* mode and ramp it shows included; Follows, that a manager remembers      *)
(* what another one did but for the mode it shows.  Every step shows a     *)
(* manager that follows the one before (Show), and the history is what     *)
(* the manager remembers (Recalls).                                        *)
(***************************************************************************)
EXTENDS Favorites, SequenceTheorems, TLAPS

Managers ==
    {m \in [active : Indexes, modes : [Groups -> Nat],
            ramps : [Groups -> UNION {[Modes(g) -> Ramps] : g \in Groups}]] :
        \A g \in Groups : m.modes[g] \in Modes(g) /\ m.ramps[g] \in [Modes(g) -> Ramps]}

\* What manager m comes back to in group g, and with what ramp in a mode of it.
ModeOf(m, g) == IF g = m.active.group THEN m.active.mode ELSE m.modes[g]
RampOf(m, g, i) ==
    IF g = m.active.group /\ i = m.active.mode THEN m.active.ramp ELSE m.ramps[g][i]

Follows(m, n) ==
    /\ n \in Managers
    /\ \A g \in Groups : g # n.active.group => ModeOf(n, g) = ModeOf(m, g)
    /\ \A g \in RampGroups : \A i \in Modes(g) :
          g # n.active.group \/ i # n.active.mode => RampOf(n, g, i) = RampOf(m, g, i)

Recalls ==
    /\ lastMode \in [Groups -> Nat] /\ DOMAIN lastRamp = Groups
    /\ \A g \in Groups : DOMAIN lastRamp[g] = Modes(g) /\ lastMode[g] = ModeOf(manager, g)
    /\ \A g \in RampGroups : \A i \in Modes(g) : lastRamp[g][i] = RampOf(manager, g, i)

\* The page is only left empty by a deletion that closes it, and no favorite is
\* set while it is open.
PageInv ==
    /\ inPage => count > 0 /\ pending = None
    /\ ShownIsFavorite

IInv == TypeOK /\ manager \in Managers /\ Recalls /\ PageInv

-----------------------------------------------------------------------------
(* The layout.                                                             *)

LEMMA LayoutSizes ==
  /\ nbGroupsTotal \in 1..15 /\ Groups = 0 .. nbGroupsTotal - 1 /\ Groups \subseteq 0..14
  /\ \A g \in Groups : /\ ModeCount[g + 1] \in 1..31 /\ Modes(g) = 0 .. ModeCount[g + 1] - 1
                       /\ 0 \in Modes(g) /\ Modes(g) \subseteq 0..30
                       /\ 0 \in RampsOf(g) /\ RampsOf(g) \subseteq Ramps
                       /\ g \in RampGroups => RampsOf(g) = Ramps
                       /\ Modes(g) \subseteq Modes(Bluetooth)
  /\ 0 \in Groups /\ Bluetooth \in Groups /\ Bluetooth >= Accessible
  /\ Accessible \in 1 .. nbGroupsTotal - 1
  /\ RampGroups \subseteq Groups /\ Ramps \subseteq Nat /\ 0 \in Ramps
<1>1. nbGroupsTotal \in 1..15 /\ Groups = 0 .. nbGroupsTotal - 1 /\ Accessible \in 1..nbGroupsTotal
  <2>1. nbGroupsTotal \in Nat
    BY Layout DEF nbGroupsTotal
  <2> QED
    BY <2>1, Layout DEF Groups
<1>2. Bluetooth \in Groups /\ Bluetooth >= Accessible
  BY Layout DEF Hidden
<1>3. \A g \in Groups : ModeCount[g + 1] \in 1..31 /\ Modes(g) = 0 .. ModeCount[g + 1] - 1
  <2> SUFFICES ASSUME NEW g \in Groups
               PROVE  ModeCount[g + 1] \in 1..31 /\ Modes(g) = 0 .. ModeCount[g + 1] - 1
    OBVIOUS
  <2>1. g + 1 \in 1 .. nbGroupsTotal
    BY <1>1
  <2>2. ModeCount[g + 1] \in Nat \ {0}
    BY <2>1, Layout DEF nbGroupsTotal
  <2>3. ModeCount[g + 1] <= 31
    BY Layout
  <2>4. Modes(g) = 0 .. ModeCount[g + 1] - 1
    BY DEF Modes
  <2>5. ModeCount[g + 1] \in 1..31
    BY <2>2, <2>3
  <2> QED
    BY <2>4, <2>5
<1>4. RampGroups \subseteq Groups /\ Ramps \subseteq Nat /\ 0 \in Ramps
  BY Layout
<1>5. \A g \in Groups : /\ 0 \in RampsOf(g) /\ RampsOf(g) \subseteq Ramps
                        /\ g \in RampGroups => RampsOf(g) = Ramps
  BY <1>4 DEF RampsOf
<1>6. \A g \in Groups : 0 \in Modes(g) /\ Modes(g) \subseteq 0..30 /\ Modes(g) \subseteq Modes(Bluetooth)
  <2> SUFFICES ASSUME NEW g \in Groups
               PROVE  0 \in Modes(g) /\ Modes(g) \subseteq 0..30 /\ Modes(g) \subseteq Modes(Bluetooth)
    OBVIOUS
  <2>1. ModeCount[g + 1] <= ModeCount[Bluetooth + 1]
    BY Layout
  <2>2. ASSUME NEW c \in 1..31, NEW d \in 1..31, c <= d
        PROVE  0 \in 0 .. c - 1 /\ 0 .. c - 1 \subseteq 0..30 /\ 0 .. c - 1 \subseteq 0 .. d - 1
    BY <2>2
  <2>3. ModeCount[g + 1] \in 1..31 /\ ModeCount[Bluetooth + 1] \in 1..31
    BY <1>2, <1>3
  <2>4. Modes(g) = 0 .. ModeCount[g + 1] - 1 /\ Modes(Bluetooth) = 0 .. ModeCount[Bluetooth + 1] - 1
    BY <1>2, <1>3
  <2> QED
    BY <2>1, <2>2, <2>3, <2>4
<1>7. 0 \in Groups /\ Groups \subseteq 0..14 /\ Accessible \in 1 .. nbGroupsTotal - 1
  BY <1>1, <1>2
<1> QED
  BY <1>1, <1>2, <1>3, <1>4, <1>5, <1>6, <1>7

\* The same without the sizes, which the provers do better without.
LEMMA LayoutFacts ==
  /\ Groups \subseteq 0..14 /\ Groups \subseteq Nat /\ 0 \in Groups /\ Bluetooth \in Groups
  /\ RampGroups \subseteq Groups /\ Ramps \subseteq Nat /\ 0 \in Ramps
  /\ \A g \in Groups : /\ 0 \in Modes(g) /\ Modes(g) \subseteq 0..30 /\ Modes(g) \subseteq Nat
                       /\ 0 \in RampsOf(g) /\ RampsOf(g) \subseteq Ramps
                       /\ g \in RampGroups => RampsOf(g) = Ramps
                       /\ Modes(g) \subseteq Modes(Bluetooth)
<1>1. Groups \subseteq 0..14 /\ \A g \in Groups : Modes(g) \subseteq 0..30
  BY LayoutSizes
<1>2. Groups \subseteq Nat /\ \A g \in Groups : Modes(g) \subseteq Nat
  BY <1>1
<1> QED
  BY <1>1, <1>2, LayoutSizes, Zenon

\* An index is a mode of a group, with a ramp of it.
LEMMA IndexFacts ==
  \A x : x \in Indexes <=> /\ x = [group |-> x.group, mode |-> x.mode, ramp |-> x.ramp]
                           /\ x.group \in Groups /\ x.mode \in Modes(x.group)
                           /\ x.ramp \in RampsOf(x.group)
BY DEF Indexes

LEMMA OriginIndex == Origin \in Indexes
BY IndexFacts, LayoutFacts DEF Origin

LEMMA ManagerFacts ==
  ASSUME NEW m \in Managers
  PROVE  /\ m = [active |-> m.active, modes |-> m.modes, ramps |-> m.ramps]
         /\ m.active \in Indexes /\ m.modes \in [Groups -> Nat] /\ DOMAIN m.ramps = Groups
         /\ \A g \in Groups : m.modes[g] \in Modes(g) /\ m.ramps[g] \in [Modes(g) -> Ramps]
BY DEF Managers

LEMMA MakeManager ==
  ASSUME NEW x \in Indexes, NEW modes \in [Groups -> Nat], NEW ramps, DOMAIN ramps = Groups,
         ramps = [g \in Groups |-> ramps[g]],
         \A g \in Groups : modes[g] \in Modes(g) /\ ramps[g] \in [Modes(g) -> Ramps]
  PROVE  [active |-> x, modes |-> modes, ramps |-> ramps] \in Managers
<1>1. ramps \in [Groups -> UNION {[Modes(g) -> Ramps] : g \in Groups}]
  OBVIOUS
<1> QED
  BY <1>1 DEF Managers


LEMMA WrappedFacts ==
  /\ \A g \in Groups : Wrapped(g, 255) = g
  /\ \A g \in Groups : \A i \in Modes(g) : Wrapped(i, 255) = i
<1>1. Groups \subseteq 0..14 /\ \A g \in Groups : Modes(g) \subseteq 0..30
  BY LayoutFacts
<1> QED
  BY <1>1 DEF Wrapped

-----------------------------------------------------------------------------
(* The calls of the manager.                                               *)

LEMMA FollowsItself == ASSUME NEW m \in Managers PROVE Follows(m, m)
BY DEF Follows

\* quit_mode() saves the ramp shown, and changes nothing else.
LEMMA QuitModeFacts ==
  ASSUME NEW m \in Managers
  PROVE  /\ QuitMode(m) \in Managers
         /\ QuitMode(m).active = m.active /\ QuitMode(m).modes = m.modes
         /\ \A g \in RampGroups : \A i \in Modes(g) : QuitMode(m).ramps[g][i] = RampOf(m, g, i)
<1> DEFINE a == m.active
<1>1. /\ m = [active |-> a, modes |-> m.modes, ramps |-> m.ramps]
      /\ a \in Indexes /\ a.group \in Groups /\ a.mode \in Modes(a.group)
      /\ a.ramp \in RampsOf(a.group)
      /\ m.modes \in [Groups -> Nat] /\ DOMAIN m.ramps = Groups
      /\ \A g \in Groups : m.modes[g] \in Modes(g) /\ m.ramps[g] \in [Modes(g) -> Ramps]
  BY ManagerFacts, IndexFacts
<1>2. CASE a.group \in RampGroups
  <2> DEFINE kept == [m.ramps EXCEPT ![a.group][a.mode] = a.ramp]
  <2>1. QuitMode(m) = [active |-> a, modes |-> m.modes, ramps |-> kept]
    BY <1>1, <1>2 DEF QuitMode
  <2>2. m.ramps = [g \in Groups |-> m.ramps[g]]
    BY DEF Managers
  <2>3. /\ DOMAIN kept = Groups /\ kept = [g \in Groups |-> kept[g]]
        /\ \A g \in Groups : kept[g] = IF g = a.group
                                       THEN [m.ramps[g] EXCEPT ![a.mode] = a.ramp]
                                       ELSE m.ramps[g]
    <3>1. kept = [m.ramps EXCEPT ![a.group] = [m.ramps[a.group] EXCEPT ![a.mode] = a.ramp]]
      OBVIOUS
    <3> HIDE DEF kept, a
    <3> QED
      BY <1>1, <2>2, <3>1
  <2>4. a.ramp \in Ramps
    BY <1>1, <1>2, LayoutFacts
  <2>5. \A g \in Groups : kept[g] \in [Modes(g) -> Ramps]
    BY <1>1, <2>3, <2>4
  <2>6. [active |-> a, modes |-> m.modes, ramps |-> kept] \in Managers
    <3> HIDE DEF kept, a
    <3> QED
      BY <1>1, <2>3, <2>5, MakeManager
  <2>7. \A g \in RampGroups : \A i \in Modes(g) : kept[g][i] = RampOf(m, g, i)
    BY <1>1, <2>3, LayoutFacts DEF RampOf
  <2> QED
    BY <2>1, <2>6, <2>7
<1>3. CASE a.group \notin RampGroups
  BY <1>3 DEF QuitMode, RampOf
<1> QED
  BY <1>2, <1>3

\* enter_mode() shows the mode with the ramp saved for it.
LEMMA EnterModeFacts ==
  ASSUME NEW m \in Managers, NEW g \in Groups, NEW i \in Modes(g)
  PROVE  /\ EnterMode(m, g, i) \in Managers
         /\ EnterMode(m, g, i).active.group = g /\ EnterMode(m, g, i).active.mode = i
         /\ EnterMode(m, g, i).modes = m.modes
         /\ \A h \in RampGroups : \A j \in Modes(h) :
               RampOf(EnterMode(m, g, i), h, j) = m.ramps[h][j]
<1> DEFINE x == [group |-> g, mode |-> i, ramp |-> IF g \in RampGroups THEN m.ramps[g][i] ELSE 0]
           n == [active |-> x, modes |-> m.modes, ramps |-> m.ramps]
<1>1. /\ m = [active |-> m.active, modes |-> m.modes, ramps |-> m.ramps]
      /\ m.modes \in [Groups -> Nat] /\ DOMAIN m.ramps = Groups
      /\ \A h \in Groups : m.modes[h] \in Modes(h) /\ m.ramps[h] \in [Modes(h) -> Ramps]
  BY ManagerFacts
<1>2. EnterMode(m, g, i) = n
  BY <1>1 DEF EnterMode
<1>3. x \in Indexes
  BY <1>1, IndexFacts, LayoutFacts
<1>4. m.ramps = [h \in Groups |-> m.ramps[h]]
  BY DEF Managers
<1>5. n \in Managers
  <2> HIDE DEF x
  <2> QED
    BY <1>1, <1>3, <1>4, MakeManager
<1>6. \A h \in RampGroups : \A j \in Modes(h) : RampOf(n, h, j) = m.ramps[h][j]
  BY DEF RampOf
<1> QED
  BY <1>2, <1>5, <1>6

\* set_active_group() remembers the group and mode it leaves, and comes back to
\* the mode it remembers in the group it enters.
LEMMA SetActiveGroupFacts ==
  ASSUME NEW m \in Managers, NEW value, NEW bound, Wrapped(value, bound) \in Groups
  PROVE  LET n == SetActiveGroup(m, value, bound)
         IN /\ n \in Managers /\ n.active.group = Wrapped(value, bound)
            /\ \A g \in Groups : ModeOf(n, g) = ModeOf(m, g)
            /\ \A g \in RampGroups : \A i \in Modes(g) : RampOf(n, g, i) = RampOf(m, g, i)
<1> DEFINE a == m.active
           kept == [m.modes EXCEPT ![a.group] = a.mode]
           left == [active |-> a, modes |-> kept, ramps |-> m.ramps]
           quit == QuitMode(left)
           g == Wrapped(value, bound)
           n == EnterMode(quit, g, quit.modes[g])
<1>1. /\ m = [active |-> a, modes |-> m.modes, ramps |-> m.ramps]
      /\ a \in Indexes /\ a.group \in Groups /\ a.mode \in Modes(a.group)
      /\ m.modes \in [Groups -> Nat] /\ DOMAIN m.ramps = Groups
      /\ \A h \in Groups : m.modes[h] \in Modes(h) /\ m.ramps[h] \in [Modes(h) -> Ramps]
  BY ManagerFacts, IndexFacts
<1>2. SetActiveGroup(m, value, bound) = n
  BY <1>1 DEF SetActiveGroup
<1>3. /\ kept \in [Groups -> Nat]
      /\ \A h \in Groups : kept[h] \in Modes(h) /\ kept[h] = ModeOf(m, h)
  <2>1. a.mode \in Nat
    BY <1>1, LayoutFacts
  <2> QED
    BY <1>1, <2>1 DEF ModeOf
<1>4. m.ramps = [h \in Groups |-> m.ramps[h]]
  BY DEF Managers
<1>5. left \in Managers
  <2> HIDE DEF kept, a
  <2> QED
    BY <1>1, <1>3, <1>4, MakeManager
<1>6. \A h \in RampGroups : \A i \in Modes(h) : RampOf(left, h, i) = RampOf(m, h, i)
  BY DEF RampOf
<1> HIDE DEF left, kept
<1>7. /\ quit \in Managers /\ quit.modes = kept
      /\ \A h \in RampGroups : \A i \in Modes(h) : quit.ramps[h][i] = RampOf(left, h, i)
  BY <1>5, QuitModeFacts DEF left
<1> HIDE DEF quit
<1>8. g \in Groups /\ quit.modes[g] \in Modes(g)
  BY <1>3, <1>7
<1>9. /\ n \in Managers /\ n.active.group = g /\ n.active.mode = kept[g] /\ n.modes = kept
      /\ \A h \in RampGroups : \A i \in Modes(h) : RampOf(n, h, i) = quit.ramps[h][i]
  BY <1>7, <1>8, EnterModeFacts
<1> HIDE DEF n, g
<1>10. \A h \in Groups : ModeOf(n, h) = ModeOf(m, h)
  BY <1>3, <1>9 DEF ModeOf
<1>11. \A h \in RampGroups : \A i \in Modes(h) : RampOf(n, h, i) = RampOf(m, h, i)
  BY <1>6, <1>7, <1>9
<1> QED
  BY <1>2, <1>9, <1>10, <1>11 DEF g

\* set_active_mode() goes to a mode of the same group.
LEMMA SetActiveModeFacts ==
  ASSUME NEW m \in Managers, NEW value, NEW bound, Wrapped(value, bound) \in Modes(m.active.group)
  PROVE  LET n == SetActiveMode(m, value, bound)
         IN /\ n \in Managers
            /\ n.active.group = m.active.group /\ n.active.mode = Wrapped(value, bound)
            /\ \A g \in Groups : g # n.active.group => ModeOf(n, g) = ModeOf(m, g)
            /\ \A g \in RampGroups : \A i \in Modes(g) : RampOf(n, g, i) = RampOf(m, g, i)
<1> DEFINE quit == QuitMode(m)
           n == EnterMode(quit, m.active.group, Wrapped(value, bound))
<1>1. m.active.group \in Groups
  BY ManagerFacts, IndexFacts
<1>2. /\ quit \in Managers /\ quit.active = m.active /\ quit.modes = m.modes
      /\ \A h \in RampGroups : \A i \in Modes(h) : quit.ramps[h][i] = RampOf(m, h, i)
  BY QuitModeFacts
<1> HIDE DEF quit
<1>3. /\ n \in Managers /\ n.active.group = m.active.group
      /\ n.active.mode = Wrapped(value, bound) /\ n.modes = m.modes
      /\ \A h \in RampGroups : \A i \in Modes(h) : RampOf(n, h, i) = quit.ramps[h][i]
  BY <1>1, <1>2, EnterModeFacts
<1>4. SetActiveMode(m, value, bound) = n
  BY DEF SetActiveMode, quit
<1> HIDE DEF n
<1> QED
  BY <1>2, <1>3, <1>4 DEF ModeOf

\* set_active_group() then set_active_mode(), to a group and mode that exist.
LEMMA GoToFacts ==
  ASSUME NEW m \in Managers, NEW g \in Groups, NEW i \in Modes(g)
  PROVE  /\ Follows(m, GoTo(m, g, i))
         /\ GoTo(m, g, i).active.group = g /\ GoTo(m, g, i).active.mode = i
<1> DEFINE entered == SetActiveGroup(m, g, 255)
           n == SetActiveMode(entered, i, 255)
<1>1. Wrapped(g, 255) = g /\ Wrapped(i, 255) = i
  BY WrappedFacts
<1>2. /\ entered \in Managers /\ entered.active.group = g
      /\ \A h \in Groups : ModeOf(entered, h) = ModeOf(m, h)
      /\ \A h \in RampGroups : \A j \in Modes(h) : RampOf(entered, h, j) = RampOf(m, h, j)
  BY <1>1, SetActiveGroupFacts
<1> HIDE DEF entered
<1>3. /\ n \in Managers /\ n.active.group = g /\ n.active.mode = i
      /\ \A h \in Groups : h # n.active.group => ModeOf(n, h) = ModeOf(entered, h)
      /\ \A h \in RampGroups : \A j \in Modes(h) : RampOf(n, h, j) = RampOf(entered, h, j)
  BY <1>1, <1>2, SetActiveModeFacts
<1>4. GoTo(m, g, i) = n
  BY DEF GoTo, entered
<1> HIDE DEF n
<1> QED
  BY <1>2, <1>3, <1>4 DEF Follows

\* The ramp shown is no part of what a manager remembers of other modes.
LEMMA AnyRamp ==
  ASSUME NEW m, NEW n, NEW x \in Indexes, Follows(m, n),
         x.group = n.active.group, x.mode = n.active.mode
  PROVE  Follows(m, [n EXCEPT !.active = x])
<1> DEFINE o == [active |-> x, modes |-> n.modes, ramps |-> n.ramps]
<1>1. /\ n = [active |-> n.active, modes |-> n.modes, ramps |-> n.ramps]
      /\ n.modes \in [Groups -> Nat] /\ DOMAIN n.ramps = Groups
      /\ \A g \in Groups : n.modes[g] \in Modes(g) /\ n.ramps[g] \in [Modes(g) -> Ramps]
  BY ManagerFacts DEF Follows
<1>2. n.ramps = [g \in Groups |-> n.ramps[g]]
  BY DEF Follows, Managers
<1>3. o \in Managers
  BY <1>1, <1>2, MakeManager
<1>4. [n EXCEPT !.active = x] = o
  BY <1>1
<1>5. /\ o.active = x
      /\ \A g \in Groups : g # x.group => ModeOf(o, g) = ModeOf(n, g)
      /\ \A g \in RampGroups : \A i \in Modes(g) :
            g # x.group \/ i # x.mode => RampOf(o, g, i) = RampOf(n, g, i)
  BY DEF ModeOf, RampOf
<1> HIDE DEF o
<1>6. Follows(m, o)
  BY <1>3, <1>5 DEF Follows
<1> QED
  BY <1>4, <1>6

LEMMA JumpToFacts ==
  ASSUME NEW m \in Managers, NEW x \in Indexes
  PROVE  Follows(m, JumpTo(m, x)) /\ JumpTo(m, x).active = x
<1> DEFINE n == GoTo(m, x.group, x.mode)
<1>1. Follows(m, n) /\ n.active.group = x.group /\ n.active.mode = x.mode
  BY IndexFacts, GoToFacts
<1>2. JumpTo(m, x) = [n EXCEPT !.active = x]
  BY DEF JumpTo
<1>3. n \in Managers
  BY <1>1 DEF Follows
<1> HIDE DEF n
<1>4. JumpTo(m, x).active = x
  BY <1>2, <1>3, ManagerFacts
<1> QED
  BY <1>1, <1>2, <1>4, AnyRamp

\* Entering a group at its remembered mode.
LEMMA SetActiveGroupFollows ==
  ASSUME NEW m \in Managers, NEW value, NEW bound, Wrapped(value, bound) \in Groups
  PROVE  /\ Follows(m, SetActiveGroup(m, value, bound))
         /\ SetActiveGroup(m, value, bound).active.group = Wrapped(value, bound)
BY SetActiveGroupFacts DEF Follows

LEMMA SetActiveModeFollows ==
  ASSUME NEW m \in Managers, NEW value, NEW bound, Wrapped(value, bound) \in Modes(m.active.group)
  PROVE  /\ Follows(m, SetActiveMode(m, value, bound))
         /\ SetActiveMode(m, value, bound).active.group = m.active.group
BY SetActiveModeFacts DEF Follows

\* A wrapped group or mode exists.
LEMMA WrappedGroup ==
  ASSUME NEW g \in Nat
  PROVE  Wrapped(g, Accessible) \in Groups /\ Wrapped(g, Accessible) \notin Hidden
<1>1. /\ nbGroupsTotal \in 1..15 /\ Groups = 0 .. nbGroupsTotal - 1
      /\ Accessible \in 1 .. nbGroupsTotal - 1
  BY LayoutSizes
<1> QED
  BY <1>1 DEF Wrapped, Hidden

LEMMA WrappedMode ==
  ASSUME NEW g \in Groups, NEW i \in Nat
  PROVE  Wrapped(i, ModeCount[g + 1]) \in Modes(g)
<1>1. ASSUME NEW c \in 1..31
      PROVE  Wrapped(i, c) \in 0 .. c - 1
  BY <1>1 DEF Wrapped
<1>2. ModeCount[g + 1] \in 1..31 /\ Modes(g) = 0 .. ModeCount[g + 1] - 1
  BY LayoutSizes
<1> QED
  BY <1>1, <1>2

LEMMA NextGroupFacts ==
  ASSUME NEW m \in Managers
  PROVE  Follows(m, NextGroup(m)) /\ NextGroup(m).active.group \notin Hidden
<1> DEFINE g == Wrapped(m.active.group, Accessible) + 1
<1>1. m.active.group \in Nat
  BY ManagerFacts, IndexFacts, LayoutFacts
<1>2. g \in Nat
  <2>1. Wrapped(m.active.group, Accessible) \in Nat
    BY <1>1, WrappedGroup, LayoutFacts
  <2> QED
    BY <2>1
<1>3. NextGroup(m) = SetActiveGroup(m, g, Accessible)
  BY DEF NextGroup
<1> HIDE DEF g
<1>4. Wrapped(g, Accessible) \in Groups /\ Wrapped(g, Accessible) \notin Hidden
  BY <1>2, WrappedGroup
<1> QED
  BY <1>3, <1>4, SetActiveGroupFollows

LEMMA NextModeFacts ==
  ASSUME NEW m \in Managers
  PROVE  Follows(m, NextMode(m)) /\ NextMode(m).active.group = m.active.group
<1>1. m.active.group \in Groups /\ m.active.mode \in Nat
  BY ManagerFacts, IndexFacts, LayoutFacts
<1>2. Wrapped(m.active.mode + 1, ModeCount[m.active.group + 1]) \in Modes(m.active.group)
  BY <1>1, WrappedMode
<1> QED
  BY <1>2, SetActiveModeFollows DEF NextMode

LEMMA ScrollFacts ==
  ASSUME NEW m \in Managers
  PROVE  /\ Follows(m, Scroll(m))
         /\ Scroll(m).active.group \notin Hidden \/ Scroll(m).active.group = m.active.group
<1>1. m.active.group \in Groups /\ m.active.group \in Nat /\ m.active.mode \in Nat
  BY ManagerFacts, IndexFacts, LayoutFacts
<1>2. CASE m.active.mode > 0
  <2>1. m.active.mode - 1 \in Nat
    BY <1>1, <1>2
  <2>2. Wrapped(m.active.mode - 1, ModeCount[m.active.group + 1]) \in Modes(m.active.group)
    BY <1>1, <2>1, WrappedMode
  <2> QED
    BY <1>2, <2>2, SetActiveModeFollows DEF Scroll
<1>3. CASE ~(m.active.mode > 0)
  <2> DEFINE g == IF m.active.group > 0 THEN m.active.group - 1 ELSE Accessible - 1
             entered == SetActiveGroup(m, g, Accessible)
             h == entered.active.group
             c == ModeCount[h + 1]
             n == SetActiveMode(entered, c - 1, c)
  <2>1. Scroll(m) = n
    BY <1>3 DEF Scroll
  <2>2. g \in Nat
    BY <1>1, LayoutSizes
  <2> HIDE DEF g
  <2>3. /\ entered \in Managers /\ h \in Groups /\ h \notin Hidden
        /\ \A k \in Groups : ModeOf(entered, k) = ModeOf(m, k)
        /\ \A k \in RampGroups : \A j \in Modes(k) : RampOf(entered, k, j) = RampOf(m, k, j)
    BY <2>2, WrappedGroup, SetActiveGroupFacts
  <2> HIDE DEF entered
  <2>4. c \in 1..31
    BY <2>3, LayoutSizes
  <2>5. c - 1 \in Nat
    BY <2>4
  <2>6. Wrapped(c - 1, c) \in Modes(h)
    BY <2>3, <2>5, WrappedMode
  <2>7. /\ n \in Managers /\ n.active.group = h
        /\ \A k \in Groups : k # n.active.group => ModeOf(n, k) = ModeOf(entered, k)
        /\ \A k \in RampGroups : \A j \in Modes(k) : RampOf(n, k, j) = RampOf(entered, k, j)
    BY <2>3, <2>6, SetActiveModeFacts
  <2> HIDE DEF n
  <2>8. Follows(m, n)
    BY <2>3, <2>7 DEF Follows
  <2> QED
    BY <2>1, <2>3, <2>7, <2>8
<1> QED
  BY <1>2, <1>3

-----------------------------------------------------------------------------
(* The invariant.                                                          *)

\* The mode shown is recorded, and what is remembered of the others is as it was.
LEMMA ShowRecalls ==
  ASSUME manager \in Managers, Recalls, NEW n, Follows(manager, n), Show(n)
  PROVE  manager' \in Managers /\ manager' = n /\ Recalls'
<1> DEFINE x == n.active
<1>1. n \in Managers /\ x.group \in Groups /\ x.mode \in Modes(x.group) /\ x.mode \in Nat
  BY ManagerFacts, IndexFacts, LayoutFacts DEF Follows
<1>2. /\ manager' = n
      /\ lastMode' = [lastMode EXCEPT ![x.group] = x.mode]
      /\ lastRamp' = [lastRamp EXCEPT ![x.group] = [lastRamp[x.group] EXCEPT ![x.mode] = x.ramp]]
  BY DEF Show
<1>3. /\ \A g \in Groups : g # x.group => ModeOf(n, g) = ModeOf(manager, g)
      /\ \A g \in RampGroups : \A i \in Modes(g) :
            g # x.group \/ i # x.mode => RampOf(n, g, i) = RampOf(manager, g, i)
  BY DEF Follows
<1>4. ModeOf(n, x.group) = x.mode /\ RampOf(n, x.group, x.mode) = x.ramp
  BY DEF ModeOf, RampOf
<1>5. /\ lastMode \in [Groups -> Nat] /\ DOMAIN lastRamp = Groups
      /\ \A g \in Groups : DOMAIN lastRamp[g] = Modes(g) /\ lastMode[g] = ModeOf(manager, g)
      /\ \A g \in RampGroups : \A i \in Modes(g) : lastRamp[g][i] = RampOf(manager, g, i)
      /\ RampGroups \subseteq Groups
  BY LayoutFacts DEF Recalls
<1> HIDE DEF x
<1>6. /\ lastMode' \in [Groups -> Nat]
      /\ \A g \in Groups : lastMode'[g] = ModeOf(n, g)
  BY <1>1, <1>2, <1>3, <1>4, <1>5
<1>7. /\ DOMAIN lastRamp' = Groups
      /\ \A g \in Groups : DOMAIN lastRamp'[g] = Modes(g)
      /\ \A g \in RampGroups : \A i \in Modes(g) : lastRamp'[g][i] = RampOf(n, g, i)
  BY <1>1, <1>2, <1>3, <1>4, <1>5
<1> QED
  BY <1>1, <1>2, <1>6, <1>7 DEF Recalls

\* jump_to_favorite() shows the favorite it steps to.
LEMMA JumpToFavoriteFacts ==
  ASSUME TypeOK, manager \in Managers, count > 0, NEW step \in Nat, JumpToFavorite(step)
  PROVE  /\ lastStep' \in 0 .. count - 1 /\ lastStep' \in 0 .. MaxFavorites
         /\ \E n : Follows(manager, n) /\ Show(n)
         /\ manager'.active = favorites[(lastStep' % count) + 1]
         /\ sped' = FALSE
<1>1. count \in Nat /\ count <= MaxFavorites /\ MaxFavorites \in Nat
  <2>1. favorites \in Seq(Indexes) /\ count <= MaxFavorites /\ MaxFavorites \in Nat
    BY Layout DEF TypeOK
  <2> QED
    BY <2>1 DEF count
<1>2. ASSUME NEW c \in Nat, c > 0, c <= MaxFavorites
      PROVE  /\ step % c \in 0 .. c - 1 /\ step % c \in 0 .. MaxFavorites
             /\ (step % c) % c = step % c /\ (step % c) + 1 \in 1 .. c
  BY <1>1, <1>2
<1> DEFINE x == favorites[(step % count) + 1]
<1>3. (step % count) + 1 \in 1 .. count
  BY <1>1, <1>2
<1>4. x \in Indexes
  <2>1. favorites \in Seq(Indexes)
    BY DEF TypeOK
  <2> QED
    BY <1>3, <2>1 DEF count
<1>5. /\ lastStep' = step % count /\ Show(JumpTo(manager, x)) /\ manager' = JumpTo(manager, x)
      /\ sped' = FALSE
  BY DEF JumpToFavorite, Show
<1>6. Follows(manager, JumpTo(manager, x)) /\ JumpTo(manager, x).active = x
  BY <1>4, JumpToFacts
<1> HIDE DEF x
<1>7. lastStep' % count = step % count
  BY <1>1, <1>2, <1>5
<1> QED
  BY <1>1, <1>2, <1>5, <1>6, <1>7 DEF x

\* The types but those of the manager.
FieldsOK ==
    /\ before \in Indexes /\ favorites \in Seq(Indexes) /\ count <= MaxFavorites
    /\ lastStep \in 0..MaxFavorites /\ pending \in 0..MaxFavorites
    /\ {inPage, scrolled, hold, inDelete, deleting, sped} \subseteq BOOLEAN

LEMMA TypeFields ==
  /\ TypeOK => FieldsOK
  /\ manager' \in Managers /\ FieldsOK' => TypeOK'
<1>1. TypeOK => FieldsOK
  BY DEF TypeOK, FieldsOK
<1>2. ASSUME manager' \in Managers, FieldsOK' PROVE TypeOK'
  <2>1. /\ manager'.active \in Indexes /\ DOMAIN manager'.modes = Groups
        /\ \A g \in Groups : manager'.modes[g] \in Modes(g)
    BY <1>2, ManagerFacts
  <2>2. manager'.ramps \in [Groups -> UNION {[Modes(g) -> Ramps] : g \in Groups}]
    BY <1>2 DEF Managers
  <2> QED
    BY <1>2, <2>1, <2>2 DEF FieldsOK, TypeOK, active
<1> QED
  BY <1>1, <1>2

LEMMA CountFacts ==
  ASSUME FieldsOK
  PROVE  count \in Nat /\ MaxFavorites \in Nat \ {0} /\ None \in 0..MaxFavorites
<1>1. favorites \in Seq(Indexes) /\ MaxFavorites \in Nat \ {0}
  BY Layout DEF FieldsOK
<1> QED
  BY <1>1 DEF count, None

LEMMA InitIInv == Init => IInv
<1> SUFFICES ASSUME Init  PROVE IInv
  OBVIOUS
<1>1. \A g \in Groups : /\ PerMode(0)[g] = [j \in Modes(g) |-> 0] /\ DOMAIN PerMode(0)[g] = Modes(g)
                        /\ \A i \in Modes(g) : PerMode(0)[g][i] = 0
  BY DEF PerMode
<1>2. PerMode(0) = [g \in Groups |-> PerMode(0)[g]] /\ DOMAIN PerMode(0) = Groups
  BY DEF PerMode
<1>3. \A g \in Groups : PerMode(0)[g] \in [Modes(g) -> Ramps]
  <2>1. 0 \in Ramps
    BY LayoutFacts
  <2>2. \A g \in Groups : [j \in Modes(g) |-> 0] \in [Modes(g) -> Ramps]
    BY <2>1
  <2> QED
    BY <1>1, <2>2
<1>4. /\ manager = [active |-> Origin, modes |-> [g \in Groups |-> 0], ramps |-> PerMode(0)]
      /\ lastMode = [g \in Groups |-> 0] /\ lastRamp = PerMode(0)
  BY DEF Init
<1>5. [g \in Groups |-> 0] \in [Groups -> Nat] /\ \A g \in Groups : [h \in Groups |-> 0][g] \in Modes(g)
  BY LayoutFacts
<1>6. manager \in Managers
  <2> DEFINE modes == [g \in Groups |-> 0]
             ramps == PerMode(0)
  <2>1. manager = [active |-> Origin, modes |-> modes, ramps |-> ramps]
    BY <1>4
  <2>2. /\ modes \in [Groups -> Nat] /\ DOMAIN ramps = Groups /\ ramps = [g \in Groups |-> ramps[g]]
        /\ \A g \in Groups : modes[g] \in Modes(g) /\ ramps[g] \in [Modes(g) -> Ramps]
    BY <1>2, <1>3, <1>5
  <2> HIDE DEF modes, ramps
  <2> QED
    BY <2>1, <2>2, OriginIndex, MakeManager
<1>7. Recalls
  <2>1. Origin.mode = 0 /\ Origin.ramp = 0
    BY DEF Origin
  <2>2. \A g \in Groups : DOMAIN lastRamp[g] = Modes(g) /\ lastMode[g] = ModeOf(manager, g)
    <3>1. \A g \in Groups : lastMode[g] = 0 /\ manager.modes[g] = 0
      <4>1. manager.modes = [g \in Groups |-> 0]
        BY <1>4
      <4> QED
        BY <1>4, <4>1
    <3>2. manager.active.mode = 0
      BY <1>4, <2>1
    <3>3. \A g \in Groups : DOMAIN lastRamp[g] = Modes(g)
      BY <1>1, <1>4
    <3> QED
      BY <3>1, <3>2, <3>3 DEF ModeOf
  <2>3. \A g \in RampGroups : \A i \in Modes(g) : lastRamp[g][i] = RampOf(manager, g, i)
    BY <1>1, <1>4, <2>1, LayoutFacts DEF RampOf
  <2> QED
    BY <1>2, <1>4, <1>5, <2>2, <2>3 DEF Recalls
<1>8. FieldsOK
  <2>1. <<>> \in Seq(Indexes) /\ Len(<<>>) = 0
    BY EmptySeq
  <2>2. MaxFavorites \in Nat
    BY Layout
  <2> QED
    <3>1. favorites = <<>> /\ count = 0
      BY <2>1 DEF Init, count
    <3>2. {inPage, scrolled, hold, inDelete, deleting, sped} \subseteq BOOLEAN
      BY DEF Init
    <3>3. before \in Indexes /\ lastStep = 0 /\ pending = MaxFavorites
      BY OriginIndex DEF Init, None
    <3> QED
      BY <2>1, <2>2, <3>1, <3>2, <3>3 DEF FieldsOK
<1>9. TypeOK
  <2>1. /\ manager.active \in Indexes /\ DOMAIN manager.modes = Groups
        /\ \A g \in Groups : manager.modes[g] \in Modes(g)
    BY <1>6, ManagerFacts
  <2>2. manager.ramps \in [Groups -> UNION {[Modes(g) -> Ramps] : g \in Groups}]
    BY <1>6 DEF Managers
  <2> QED
    BY <1>8, <2>1, <2>2 DEF FieldsOK, TypeOK, active
<1>10. PageInv
  BY DEF Init, PageInv, ShownIsFavorite
<1> QED
  BY <1>6, <1>7, <1>9, <1>10 DEF IInv

\* A step that shows a manager following the one before keeps what is about it.
LEMMA StepIInv ==
  ASSUME IInv, NEW n, Follows(manager, n), Show(n), FieldsOK', PageInv'
  PROVE  IInv'
<1>1. manager' \in Managers /\ Recalls'
  BY ShowRecalls DEF IInv
<1> QED
  BY <1>1, TypeFields DEF IInv

LEMMA JumpStep ==
  ASSUME IInv, count > 0, NEW step \in Nat, JumpToFavorite(step), favorites' = favorites,
         before' \in Indexes, pending' \in 0..MaxFavorites, pending' = None,
         {inPage', scrolled', hold', inDelete', deleting'} \subseteq BOOLEAN
  PROVE  IInv'
<1>1. TypeOK /\ manager \in Managers /\ FieldsOK
  BY TypeFields DEF IInv
<1>2. /\ lastStep' \in 0 .. MaxFavorites
      /\ manager'.active = favorites[(lastStep' % count) + 1]
      /\ sped' = FALSE
  BY <1>1, JumpToFavoriteFacts
<1>3. PICK n : Follows(manager, n) /\ Show(n)
  BY <1>1, JumpToFavoriteFacts
<1>4. count' = count
  BY DEF count
<1>5. FieldsOK'
  BY <1>1, <1>2, <1>4 DEF FieldsOK
<1>6. ShownIsFavorite'
  BY <1>2, <1>4 DEF ShownIsFavorite, active
<1>7. PageInv'
  BY <1>4, <1>6 DEF PageInv, None
<1> QED
  BY <1>3, <1>5, <1>7, StepIInv

\* A step that leaves the favorites alone and ends out of their page.
LEMMA OutOfPageStep ==
  ASSUME IInv, NEW n, Follows(manager, n), Show(n), favorites' = favorites, lastStep' = lastStep,
         inPage' = FALSE, before' \in Indexes, pending' \in 0..MaxFavorites,
         {scrolled', hold', inDelete', deleting', sped'} \subseteq BOOLEAN
  PROVE  IInv'
<1>1. FieldsOK
  BY TypeFields DEF IInv
<1>2. FieldsOK'
  BY <1>1 DEF FieldsOK, count
<1>3. PageInv'
  BY DEF PageInv, ShownIsFavorite
<1> QED
  BY <1>2, <1>3, StepIInv

\* A step that shows the same mode and leaves the favorites and their page alone.
LEMMA SameModeStep ==
  ASSUME IInv, Show(manager), UNCHANGED page, pending' \in 0..MaxFavorites,
         inPage => pending' = pending,
         {scrolled', hold', inDelete', deleting'} \subseteq BOOLEAN
  PROVE  IInv'
<1>1. FieldsOK /\ manager \in Managers /\ PageInv
  BY TypeFields DEF IInv
<1>2. /\ favorites' = favorites /\ lastStep' = lastStep /\ inPage' = inPage /\ before' = before
      /\ manager' = manager /\ sped' = sped
  BY DEF page, Show
<1>3. FieldsOK'
  BY <1>1, <1>2 DEF FieldsOK, count
<1>4. PageInv'
  BY <1>1, <1>2 DEF PageInv, ShownIsFavorite, count, active, None
<1>5. Follows(manager, manager)
  BY <1>1, FollowsItself
<1> QED
  BY <1>3, <1>4, <1>5, StepIInv

\* The fields that most steps need, spelled out.
LEMMA IInvFacts ==
  ASSUME IInv
  PROVE  /\ manager \in Managers /\ FieldsOK /\ PageInv /\ Recalls
         /\ active \in Indexes /\ active.group \in Groups /\ active.mode \in Modes(active.group)
         /\ [active EXCEPT !.ramp = 0] \in Indexes
         /\ before \in Indexes /\ favorites \in Seq(Indexes)
         /\ lastStep \in Nat /\ lastStep \in 0..MaxFavorites
         /\ pending \in 0..MaxFavorites /\ None \in 0..MaxFavorites
         /\ count \in Nat /\ MaxFavorites \in Nat \ {0}
         /\ inPage \in BOOLEAN /\ {scrolled, hold, inDelete, deleting, sped} \subseteq BOOLEAN
<1>1. manager \in Managers /\ FieldsOK /\ PageInv /\ Recalls
  BY TypeFields DEF IInv
<1>2. active \in Indexes
  BY <1>1, ManagerFacts DEF active
<1>3. active.group \in Groups /\ active.mode \in Modes(active.group)
      /\ active = [group |-> active.group, mode |-> active.mode, ramp |-> active.ramp]
  BY <1>2, IndexFacts
<1>4. [active EXCEPT !.ramp = 0] = [group |-> active.group, mode |-> active.mode, ramp |-> 0]
  BY <1>3
<1>5. [active EXCEPT !.ramp = 0] \in Indexes
  BY <1>3, <1>4, IndexFacts, LayoutFacts
<1>6. None \in 0..MaxFavorites /\ count \in Nat /\ MaxFavorites \in Nat \ {0}
  BY <1>1, CountFacts
<1> QED
  BY <1>1, <1>2, <1>3, <1>5, <1>6 DEF FieldsOK

LEMMA NextFavoriteStep == ASSUME IInv, NextFavorite  PROVE IInv'
<1>1. inPage /\ Free /\ UNCHANGED <<favorites, before, scrolled, counting>>
  BY DEF NextFavorite
<1>2. count > 0 /\ pending = None
  BY <1>1, IInvFacts DEF PageInv
<1>3. JumpToFavorite(lastStep + 1) /\ inPage' = TRUE
  BY <1>2 DEF NextFavorite
<1>4. lastStep + 1 \in Nat
  BY IInvFacts
<1> QED
  BY <1>1, <1>2, <1>3, <1>4, IInvFacts, JumpStep DEF counting

LEMMA ClicksStep ==
  ASSUME IInv, (\E recent \in BOOLEAN : TwoClicks(recent)) \/ ThreeClicks \/ LeavePage \/ SixClicks
  PROVE  IInv'
<1>1. manager \in Managers /\ before \in Indexes
  BY IInvFacts
<1>2. CASE \E recent \in BOOLEAN : TwoClicks(recent)
  <2>1. PICK n : Follows(manager, n) /\ Show(n)
    BY <1>1, <1>2, NextGroupFacts, NextModeFacts DEF TwoClicks
  <2> QED
    BY <1>2, <2>1, IInvFacts, OutOfPageStep DEF TwoClicks, page, counting
<1>3. CASE ThreeClicks
  <2>1. Follows(manager, NextGroup(manager)) /\ Show(NextGroup(manager))
    BY <1>1, <1>3, NextGroupFacts DEF ThreeClicks
  <2> QED
    BY <1>3, <2>1, IInvFacts, OutOfPageStep DEF ThreeClicks, page, counting
<1>4. CASE LeavePage
  <2>1. Follows(manager, GoTo(manager, before.group, before.mode))
    BY <1>1, IndexFacts, GoToFacts
  <2> QED
    BY <1>4, <2>1, IInvFacts, OutOfPageStep DEF LeavePage, counting
<1>5. CASE SixClicks
  <2>1. Follows(manager, GoTo(manager, 0, 0))
    BY <1>1, LayoutFacts, GoToFacts
  <2> QED
    BY <1>5, <2>1, IInvFacts, OutOfPageStep DEF SixClicks, counting
<1> QED
  BY <1>2, <1>3, <1>4, <1>5

LEMMA EnterPageStep == ASSUME IInv, EnterPage  PROVE IInv'
<1>1. /\ count > 0 /\ pending = None /\ JumpToFavorite(lastStep) /\ inPage' = TRUE
      /\ before' = [active EXCEPT !.ramp = 0] /\ UNCHANGED <<favorites, scrolled, counting>>
  BY DEF EnterPage, Free
<1> QED
  BY <1>1, IInvFacts, JumpStep DEF counting

\* The ramp of the mode shown can be changed to any of its group.
LEMMA RampFacts ==
  ASSUME IInv, NEW r \in RampsOf(active.group)
  PROVE  LET x == [active EXCEPT !.ramp = r]
         IN x \in Indexes /\ Follows(manager, [manager EXCEPT !.active = x])
<1> DEFINE x == [active EXCEPT !.ramp = r]
<1>1. active = [group |-> active.group, mode |-> active.mode, ramp |-> active.ramp]
  BY IInvFacts, IndexFacts
<1>2. x = [group |-> active.group, mode |-> active.mode, ramp |-> r]
  BY <1>1
<1>3. x \in Indexes /\ x.group = active.group /\ x.mode = active.mode
  BY <1>2, IInvFacts, IndexFacts
<1> HIDE DEF x
<1>4. Follows(manager, [manager EXCEPT !.active = x])
  BY <1>3, IInvFacts, FollowsItself, AnyRamp DEF active
<1> QED
  BY <1>3, <1>4 DEF x

\* The slot shown on the page is one of the favorites.
LEMMA FavoriteFacts ==
  ASSUME IInv, count > 0
  PROVE  favorites[(lastStep % count) + 1] \in Indexes
<1>1. favorites \in Seq(Indexes) /\ lastStep \in Nat /\ count \in Nat
  BY IInvFacts
<1>2. (lastStep % count) + 1 \in 1 .. count
  BY <1>1
<1> QED
  BY <1>1, <1>2 DEF count

LEMMA HoldsStep ==
  ASSUME IInv, \/ (\E r \in Ramps : RampTo(r)) \/ ScrollModes
               \/ (\E slot \in 0..MaxFavorites : PickFavorite(slot))
               \/ (\E saturated \in BOOLEAN : HoldDelete(saturated)) \/ EndOfHold
  PROVE  IInv'
<1>1. manager \in Managers
  BY IInvFacts
<1>2. ASSUME NEW r \in Ramps, RampTo(r) PROVE IInv'
  <2> DEFINE x == [active EXCEPT !.ramp = r]
             n == [manager EXCEPT !.active = x]
  <2>1. [manager EXCEPT !.active.ramp = r] = n
    BY DEF active
  <2>2. Follows(manager, n)
    BY <1>2, RampFacts DEF RampTo
  <2> HIDE DEF n
  <2> QED
    BY <1>2, <2>1, <2>2, IInvFacts, OutOfPageStep DEF RampTo, page, counting
<1>3. CASE ScrollModes
  <2>1. Follows(manager, Scroll(manager)) /\ Show(Scroll(manager))
    BY <1>1, <1>3, ScrollFacts DEF ScrollModes
  <2>2. scrolled' \in BOOLEAN
    BY <1>3 DEF ScrollModes
  <2> QED
    BY <1>3, <2>1, <2>2, IInvFacts, OutOfPageStep DEF ScrollModes, page, counting
<1>4. ASSUME NEW slot \in 0..MaxFavorites, PickFavorite(slot) PROVE IInv'
  BY <1>4, IInvFacts, SameModeStep DEF PickFavorite
<1>5. ASSUME NEW saturated \in BOOLEAN, HoldDelete(saturated) PROVE IInv'
  <2>1. {hold', inDelete', deleting'} \subseteq BOOLEAN
    BY <1>5, IInvFacts DEF HoldDelete
  <2> QED
    BY <1>5, <2>1, IInvFacts, SameModeStep DEF HoldDelete
<1>6. CASE EndOfHold
  BY <1>6, IInvFacts, SameModeStep DEF EndOfHold
<1> QED
  BY <1>2, <1>3, <1>4, <1>5, <1>6

LEMMA SetFavoriteStep == ASSUME IInv, SetFavorite  PROVE IInv'
<1>1. /\ manager \in Managers /\ active \in Indexes /\ favorites \in Seq(Indexes)
      /\ count \in Nat /\ MaxFavorites \in Nat /\ pending \in 0..MaxFavorites /\ count <= MaxFavorites
  BY IInvFacts DEF FieldsOK
<1>2. /\ pending # None /\ pending' = None /\ Show(manager)
      /\ UNCHANGED <<lastStep, inPage, before, sped, scrolled, hold, inDelete, deleting>>
  BY DEF SetFavorite
<1>3. inPage = FALSE
  BY <1>2, IInvFacts DEF PageInv
<1>4. favorites' \in Seq(Indexes) /\ Len(favorites') <= MaxFavorites
  <2>1. CASE pending = count
    <3>1. favorites' = Append(favorites, active)
      BY <1>1, <2>1 DEF SetFavorite
    <3>2. count + 1 <= MaxFavorites
      BY <1>1, <1>2, <2>1 DEF None
    <3>3. Append(favorites, active) \in Seq(Indexes) /\ Len(Append(favorites, active)) = count + 1
      BY <1>1, AppendProperties DEF count
    <3> QED
      BY <3>1, <3>2, <3>3
  <2>2. CASE pending < count
    <3>1. favorites' = [favorites EXCEPT ![pending + 1] = active]
      BY <1>1, <2>2 DEF SetFavorite
    <3>2. pending + 1 \in 1 .. Len(favorites)
      BY <1>1, <2>2 DEF count
    <3>3. favorites' \in Seq(Indexes) /\ Len(favorites') = count
      BY <1>1, <3>1, <3>2, ExceptSeq DEF count
    <3> QED
      BY <1>1, <3>3
  <2>3. CASE pending > count
    <3>1. favorites' = favorites
      BY <1>1, <2>3 DEF SetFavorite
    <3> QED
      BY <1>1, <3>1 DEF count
  <2> QED
    BY <1>1, <2>1, <2>2, <2>3
<1>5. FieldsOK'
  BY <1>2, <1>4, IInvFacts DEF FieldsOK, count
<1>6. PageInv'
  BY <1>2, <1>3 DEF PageInv, ShownIsFavorite
<1> QED
  BY <1>1, <1>2, <1>5, <1>6, FollowsItself, StepIInv

\* The slots left by a deletion are favorites that were there.
LEMMA DeletedFacts ==
  ASSUME favorites \in Seq(Indexes), count > 0
  PROVE  Deleted \in Seq(Indexes) /\ Len(Deleted) = count - 1
<1>1. count \in Nat
  BY DEF count
<1>2. \A i \in 1 .. count - 1 : favorites[IF i > lastStep THEN i + 1 ELSE i] \in Indexes
  <2> SUFFICES ASSUME NEW i \in 1 .. count - 1
               PROVE  favorites[IF i > lastStep THEN i + 1 ELSE i] \in Indexes
    OBVIOUS
  <2>1. i \in 1..Len(favorites) /\ i + 1 \in 1..Len(favorites)
    BY <1>1 DEF count
  <2> QED
    BY <2>1
<1>3. Deleted \in [1 .. count - 1 -> Indexes]
  BY <1>2 DEF Deleted
<1>4. count - 1 \in Nat
  BY <1>1
<1>5. Deleted \in Seq(Indexes)
  BY <1>3, <1>4, SeqDef
<1>6. Len(Deleted) \in Nat /\ 1 .. Len(Deleted) = 1 .. count - 1
  BY <1>3, <1>5, LenProperties
<1>7. ASSUME NEW a \in Nat, NEW b \in Nat, 1..a = 1..b  PROVE a = b
  BY <1>7
<1> QED
  BY <1>4, <1>5, <1>6, <1>7

LEMMA DeleteFavoriteStep == ASSUME IInv, DeleteFavorite  PROVE IInv'
<1>1. /\ manager \in Managers /\ favorites \in Seq(Indexes) /\ before \in Indexes
      /\ count \in Nat /\ MaxFavorites \in Nat /\ count <= MaxFavorites /\ lastStep \in Nat
  BY IInvFacts DEF FieldsOK
<1>2. deleting' = FALSE /\ UNCHANGED <<lastStep, before, scrolled, hold, inDelete, pending>>
  BY DEF DeleteFavorite
<1>3. CASE count = 0
  <2>1. inPage = FALSE
    BY <1>3, IInvFacts DEF PageInv
  <2>2. favorites' = favorites /\ inPage' = FALSE /\ Show(manager) /\ sped' = sped
    BY <1>3, <2>1 DEF DeleteFavorite
  <2> QED
    BY <1>1, <1>2, <2>2, IInvFacts, FollowsItself, OutOfPageStep
<1>4. CASE count = 1
  <2> DEFINE n == GoTo(manager, before.group, before.mode)
  <2>1. favorites' = Deleted /\ inPage' = FALSE /\ Show(n) /\ sped' = sped
    BY <1>4 DEF DeleteFavorite
  <2>2. Follows(manager, n)
    BY <1>1, IndexFacts, GoToFacts
  <2>3. favorites' \in Seq(Indexes) /\ Len(favorites') = 0
    BY <1>1, <1>4, <2>1, DeletedFacts
  <2> HIDE DEF n
  <2>4. FieldsOK'
    <3>1. {inPage', scrolled', hold', inDelete', deleting', sped'} \subseteq BOOLEAN
      BY <1>2, <2>1, IInvFacts
    <3>2. count' <= MaxFavorites
      BY <1>1, <2>3 DEF count
    <3> QED
      BY <1>2, <2>3, <3>1, <3>2, IInvFacts DEF FieldsOK
  <2>5. PageInv'
    BY <2>1 DEF PageInv, ShownIsFavorite
  <2> QED
    BY <2>1, <2>2, <2>4, <2>5, StepIInv
<1>5. CASE count > 1
  <2> DEFINE x == Deleted[(lastStep % (count - 1)) + 1]
             n == JumpTo(manager, x)
  <2>1. favorites' = Deleted /\ inPage' = inPage /\ Show(n) /\ manager' = n /\ sped' = FALSE
    BY <1>1, <1>5 DEF DeleteFavorite, Show
  <2>2. Deleted \in Seq(Indexes) /\ Len(Deleted) = count - 1
    BY <1>1, <1>5, DeletedFacts
  <2>3. (lastStep % (count - 1)) + 1 \in 1 .. Len(Deleted)
    BY <1>1, <1>5, <2>2
  <2>4. x \in Indexes
    BY <2>2, <2>3
  <2>5. Follows(manager, n) /\ n.active = x
    BY <1>1, <2>4, JumpToFacts
  <2>6. count' = count - 1
    BY <2>1, <2>2 DEF count
  <2> HIDE DEF n
  <2>7. FieldsOK'
    <3>1. {inPage', scrolled', hold', inDelete', deleting', sped'} \subseteq BOOLEAN
      BY <1>2, <2>1, IInvFacts
    <3>2. count' <= MaxFavorites
      BY <1>1, <2>6
    <3> QED
      BY <1>2, <2>1, <2>2, <3>1, <3>2, IInvFacts DEF FieldsOK
  <2>8. ShownIsFavorite'
    BY <1>2, <2>1, <2>5, <2>6 DEF ShownIsFavorite, active
  <2>9. count' > 0
    BY <1>1, <1>5, <2>6
  <2>10. PageInv'
    BY <1>2, <2>1, <2>8, <2>9, IInvFacts DEF PageInv, None
  <2> QED
    BY <2>1, <2>5, <2>7, <2>10, StepIInv
<1> QED
  BY <1>1, <1>3, <1>4, <1>5

LEMMA SelectPatternStep ==
  ASSUME IInv, NEW pattern \in Modes(active.group), SelectPattern(pattern)
  PROVE  IInv'
<1> DEFINE n == GoTo(manager, Bluetooth, pattern)
<1>1. /\ Show(n) /\ manager' = n /\ favorites' = favorites /\ lastStep' = lastStep
      /\ inPage' = inPage /\ before' = before /\ UNCHANGED <<sped, scrolled, counting>>
  BY DEF SelectPattern, Show, page
<1>2. pattern \in Modes(Bluetooth) /\ Bluetooth \in Groups
  BY IInvFacts, LayoutFacts
<1>3. Follows(manager, n) /\ n.active.group = Bluetooth
  BY <1>2, IInvFacts, GoToFacts
<1> HIDE DEF n
<1>4. FieldsOK'
  BY <1>1, IInvFacts DEF FieldsOK, count, counting
<1>5. PageInv'
  BY <1>1, <1>3, IInvFacts DEF PageInv, ShownIsFavorite, active, count, counting, None
<1> QED
  BY <1>1, <1>3, <1>4, <1>5, StepIInv

LEMMA StartStep == ASSUME IInv, PowerOn \/ Restart  PROVE IInv'
<1>1. /\ Started /\ favorites' = favorites /\ inPage' = inPage /\ before' \in Indexes
      /\ pending' \in 0..MaxFavorites /\ (inPage => pending' = None)
      /\ {scrolled', hold', inDelete', deleting'} \subseteq BOOLEAN
  <2>1. CASE PowerOn
    <3>1. /\ Started /\ favorites' = favorites /\ inPage' = inPage /\ before' = before
          /\ scrolled' = scrolled /\ hold' = hold /\ inDelete' = inDelete
          /\ pending' = pending /\ deleting' = deleting
      BY <2>1 DEF PowerOn, counting
    <3>2. inPage => pending = None
      BY IInvFacts DEF PageInv
    <3> QED
      BY <3>1, <3>2, IInvFacts
  <2>2. CASE Restart
    BY <2>2, IInvFacts, OriginIndex DEF Restart
  <2> QED
    BY <2>1, <2>2
<1>2. CASE inPage
  <2>1. count > 0 /\ JumpToFavorite(lastStep)
    BY <1>1, <1>2, IInvFacts DEF PageInv, Started
  <2> QED
    <3>1. {inPage', scrolled', hold', inDelete', deleting'} \subseteq BOOLEAN
      BY <1>1, IInvFacts
    <3>2. lastStep \in Nat /\ pending' = None
      BY <1>1, <1>2, IInvFacts
    <3> QED
      BY <1>1, <2>1, <3>1, <3>2, JumpStep
<1>3. CASE ~inPage
  <2> DEFINE n == SetActiveGroup(manager, active.group, 255)
  <2>1. Show(n) /\ lastStep' = lastStep /\ sped' = sped
    BY <1>1, <1>3 DEF Started
  <2>2. Follows(manager, n)
    BY IInvFacts, WrappedFacts, SetActiveGroupFollows
  <2> HIDE DEF n
  <2>3. inPage' = FALSE
    BY <1>1, <1>3, IInvFacts
  <2> QED
    BY <1>1, <2>1, <2>2, <2>3, IInvFacts, OutOfPageStep
<1> QED
  BY <1>2, <1>3

LEMMA SpeedCommandStep ==
  ASSUME IInv, NEW r \in Ramps, SpeedCommand(r)
  PROVE  IInv'
<1> DEFINE x == [active EXCEPT !.ramp = r]
           n == [manager EXCEPT !.active = x]
<1>1. x \in Indexes /\ Follows(manager, n)
  BY RampFacts DEF SpeedCommand
<1>2. n.active = x
  BY IInvFacts, ManagerFacts
<1>3. [manager EXCEPT !.active.ramp = r] = n
  BY DEF active
<1> HIDE DEF n, x
<1>4. /\ Show(n) /\ manager' = n /\ favorites' = favorites /\ lastStep' = lastStep
      /\ inPage' = inPage /\ before' = before /\ sped' = TRUE /\ UNCHANGED <<scrolled, counting>>
  BY <1>3 DEF SpeedCommand, Show
<1>5. FieldsOK'
  BY <1>4, IInvFacts DEF FieldsOK, count, counting
<1>6. ShownIsFavorite'
  <2> SUFFICES ASSUME inPage, count > 0, x.group # Bluetooth
               PROVE  x = [favorites[(lastStep % count) + 1] EXCEPT !.ramp = x.ramp]
    BY <1>2, <1>4 DEF ShownIsFavorite, active, count
  <2>1. /\ active = [group |-> active.group, mode |-> active.mode, ramp |-> active.ramp]
        /\ x = [group |-> active.group, mode |-> active.mode, ramp |-> r]
    BY IInvFacts, IndexFacts DEF x
  <2>2. \/ active = favorites[(lastStep % count) + 1]
        \/ active = [favorites[(lastStep % count) + 1] EXCEPT !.ramp = active.ramp]
    BY <2>1, IInvFacts DEF PageInv, ShownIsFavorite
  <2>3. favorites[(lastStep % count) + 1] \in Indexes
    BY FavoriteFacts
  <2>4. favorites[(lastStep % count) + 1] =
           [group |-> active.group, mode |-> active.mode,
            ramp |-> favorites[(lastStep % count) + 1].ramp]
    BY <2>1, <2>2, <2>3, IndexFacts
  <2> QED
    BY <2>1, <2>4
<1>7. PageInv'
  BY <1>4, <1>6, IInvFacts DEF PageInv, counting, count, None
<1> QED
  BY <1>1, <1>4, <1>5, <1>7, StepIInv

LEMMA NextIInv == IInv /\ [Next]_vars => IInv'
<1> SUFFICES ASSUME IInv, [Next]_vars  PROVE IInv'
  OBVIOUS
<1>1. CASE Next
  BY <1>1, NextFavoriteStep, ClicksStep, EnterPageStep, HoldsStep, SetFavoriteStep,
     DeleteFavoriteStep, SelectPatternStep, SpeedCommandStep, StartStep DEF Next
<1>2. CASE UNCHANGED vars
  BY <1>2 DEF vars, page, counting, IInv, TypeOK, Recalls, ModeOf, RampOf, PageInv,
              ShownIsFavorite, active, count
<1> QED
  BY <1>1, <1>2

-----------------------------------------------------------------------------
(* The theorems.                                                           *)

\* IInv holds in every reachable state.
THEOREM SpecIInv == Spec => []IInv
BY InitIInv, NextIInv, PTL DEF Spec

\* The mode shown, those remembered and the favorites exist, for every layout.
THEOREM SpecTypeOK == Spec => []TypeOK
<1>1. IInv => TypeOK
  BY DEF IInv
<1> QED
  BY <1>1, SpecIInv, PTL

\* Each group the user comes back to shows the mode last shown there, with the
\* ramp it had, whatever favorites, Bluetooth commands and starts came between.
THEOREM SpecRemembered == Spec => []Remembered
<1>1. IInv => Remembered
  <2> SUFFICES ASSUME IInv  PROVE Remembered
    OBVIOUS
  <2>1. /\ \A g \in Groups : lastMode[g] = ModeOf(manager, g)
        /\ \A g \in RampGroups : \A i \in Modes(g) : lastRamp[g][i] = RampOf(manager, g, i)
    BY DEF IInv, Recalls
  <2> QED
    BY <2>1 DEF Remembered, ModeOf, RampOf, active
<1> QED
  BY <1>1, SpecIInv, PTL

\* On the page of the favorites the lamp shows the favorite of lastFavoriteStep.
THEOREM SpecShownIsFavorite == Spec => []ShownIsFavorite
<1>1. IInv => ShownIsFavorite
  BY DEF IInv, PageInv
<1> QED
  BY <1>1, SpecIInv, PTL

\* The clicks and scrolls outside of the page never enter a hidden group.
THEOREM SpecHiddenOnRequest == Spec => HiddenOnRequest
<1>1. ASSUME IInv, Navigation
      PROVE  active'.group \notin Hidden \/ active'.group = active.group
  <2>1. manager \in Managers
    BY <1>1 DEF IInv
  <2>2. CASE \E recent \in BOOLEAN : TwoClicks(recent)
    BY <2>1, <2>2, NextGroupFacts, NextModeFacts DEF TwoClicks, Show, active
  <2>3. CASE ThreeClicks
    BY <2>1, <2>3, NextGroupFacts DEF ThreeClicks, Show, active
  <2>4. CASE ScrollModes
    BY <2>1, <2>4, ScrollFacts DEF ScrollModes, Show, active
  <2> QED
    BY <1>1, <2>2, <2>3, <2>4 DEF Navigation
<1>2. IInv /\ [Next]_vars
        => [Navigation => active'.group \notin Hidden \/ active'.group = active.group]_vars
  BY <1>1
<1> QED
  BY <1>2, SpecIInv, PTL DEF Spec, HiddenOnRequest

=============================================================================
