----------------------------- MODULE Favorites -----------------------------
(***************************************************************************)
(* What the user navigates: the groups, their modes, and the page of the   *)
(* favorites (src/modes/include/manager_type.hpp, context_type.hpp and     *)
(* group_type.hpp, called by src/modes/user/indexable_behavior.hpp).       *)
(* A click series, a hold event, a turn of loop() that ends a countdown    *)
(* and a start of the output are one step each: they run in the main       *)
(* thread.  The countdowns end before the next click series can be told,   *)
(* which takes the button longer than ten turns of loop().                 *)
(***************************************************************************)
EXTENDS Naturals, Sequences

CONSTANTS ModeCount,   \* the number of modes of each group
          Accessible,  \* nbAccessibleGroups: the groups after them are hidden
          RampGroups,  \* the groups with a custom ramp
          Ramps,       \* the values of a ramp
          Bluetooth,   \* the hidden group of the Bluetooth commands
          MaxFavorites \* maxFavoriteCount

nbGroupsTotal == Len(ModeCount)
Groups == 0 .. nbGroupsTotal - 1
Modes(g) == 0 .. ModeCount[g + 1] - 1
Hidden == {g \in Groups : g >= Accessible}
\* A ramp is kept at 0 where no mode shows it.
RampsOf(g) == IF g \in RampGroups THEN Ramps ELSE {0}
Indexes == UNION {[group : {g}, mode : Modes(g), ramp : RampsOf(g)] : g \in Groups}
Origin == [group |-> 0, mode |-> 0, ramp |-> 0]

\* The bounds are those of the static_asserts (manager_type.hpp:155, group_type.hpp:49).
ASSUME Layout ==
    /\ ModeCount \in Seq(Nat \ {0}) /\ nbGroupsTotal <= 15
    /\ \A g \in Groups : ModeCount[g + 1] <= 31
    /\ Accessible \in 1 .. nbGroupsTotal
    /\ RampGroups \subseteq Groups /\ Ramps \subseteq Nat /\ 0 \in Ramps
    /\ Bluetooth \in Hidden
    /\ \A g \in Groups : ModeCount[g + 1] <= ModeCount[Bluetooth + 1]
    /\ MaxFavorites \in Nat \ {0}

VARIABLES manager,     \* activeIndex, lastModeMemory and customRampMemory
          favorites,   \* the usedFavoriteCount first slots: the others are never read
          lastStep,    \* lastFavoriteStep
          inPage,      \* isInFavoriteMockGroup
          before,      \* beforeFavoriteGroupIndex and beforeFavoriteModeIndex
          scrolled,    \* isLastScrollAGroupChange
          hold,        \* the four clicks and hold going on
          inDelete,    \* isInDeleteFavorite
          pending,     \* the slot isFavoritePending counts down for, or None
          deleting,    \* isFavoriteDeletePending > 0
          lastMode,    \* history: the mode last shown in each group
          lastRamp,    \* history: the ramp last shown in each mode
          sped         \* history: a speed command came since a favorite was shown
page == <<favorites, lastStep, inPage, before, sped>>
counting == <<hold, inDelete, pending, deleting>>
vars == <<manager, page, scrolled, counting, lastMode, lastRamp>>

None == MaxFavorites
count == Len(favorites)
active == manager.active
PerMode(S) == [g \in Groups |-> [m \in Modes(g) |-> S]]
-----------------------------------------------------------------------------
(* The calls of the manager, on its state m.                               *)

Wrapped(value, bound) == IF value + 1 > bound THEN 0 ELSE value

\* A mutant: the ramp is not saved.
KeepRamp(m) == m

\* quit_mode(): save_ramps().
QuitMode(m) ==
    IF m.active.group \in RampGroups
    THEN [m EXCEPT !.ramps[m.active.group][m.active.mode] = m.active.ramp]
    ELSE m

\* enter_mode(): load_ramps().
EnterMode(m, g, i) ==
    [m EXCEPT !.active = [group |-> g, mode |-> i,
                          ramp |-> IF g \in RampGroups THEN m.ramps[g][i] ELSE 0]]

\* quit_group() then enter_group().
SetActiveGroup(m, value, bound) ==
    LET g == Wrapped(value, bound)
        quit == QuitMode([m EXCEPT !.modes[m.active.group] = m.active.mode])
    IN EnterMode(quit, g, quit.modes[g])

SetActiveMode(m, value, bound) ==
    EnterMode(QuitMode(m), m.active.group, Wrapped(value, bound))

\* A mutant: the next group is not limited to the accessible ones.
NextOfAll(m) == SetActiveGroup(m, m.active.group + 1, nbGroupsTotal)

NextGroup(m) == SetActiveGroup(m, Wrapped(m.active.group, Accessible) + 1, Accessible)

NextMode(m) == SetActiveMode(m, m.active.mode + 1, ModeCount[m.active.group + 1])

\* set_active_group() and set_active_mode(), to a known group and mode.
GoTo(m, g, i) == SetActiveMode(SetActiveGroup(m, g, 255), i, 255)

\* A mutant: the favorite is shown with the ramp of its mode.
GoToMode(m, index) == GoTo(m, index.group, index.mode)

\* jump_to_new_active_index().  The ramp is copied before the indices are
\* compared, so they are equal and custom_ramp_update() is never called.
JumpTo(m, index) == [GoTo(m, index.group, index.mode) EXCEPT !.active = index]

\* A step of handle_scroll_modes(), which always goes backward.
Scroll(m) ==
    IF m.active.mode > 0
    THEN SetActiveMode(m, m.active.mode - 1, ModeCount[m.active.group + 1])
    ELSE LET g == IF m.active.group > 0 THEN m.active.group - 1 ELSE Accessible - 1
             entered == SetActiveGroup(m, g, Accessible)
         IN SetActiveMode(entered, ModeCount[entered.active.group + 1] - 1,
                          ModeCount[entered.active.group + 1])
-----------------------------------------------------------------------------
Init ==
    /\ manager = [active |-> Origin, modes |-> [g \in Groups |-> 0], ramps |-> PerMode(0)]
    /\ favorites = <<>> /\ lastStep = 0 /\ inPage = FALSE /\ before = Origin
    /\ scrolled = FALSE
    /\ hold = FALSE /\ inDelete = FALSE /\ pending = None /\ deleting = FALSE
    /\ lastMode = [g \in Groups |-> 0] /\ lastRamp = PerMode(0) /\ sped = FALSE

\* Every step shows a mode, the same one or another.
Show(m) ==
    /\ manager' = m
    /\ lastMode' = [lastMode EXCEPT ![m.active.group] = m.active.mode]
    /\ lastRamp' = [lastRamp EXCEPT ![m.active.group][m.active.mode] = m.active.ramp]

\* No hold and no countdown going on: a click series can be told.
Free == ~hold /\ pending = None /\ ~deleting

\* A mutant: lastFavoriteStep is not wrapped.
JumpUnwrapped(step) ==
    /\ lastStep' = step /\ sped' = FALSE
    /\ Show(JumpTo(manager, favorites[(step % count) + 1]))

\* jump_to_favorite(), with favorites.
JumpToFavorite(step) ==
    /\ lastStep' = step % count /\ sped' = FALSE
    /\ Show(JumpTo(manager, favorites[lastStep' + 1]))
-----------------------------------------------------------------------------
(* button_clicked_default().                                               *)

NextFavorite ==
    /\ Free /\ inPage
    /\ IF count > 0
       THEN JumpToFavorite(lastStep + 1) /\ inPage' = TRUE
       ELSE inPage' = FALSE /\ lastStep' = lastStep + 1 /\ sped' = sped /\ Show(manager)
    /\ UNCHANGED <<favorites, before, scrolled, counting>>

\* recent: less than two seconds since the scroll.
TwoClicks(recent) ==
    /\ Free /\ ~inPage
    /\ IF scrolled /\ recent
       THEN Show(NextGroup(manager)) /\ scrolled' = FALSE
       ELSE Show(NextMode(manager)) /\ scrolled' = scrolled
    /\ UNCHANGED <<page, counting>>

ThreeClicks ==
    /\ Free /\ ~inPage
    /\ Show(NextGroup(manager))
    /\ UNCHANGED <<page, scrolled, counting>>

LeavePage ==
    /\ Free /\ inPage
    /\ inPage' = FALSE
    /\ Show(GoTo(manager, before.group, before.mode))
    /\ UNCHANGED <<favorites, lastStep, before, sped, scrolled, counting>>

EnterPage ==
    /\ Free /\ ~inPage /\ count > 0
    /\ before' = [active EXCEPT !.ramp = 0]
    /\ JumpToFavorite(lastStep)
    /\ inPage' = TRUE
    /\ UNCHANGED <<favorites, scrolled, counting>>

SixClicks ==
    /\ Free
    /\ inPage' = FALSE
    /\ Show(GoTo(manager, 0, 0))
    /\ UNCHANGED <<favorites, lastStep, before, sped, scrolled, counting>>
-----------------------------------------------------------------------------
(* button_hold_default().                                                  *)

\* Three clicks and hold.
RampTo(r) ==
    /\ Free /\ ~inPage /\ r \in RampsOf(active.group)
    /\ Show([manager EXCEPT !.active.ramp = r])
    /\ UNCHANGED <<page, scrolled, counting>>

\* Six clicks and hold.
ScrollModes ==
    /\ Free /\ ~inPage
    /\ scrolled' = (active.mode = 0)
    /\ Show(Scroll(manager))
    /\ UNCHANGED <<page, counting>>

\* Four clicks and hold: a slot, the one after the used ones, or none of them.
PickFavorite(slot) ==
    /\ hold \/ Free
    /\ ~inPage /\ ~inDelete
    /\ slot <= count \/ slot = None
    /\ hold' = TRUE /\ pending' = slot
    /\ Show(manager)
    /\ UNCHANGED <<page, scrolled, inDelete, deleting>>

\* saturated: the ramp of the deletion is full.
HoldDelete(saturated) ==
    /\ hold \/ Free
    /\ inPage \/ inDelete
    /\ ~deleting
    /\ hold' = TRUE
    /\ IF count > 0
       THEN inDelete' = TRUE /\ deleting' = saturated
       ELSE UNCHANGED <<inDelete, deleting>>
    /\ Show(manager)
    /\ UNCHANGED <<page, scrolled, pending>>

EndOfHold ==
    /\ hold /\ hold' = FALSE /\ inDelete' = FALSE
    /\ Show(manager)
    /\ UNCHANGED <<page, scrolled, pending, deleting>>
-----------------------------------------------------------------------------
(* loop().  The hold events restart the countdown of a new favorite.        *)

SetFavorite ==
    /\ ~hold
    /\ pending # None /\ pending' = None
    /\ IF pending <= count
       THEN favorites' = IF pending = count THEN Append(favorites, active)
                         ELSE [favorites EXCEPT ![pending + 1] = active]
       ELSE favorites' = favorites
    /\ Show(manager)
    /\ UNCHANGED <<lastStep, inPage, before, sped, scrolled, hold, inDelete, deleting>>

\* The slots from lastFavoriteStep on go down one spot.
Deleted == [i \in 1 .. count - 1 |-> favorites[IF i > lastStep THEN i + 1 ELSE i]]

DeleteFavorite ==
    /\ deleting /\ deleting' = FALSE
    /\ IF count > 0
       THEN /\ favorites' = Deleted
            /\ IF count > 1
               THEN /\ Show(JumpTo(manager, Deleted[(lastStep % (count - 1)) + 1]))
                    /\ inPage' = inPage /\ sped' = FALSE
               ELSE /\ Show(GoTo(manager, before.group, before.mode))
                    /\ inPage' = FALSE /\ sped' = sped
       ELSE UNCHANGED <<favorites, inPage, sped>> /\ Show(manager)
    /\ UNCHANGED <<lastStep, before, scrolled, hold, inDelete, pending>>
-----------------------------------------------------------------------------
(* The Bluetooth and the starts of the output.                             *)

\* handle_pattern_select_command(): the pattern is checked against the modes of
\* the group that is left.
SelectPattern(pattern) ==
    /\ pattern \in Modes(active.group)
    /\ Show(GoTo(manager, Bluetooth, pattern))
    /\ UNCHANGED <<page, scrolled, counting>>

\* handle_speed_command(): the ramp of the mode shown, whatever the user does.
SpeedCommand(r) ==
    /\ r \in RampsOf(active.group)
    /\ Show([manager EXCEPT !.active.ramp = r])
    /\ sped' = TRUE
    /\ UNCHANGED <<favorites, lastStep, inPage, before, scrolled, counting>>

\* power_on_sequence() on the state of the manager.
Started ==
    IF inPage /\ count > 0
    THEN JumpToFavorite(lastStep)
    ELSE Show(SetActiveGroup(manager, active.group, 255)) /\ UNCHANGED <<lastStep, sped>>

\* The output stops and starts without a shutdown.
PowerOn ==
    /\ Started
    /\ UNCHANGED <<favorites, inPage, before, scrolled, counting>>

\* A shutdown, which saves the parameters, and the start that reads them: the
\* rest of the state takes its initial values.
Restart ==
    /\ Started
    /\ before' = Origin /\ scrolled' = FALSE
    /\ hold' = FALSE /\ inDelete' = FALSE /\ pending' = None /\ deleting' = FALSE
    /\ UNCHANGED <<favorites, inPage>>

Next ==
    \/ NextFavorite \/ \E recent \in BOOLEAN : TwoClicks(recent)
    \/ ThreeClicks \/ LeavePage \/ EnterPage \/ SixClicks
    \/ \E r \in Ramps : RampTo(r)
    \/ ScrollModes
    \/ \E slot \in 0..MaxFavorites : PickFavorite(slot)
    \/ \E saturated \in BOOLEAN : HoldDelete(saturated)
    \/ EndOfHold \/ SetFavorite \/ DeleteFavorite
    \/ \E pattern \in Modes(active.group) : SelectPattern(pattern)
    \/ \E r \in Ramps : SpeedCommand(r)
    \/ PowerOn \/ Restart

Spec == Init /\ [][Next]_vars
-----------------------------------------------------------------------------
(* Properties.                                                             *)

\* The mode shown, those remembered and the favorites all exist: no wrap of
\* set_active_group() or set_active_mode() leaves the modes of a group.
TypeOK ==
    /\ active \in Indexes /\ before \in Indexes
    /\ DOMAIN manager.modes = Groups
    /\ \A g \in Groups : manager.modes[g] \in Modes(g)
    /\ manager.ramps \in [Groups -> UNION {[Modes(g) -> Ramps] : g \in Groups}]
    /\ favorites \in Seq(Indexes) /\ count <= MaxFavorites /\ lastStep \in 0..MaxFavorites
    /\ pending \in 0..MaxFavorites
    /\ {inPage, scrolled, hold, inDelete, deleting, sped} \subseteq BOOLEAN

\* Every group the user comes back to shows the mode last shown there, with the
\* ramp it had (manager_type.hpp:725, group_type.hpp:220), visits of the favorite
\* page, Bluetooth commands and restarts included.
Remembered ==
    /\ \A g \in Groups \ {active.group} : manager.modes[g] = lastMode[g]
    /\ \A g \in RampGroups : \A i \in Modes(g) :
          g # active.group \/ i # active.mode
             => manager.ramps[g][i] = lastRamp[g][i]

\* On the page of the favorites the lamp shows the group and mode of the favorite
\* of lastFavoriteStep, unless a Bluetooth command chose another mode, and its
\* ramp too until a Bluetooth command sets the speed
\* (manager_type.hpp:441, manager_type.hpp:517, default_behavior.hpp:323).
ShownIsFavorite ==
    inPage /\ count > 0 /\ active.group # Bluetooth
       => LET favorite == favorites[(lastStep % count) + 1]
          IN active = IF sped THEN [favorite EXCEPT !.ramp = active.ramp] ELSE favorite

\* Clicks and scrolls outside the page never enter a hidden group, whatever the
\* group they leave (manager_type.hpp:401, manager_type.hpp:586).
Navigation == (\E recent \in BOOLEAN : TwoClicks(recent)) \/ ThreeClicks \/ ScrollModes
HiddenOnRequest ==
    [][Navigation => active'.group \notin Hidden \/ active'.group = active.group]_vars

=============================================================================
