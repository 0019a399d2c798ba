----------------------------- MODULE Parameters -----------------------------
(***************************************************************************)
(* The two parameter files of the lamp over power cycles, crashes and      *)
(* firmware updates: src/system/component/fileSystem.cpp, read, marked and *)
(* saved by behavior.cpp, and the store of the mode manager kept in the    *)
(* user file (modes/include/hardware/keystore.hpp, manager_type.hpp).      *)
(*                                                                         *)
(* A firmware is the set of the keys its modes store, which is also its    *)
(* store id.  A stored value tells which firmware wrote it.  A file        *)
(* changes when it is closed (LittleFS), so a crash falls between two      *)
(* closed files, never inside one; but it may leave the file system        *)
(* broken, whose reads never end (fileSystem.cpp:113): only the watchdog   *)
(* gets out of them, and the start it makes formats the file system        *)
(* (global.cpp:123).  A file may also fail to open when it is written.     *)
(***************************************************************************)
EXTENDS Integers, Sequences, FiniteSets

CONSTANTS Firmwares,   \* the firmwares that may run: non empty sets of keys
          Levels       \* the values a user may choose, 0 being the default

AllKeys == UNION Firmwares
Mark == 1 + CHOOSE k \in AllKeys : \A j \in AllKeys : j <= k  \* storeIdKey

ASSUME FirmwareKeys ==
    /\ \A f \in Firmwares : f \subseteq Nat /\ IsFiniteSet(f) /\ f # {}
    /\ \E k \in AllKeys : \A j \in AllKeys : j <= k
    /\ Levels \subseteq Nat /\ 0 \in Levels

Causes == {"wake", "watchdog", "reset"}
NoFile == <<>>
NoSave == [fw |-> {}]

VARIABLES phase,      \* where this power cycle is
          cause,      \* the reset reason of this power cycle
          firmware,   \* the flashed firmware
          userFile,   \* FILENAME_USER: a sequence of words [key, val]
          sysFile,    \* FILENAME_INTERNAL: its key values, none when missing
          broken,     \* a crash during a read or a write broke the file system
          userMap,    \* _userParametersValueMap
          sysMap,     \* _systemParametersValueMap
          lastSize,   \* lastUserParameterSize
          settings,   \* what the modes keep in memory
          level,      \* the saved brightness
          skipped,    \* SYSTEM_SLEEP_SKIPPED raised at this start
          told,       \* this start blinked the watchdog signal
          keepUser,   \* shouldSaveUserParameters of the running save
          userKept,   \* history: what the user file was last given
          sysKept,    \* history: the brightness last saved, -1 for none
          dirty       \* history: started since the last completed save
files == <<userFile, sysFile, broken>>
maps == <<userMap, sysMap, lastSize>>
memory == <<settings, level>>
history == <<userKept, sysKept, dirty>>
vars == <<phase, cause, firmware, files, maps, memory, skipped, told, keepUser,
          history>>

Default(f) == [k \in f |-> [by |-> f, level |-> 0]]
-----------------------------------------------------------------------------
(* Files and maps.                                                         *)

\* insert_or_assign() of std::map.
Put(map, key, val) == [k \in DOMAIN map \cup {key} |-> IF k = key THEN val ELSE map[k]]

\* The words of a map, by rising key, as std::map iterates.
Rising(keys) == \A i, j \in DOMAIN keys : i < j => keys[i] < keys[j]
InOrder(S) == CHOOSE keys \in [1 .. Cardinality(S) -> S] : Rising(keys)
Words(map) == LET keys == InOrder(DOMAIN map)
              IN  [i \in 1 .. Cardinality(DOMAIN map) |-> [key |-> keys[i], val |-> map[keys[i]]]]

\* write_file() without erasing: the words written from the start, and what
\* the file held after them.
OverWrite(file, words) ==
    words \o SubSeq(file, Len(words) + 1, Len(file))

\* A mutant: the file is always erased before it is written.
AlwaysErase == TRUE

\* shouldEraseFile of user::write_to_file().
EraseFirst == lastSize > Cardinality(DOMAIN userMap)

\* read_file_content(): the first word of a key wins, but the last word of
\* the file, which is stored without a look at the map.  A file with duplicates
\* keeps them: LittleFS does not truncate a file opened to be read.
ReadMap(file) ==
    LET Key(i) == file[i].key
        Wins(i) == \/ i = Len(file)
                   \/ /\ Key(i) # Key(Len(file))
                      /\ \A j \in 1..(i - 1) : Key(j) # Key(i)
    IN  [k \in {Key(i) : i \in DOMAIN file} |->
            file[CHOOSE i \in DOMAIN file : Key(i) = k /\ Wins(i)].val]

\* migrateStoreIfNeeded(): a store without the mark is marked, one with
\* another firmware's mark is dropped.
Marked(map) == Put(map, Mark, [by |-> firmware, level |-> 0])
MigrateStoreIfNeeded(map) ==
    IF Mark \in DOMAIN map /\ map[Mark].by # firmware
    THEN Marked(<<>>) ELSE Marked(map)

\* The manager's read_parameters(): a key that is not stored keeps its default.
LoadSettings(map) ==
    [k \in firmware |-> IF k \in DOMAIN map THEN map[k] ELSE Default(firmware)[k]]
-----------------------------------------------------------------------------
(* Starting.                                                               *)

Init ==
    /\ phase = "boot" /\ cause = "wake"
    /\ firmware \in Firmwares
    /\ userFile = NoFile /\ sysFile = NoFile /\ broken = FALSE
    /\ userMap = <<>> /\ sysMap = <<>> /\ lastSize = 0
    /\ settings = Default(firmware) /\ level = 0
    /\ skipped = FALSE /\ told = FALSE /\ keepUser = TRUE
    /\ userKept = NoSave /\ sysKept = -1 /\ dirty = FALSE

\* The memory of a new power cycle.
Forget(f) ==
    /\ userMap' = <<>> /\ sysMap' = <<>> /\ lastSize' = 0
    /\ settings' = Default(f) /\ level' = 0
    /\ skipped' = FALSE /\ told' = FALSE /\ keepUser' = TRUE

\* clear_internal_fs(): the file system is formatted.
ClearInternalFs ==
    /\ userFile' = NoFile /\ sysFile' = NoFile /\ broken' = FALSE
    /\ userKept' = NoSave /\ sysKept' = -1

\* What main_setup() does with the reset reason once the parameters are read:
\* a first boot goes on, whatever the reason.
StartsDfu(firstBoot, vbus) ==
    ~firstBoot /\ (cause = "reset" \/ (cause = "watchdog" /\ vbus))
TellsUser(firstBoot, vbus) == ~firstBoot /\ cause = "watchdog" /\ ~vbus

\* The system part of behavior::read_parameters(), from file s.
ReadSystem(s) ==
    /\ sysMap' = s
    /\ skipped' = IF s = NoFile \/ "clean" \notin DOMAIN s THEN TRUE ELSE ~s["clean"]
    /\ level' = IF "level" \in DOMAIN s THEN s["level"] ELSE 0

\* The user part of behavior::read_parameters(), from file u.
ReadUser(u) ==
    IF u = NoFile
    THEN userMap' = <<>> /\ settings' = Default(firmware)
    ELSE /\ userMap' = MigrateStoreIfNeeded(ReadMap(u))
         /\ settings' = LoadSettings(userMap')

\* main_setup(): a start from the watchdog formats the file system first.
Boot ==
    /\ phase = "boot" /\ (broken => cause = "watchdog")
    /\ \E vbus \in BOOLEAN :
          LET formats == cause = "watchdog"
              s == IF formats THEN NoFile ELSE sysFile
              u == IF formats THEN NoFile ELSE userFile
              firstBoot == s = NoFile
          IN  /\ ReadSystem(s) /\ ReadUser(u)
              /\ told' = TellsUser(firstBoot, vbus)
              /\ phase' = IF StartsDfu(firstBoot, vbus) THEN "dfu" ELSE "ready"
              /\ IF formats
                 THEN ClearInternalFs
                 ELSE UNCHANGED <<files, userKept, sysKept>>
    /\ UNCHANGED <<cause, firmware, lastSize, keepUser, dirty>>

\* write_file() formats the file system when its file cannot be opened, and
\* opens it again: what is left of the user file, or of the system file.
UserFileLeft(opened) ==
    /\ userFile' = IF opened THEN userFile ELSE NoFile
    /\ userKept' = IF opened THEN userKept ELSE NoSave
SysFileLeft(opened) ==
    /\ sysFile' = IF opened THEN sysFile ELSE NoFile
    /\ sysKept' = IF opened THEN sysKept ELSE -1

\* A mutant: the flag is cleared in memory and not written.
FlagInMemory(opened, created) ==
    /\ phase = "ready" /\ phase' = "up"
    /\ sysMap' = Put(sysMap, "clean", FALSE)
    /\ dirty' = TRUE
    /\ UNCHANGED <<cause, firmware, files, userMap, lastSize, memory, skipped,
                   told, keepUser, userKept, sysKept>>

\* setup_clean_sleep_flag(), at the first turn of START_LOGIC.  Its later
\* turns write the same again.
SetupCleanSleepFlag(opened, created) ==
    /\ phase = "ready" /\ phase' = "up"
    /\ sysMap' = Put(sysMap, "clean", FALSE)
    /\ sysFile' = IF opened \/ created THEN sysMap' ELSE NoFile
    /\ sysKept' = IF opened \/ created THEN sysKept ELSE -1
    /\ UserFileLeft(opened)
    /\ dirty' = TRUE
    /\ UNCHANGED <<cause, firmware, broken, userMap, lastSize, memory, skipped,
                   told, keepUser>>
-----------------------------------------------------------------------------
(* Running.                                                                *)

ChangeSetting ==
    /\ phase = "up"
    /\ \E k \in firmware, l \in Levels :
          settings' = [settings EXCEPT ![k] = [by |-> firmware, level |-> l]]
    /\ UNCHANGED <<phase, cause, firmware, files, maps, level, skipped, told,
                   keepUser, history>>

ChangeBrightness ==
    /\ phase = "up"
    /\ level' \in Levels
    /\ UNCHANGED <<phase, cause, firmware, files, maps, settings, skipped, told,
                   keepUser, history>>

\* The format-fs command.
FormatFs ==
    /\ phase = "up"
    /\ ClearInternalFs
    /\ UNCHANGED <<phase, cause, firmware, maps, memory, skipped, told, keepUser,
                   dirty>>
-----------------------------------------------------------------------------
(* The save of handle_shutdown_state().                                    *)

\* The system map write_parameters() saves, or its full reset.
SystemToSave(saveSystem) ==
    IF saveSystem THEN Put(Put(sysMap, "level", level), "clean", TRUE) ELSE <<>>

\* fileSystem::clear(), then the manager's write_parameters(): it clears the
\* store once more, which forgets the size the first one kept.
PrepareSave(saveUser, saveSystem) ==
    /\ phase = "up" /\ phase' = "saving"
    /\ keepUser' = saveUser
    /\ userMap' = IF saveUser THEN settings ELSE <<>>
    /\ lastSize' = IF saveUser THEN 0 ELSE Cardinality(DOMAIN userMap)
    /\ sysMap' = SystemToSave(saveSystem)
    /\ UNCHANGED <<cause, firmware, memory, skipped, told, dirty>>

Shutdown == PrepareSave(TRUE, TRUE) /\ UNCHANGED <<files, userKept, sysKept>>

\* 13 clicks, and 20 clicks for the system parameters too: format and save.
FactoryReset(saveSystem) == ClearInternalFs /\ PrepareSave(FALSE, saveSystem)

\* The truncation of write_file(), closed before the file is opened again.
EraseUserFile ==
    /\ phase = "saving" /\ EraseFirst
    /\ phase' = "erased"
    /\ userFile' = NoFile
    /\ UNCHANGED <<cause, firmware, sysFile, broken, maps, memory, skipped, told,
                   keepUser, history>>

WriteUserFile(opened, created) ==
    /\ \/ phase = "erased" /\ opened
       \/ phase = "saving" /\ (opened => ~EraseFirst)
    /\ phase' = "userSaved"
    /\ IF created \/ (opened /\ phase = "saving")
       THEN /\ userFile' = OverWrite(IF opened THEN userFile ELSE NoFile, Words(userMap))
            /\ userKept' = [fw |-> firmware,
                            is |-> IF keepUser THEN settings ELSE Default(firmware)]
       ELSE userFile' = NoFile /\ userKept' = NoSave
    /\ SysFileLeft(opened)
    /\ UNCHANGED <<cause, firmware, broken, maps, memory, skipped, told, keepUser,
                   dirty>>

WriteSystemFile(opened, created) ==
    /\ phase = "userSaved" /\ phase' = "off"
    /\ sysFile' = IF opened \/ created THEN sysMap ELSE NoFile
    /\ sysKept' = IF sysFile' = NoFile THEN -1 ELSE level
    /\ UserFileLeft(opened)
    /\ dirty' = FALSE
    /\ UNCHANGED <<cause, firmware, broken, maps, memory, skipped, told, keepUser>>

\* The system did not power down: it runs on, in the error state, with a file
\* that says it sleeps.
SleepFails ==
    /\ phase = "off" /\ phase' = "up"
    /\ UNCHANGED <<cause, firmware, files, maps, memory, skipped, told, keepUser,
                   history>>
-----------------------------------------------------------------------------
(* The outside: wake ups, crashes and updates.                             *)

WakeUp ==
    /\ phase = "off" /\ phase' = "boot" /\ cause' = "wake"
    /\ Forget(firmware)
    /\ UNCHANGED <<firmware, files, history>>

\* The watchdog of a hung program, the reset pin, or a loss of power followed
\* by a wake up, at any step.
Crash(why) ==
    /\ phase \notin {"off", "dfu"}
    /\ phase' = "boot" /\ cause' = why
    /\ broken' \in {broken, TRUE}
    /\ Forget(firmware)
    /\ UNCHANGED <<firmware, userFile, sysFile, history>>

\* The DFU command.
EnterDfu ==
    /\ phase = "up" /\ phase' = "dfu"
    /\ UNCHANGED <<cause, firmware, files, maps, memory, skipped, told, keepUser,
                   history>>

Flash(f) ==
    /\ phase = "dfu" /\ phase' = "boot" /\ cause' = "wake"
    /\ firmware' = f
    /\ Forget(f)
    /\ UNCHANGED <<files, history>>

Writes(opened, created) ==
    \/ SetupCleanSleepFlag(opened, created)
    \/ WriteUserFile(opened, created) \/ WriteSystemFile(opened, created)

Next ==
    \/ Boot
    \/ \E opened, created \in BOOLEAN : Writes(opened, created)
    \/ ChangeSetting \/ ChangeBrightness \/ FormatFs
    \/ Shutdown \/ \E s \in BOOLEAN : FactoryReset(s)
    \/ EraseUserFile \/ SleepFails
    \/ WakeUp \/ \E why \in Causes : Crash(why)
    \/ EnterDfu \/ \E f \in Firmwares : Flash(f)

Spec == Init /\ [][Next]_vars
-----------------------------------------------------------------------------
(* Properties.                                                             *)

\* A start raises SYSTEM_SLEEP_SKIPPED exactly when the last run that reached
\* START_LOGIC did not complete its save, or there is nothing saved, wherever
\* that run stopped (behavior.cpp:233, alerts.h:46).
SkippedSleepNoticed ==
    [][Boot => (skipped' <=> dirty \/ sysKept' = -1)]_vars

\* Unless the file system is formatted since, a start of the firmware that wrote
\* the user file last finds each setting it wrote, but the one that the last word
\* of the file is about when a firmware with more keys left that word there
\* (fileSystem.cpp:155); and any start finds the brightness of the last system
\* file saved, whatever step a loss of power fell in (fileSystem.cpp:170,
\* behavior.cpp:243).  The file system is formatted by the start of a watchdog,
\* which is the only one to get out of a broken file system, by a write that
\* could not open its file, and on request.
StaleWord(k) ==
    Len(userFile) > Cardinality(firmware) /\ userFile[Len(userFile)].key = k
PowerLossKeepsSave ==
    [][Boot => /\ userKept'.fw = firmware =>
                     \A k \in firmware : settings'[k] = userKept'.is[k] \/ StaleWord(k)
               /\ sysKept' # -1 => level' = sysKept']_vars

=============================================================================
