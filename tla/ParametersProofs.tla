-------------------------- MODULE ParametersProofs --------------------------
(***************************************************************************)
(* What a loss of power may do to the parameter files, for every set of    *)
(* firmwares and of values: a start notices a save that was not completed, *)
(* and finds what each file was last given, but for one stale word.        *)
(*                                                                         *)
(* A save leaves its own words at the start of the user file, by rising    *)
(* key, and what the file held after them (Starts): a reader takes the     *)
(* first word of a key, so it finds every value but the one the last word  *)
(* of a longer file is about (ReadMapFacts).  The system file is clean     *)
(* exactly when the last run to reach START_LOGIC completed its save       *)
(* (SysInv).                                                               *)
(***************************************************************************)
EXTENDS Parameters, SequenceTheorems, FiniteSetTheorems, TLAPS

Vals == [by : Firmwares, level : Levels]
Word == [key : AllKeys, val : Vals]

\* The file starts with the settings s of firmware f, by rising key.
Starts(file, f, s) ==
    /\ Len(file) >= Cardinality(f)
    /\ \A i \in 1 .. Cardinality(f) :
          file[i] = [key |-> InOrder(f)[i], val |-> s[InOrder(f)[i]]]

Clean(s) == "clean" \in DOMAIN s /\ s["clean"]
HasLevel(s, l) == "level" \in DOMAIN s /\ s["level"] = l

Saving == phase \in {"saving", "erased", "userSaved"}

SysInv ==
    /\ level \in Levels /\ sysKept \in Levels \cup {-1} /\ dirty \in BOOLEAN
    /\ "level" \in DOMAIN sysFile => sysFile["level"] \in Levels
    /\ "clean" \in DOMAIN sysFile => sysFile["clean"] \in BOOLEAN
    /\ sysKept # -1 => HasLevel(sysFile, sysKept)
    /\ Clean(sysFile) <=> ~dirty /\ sysKept # -1
    /\ phase = "ready" => sysMap = sysFile
    /\ Saving => sysMap = NoFile \/ (sysMap["clean"] = TRUE /\ Clean(sysMap) /\ HasLevel(sysMap, level))

\* The user file is what the last save left in it.
Fits(file, kept) ==
    /\ file \in Seq(Word)
    /\ \/ kept = NoSave
       \/ \E f \in Firmwares : \E s \in [f -> Vals] :
             /\ kept = [fw |-> f, is |-> s]
             /\ (file = NoFile /\ s = Default(f)) \/ Starts(file, f, s)

UserInv ==
    /\ firmware \in Firmwares /\ settings \in [firmware -> Vals] /\ keepUser \in BOOLEAN
    /\ phase \in {"saving", "erased"} =>
          IF keepUser THEN phase = "saving" /\ lastSize = 0 /\ userMap = settings
                      ELSE userMap = <<>> /\ userFile = NoFile /\ userKept = NoSave
    /\ Fits(userFile, userKept)

IInv == SysInv /\ UserInv

-----------------------------------------------------------------------------
(* The system file.                                                        *)

LEMMA NoFileIsEmpty == DOMAIN NoFile = {}
BY DEF NoFile

LEMMA PutFacts ==
  ASSUME NEW map, NEW l
  PROVE  LET m == Put(map, "level", l)
             c == Put(m, "clean", TRUE)
             d == Put(map, "clean", FALSE)
         IN  /\ c["clean"] = TRUE /\ Clean(c) /\ HasLevel(c, l)
             /\ DOMAIN d = DOMAIN map \cup {"clean"} /\ d["clean"] = FALSE /\ ~Clean(d)
             /\ "level" \in DOMAIN map => d["level"] = map["level"]
BY DEF Put, Clean, HasLevel

\* What a save writes says that it is complete and holds the brightness.
LEMMA SystemToSaveFacts ==
  ASSUME NEW saveSystem \in BOOLEAN
  PROVE  LET s == SystemToSave(saveSystem)
         IN  s = NoFile \/ (s["clean"] = TRUE /\ Clean(s) /\ HasLevel(s, level))
<1>1. CASE saveSystem
  BY <1>1, PutFacts DEF SystemToSave
<1>2. CASE ~saveSystem
  BY <1>2 DEF SystemToSave, NoFile
<1> QED
  BY <1>1, <1>2

LEMMA LevelFacts == Levels \subseteq Nat /\ 0 \in Levels /\ -1 \notin Levels
BY FirmwareKeys

LEMMA SysInit == Init => SysInv
BY NoFileIsEmpty, LevelFacts DEF Init, SysInv, Clean, HasLevel, Saving

LEMMA SysNext == SysInv /\ [Next]_vars => SysInv'
<1> SUFFICES ASSUME SysInv, [Next]_vars PROVE SysInv'
  OBVIOUS
<1> USE NoFileIsEmpty, LevelFacts DEF SysInv, Clean, HasLevel, Saving
<1>1. CASE Boot
  BY <1>1 DEF Boot, ReadSystem, ClearInternalFs, files
<1>2. ASSUME NEW opened \in BOOLEAN, NEW created \in BOOLEAN,
             SetupCleanSleepFlag(opened, created)
      PROVE  SysInv'
  <2> DEFINE marked == Put(sysMap, "clean", FALSE)
  <2>1. /\ DOMAIN marked = DOMAIN sysFile \cup {"clean"} /\ marked["clean"] = FALSE
        /\ ~Clean(marked)
        /\ "level" \in DOMAIN sysFile => marked["level"] = sysFile["level"]
    BY <1>2, PutFacts DEF SetupCleanSleepFlag
  <2>2. /\ sysFile' = IF opened \/ created THEN marked ELSE NoFile
        /\ sysKept' = IF opened \/ created THEN sysKept ELSE -1
        /\ dirty' = TRUE /\ level' = level /\ phase' = "up"
    BY <1>2 DEF SetupCleanSleepFlag, memory
  <2> HIDE DEF marked
  <2> QED
    BY <2>1, <2>2
<1>3. CASE ChangeSetting \/ ChangeBrightness \/ FormatFs \/ SleepFails \/ EnterDfu
  BY <1>3 DEF ChangeSetting, ChangeBrightness, FormatFs, ClearInternalFs, SleepFails, EnterDfu,
              files, maps, memory, history
<1>4. CASE Shutdown
  <2>1. sysMap' = SystemToSave(TRUE)
    BY <1>4 DEF Shutdown, PrepareSave
  <2> QED
    BY <1>4, <2>1, SystemToSaveFacts DEF Shutdown, PrepareSave, files, memory
<1>5. ASSUME NEW s \in BOOLEAN, FactoryReset(s) PROVE SysInv'
  <2>1. sysMap' = SystemToSave(s)
    BY <1>5 DEF FactoryReset, PrepareSave
  <2> QED
    BY <1>5, <2>1, SystemToSaveFacts DEF FactoryReset, PrepareSave, ClearInternalFs, memory
<1>6. CASE EraseUserFile \/ \E opened, created \in BOOLEAN : WriteUserFile(opened, created)
  BY <1>6 DEF EraseUserFile, WriteUserFile, SysFileLeft, maps, memory, history
<1>7. CASE \E opened, created \in BOOLEAN : WriteSystemFile(opened, created)
  BY <1>7 DEF WriteSystemFile, maps, memory
<1>8. CASE WakeUp \/ (\E why \in Causes : Crash(why)) \/ (\E f \in Firmwares : Flash(f))
  <2>1. /\ phase' = "boot" /\ level' = 0 /\ sysFile' = sysFile
        /\ sysKept' = sysKept /\ dirty' = dirty
    BY <1>8 DEF WakeUp, Crash, Flash, Forget, files, history
  <2> QED
    BY <2>1
<1>9. CASE UNCHANGED vars
  BY <1>9 DEF vars, files, maps, memory, history
<1> QED
  BY <1>1, <1>2, <1>3, <1>4, <1>5, <1>6, <1>7, <1>8, <1>9 DEF Next, Writes

-----------------------------------------------------------------------------
(* The keys of a file.                                                     *)

\* The keys of a firmware, by rising key, are all its keys, each once, and the
\* rank of a key is the number of keys up to it.
UpTo(S, k) == {j \in S : j <= k}

LEMMA InOrderExists ==
  ASSUME NEW S, S \subseteq Nat, IsFiniteSet(S)
  PROVE  \E keys \in [1 .. Cardinality(S) -> S] : Rising(keys)
<1> DEFINE n == Cardinality(S)
           rank == [k \in S |-> Cardinality(UpTo(S, k))]
<1>1. n \in Nat /\ IsFiniteSet(1 .. n) /\ Cardinality(1 .. n) = n
  BY FS_CardinalityType, FS_Interval
<1>2. ASSUME NEW k \in S PROVE /\ IsFiniteSet(UpTo(S, k)) /\ UpTo(S, k) # {}
                               /\ Cardinality(UpTo(S, k)) \in 1 .. n
  <2>1. UpTo(S, k) \in SUBSET S /\ k \in UpTo(S, k)
    BY DEF UpTo
  <2>2. IsFiniteSet(UpTo(S, k)) /\ Cardinality(UpTo(S, k)) <= n
    BY <2>1, FS_Subset
  <2>3. Cardinality(UpTo(S, k)) \in Nat /\ Cardinality(UpTo(S, k)) # 0
    BY <2>1, <2>2, FS_CardinalityType, FS_EmptySet
  <2> QED
    BY <1>1, <2>1, <2>2, <2>3
<1>3. ASSUME NEW j \in S, NEW k \in S, j < k PROVE rank[j] < rank[k]
  <2>1. UpTo(S, j) \in SUBSET UpTo(S, k) /\ UpTo(S, j) # UpTo(S, k)
    <3>1. k \in UpTo(S, k) /\ k \notin UpTo(S, j)
      BY <1>3 DEF UpTo
    <3>2. ASSUME NEW i \in S, i <= j PROVE i <= k
      <4>1. i \in Nat /\ j \in Nat /\ k \in Nat
        OBVIOUS
      <4> QED
        BY <1>3, <3>2, <4>1
    <3>3. UpTo(S, j) \subseteq UpTo(S, k)
      BY <3>2 DEF UpTo
    <3> QED
      BY <3>1, <3>3
  <2>2. /\ Cardinality(UpTo(S, j)) <= Cardinality(UpTo(S, k))
        /\ Cardinality(UpTo(S, k)) # Cardinality(UpTo(S, j))
    BY <2>1, <1>2, FS_Subset
  <2> QED
    BY <1>1, <1>2, <2>2
<1>4. rank \in Injection(S, 1 .. n)
  <2>1. rank \in [S -> 1 .. n]
    BY <1>2
  <2>2. ASSUME NEW j \in S, NEW k \in S, rank[j] = rank[k] PROVE j = k
    <3>1. rank[j] \in Nat /\ ~(rank[j] < rank[j])
      BY <1>1, <2>1
    <3>2. j \in Nat /\ k \in Nat
      OBVIOUS
    <3> QED
      BY <1>3, <2>2, <3>1, <3>2
  <2> QED
    BY <2>1, <2>2 DEF Injection, IsInjective
<1>5. \A i \in 1 .. n : \E k \in S : rank[k] = i
  <2>1. rank \in Surjection(S, 1 .. n)
    BY <1>1, <1>4, FS_Injection
  <2> QED
    BY <2>1 DEF Surjection
<1> DEFINE keys == [i \in 1 .. n |-> CHOOSE k \in S : rank[k] = i]
<1>6. keys \in [1 .. n -> S] /\ \A i \in 1 .. n : rank[keys[i]] = i
  BY <1>5
<1>7. ASSUME NEW i \in 1 .. n, NEW j \in 1 .. n, i < j PROVE keys[i] < keys[j]
  <2>1. keys[i] \in S /\ keys[j] \in S /\ rank[keys[i]] = i /\ rank[keys[j]] = j
    BY <1>6
  <2> HIDE DEF keys, rank, n
  <2>2. keys[i] \in Nat /\ keys[j] \in Nat
    BY <2>1
  <2>3. ~(rank[keys[j]] < rank[keys[i]]) /\ keys[i] # keys[j]
    BY <1>1, <1>7, <2>1
  <2>4. ~(keys[j] < keys[i])
    BY <1>3, <2>1, <2>3
  <2> QED
    BY <2>2, <2>3, <2>4
<1>8. Rising(keys)
  <2> HIDE DEF keys
  <2> QED
    BY <1>6, <1>7 DEF Rising
<1> QED
  BY <1>6, <1>8

LEMMA InOrderFacts ==
  ASSUME NEW S, S \subseteq Nat, IsFiniteSet(S)
  PROVE  /\ Cardinality(S) \in Nat
         /\ InOrder(S) \in [1 .. Cardinality(S) -> S]
         /\ \A i, j \in 1 .. Cardinality(S) : InOrder(S)[i] = InOrder(S)[j] => i = j
         /\ \A k \in S : \E i \in 1 .. Cardinality(S) : InOrder(S)[i] = k
         /\ \A i, j \in 1 .. Cardinality(S) : i < j => InOrder(S)[i] < InOrder(S)[j]
<1> DEFINE n == Cardinality(S)
           keys == InOrder(S)
<1>1. n \in Nat /\ IsFiniteSet(1 .. n) /\ Cardinality(1 .. n) = n
  BY FS_CardinalityType, FS_Interval
<1>2. keys \in [1 .. n -> S] /\ Rising(keys)
  BY InOrderExists DEF InOrder
<1> HIDE DEF keys, n
<1>3. \A i, j \in 1 .. n : i < j => keys[i] < keys[j]
  BY <1>2 DEF Rising
<1>4. \A i \in 1 .. n : keys[i] \in S /\ keys[i] \in Nat
  BY <1>2
<1>5. \A i, j \in 1 .. n : keys[i] = keys[j] => i = j
  BY <1>1, <1>3, <1>4
<1>6. \A k \in S : \E i \in 1 .. n : keys[i] = k
  <2>1. keys \in Injection(1 .. n, S)
    BY <1>2, <1>5 DEF Injection, IsInjective
  <2>2. keys \in Surjection(1 .. n, S)
    BY <1>1, <2>1, FS_Injection DEF n
  <2> QED
    BY <2>2 DEF Surjection
<1> QED
  BY <1>1, <1>2, <1>3, <1>5, <1>6 DEF keys, n

\* The first index of a key in a file.
LEMMA FirstIndex ==
  ASSUME NEW n \in Nat, NEW S, S \subseteq 1 .. n, S # {}
  PROVE  \E i \in S : \A j \in S : i <= j
<1>1. IsFiniteSet(1 .. n) /\ S \in SUBSET (1 .. n) /\ S \subseteq Nat
  <2>1. IsFiniteSet(1 .. n)
    BY FS_Interval
  <2>2. 1 .. n \subseteq Nat
    OBVIOUS
  <2> QED
    BY <2>1, <2>2
<1>2. IsFiniteSet(S)
  BY <1>1, FS_Subset
<1>3. Cardinality(S) \in Nat /\ Cardinality(S) # 0
  BY <1>2, FS_CardinalityType, FS_EmptySet
<1> DEFINE c == Cardinality(S)
           keys == InOrder(S)
<1>4. /\ keys \in [1 .. c -> S] /\ \A k \in S : \E i \in 1 .. c : keys[i] = k
      /\ \A i, j \in 1 .. c : i < j => keys[i] < keys[j]
  BY <1>1, <1>2, InOrderFacts
<1> HIDE DEF c, keys
<1>5. 1 \in 1 .. c /\ \A i \in 1 .. c : i = 1 \/ 1 < i
  BY <1>3 DEF c
<1>6. ASSUME NEW k \in S PROVE keys[1] <= k
  <2>1. PICK i \in 1 .. c : keys[i] = k
    BY <1>4
  <2>2. i = 1 \/ keys[1] < k
    BY <1>4, <1>5, <2>1
  <2>3. keys[1] \in Nat /\ k \in Nat
    BY <1>1, <1>4, <1>5
  <2> QED
    BY <2>1, <2>2, <2>3
<1> QED
  BY <1>4, <1>5, <1>6

LEMMA FirmwareFacts ==
  ASSUME NEW g \in Firmwares
  PROVE  /\ g \subseteq Nat /\ IsFiniteSet(g) /\ g \subseteq AllKeys
         /\ Cardinality(g) \in Nat \ {0}
         /\ Mark \notin AllKeys /\ Mark \notin g
<1>1. g \subseteq Nat /\ IsFiniteSet(g) /\ g # {} /\ g \subseteq AllKeys /\ AllKeys \subseteq Nat
  BY FirmwareKeys DEF AllKeys
<1>2. Cardinality(g) \in Nat /\ Cardinality(g) # 0
  BY <1>1, FS_CardinalityType, FS_EmptySet
<1>3. Mark \notin AllKeys /\ Mark \notin g
  <2> DEFINE top == CHOOSE k \in AllKeys : \A j \in AllKeys : j <= k
  <2>1. top \in AllKeys /\ \A j \in AllKeys : j <= top
    BY FirmwareKeys
  <2>2. Mark = 1 + top
    BY DEF Mark
  <2> HIDE DEF top
  <2> QED
    BY <1>1, <2>1, <2>2
<1> QED
  BY <1>1, <1>2, <1>3

-----------------------------------------------------------------------------
(* Writing and reading the user file.                                      *)

LEMMA FileFacts ==
  ASSUME NEW file \in Seq(Word)
  PROVE  /\ Len(file) \in Nat /\ DOMAIN file = 1 .. Len(file)
         /\ \A i \in 1 .. Len(file) : /\ file[i] \in Word /\ file[i].key \in AllKeys
                                     /\ file[i].val \in Vals
<1>1. Len(file) \in Nat /\ DOMAIN file = 1 .. Len(file)
  BY LenProperties
<1>2. \A i \in 1 .. Len(file) : file[i] \in Word
  BY ElementOfSeq
<1> QED
  BY <1>1, <1>2 DEF Word

LEMMA WordsFacts ==
  ASSUME NEW f \in Firmwares, NEW s \in [f -> Vals]
  PROVE  Words(s) \in Seq(Word) /\ Len(Words(s)) = Cardinality(f) /\ Starts(Words(s), f, s)
<1> DEFINE n == Cardinality(f)
           keys == InOrder(f)
           w == [i \in 1 .. n |-> [key |-> keys[i], val |-> s[keys[i]]]]
<1>1. Words(s) = w
  BY DEF Words
<1>2. n \in Nat /\ keys \in [1 .. n -> f] /\ f \subseteq AllKeys
  BY FirmwareFacts, InOrderFacts
<1> HIDE DEF n, keys
<1>3. w \in [1 .. n -> Word]
  BY <1>2 DEF Word
<1>4. w \in Seq(Word) /\ Len(w) = n
  <2>1. w \in Seq(Word)
    BY <1>2, <1>3, SeqDef
  <2>2. Len(w) \in Nat /\ DOMAIN w = 1 .. Len(w) /\ DOMAIN w = 1 .. n
    BY <1>3, <2>1, LenProperties
  <2> HIDE DEF w
  <2>3. \A a, b \in Nat : 1 .. a = 1 .. b => a = b
    OBVIOUS
  <2> QED
    BY <1>2, <2>1, <2>2, <2>3
<1>5. \A i \in 1 .. n : w[i] = [key |-> keys[i], val |-> s[keys[i]]]
  OBVIOUS
<1>6. n >= n
  BY <1>2
<1> QED
  BY <1>1, <1>4, <1>5, <1>6 DEF Starts, n, keys

\* Whatever the file held, it starts with the words written over it.
LEMMA OverWriteFacts ==
  ASSUME NEW f \in Firmwares, NEW s \in [f -> Vals], NEW file \in Seq(Word)
  PROVE  OverWrite(file, Words(s)) \in Seq(Word) /\ Starts(OverWrite(file, Words(s)), f, s)
<1> DEFINE w == Words(s)
           n == Cardinality(f)
           m == Len(file)
           rest == SubSeq(file, n + 1, m)
           new == w \o rest
<1>1. w \in Seq(Word) /\ Len(w) = n /\ Starts(w, f, s) /\ n \in Nat /\ m \in Nat
  BY WordsFacts, FirmwareFacts, FileFacts
<1>2. OverWrite(file, w) = new
  BY <1>1 DEF OverWrite
<1>3. rest \in Seq(Word)
  <2>1. \A i \in n + 1 .. m : file[i] \in Word
    BY <1>1, FileFacts
  <2> QED
    BY <1>1, <2>1, SubSeqProperties
<1> HIDE DEF w, rest, m
<1>4. Len(rest) \in Nat
  BY <1>3, FileFacts
<1>5. /\ new \in Seq(Word) /\ Len(new) = Len(w) + Len(rest)
      /\ \A i \in 1 .. Len(w) + Len(rest) : new[i] = IF i <= Len(w) THEN w[i] ELSE rest[i - Len(w)]
  BY <1>1, <1>3, ConcatProperties
<1> HIDE DEF new, n
<1>6. Len(new) >= n /\ \A i \in 1 .. n : new[i] = w[i]
  BY <1>1, <1>4, <1>5
<1> QED
  BY <1>1, <1>2, <1>5, <1>6 DEF Starts, w, n

\* What a reader finds: every value a firmware wrote at the start of the file,
\* but the one that the last word of a longer file is about.
LEMMA ReadMapFacts ==
  ASSUME NEW file \in Seq(Word), Len(file) # 0
  PROVE  /\ DOMAIN ReadMap(file) \subseteq AllKeys
         /\ \A k \in DOMAIN ReadMap(file) : ReadMap(file)[k] \in Vals
         /\ \A f \in Firmwares : \A s \in [f -> Vals] : Starts(file, f, s) =>
               \A k \in f : /\ k \in DOMAIN ReadMap(file)
                           /\ \/ ReadMap(file)[k] = s[k]
                              \/ Len(file) > Cardinality(f) /\ file[Len(file)].key = k
<1> DEFINE n == Len(file)
           Key(i) == file[i].key
           Wins(i) == \/ i = n
                      \/ /\ Key(i) # Key(n)
                         /\ \A j \in 1 .. i - 1 : Key(j) # Key(i)
           keys == {Key(i) : i \in DOMAIN file}
           word(k) == CHOOSE i \in DOMAIN file : Key(i) = k /\ Wins(i)
<1>1. /\ n \in Nat \ {0} /\ DOMAIN file = 1 .. n /\ n \in 1 .. n
      /\ \A i \in 1 .. n : Key(i) \in AllKeys /\ file[i].val \in Vals
  BY FileFacts
<1>2. ReadMap(file) = [k \in keys |-> file[word(k)].val]
  BY DEF ReadMap
<1> HIDE DEF n, Key
<1>3. ASSUME NEW k \in keys PROVE \E i \in DOMAIN file : Key(i) = k /\ Wins(i)
  <2>1. CASE k = Key(n)
    BY <1>1, <2>1
  <2>2. CASE k # Key(n)
    <3> DEFINE at == {i \in 1 .. n : Key(i) = k}
    <3>1. at \subseteq 1 .. n /\ at # {}
      BY <1>1
    <3>2. PICK i \in at : \A j \in at : i <= j
      <4> HIDE DEF at
      <4> QED
        BY <1>1, <3>1, FirstIndex
    <3>3. ASSUME NEW j \in 1 .. i - 1 PROVE Key(j) # Key(i)
      <4>1. j \in 1 .. n /\ ~(i <= j)
        BY <1>1, <3>2
      <4> QED
        BY <3>2, <4>1
    <3> QED
      BY <1>1, <2>2, <3>2, <3>3
  <2> QED
    BY <2>1, <2>2
<1>4. ASSUME NEW k \in keys PROVE word(k) \in 1 .. n /\ Key(word(k)) = k /\ Wins(word(k))
  BY <1>1, <1>3
<1>5. DOMAIN ReadMap(file) = keys /\ keys \subseteq AllKeys
  BY <1>1, <1>2
<1>6. ASSUME NEW k \in keys PROVE ReadMap(file)[k] \in Vals
  BY <1>1, <1>2, <1>4
<1>7. ASSUME NEW f \in Firmwares, NEW s \in [f -> Vals], Starts(file, f, s), NEW k \in f
      PROVE  /\ k \in keys
             /\ ReadMap(file)[k] = s[k] \/ (n > Cardinality(f) /\ Key(n) = k)
  <2> DEFINE c == Cardinality(f)
             rank == InOrder(f)
  <2>1. /\ c \in Nat /\ c <= n /\ rank \in [1 .. c -> f]
        /\ \A i, j \in 1 .. c : rank[i] = rank[j] => i = j
        /\ \E i \in 1 .. c : rank[i] = k
        /\ \A i \in 1 .. c : Key(i) = rank[i] /\ file[i].val = s[rank[i]]
    <3>1. f \subseteq Nat /\ IsFiniteSet(f)
      BY FirmwareFacts
    <3>2. /\ c \in Nat /\ rank \in [1 .. c -> f]
          /\ \A i, j \in 1 .. c : rank[i] = rank[j] => i = j
          /\ \E i \in 1 .. c : rank[i] = k
      BY <3>1, InOrderFacts
    <3>3. n >= c /\ \A i \in 1 .. c : file[i] = [key |-> rank[i], val |-> s[rank[i]]]
      BY <1>7 DEF Starts, n
    <3>4. \A i \in 1 .. c : Key(i) = rank[i] /\ file[i].val = s[rank[i]]
      <4> HIDE DEF c, rank
      <4> SUFFICES ASSUME NEW i \in 1 .. c
                   PROVE  Key(i) = rank[i] /\ file[i].val = s[rank[i]]
        OBVIOUS
      <4>1. file[i] = [key |-> rank[i], val |-> s[rank[i]]]
        BY <3>3
      <4>2. file[i].key = rank[i] /\ file[i].val = s[rank[i]]
        BY <4>1
      <4> QED
        BY <4>2 DEF Key
    <3>5. c <= n
      BY <1>1, <3>2, <3>3
    <3> QED
      BY <3>2, <3>4, <3>5
  <2> HIDE DEF c, rank
  <2>2. PICK i \in 1 .. c : rank[i] = k
    BY <2>1
  <2>3. i \in 1 .. n /\ Key(i) = k /\ file[i].val = s[k] /\ 1 .. c \subseteq 1 .. n
    BY <1>1, <2>1, <2>2
  <2>4. k \in keys
    BY <1>1, <2>3
  <2>5. ASSUME ~(n > c /\ Key(n) = k) PROVE word(k) = i
    <3> DEFINE w == word(k)
    <3>1. w \in 1 .. n /\ Key(w) = k /\ Wins(w)
      BY <1>4, <2>4
    <3> HIDE DEF w
    <3>2. CASE Key(n) = k
      <4>1. n = c /\ n \in 1 .. c
        BY <1>1, <2>1, <2>5, <3>2
      <4>2. n = i
        BY <2>1, <2>2, <3>2, <4>1
      <4>3. w = n
        BY <3>1, <3>2
      <4> QED
        BY <4>2, <4>3 DEF w
    <3>3. CASE Key(n) # k
      <4>1. \A j \in 1 .. w - 1 : Key(j) # k
        BY <3>1, <3>3
      <4>2. ~(i < w)
        BY <1>1, <2>3, <3>1, <4>1
      <4>3. w \in 1 .. c
        BY <1>1, <2>1, <2>2, <3>1, <4>2
      <4>4. w = i
        BY <2>1, <2>2, <3>1, <4>3
      <4> QED
        BY <4>4 DEF w
    <3> QED
      BY <3>2, <3>3
  <2>6. ReadMap(file)[k] = s[k] \/ (n > c /\ Key(n) = k)
    <3> HIDE DEF word
    <3> QED
      BY <1>2, <2>3, <2>4, <2>5
  <2> QED
    BY <2>4, <2>6 DEF c
<1> HIDE DEF keys
<1> QED
  BY <1>5, <1>6, <1>7 DEF n, Key

LEMMA DefaultType == \A f \in Firmwares : Default(f) \in [f -> Vals]
BY LevelFacts DEF Default, Vals

\* What a start of the running firmware reads in a file, and what it finds there
\* if it wrote it.
LEMMA LoadFacts ==
  ASSUME NEW file \in Seq(Word), Len(file) # 0, firmware \in Firmwares
  PROVE  LET new == LoadSettings(MigrateStoreIfNeeded(ReadMap(file)))
         IN  /\ new \in [firmware -> Vals]
             /\ \A s \in [firmware -> Vals] : Starts(file, firmware, s) =>
                   \A k \in firmware :
                      \/ new[k] = s[k]
                      \/ Len(file) > Cardinality(firmware) /\ file[Len(file)].key = k
<1> DEFINE map == ReadMap(file)
           store == MigrateStoreIfNeeded(map)
           new == LoadSettings(store)
           Stale(k) == Len(file) > Cardinality(firmware) /\ file[Len(file)].key = k
<1>1. /\ DOMAIN map \subseteq AllKeys /\ \A k \in DOMAIN map : map[k] \in Vals
      /\ \A s \in [firmware -> Vals] : Starts(file, firmware, s) =>
            \A k \in firmware : k \in DOMAIN map /\ (map[k] = s[k] \/ Stale(k))
  BY ReadMapFacts
<1>2. Mark \notin AllKeys /\ Mark \notin firmware
  BY FirmwareFacts
<1> HIDE DEF map, Stale
<1>3. DOMAIN store = DOMAIN map \cup {Mark} /\ \A k \in DOMAIN map : store[k] = map[k]
  BY <1>1, <1>2 DEF MigrateStoreIfNeeded, Marked, Put
<1> HIDE DEF store
<1>4. \A k \in firmware : new[k] = IF k \in DOMAIN map THEN map[k] ELSE Default(firmware)[k]
  BY <1>2, <1>3 DEF LoadSettings
<1>5. new \in [firmware -> Vals]
  <2>1. Default(firmware) \in [firmware -> Vals]
    BY DefaultType
  <2>2. \A k \in firmware : new[k] \in Vals
    BY <1>1, <1>4, <2>1
  <2>3. new = [k \in firmware |-> new[k]]
    BY DEF LoadSettings
  <2> HIDE DEF new
  <2> QED
    BY <2>2, <2>3
<1>6. ASSUME NEW s \in [firmware -> Vals], Starts(file, firmware, s), NEW k \in firmware
      PROVE  new[k] = s[k] \/ Stale(k)
  BY <1>1, <1>4, <1>6
<1> QED
  BY <1>5, <1>6 DEF store, map, Stale

LEMMA NoFileFacts == NoFile \in Seq(Word) /\ Len(NoFile) = 0
BY EmptySeq DEF NoFile

\* What a start finds in the user file.
LEMMA BootReads ==
  ASSUME UserInv, Boot
  PROVE  /\ settings' \in [firmware -> Vals]
         /\ Fits(userFile', userKept')
         /\ userKept'.fw = firmware =>
               \A k \in firmware : settings'[k] = userKept'.is[k] \/ StaleWord(k)
<1>1. firmware \in Firmwares /\ firmware # {} /\ Default(firmware) \in [firmware -> Vals]
  BY FirmwareKeys, DefaultType DEF UserInv
<1>2. CASE cause = "watchdog"
  <2>1. userFile' = NoFile /\ userKept' = NoSave /\ settings' = Default(firmware)
    BY <1>2 DEF Boot, ClearInternalFs, ReadUser
  <2> QED
    BY <1>1, <2>1, NoFileFacts DEF Fits, NoSave
<1>3. CASE cause # "watchdog"
  <2>1. /\ userKept' = userKept /\ userFile' = userFile
        /\ IF userFile = NoFile
           THEN settings' = Default(firmware)
           ELSE settings' = LoadSettings(MigrateStoreIfNeeded(ReadMap(userFile)))
    BY <1>3 DEF Boot, ReadUser, files
  <2>2. CASE userFile = NoFile
    <3>1. ASSUME NEW f \in Firmwares, NEW s, Starts(userFile, f, s) PROVE FALSE
      BY <2>2, <3>1, NoFileFacts, FirmwareFacts DEF Starts
    <3>2. settings' \in [firmware -> Vals] /\ Fits(userFile', userKept')
      BY <1>1, <2>1, <2>2 DEF UserInv
    <3>3. userKept.fw = firmware => userKept.is = Default(firmware)
      BY <1>1, <2>2, <3>1 DEF UserInv, Fits, NoSave
    <3> QED
      BY <2>1, <2>2, <3>2, <3>3
  <2>3. CASE userFile # NoFile
    <3>1. userFile \in Seq(Word) /\ Len(userFile) # 0
      <4>1. userFile \in Seq(Word)
        BY DEF UserInv, Fits
      <4> QED
        BY <2>3, <4>1, EmptySeq DEF NoFile
    <3>2. /\ settings' \in [firmware -> Vals]
          /\ \A s \in [firmware -> Vals] : Starts(userFile, firmware, s) =>
                \A k \in firmware : settings'[k] = s[k] \/ StaleWord(k)
      BY <1>1, <2>1, <2>3, <3>1, LoadFacts DEF StaleWord
    <3>3. userKept.fw = firmware => /\ userKept.is \in [firmware -> Vals]
                                    /\ Starts(userFile, firmware, userKept.is)
      BY <1>1, <2>3 DEF UserInv, Fits, NoSave
    <3> QED
      BY <2>1, <3>2, <3>3 DEF UserInv
  <2> QED
    BY <2>2, <2>3
<1> QED
  BY <1>2, <1>3

\* What a save writes.
LEMMA SaveWrites ==
  ASSUME UserInv, NEW opened \in BOOLEAN, NEW created \in BOOLEAN, WriteUserFile(opened, created)
  PROVE  Fits(userFile', userKept')
<1> DEFINE f == firmware
           old == IF opened THEN userFile ELSE NoFile
<1>1. f \in Firmwares /\ settings \in [f -> Vals] /\ Default(f) \in [f -> Vals]
  BY DefaultType DEF UserInv
<1>2. old \in Seq(Word)
  BY NoFileFacts DEF UserInv, Fits
<1>3. \/ userFile' = NoFile /\ userKept' = NoSave
      \/ /\ userFile' = OverWrite(old, Words(userMap))
         /\ userKept' = [fw |-> f, is |-> IF keepUser THEN settings ELSE Default(f)]
  BY DEF WriteUserFile
<1>4. CASE userFile' = NoFile /\ userKept' = NoSave
  BY <1>4, NoFileFacts DEF Fits
<1>5. CASE userFile' = OverWrite(old, Words(userMap)) /\ keepUser
           /\ userKept' = [fw |-> f, is |-> settings]
  <2>1. userMap = settings
    BY <1>5 DEF WriteUserFile, UserInv
  <2>2. userFile' \in Seq(Word) /\ Starts(userFile', f, settings)
    <3> HIDE DEF old
    <3> QED
      BY <1>1, <1>2, <1>5, <2>1, OverWriteFacts
  <2> QED
    BY <1>1, <1>5, <2>2 DEF Fits
<1>6. CASE userFile' = OverWrite(old, Words(userMap)) /\ ~keepUser
           /\ userKept' = [fw |-> f, is |-> Default(f)]
  <2>1. userMap = <<>> /\ old = <<>>
    BY <1>6 DEF WriteUserFile, UserInv, NoFile
  <2>2. Words(<<>>) = <<>>
    <3>1. DOMAIN <<>> = {} /\ Cardinality(DOMAIN <<>>) = 0
      BY NoFileIsEmpty, FS_EmptySet DEF NoFile
    <3> QED
      BY <3>1 DEF Words
  <2>3. userFile' = <<>>
    <3>1. Len(<<>>) = 0
      BY EmptySeq
    <3>2. SubSeq(<<>>, Len(<<>>) + 1, Len(<<>>)) = <<>>
      BY <3>1, SubSeqEmpty
    <3>3. <<>> \o <<>> = <<>>
      BY EmptySeq, ConcatEmptySeq
    <3> QED
      BY <1>6, <2>1, <2>2, <3>2, <3>3 DEF OverWrite
  <2> QED
    BY <1>1, <1>6, <2>3, NoFileFacts DEF Fits, NoFile
<1> QED
  BY <1>3, <1>4, <1>5, <1>6 DEF UserInv

\* A format of the file system leaves no file, and no save.
LEMMA LeftFits ==
  ASSUME UserInv, NEW opened \in BOOLEAN, UserFileLeft(opened)
  PROVE  Fits(userFile', userKept')
BY NoFileFacts DEF UserInv, UserFileLeft, Fits

LEMMA UserInit == Init => UserInv
BY DefaultType, NoFileFacts DEF Init, UserInv, Fits

LEMMA UserNext == UserInv /\ [Next]_vars => UserInv'
<1> SUFFICES ASSUME UserInv, [Next]_vars PROVE UserInv'
  OBVIOUS
<1>1. CASE Boot
  <2>1. phase' \in {"dfu", "ready"} /\ UNCHANGED <<firmware, keepUser>>
    BY <1>1 DEF Boot
  <2> QED
    BY <1>1, <2>1, BootReads DEF UserInv
<1>2. ASSUME NEW opened \in BOOLEAN, NEW created \in BOOLEAN,
             SetupCleanSleepFlag(opened, created)
      PROVE  UserInv'
  <2>1. Fits(userFile', userKept')
    BY <1>2, LeftFits DEF SetupCleanSleepFlag
  <2> QED
    BY <1>2, <2>1 DEF SetupCleanSleepFlag, UserInv, memory
<1>3. CASE ChangeSetting
  <2>1. PICK k \in firmware, l \in Levels :
           settings' = [settings EXCEPT ![k] = [by |-> firmware, level |-> l]]
    BY <1>3 DEF ChangeSetting
  <2>2. settings' \in [firmware -> Vals]
    BY <2>1 DEF UserInv, Vals
  <2> QED
    BY <1>3, <2>2 DEF ChangeSetting, UserInv, files, maps, history
<1>4. CASE ChangeBrightness \/ SleepFails \/ EnterDfu
  BY <1>4 DEF ChangeBrightness, SleepFails, EnterDfu, UserInv, files, maps, memory, history
<1>5. CASE FormatFs
  BY <1>5, NoFileFacts DEF FormatFs, ClearInternalFs, UserInv, Fits, maps, memory
<1>6. CASE Shutdown
  BY <1>6 DEF Shutdown, PrepareSave, UserInv, files, memory
<1>7. CASE \E s \in BOOLEAN : FactoryReset(s)
  BY <1>7, NoFileFacts DEF FactoryReset, PrepareSave, ClearInternalFs, UserInv, Fits, memory
<1>8. CASE EraseUserFile
  <2>1. ~keepUser
    <3>1. ASSUME keepUser PROVE FALSE
      <4>1. lastSize = 0 /\ DOMAIN userMap = firmware
        BY <1>8, <3>1 DEF EraseUserFile, UserInv
      <4>2. Cardinality(firmware) \in Nat
        BY FirmwareFacts DEF UserInv
      <4> QED
        BY <1>8, <4>1, <4>2 DEF EraseUserFile, EraseFirst
    <3> QED
      BY <3>1
  <2> QED
    BY <1>8, <2>1 DEF EraseUserFile, UserInv, maps, memory, history
<1>9. ASSUME NEW opened \in BOOLEAN, NEW created \in BOOLEAN, WriteUserFile(opened, created)
      PROVE  UserInv'
  <2>1. phase' = "userSaved" /\ UNCHANGED <<firmware, settings, keepUser>>
    BY <1>9 DEF WriteUserFile, memory
  <2> QED
    BY <1>9, <2>1, SaveWrites DEF UserInv
<1>10. ASSUME NEW opened \in BOOLEAN, NEW created \in BOOLEAN, WriteSystemFile(opened, created)
       PROVE  UserInv'
  <2>1. Fits(userFile', userKept')
    BY <1>10, LeftFits DEF WriteSystemFile
  <2> QED
    BY <1>10, <2>1 DEF WriteSystemFile, UserInv, maps, memory
<1>11. CASE WakeUp \/ (\E why \in Causes : Crash(why)) \/ (\E f \in Firmwares : Flash(f))
  BY <1>11, DefaultType DEF WakeUp, Crash, Flash, Forget, UserInv, files, history
<1>12. CASE UNCHANGED vars
  BY <1>12 DEF vars, UserInv, files, maps, memory, history
<1> QED
  BY <1>1, <1>2, <1>3, <1>4, <1>5, <1>6, <1>7, <1>8, <1>9, <1>10, <1>11, <1>12 DEF Next, Writes
-----------------------------------------------------------------------------

\* The two files are always what the last saves, format and marks left.
THEOREM SpecIInv == Spec => []IInv
<1>1. Init => IInv
  BY SysInit, UserInit DEF IInv
<1>2. IInv /\ [Next]_vars => IInv'
  BY SysNext, UserNext DEF IInv
<1> QED
  BY <1>1, <1>2, PTL DEF Spec

\* A start raises SYSTEM_SLEEP_SKIPPED exactly when the last run that reached
\* START_LOGIC did not complete its save, or nothing is saved.
THEOREM SpecSkippedSleepNoticed == Spec => SkippedSleepNoticed
<1>1. SysInv /\ [Next]_vars => [Boot => (skipped' <=> dirty \/ sysKept' = -1)]_vars
  <2> SUFFICES ASSUME SysInv, Boot PROVE skipped' <=> dirty \/ sysKept' = -1
    OBVIOUS
  <2>1. CASE cause = "watchdog"
    BY <2>1, NoFileIsEmpty DEF Boot, ReadSystem, ClearInternalFs
  <2>2. CASE cause # "watchdog"
    BY <2>2, NoFileIsEmpty DEF Boot, ReadSystem, SysInv, Clean
  <2> QED
    BY <2>1, <2>2
<1>2. IInv => SysInv
  BY DEF IInv
<1> QED
  BY <1>1, <1>2, SpecIInv, PTL DEF Spec, SkippedSleepNoticed

\* Whatever step a loss of power falls in, a start of the firmware that saved last
\* finds each setting of that save, but the one of a stale last word, and any
\* start the brightness of the last completed save, unless the file system was
\* formatted since.
THEOREM SpecPowerLossKeepsSave == Spec => PowerLossKeepsSave
<1> DEFINE Kept == /\ userKept'.fw = firmware =>
                        \A k \in firmware : settings'[k] = userKept'.is[k] \/ StaleWord(k)
                   /\ sysKept' # -1 => level' = sysKept'
<1>1. IInv /\ [Next]_vars => [Boot => Kept]_vars
  <2> SUFFICES ASSUME IInv, Boot PROVE Kept
    OBVIOUS
  <2>1. userKept'.fw = firmware =>
           \A k \in firmware : settings'[k] = userKept'.is[k] \/ StaleWord(k)
    BY BootReads DEF IInv
  <2>2. sysKept' # -1 => level' = sysKept'
    BY DEF IInv, SysInv, HasLevel, Boot, ReadSystem, ClearInternalFs
  <2> QED
    BY <2>1, <2>2
<1> QED
  BY <1>1, SpecIInv, PTL DEF Spec, PowerLossKeepsSave

=============================================================================
