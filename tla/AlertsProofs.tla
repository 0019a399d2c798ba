---------------------------- MODULE AlertsProofs ----------------------------
(***************************************************************************)
(* Proofs about the alerts: the types, and that what the lamp may use      *)
(* follows the alerts, for any set of alerts, any measures and any turn.   *)
(***************************************************************************)
EXTENDS Alerts, TLAPS

\* An alert whose bit did not change since this update started, and that was
\* looked at, is handled if and only if it is raised.
HandledIfSteady == \A a \in steady \ todo : (flag[a] = "raised") <=> (a \in raised)

\* A call of update_alerts() still agrees with a bit that did not change: the
\* store will change it, in the word it loaded as in the word that is there.
CallIfSteady ==
  \A a \in steady :
    op["main"] # NoCall /\ op["main"].alert = a =>
      /\ op["main"].kind = "clear" <=> a \in raised
      /\ \A word \in op["main"].word : a \in word <=> a \in raised

AllLookedAt == ~updating => todo = {}

IInv == TypeOK /\ HandledIfSteady /\ CallIfSteady /\ AllLookedAt

-----------------------------------------------------------------------------

\* The bound of the ages is a natural number.
LEMMA MaxAgeNat == MaxAge \in Nat \ {0}
BY TurnAssumption DEF MaxAge

\* A step of time keeps an age in its range.
LEMMA AgedRange == \A n \in Never..MaxAge : Aged(n) \in Never..MaxAge
BY MaxAgeNat DEF Aged, Never

\* A new call of a thread is a call.
LEMMA CallType ==
  ASSUME NEW a \in Present, NEW kind \in {"raise", "clear"}
  PROVE  /\ Call(kind, a) \in Calls
         /\ Call(kind, a) # NoCall
         /\ Call(kind, a).alert = a /\ Call(kind, a).kind = kind /\ Call(kind, a).word = {}
<1>1. Call(kind, a) # NoCall
  <2>1. Call(kind, a).kind # NoCall.kind
    BY DEF Call, NoCall
  <2> QED BY <2>1
<1>2. Call(kind, a) \in Calls
  BY DEF Call, Calls
<1> QED BY <1>1, <1>2 DEF Call

\* What the fields of a call can be.
LEMMA CallFields ==
  ASSUME NEW c \in Calls, c # NoCall
  PROVE  /\ c.kind \in {"raise", "clear"}
         /\ c.alert \in Present
         /\ \A w \in c.word : w \in SUBSET Present
BY DEF Calls

\* A call stays one when its word is loaded.
LEMMA LoadType ==
  ASSUME NEW c \in Calls, c # NoCall, NEW w \in SUBSET Present
  PROVE  /\ [c EXCEPT !.word = {w}] \in Calls
         /\ [c EXCEPT !.word = {w}] # NoCall
         /\ [c EXCEPT !.word = {w}].alert = c.alert
         /\ [c EXCEPT !.word = {w}].kind = c.kind
         /\ [c EXCEPT !.word = {w}].word = {w}
<1> DEFINE d == [c EXCEPT !.word = {w}]
<1>1. c \in [kind : {"raise", "clear"}, alert : Present,
             word : {{}} \cup { {v} : v \in SUBSET Present }]
  BY DEF Calls
<1>2. d.kind = c.kind /\ d.alert = c.alert /\ d.word = {w}
  BY <1>1
<1>3. d \in [kind : {"raise", "clear"}, alert : Present,
             word : {{}} \cup { {v} : v \in SUBSET Present }]
  BY <1>1
<1>4. d \in Calls
  BY <1>3 DEF Calls
<1>5. d # NoCall
  <2>1. d.kind # NoCall.kind
    BY <1>1, <1>2 DEF NoCall
  <2> QED BY <2>1
<1> QED BY <1>2, <1>4, <1>5

\* A stored word holds alerts; it disagrees with the loaded one on its alert alone.
LEMMA StoredType ==
  ASSUME NEW c \in Calls, c # NoCall, NEW w \in SUBSET Present
  PROVE  Stored(c, w) \in SUBSET Present
BY CallFields DEF Stored

\* The initial state satisfies the invariant.
LEMMA InitIInv == Init => IInv
<1> SUFFICES ASSUME Init PROVE IInv
  OBVIOUS
<1>1. TypeOK
  <2>1. age \in [Present -> Never..MaxAge]
    BY MaxAgeNat DEF Init, Never
  <2>2. op \in [Threads -> Calls] /\ op["main"] = NoCall
    BY DEF Init, Threads, Calls
  <2> QED BY <2>1, <2>2 DEF Init, TypeOK, FullLimit
<1>2. op["main"] = NoCall
  BY DEF Init, Threads
<1> QED BY <1>1, <1>2 DEF Init, IInv, HandledIfSteady, CallIfSteady, AllLookedAt

\* The start of update_alerts().
LEMMA StartUpdateStep == IInv /\ StartUpdate => IInv'
<1> SUFFICES ASSUME IInv, StartUpdate PROVE IInv'
  OBVIOUS
<1> USE DEF IInv, StartUpdate
<1>1. op["main"] = NoCall
  BY DEF TypeOK, AllLookedAt
<1>2. TypeOK'
  <2>1. age' \in [Present -> Never..MaxAge]
    BY AgedRange DEF TypeOK
  <2> QED BY <1>1, <2>1 DEF TypeOK
<1> QED BY <1>1, <1>2 DEF HandledIfSteady, CallIfSteady, AllLookedAt

\* update_alerts() calls raise() or clear().
LEMMA CallFromUpdateStep ==
  ASSUME NEW a \in Present, IInv, CallFromUpdate(a) PROVE IInv'
<1> USE DEF IInv, CallFromUpdate, Visits
<1>1. a \in todo /\ "main" \in Threads
  BY DEF IsFirst, Threads
<1>2. PICK kind \in {"raise", "clear"} :
        op' = [op EXCEPT !["main"] = Call(kind, a)] /\ (kind = "clear" <=> a \in raised)
  OBVIOUS
<1>3. op' \in [Threads -> Calls] /\ op'["main"] = Call(kind, a)
  BY <1>1, <1>2, CallType DEF TypeOK
<1>4. TypeOK'
  BY <1>1, <1>3, CallType DEF TypeOK
<1>5. CallIfSteady'
  BY <1>2, <1>3, CallType DEF CallIfSteady
<1> QED BY <1>4, <1>5 DEF HandledIfSteady, AllLookedAt

\* update_alerts() handles a raised alert.
LEMMA HandleRaisedStep ==
  ASSUME NEW a \in Present, IInv, HandleRaised(a) PROVE IInv'
<1> USE DEF IInv, HandleRaised, Visits
<1>1. a \in todo
  BY DEF IsFirst
<1>2. TypeOK'
  <2>1. RaisedAge(a) \in Never..MaxAge
    BY MaxAgeNat DEF TypeOK, RaisedAge, Never
  <2>2. age' \in [Present -> Never..MaxAge] /\ flag' \in [Present -> {"none", "raised", "lowered"}]
    BY <2>1 DEF TypeOK
  <2>3. limit' \in {1, 2, FullLimit}
    BY DEF TypeOK, RaisedLimit
  <2>4. requested' \in BOOLEAN
    BY DEF TypeOK
  <2> QED BY <2>2, <2>3, <2>4 DEF TypeOK
<1>3. HandledIfSteady'
  BY DEF HandledIfSteady, TypeOK
<1> QED BY <1>1, <1>2, <1>3 DEF CallIfSteady, AllLookedAt

\* update_alerts() handles a lowered alert.
LEMMA HandleLoweredStep ==
  ASSUME NEW a \in Present, IInv, HandleLowered(a) PROVE IInv'
<1> USE DEF IInv, HandleLowered, Visits
<1>1. a \in todo
  BY DEF IsFirst
<1>2. TypeOK'
  <2>1. Never \in Never..MaxAge
    BY MaxAgeNat DEF Never
  <2>2. age' \in [Present -> Never..MaxAge] /\ flag' \in [Present -> {"none", "raised", "lowered"}]
    BY <2>1 DEF TypeOK, LoweredFlag
  <2> QED BY <2>2 DEF TypeOK
<1>3. HandledIfSteady'
  BY DEF HandledIfSteady, TypeOK, LoweredFlag
<1> QED BY <1>1, <1>2, <1>3 DEF CallIfSteady, AllLookedAt

\* The end of handle_all().
LEMMA FinishHandleAllStep == IInv /\ FinishHandleAll => IInv'
<1> SUFFICES ASSUME IInv, FinishHandleAll PROVE IInv'
  OBVIOUS
<1> USE DEF IInv, FinishHandleAll
<1>1. TypeOK'
  BY DEF TypeOK
<1> QED BY <1>1 DEF HandledIfSteady, CallIfSteady, AllLookedAt

\* A thread loads the word.
LEMMA LoadWordStep ==
  ASSUME NEW t \in Threads, IInv, LoadWord(t) PROVE IInv'
<1> USE DEF IInv, LoadWord
<1>1. op[t] \in Calls /\ raised \in SUBSET Present
  BY DEF TypeOK
<1> DEFINE d == [op[t] EXCEPT !.word = {raised}]
<1>2. d \in Calls /\ d # NoCall /\ d.alert = op[t].alert /\ d.kind = op[t].kind /\ d.word = {raised}
  BY <1>1, LoadType
<1>3. op' = [op EXCEPT ![t] = d]
  BY DEF TypeOK
<1> HIDE DEF d
<1>4. op' \in [Threads -> Calls] /\ op'[t] = d /\ \A u \in Threads \ {t} : op'[u] = op[u]
  BY <1>2, <1>3 DEF TypeOK
<1>5. "main" \in Threads
  BY DEF Threads
<1>6. TypeOK'
  BY <1>2, <1>4, <1>5 DEF TypeOK
<1>7. CallIfSteady'
  BY <1>2, <1>4, <1>5 DEF CallIfSteady
<1> QED BY <1>6, <1>7 DEF HandledIfSteady, AllLookedAt

\* A bit that does not change in a store is the one it was.
LEMMA SteadyBits ==
  ASSUME NEW word, SetRaised(word)
  PROVE  steady' \subseteq steady /\ \A a \in steady' : a \in raised <=> a \in raised'
BY DEF SetRaised

\* A thread stores the word.
LEMMA StoreWordStep ==
  ASSUME NEW t \in Threads, IInv, StoreWord(t) PROVE IInv'
<1> USE DEF IInv
<1>1. PICK w \in op[t].word : SetRaised(Stored(op[t], w))
  BY DEF StoreWord
<1>2. op[t] \in Calls /\ "main" \in Threads
  BY DEF TypeOK, Threads
<1>3. op[t] # NoCall
  BY <1>1 DEF NoCall
<1>4. w \in SUBSET Present /\ op[t].alert \in Present /\ op[t].kind \in {"raise", "clear"}
  BY <1>1, <1>2, <1>3, CallFields
<1>5. /\ op' \in [Threads -> Calls]
      /\ op'[t] = NoCall /\ \A u \in Threads \ {t} : op'[u] = op[u]
  BY DEF StoreWord, TypeOK, Calls
<1>6. TypeOK'
  <2>1. raised' \in SUBSET Present /\ steady' \in SUBSET Present
    BY <1>1, <1>2, <1>3, <1>4, StoredType DEF SetRaised, TypeOK
  <2>2. todo' \in SUBSET Present
    BY DEF StoreWord, TypeOK
  <2>3. op'["main"] # NoCall => op'["main"].alert \in todo'
    BY <1>2, <1>5 DEF StoreWord, TypeOK
  <2> QED BY <1>5, <2>1, <2>2, <2>3 DEF StoreWord, TypeOK
<1>7. CallIfSteady'
  BY <1>1, <1>2, <1>5, SteadyBits DEF CallIfSteady
<1>8. HandledIfSteady'
  <2> SUFFICES ASSUME NEW a \in steady', a \notin todo'
               PROVE  (flag'[a] = "raised") <=> (a \in raised')
    BY DEF HandledIfSteady
  <2>1. a \in steady /\ (a \in raised <=> a \in raised')
    BY <1>1, SteadyBits
  <2>2. a \notin todo
    <3>1. CASE t = "main" /\ a = op["main"].alert
      <4>1. (op["main"].kind = "clear" <=> a \in raised) /\ (a \in w <=> a \in raised)
        BY <1>1, <1>3, <2>1, <3>1 DEF CallIfSteady
      <4>2. a \in raised' <=> a \notin raised
        BY <1>1, <1>4, <3>1, <4>1 DEF SetRaised, Stored
      <4> QED BY <2>1, <4>2
    <3>2. CASE ~(t = "main" /\ a = op["main"].alert)
      BY <3>2 DEF StoreWord
    <3> QED BY <3>1, <3>2
  <2> QED BY <2>1, <2>2 DEF HandledIfSteady, StoreWord
<1>9. AllLookedAt'
  BY DEF AllLookedAt, StoreWord
<1> QED BY <1>6, <1>7, <1>8, <1>9
\* Another thread calls raise().
LEMMA OtherRaisesStep ==
  ASSUME NEW a \in Present, IInv, OtherRaises(a) PROVE IInv'
<1> USE DEF IInv, OtherRaises
<1>1. age' \in [Present -> Never..MaxAge]
  BY MaxAgeNat DEF TypeOK, UpdateRaiseTime, Never
<1>2. op' \in [Threads -> Calls] /\ op'["main"] = op["main"]
  BY CallType DEF TypeOK, Threads
<1>3. TypeOK'
  BY <1>1, <1>2 DEF TypeOK
<1> QED BY <1>2, <1>3 DEF HandledIfSteady, CallIfSteady, AllLookedAt

\* Another thread calls clear().
LEMMA OtherClearsStep ==
  ASSUME NEW a \in Present, IInv, OtherClears(a) PROVE IInv'
<1> USE DEF IInv, OtherClears
<1>1. op' \in [Threads -> Calls] /\ op'["main"] = op["main"]
  BY CallType DEF TypeOK, Threads
<1>2. TypeOK'
  BY <1>1 DEF TypeOK
<1> QED BY <1>1, <1>2 DEF HandledIfSteady, CallIfSteady, AllLookedAt

\* The USB fault interrupt.
LEMMA UsbFaultStep == IInv /\ UsbFault => IInv'
<1> SUFFICES ASSUME IInv, UsbFault PROVE IInv'
  OBVIOUS
<1> USE DEF IInv, UsbFault
<1>1. age' \in [Present -> Never..MaxAge]
  BY MaxAgeNat DEF TypeOK, UpdateRaiseTime, Never
<1>2. raised' \in SUBSET Present /\ steady' \in SUBSET Present
  BY DEF TypeOK, SetRaised
<1>3. TypeOK'
  BY <1>1, <1>2 DEF TypeOK
<1>4. steady' \subseteq steady /\ \A a \in steady' : a \in raised <=> a \in raised'
  BY SteadyBits
<1> QED BY <1>3, <1>4 DEF HandledIfSteady, CallIfSteady, AllLookedAt

\* Every step keeps the invariant.
LEMMA NextIInv == IInv /\ [Next]_vars => IInv'
<1> SUFFICES ASSUME IInv, [Next]_vars PROVE IInv'
  OBVIOUS
<1>1. CASE MainLoop
  <2>1. "main" \in Threads
    BY DEF Threads
  <2> QED
    BY <1>1, <2>1, StartUpdateStep, CallFromUpdateStep, HandleRaisedStep, HandleLoweredStep,
       LoadWordStep, StoreWordStep, FinishHandleAllStep DEF MainLoop
<1>2. CASE Others
  <2>1. "other" \in Threads
    BY DEF Threads
  <2> QED
    BY <1>2, <2>1, OtherRaisesStep, OtherClearsStep, LoadWordStep, StoreWordStep,
       UsbFaultStep DEF Others, FinishOtherCall
<1>3. CASE UNCHANGED vars
  BY <1>3 DEF vars, IInv, TypeOK, HandledIfSteady, CallIfSteady, AllLookedAt
<1> QED BY <1>1, <1>2, <1>3 DEF Next

\* The invariant gives what the uses depend on.
LEMMA UsesFollow == IInv => BlocksWhileRaised /\ FreesOnceCleared
<1> SUFFICES ASSUME IInv, ~updating PROVE BlocksWhileRaised /\ FreesOnceCleared
  BY DEF BlocksWhileRaised, FreesOnceCleared
<1>1. \A a \in steady : flag[a] = "raised" <=> a \in raised
  BY DEF IInv, AllLookedAt, HandledIfSteady
<1>2. raised \subseteq Present
  BY DEF IInv, TypeOK
<1> QED BY <1>1, <1>2 DEF BlocksWhileRaised, FreesOnceCleared, CanUse

\* The invariant holds in every reachable state.
THEOREM SpecIInv == Spec => []IInv
BY InitIInv, NextIInv, PTL DEF Spec

\* The variables keep their types.
THEOREM SpecTypeOK == Spec => []TypeOK
<1>1. IInv => TypeOK
  BY DEF IInv
<1> QED BY <1>1, SpecIInv, PTL

\* An alert raised through a whole turn blocks what it prevents, for any alerts,
\* measures and length of the turn (can_use_output_power() and the like).
THEOREM SpecBlocksWhileRaised == Spec => []BlocksWhileRaised
BY UsesFollow, SpecIInv, PTL

\* After a turn through which no bit changed, a use that no raised alert prevents
\* is allowed.
THEOREM SpecFreesOnceCleared == Spec => []FreesOnceCleared
BY UsesFollow, SpecIInv, PTL

=============================================================================
