--------------------------- MODULE SaveDataProofs ---------------------------
(***************************************************************************)
(* Theorems about SaveData, for any number of instances and saves.         *)
(***************************************************************************)
EXTENDS SaveData, SequenceTheorems, TLAPS

Entry   == Instance \X Nat \X Nat
Objects == [exists : BOOLEAN, data : Seq(Entry)]

Typed ==
  /\ obj \in Objects
  /\ holder \in Instance \cup {None}
  /\ pc \in [Instance -> Calls]
  /\ ok \in [Instance -> BOOLEAN]
  /\ saves \in [Instance -> Nat]
  /\ stored \in Seq(Entry)
  /\ refused \in BOOLEAN
  /\ before \in [Instance -> Objects]
  /\ alone \in [Instance -> BOOLEAN]
  /\ existed \in BOOLEAN

\* While nothing is refused nobody is on its way to create the object anew.
Intact ==
  existed /\ ~refused => /\ obj.exists
                         /\ obj.data = stored
                         /\ \A i \in Instance : pc[i] \notin {"create", "writeNew"}

\* The end of a successful save is its chunk.
Ended(i) ==
  /\ obj \in SaveOutcomes(before[i], Chunk(i), MayFail)
  /\ ok[i] => \E earlier \in {<<>>, before[i].data} : obj.data = earlier \o Chunk(i)

\* How far a save that no other overlaps has come.
Progress(i) ==
  /\ pc[i] \in {"check", "checked", "create", "open", "seek", "writeEnd"} =>
       obj = before[i]
  /\ pc[i] \in {"checked", "open", "seek", "writeEnd"} => before[i].exists
  /\ pc[i] \in {"create", "writeNew"} => ~before[i].exists \/ MayFail
  /\ pc[i] = "writeNew" => obj = Holding(<<>>)
  /\ pc[i] = "close" => Ended(i)

Undisturbed ==
  \A i \in Instance : alone[i] /\ pc[i] # "idle" =>
    /\ \A j \in Instance \ {i} : pc[j] = "idle"
    /\ Progress(i)

IInv == Typed /\ NoLeakedHandle /\ Intact /\ Undisturbed

-----------------------------------------------------------------------------
(* Lemmas.                                                                 *)

LEMMA ChunkTyped ==
  ASSUME Typed, NEW i \in Instance PROVE Chunk(i) \in Seq(Entry)
<1>1. \A k \in 1..ChunkLen : <<i, saves[i], k>> \in Entry
  BY DEF Typed, Entry
<1> QED BY <1>1, SaveDataAssumption DEF Chunk

LEMMA HoldingTyped ==
  ASSUME NEW q \in Seq(Entry)
  PROVE  Holding(q) \in Objects /\ Holding(q).exists /\ Holding(q).data = q
BY DEF Holding, Objects

LEMMA AbsentTyped == Absent \in Objects /\ ~Absent.exists /\ Absent.data = <<>>
BY DEF Absent, Objects

\* What an uninterrupted save may leave behind is among the listed outcomes.
LEMMA Outcomes ==
  ASSUME NEW o \in Objects, NEW chunk, MayFail \in BOOLEAN
  PROVE  /\ ~o.exists \/ MayFail => Holding(chunk) \in SaveOutcomes(o, chunk, MayFail)
         /\ MayFail => o \in SaveOutcomes(o, chunk, MayFail)
         /\ MayFail => Holding(<<>>) \in SaveOutcomes(o, chunk, MayFail)
         /\ o.exists => Holding(o.data \o chunk) \in SaveOutcomes(o, chunk, MayFail)
<1> DEFINE found == {o.exists} \cup (IF MayFail THEN {FALSE} ELSE {})
           Result(f) == IF f THEN AppendOutcomes(o, chunk, MayFail)
                             ELSE PrepareOutcomes(o, chunk, MayFail)
<1>1. SaveOutcomes(o, chunk, MayFail) = UNION {Result(f) : f \in found}
  BY DEF SaveOutcomes
<1>2. /\ Result(FALSE) = PrepareOutcomes(o, chunk, MayFail)
      /\ Result(TRUE) = AppendOutcomes(o, chunk, MayFail)
  OBVIOUS
<1> HIDE DEF Result
<1>3. ASSUME NEW f \in found PROVE Result(f) \subseteq SaveOutcomes(o, chunk, MayFail)
  <2>1. Result(f) \in {Result(g) : g \in found} OBVIOUS
  <2> QED BY <1>1, <2>1
<1>4. ~o.exists \/ MayFail => PrepareOutcomes(o, chunk, MayFail)
                                \subseteq SaveOutcomes(o, chunk, MayFail)
  <2> SUFFICES ASSUME ~o.exists \/ MayFail
               PROVE  PrepareOutcomes(o, chunk, MayFail)
                        \subseteq SaveOutcomes(o, chunk, MayFail)
    OBVIOUS
  <2>1. FALSE \in found BY DEF Objects
  <2>2. Result(FALSE) \subseteq SaveOutcomes(o, chunk, MayFail) BY <1>3, <2>1
  <2> QED BY <2>2, <1>2
<1>5. o.exists => AppendOutcomes(o, chunk, MayFail) \subseteq SaveOutcomes(o, chunk, MayFail)
  <2> SUFFICES ASSUME o.exists
               PROVE  AppendOutcomes(o, chunk, MayFail)
                        \subseteq SaveOutcomes(o, chunk, MayFail)
    OBVIOUS
  <2>1. TRUE \in found BY DEF Objects
  <2>2. Result(TRUE) \subseteq SaveOutcomes(o, chunk, MayFail) BY <1>3, <2>1
  <2> QED BY <2>2, <1>2
<1> QED BY <1>4, <1>5 DEF PrepareOutcomes, AppendOutcomes

LEMMA OwnOutcome ==
  ASSUME Typed, NEW i \in Instance
  PROVE  MayFail => before[i] \in SaveOutcomes(before[i], Chunk(i), MayFail)
<1> DEFINE so == SaveOutcomes(before[i], Chunk(i), MayFail)
<1>1. before[i] \in Objects BY DEF Typed
<1>2. /\ ~before[i].exists \/ MayFail => Holding(Chunk(i)) \in so
      /\ MayFail => before[i] \in so
      /\ MayFail => Holding(<<>>) \in so
      /\ before[i].exists => Holding(before[i].data \o Chunk(i)) \in so
  BY <1>1, Outcomes, SaveDataAssumption
<1> QED BY <1>2

LEMMA InvariantInit == Init => IInv
<1> SUFFICES ASSUME Init PROVE IInv OBVIOUS
<1>1. <<>> \in Seq(Entry) OBVIOUS
<1>2. obj \in Objects /\ obj.data = <<>>
  BY <1>1, HoldingTyped, AbsentTyped DEF Init
<1>3. Typed
  BY <1>1, <1>2, AbsentTyped DEF Init, Typed, Calls, Objects
<1>4. NoLeakedHandle
  BY SaveDataAssumption DEF Init, NoLeakedHandle, Open
<1>5. Intact
  BY <1>2 DEF Init, Intact
<1>6. Undisturbed
  BY DEF Init, Undisturbed
<1> QED BY <1>3, <1>4, <1>5, <1>6 DEF IInv

-----------------------------------------------------------------------------
(* The steps of one instance.  An undisturbed save has the others idle, so *)
(* a step that leaves "idle" is its own, or the beginning of another.      *)

\* i goes on with its save, and only i moves.
Moves(i) ==
  /\ pc[i] # "idle"
  /\ \A j \in Instance \ {i} : pc'[j] = pc[j]
  /\ UNCHANGED <<saves, before, alone, existed>>

LEMMA OthersWait ==
  ASSUME IInv, NEW i \in Instance, Moves(i), Progress(i)' \/ ~alone[i] \/ pc'[i] = "idle"
  PROVE  Undisturbed'
<1> SUFFICES ASSUME NEW x \in Instance, alone'[x], pc'[x] # "idle"
             PROVE  (\A j \in Instance \ {x} : pc'[j] = "idle") /\ Progress(x)'
  BY DEF Undisturbed
<1>1. alone[x] BY DEF Moves
<1>2. x = i
  BY <1>1 DEF IInv, Undisturbed, Moves
<1> QED BY <1>1, <1>2 DEF IInv, Undisturbed, Moves

\* The object can be opened whenever it exists, if no other instance is saving.
LEMMA NobodyElse ==
  ASSUME IInv, NEW i \in Instance, alone[i], pc[i] # "idle", ~Open(i)
  PROVE  holder = None
<1>1. \A j \in Instance : ~Open(j)
  BY DEF IInv, Undisturbed, Open
<1> QED BY <1>1 DEF IInv, Typed, NoLeakedHandle

LEMMA StepOfBegin ==
  ASSUME IInv, NEW i \in Instance, Begin(i)
  PROVE  IInv'
<1> USE DEF Begin, Goto
<1>1. Typed'
  <2>1. alone' \in [Instance -> BOOLEAN]
    BY ZenonT(30) DEF IInv, Typed
  <2>2. /\ pc' \in [Instance -> Calls] /\ ok' \in [Instance -> BOOLEAN]
        /\ saves' \in [Instance -> Nat] /\ before' \in [Instance -> Objects]
    BY DEF IInv, Typed, Calls
  <2> QED BY <2>1, <2>2 DEF IInv, Typed
<1>2. NoLeakedHandle'
  BY DEF IInv, Typed, NoLeakedHandle, Open
<1>3. Intact'
  BY DEF IInv, Typed, Intact
<1>4. Undisturbed'
  <2> SUFFICES ASSUME NEW x \in Instance, alone'[x], pc'[x] # "idle"
               PROVE  (\A j \in Instance \ {x} : pc'[j] = "idle") /\ Progress(x)'
    BY DEF Undisturbed
  <2>1. x = i
    BY DEF IInv, Typed
  <2>2. \A k \in Instance \ {i} : pc[k] = "idle"
    BY <2>1 DEF IInv, Typed
  <2>3. pc'[i] = "check" /\ before'[i] = obj
    BY DEF IInv, Typed
  <2> QED BY <2>1, <2>2, <2>3 DEF IInv, Typed, Progress
<1> QED BY <1>1, <1>2, <1>3, <1>4 DEF IInv

LEMMA StepOfCheckOpen ==
  ASSUME IInv, NEW i \in Instance, CheckOpen(i)
  PROVE  IInv'
<1> USE DEF CheckOpen, Goto, history, CanOpen
<1>1. Typed'
  BY DEF IInv, Typed, Calls, Objects
<1>2. NoLeakedHandle'
  BY SaveDataAssumption DEF IInv, Typed, NoLeakedHandle, Open
<1>3. Intact'
  BY DEF IInv, Typed, Intact
<1>4. Moves(i)
  BY DEF IInv, Typed, Moves
<1>5. ASSUME alone[i] PROVE Progress(i)'
  <2>1. holder = None
    BY <1>5, NobodyElse DEF Open
  <2>2. Progress(i)
    BY <1>5 DEF IInv, Undisturbed
  <2> QED BY <2>1, <2>2 DEF IInv, Typed, Progress
<1> QED BY <1>1, <1>2, <1>3, <1>4, <1>5, OthersWait DEF IInv

LEMMA StepOfCheckClose ==
  ASSUME IInv, NEW i \in Instance, CheckClose(i)
  PROVE  IInv'
<1> USE DEF CheckClose, Goto, history
<1>1. Typed'
  BY DEF IInv, Typed, Calls
<1>2. NoLeakedHandle'
  BY SaveDataAssumption DEF IInv, Typed, NoLeakedHandle, Open
<1>3. Intact'
  BY DEF IInv, Typed, Intact
<1>4. Moves(i)
  BY DEF IInv, Typed, Moves
<1>5. ASSUME alone[i] PROVE Progress(i)'
  BY <1>5 DEF IInv, Typed, Undisturbed, Progress
<1> QED BY <1>1, <1>2, <1>3, <1>4, <1>5, OthersWait DEF IInv

LEMMA StepOfCreate ==
  ASSUME IInv, NEW i \in Instance, Create(i)
  PROVE  IInv'
<1> USE DEF Create, Fails, Goto, history
<1>0. Holding(<<>>) \in Objects
  <2>1. <<>> \in Seq(Entry) OBVIOUS
  <2> QED BY <2>1, HoldingTyped
<1>1. Typed'
  BY <1>0 DEF IInv, Typed, Calls
<1>2. NoLeakedHandle'
  BY SaveDataAssumption DEF IInv, Typed, NoLeakedHandle, Open
<1>3. Intact'
  BY DEF IInv, Typed, Intact
<1>4. Moves(i)
  BY DEF IInv, Typed, Moves
<1>5. ASSUME alone[i], pc'[i] # "idle" PROVE Progress(i)'
  BY <1>5 DEF IInv, Typed, Undisturbed, Progress
<1> QED BY <1>1, <1>2, <1>3, <1>4, <1>5, OthersWait DEF IInv

LEMMA StepOfAppendOpen ==
  ASSUME IInv, NEW i \in Instance, AppendOpen(i)
  PROVE  IInv'
<1> USE DEF AppendOpen, Fails, Goto, history, CanOpen
<1>1. Typed'
  BY DEF IInv, Typed, Calls
<1>2. NoLeakedHandle'
  BY SaveDataAssumption DEF IInv, Typed, NoLeakedHandle, Open
<1>3. Intact'
  BY DEF IInv, Typed, Intact
<1>4. Moves(i)
  BY DEF IInv, Typed, Moves
<1>5. ASSUME alone[i], pc'[i] # "idle" PROVE Progress(i)'
  BY <1>5 DEF IInv, Typed, Undisturbed, Progress
<1> QED BY <1>1, <1>2, <1>3, <1>4, <1>5, OthersWait DEF IInv

LEMMA StepOfSeek ==
  ASSUME IInv, NEW i \in Instance, Seek(i)
  PROVE  IInv'
<1> USE DEF Seek, Fails, Goto, history
<1>1. Typed'
  BY DEF IInv, Typed, Calls
<1>2. NoLeakedHandle'
  BY SaveDataAssumption DEF IInv, Typed, NoLeakedHandle, Open
<1>3. Intact'
  BY DEF IInv, Typed, Intact
<1>4. Moves(i)
  BY DEF IInv, Typed, Moves
<1>5. ASSUME alone[i] PROVE Progress(i)'
  <2>1. Progress(i)
    BY <1>5 DEF IInv, Undisturbed
  <2>2. CASE pc'[i] = "writeEnd"
    BY <2>1, <2>2 DEF IInv, Typed, Progress
  <2>3. CASE pc'[i] = "close"
    <3>1. MayFail /\ obj' = before[i] /\ ~ok'[i]
      BY <2>1, <2>3 DEF IInv, Typed, Progress
    <3>2. before[i] \in SaveOutcomes(before[i], Chunk(i), MayFail)
      BY <3>1, OwnOutcome DEF IInv
    <3>3. Ended(i)'
      BY <3>1, <3>2 DEF Ended, Chunk
    <3> QED BY <2>3, <3>3 DEF Progress
  <2> QED BY <2>2, <2>3 DEF IInv, Typed
<1> QED BY <1>1, <1>2, <1>3, <1>4, <1>5, OthersWait DEF IInv

LEMMA StepOfWrite ==
  ASSUME IInv, NEW i \in Instance, Write(i)
  PROVE  IInv'
<1> USE DEF Write, Fails, Goto, history
<1>0. obj.data \o Chunk(i) \in Seq(Entry) /\ stored \o Chunk(i) \in Seq(Entry)
  <2>1. Chunk(i) \in Seq(Entry) /\ obj.data \in Seq(Entry) /\ stored \in Seq(Entry)
    BY ChunkTyped DEF IInv, Typed, Objects
  <2> QED BY <2>1
<1>1. Typed'
  <2>1. Holding(obj.data \o Chunk(i)) \in Objects
    BY <1>0, HoldingTyped
  <2> HIDE DEF Write
  <2>2. /\ obj' \in Objects /\ stored' \in Seq(Entry) /\ pc' \in [Instance -> Calls]
        /\ ok' \in [Instance -> BOOLEAN] /\ refused' \in BOOLEAN
        /\ UNCHANGED <<holder, saves, before, alone, existed>>
    BY <1>0, <2>1 DEF IInv, Typed, Calls, Write
  <2> QED BY <2>2 DEF IInv, Typed
<1>2. NoLeakedHandle'
  BY SaveDataAssumption DEF IInv, Typed, NoLeakedHandle, Open
<1>3. Intact'
  <2>1. /\ Holding(obj.data \o Chunk(i)).exists
        /\ Holding(obj.data \o Chunk(i)).data = obj.data \o Chunk(i)
    BY <1>0, HoldingTyped
  <2> SUFFICES ASSUME existed, ~refused'
               PROVE  /\ obj'.exists /\ obj'.data = stored'
                      /\ \A k \in Instance : pc'[k] \notin {"create", "writeNew"}
    BY DEF Intact
  <2>2. /\ obj' = Holding(obj.data \o Chunk(i)) /\ stored' = stored \o Chunk(i)
        /\ ~refused
    OBVIOUS
  <2>3. /\ obj.data = stored
        /\ \A k \in Instance : pc[k] \notin {"create", "writeNew"}
    BY <2>2 DEF IInv, Intact
  <2>4. \A k \in Instance : pc'[k] \notin {"create", "writeNew"}
    BY <2>3 DEF IInv, Typed
  <2> QED BY <2>1, <2>2, <2>3, <2>4
<1>4. Moves(i)
  BY DEF IInv, Typed, Moves
<1>5. ASSUME alone[i] PROVE Progress(i)'
  <2> DEFINE so == SaveOutcomes(before[i], Chunk(i), MayFail)
  <2>1. Progress(i)
    BY <1>5 DEF IInv, Undisturbed
  <2>2. before[i] \in Objects /\ Chunk(i) \in Seq(Entry)
    BY ChunkTyped DEF IInv, Typed
  <2>3. /\ ~before[i].exists \/ MayFail => Holding(Chunk(i)) \in so
        /\ MayFail => before[i] \in so
        /\ MayFail => Holding(<<>>) \in so
        /\ before[i].exists => Holding(before[i].data \o Chunk(i)) \in so
    BY <2>2, Outcomes, SaveDataAssumption
  <2>4. <<>> \o Chunk(i) = Chunk(i)
    BY <2>2
  <2>5. Holding(<<>>).data = <<>>
    BY DEF Holding
  <2>6. pc'[i] = "close"
    BY DEF IInv, Typed
  <2>7. Chunk(i)' = Chunk(i) /\ before' = before
    BY DEF Chunk
  <2> HIDE DEF so
  <2>8. CASE obj' = Holding(obj.data \o Chunk(i))
    <3>1. obj'.data = obj.data \o Chunk(i)
      BY <2>8 DEF Holding
    <3>2. CASE pc[i] = "writeNew"
      <4>1. obj' = Holding(Chunk(i)) /\ obj' \in so
        BY <2>1, <2>3, <2>4, <2>5, <2>8, <3>2 DEF Progress
      <4>2. obj'.data = <<>> \o Chunk(i)
        BY <2>1, <2>5, <3>1, <3>2 DEF Progress
      <4>3. Ended(i)'
        BY <4>1, <4>2, <2>7 DEF Ended, so
      <4> QED BY <4>3, <2>6 DEF Progress
    <3>3. CASE pc[i] = "writeEnd"
      <4>1. obj' \in so /\ obj'.data = before[i].data \o Chunk(i)
        BY <2>1, <2>3, <2>8, <3>1, <3>3 DEF Progress
      <4>2. Ended(i)'
        BY <4>1, <2>7 DEF Ended, so
      <4> QED BY <4>2, <2>6 DEF Progress
    <3> QED BY <3>2, <3>3
  <2>9. CASE obj' = obj /\ MayFail /\ ~ok'[i]
    <3>1. obj' \in so
      BY <2>1, <2>3, <2>9 DEF Progress
    <3>2. Ended(i)'
      BY <3>1, <2>7, <2>9 DEF Ended, so
    <3> QED BY <3>2, <2>6 DEF Progress
  <2> QED BY <2>8, <2>9 DEF IInv, Typed
<1> QED BY <1>1, <1>2, <1>3, <1>4, <1>5, OthersWait DEF IInv

LEMMA StepOfClose ==
  ASSUME IInv, NEW i \in Instance, Close(i)
  PROVE  IInv'
<1> USE DEF Close, Goto, history
<1>1. Typed'
  BY DEF IInv, Typed, Calls
<1>2. NoLeakedHandle'
  BY SaveDataAssumption DEF IInv, Typed, NoLeakedHandle, Open
<1>3. Intact'
  BY DEF IInv, Typed, Intact
<1>4. Moves(i) /\ pc'[i] = "idle"
  BY DEF IInv, Typed, Moves
<1> QED BY <1>1, <1>2, <1>3, <1>4, OthersWait DEF IInv

LEMMA InvariantNext == IInv /\ [Next]_vars => IInv'
<1> SUFFICES ASSUME IInv, [Next]_vars PROVE IInv' OBVIOUS
<1>1. CASE UNCHANGED vars
  <2>1. Typed' /\ NoLeakedHandle' /\ Intact'
    BY <1>1 DEF vars, IInv, Typed, NoLeakedHandle, Open, Intact
  <2>2. \A i \in Instance : Progress(i) => Progress(i)'
    BY <1>1 DEF vars, Progress, Ended, Chunk
  <2>3. Undisturbed'
    BY <1>1, <2>2 DEF vars, IInv, Undisturbed
  <2> QED BY <2>1, <2>3 DEF IInv
<1>2. CASE Next
  BY <1>2, StepOfBegin, StepOfCheckOpen, StepOfCheckClose, StepOfCreate,
     StepOfAppendOpen, StepOfSeek, StepOfWrite, StepOfClose DEF Next
<1> QED BY <1>1, <1>2

LEMMA Invariant == Spec => []IInv
BY InvariantInit, InvariantNext, PTL DEF Spec

-----------------------------------------------------------------------------
(* Theorems.                                                               *)

(***************************************************************************)
(* However many instances save at once and whichever calls fail, the       *)
(* object is held by exactly the instance that is between an open and its  *)
(* close: every path of save_data() closes what it opened.                 *)
(***************************************************************************)
THEOREM HandlesAreClosed == Spec => []NoLeakedHandle
<1>1. IInv => NoLeakedHandle
  BY DEF IInv
<1> QED BY <1>1, Invariant, PTL

(***************************************************************************)
(* An object that exists from the start holds every chunk saved, in order, *)
(* as long as no call of the storage is refused.                           *)
(***************************************************************************)
THEOREM ChunksAreKept == Spec => []NothingLostUnlessRefused
<1>1. IInv => NothingLostUnlessRefused
  BY DEF IInv, Intact, NothingLostUnlessRefused
<1> QED BY <1>1, Invariant, PTL

(***************************************************************************)
(* A save that no other overlaps has one of the outcomes with which the    *)
(* model of the engine replaces it, and a successful one ends in its       *)
(* chunk.                                                                  *)
(***************************************************************************)
THEOREM SaveIsOneStep == Spec => MatchesOutcomes
<1> DEFINE Lasts(i) ==
      pc[i] # "idle" /\ pc'[i] = "idle" /\ alone[i] =>
        /\ obj' \in SaveOutcomes(before[i], Chunk(i), MayFail)
        /\ ok'[i] => \E earlier \in {<<>>, before[i].data} : obj'.data = earlier \o Chunk(i)
<1>1. ASSUME IInv, [Next]_vars, NEW i \in Instance,
             pc[i] # "idle", pc'[i] = "idle", alone[i]
      PROVE  Lasts(i)
  <2>1. Progress(i) /\ \A j \in Instance \ {i} : pc[j] = "idle"
    BY <1>1 DEF IInv, Undisturbed
  <2>2. PICK k \in Instance : \/ Begin(k) \/ CheckOpen(k) \/ CheckClose(k) \/ Create(k)
                              \/ AppendOpen(k) \/ Seek(k) \/ Write(k) \/ Close(k)
    BY <1>1 DEF Next, vars
  <2>3. CASE Create(k)
    <3>1. k = i /\ obj' = obj /\ ~ok'[i] /\ (MayFail \/ holder # None) /\ obj = before[i]
      BY <1>1, <2>1, <2>3 DEF IInv, Typed, Create, Fails, Goto, Progress
    <3>2. MayFail
      BY <1>1, <2>3, <3>1, NobodyElse DEF Create, Open
    <3>3. before[i] \in SaveOutcomes(before[i], Chunk(i), MayFail)
      BY <1>1, <3>2, OwnOutcome DEF IInv
    <3> QED BY <3>1, <3>3
  <2>4. CASE AppendOpen(k)
    <3>1. k = i /\ obj' = obj /\ ~ok'[i] /\ (MayFail \/ ~CanOpen) /\ obj = before[i] /\ obj.exists
      BY <1>1, <2>1, <2>4 DEF IInv, Typed, AppendOpen, Fails, Goto, Progress
    <3>2. MayFail
      BY <1>1, <2>4, <3>1, NobodyElse DEF AppendOpen, Open, CanOpen
    <3>3. before[i] \in SaveOutcomes(before[i], Chunk(i), MayFail)
      BY <1>1, <3>2, OwnOutcome DEF IInv
    <3> QED BY <3>1, <3>3
  <2>5. CASE Close(k)
    <3>1. k = i /\ obj' = obj /\ ok' = ok /\ pc[i] = "close"
      BY <1>1, <2>1, <2>5 DEF IInv, Typed, Close, Goto
    <3> QED BY <2>1, <3>1 DEF Progress, Ended
  <2>6. CASE Begin(k) \/ CheckOpen(k) \/ CheckClose(k) \/ Seek(k) \/ Write(k)
    BY <1>1, <2>6 DEF IInv, Typed, Begin, CheckOpen, CheckClose, Seek, Write, Fails, Goto
  <2> QED BY <2>2, <2>3, <2>4, <2>5, <2>6
<1>2. IInv /\ [Next]_vars => [\A i \in Instance : Lasts(i)]_vars
  BY <1>1
<1>3. Spec => [][\A i \in Instance : Lasts(i)]_vars
  BY <1>2, Invariant, PTL DEF Spec
<1> QED BY <1>3 DEF MatchesOutcomes

=============================================================================
