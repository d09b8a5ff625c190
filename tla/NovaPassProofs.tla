--------------------------- MODULE NovaPassProofs ---------------------------
(***************************************************************************)
(* What holds of the pass Nova on every program: its state is typed, its   *)
(* traversals nest no deeper than there are call sites, and the scan finds  *)
(* the aliases of its scope, and nothing without one, in any order.        *)
(***************************************************************************)
EXTENDS NovaPass, FiniteSetTheorems, SequenceTheorems, TLAPS

\* The inductive invariant: names of programs, and call sites that can be counted.
IInv ==
  /\ program \in Programs
  /\ PassTypeOK
  /\ IsFiniteSet(vMap)

Programmed == IsProgram(program)

\* The program is one that the assumption on Programs speaks of.
LEMMA ProgramKnown == program \in Programs => Programmed
BY ProgramsAssumption DEF Programmed

\* An instruction that is visited is one of the program.
LEMMA VisitedTyped ==
  ASSUME Programmed, stack \in Seq(Frame), NEW ops, Visits(ops)
  PROVE  /\ frame \in Frame /\ stack # <<>> /\ Len(stack) \in 1..Len(stack)
         /\ body \in Seq(Insn) /\ frame.pc \in DOMAIN body
         /\ insn \in Insn /\ insn \in Insns(program) /\ insn.op \in ops
         /\ insn.op = "annotate" => insn.ptr \in Value
<1>1. stack # <<>> /\ Len(stack) \in 1..Len(stack) /\ frame \in Frame
  BY DEF Visits, frame
<1>2. frame.fn \in DOMAIN program.code BY <1>1 DEF Frame
<1>3. body \in Seq(Insn) BY <1>2 DEF body, Programmed, IsProgram
<1>4. frame.pc \in DOMAIN body /\ insn.op \in ops BY DEF Visits
<1>5. insn \in Insn BY <1>3, <1>4 DEF insn
<1>6. insn \in Insns(program) BY <1>2, <1>4 DEF Insns, insn, body
<1>7. insn.op = "annotate" => insn.ptr \in Value
  BY <1>2, <1>4 DEF Programmed, IsProgram, insn, body
<1> QED BY <1>1, <1>3, <1>4, <1>5, <1>6, <1>7

\* Going on to the next instruction leaves the stack typed, and as deep.
LEMMA SteppedTyped ==
  ASSUME stack \in Seq(Frame), stack # <<>>
  PROVE  Stepped \in Seq(Frame) /\ Len(Stepped) = Len(stack)
<1>1. Len(stack) \in 1..Len(stack) /\ stack[Len(stack)] \in Frame OBVIOUS
<1>2. [stack[Len(stack)] EXCEPT !.pc = @ + 1] \in Frame BY <1>1 DEF Frame
<1> QED BY <1>1, <1>2 DEF Stepped

\* A TupleSet holds tuples.
LEMMA TupleSetTyped ==
  ASSUME MapsTypeOK, NEW v PROVE TupleSet(v) \in SUBSET Tuple
BY DEF MapsTypeOK, TupleSet, Known, Found

\* What tuples refer to are objects.
LEMMA PointeesTyped ==
  ASSUME AliasTypeOK, NEW ts, \A t \in ts : HasAliasMap(t)
  PROVE  Pointees(ts) \in SUBSET Object
BY DEF AliasTypeOK, Pointees, HasAliasMap

\* A tuple for an object is a tuple.
LEMMA At0Typed == ASSUME NEW o \in Object PROVE At0(o) \in Tuple
BY DEF At0, Tuple

\* A new TupleSet leaves the maps typed, and forgets no entry.
LEMMA NewTupleSetTyped ==
  ASSUME MapsTypeOK, NEW v \in Value \cup {Null}, NEW ts \in SUBSET Tuple,
         NewTupleSet(v, ts)
  PROVE  MapsTypeOK' /\ DOMAIN pMap \subseteq DOMAIN pMap'
BY DEF MapsTypeOK, NewTupleSet, Put

\* Neither does sharing one.
LEMMA ShareTyped ==
  ASSUME MapsTypeOK, NEW v \in Value \cup {Null}, NEW ref,
         ref = NoRef \/ ref \in DOMAIN tuples, Share(v, ref)
  PROVE  MapsTypeOK' /\ DOMAIN pMap \subseteq DOMAIN pMap'
BY DEF MapsTypeOK, Share, Put

\* Nor adding tuples to one.
LEMMA MergeTyped ==
  ASSUME MapsTypeOK, NEW r, NEW ts \in SUBSET Tuple,
         tuples' = [tuples EXCEPT ![r] = @ \cup ts], UNCHANGED pMap
  PROVE  MapsTypeOK' /\ DOMAIN pMap \subseteq DOMAIN pMap'
BY DEF MapsTypeOK

\* A known value's entry is a TupleSet.
LEMMA KnownEntry ==
  ASSUME MapsTypeOK, NEW v, Known(v) PROVE pMap[v] \in DOMAIN tuples
BY DEF MapsTypeOK, Known, Found

\* The elements of a struct or an array are tuples.
LEMMA ElementsTyped ==
  ASSUME MapsTypeOK, NEW gep, gep.off \in Nat
  PROVE  Elements(gep) \in SUBSET Tuple
<1>1. TupleSet(gep.ptr) \in SUBSET Tuple BY TupleSetTyped
<1>2. \A t \in TupleSet(gep.ptr) : [off |-> gep.off, ao |-> t.ao] \in Tuple
  BY <1>1 DEF Tuple
<1> QED BY <1>1, <1>2 DEF Elements

\* The entry of an address within a struct or an array leaves the maps typed.
LEMMA ElementTyped ==
  ASSUME MapsTypeOK, NEW v \in Value \cup {Null}, NEW gep, gep.off \in Nat, Element(v, gep)
  PROVE  MapsTypeOK' /\ DOMAIN pMap \subseteq DOMAIN pMap'
<1>1. CASE ~Known(gep.ptr) BY <1>1 DEF Element, NoEntry, MapsTypeOK
<1>2. CASE Known(gep.ptr) /\ gep.struct
  <2>1. Elements(gep) \in SUBSET Tuple BY ElementsTyped
  <2> QED BY <1>2, <2>1, NewTupleSetTyped DEF Element
<1>3. CASE Known(gep.ptr) /\ ~gep.struct
  <2>1. Share(v, pMap[gep.ptr]) /\ pMap[gep.ptr] \in DOMAIN tuples
    BY <1>3, KnownEntry DEF Element
  <2> QED BY <2>1, ShareTyped
<1> QED BY <1>1, <1>2, <1>3

-----------------------------------------------------------------------------

\* The initial state is typed.
LEMMA InitTyped == PassInit => IInv
<1> SUFFICES ASSUME PassInit PROVE IInv OBVIOUS
<1>1. Programmed BY ProgramKnown DEF PassInit
<1>2. DOMAIN program.globals \subseteq Value BY <1>1 DEF Programmed, IsProgram
<1>3. stack \in Seq(Frame)
  <2>1. [fn |-> "main", pc |-> 1, gen |-> 0] \in Frame
    BY <1>1 DEF Frame, Programmed, IsProgram
  <2> QED BY <2>1 DEF PassInit
<1>4. \A v \in Value, k \in Nat : Obj(v, 0, k) \in Object BY DEF Obj, Object
<1>5. MapsTypeOK
  <2>1. \A r \in DOMAIN tuples : tuples[r] \in SUBSET Tuple
    BY <1>2, <1>4, At0Typed DEF PassInit
  <2> QED BY <2>1, <1>2 DEF MapsTypeOK, PassInit
<1>6. AliasTypeOK
  <2>1. \A v \in DOMAIN program.globals : program.globals[v] \in Type
    BY <1>1 DEF Programmed, IsProgram
  <2>2. \A v \in DOMAIN program.globals :
          DOMAIN CreateAliasObject(v, 0, program.globals[v]) \subseteq Object
    <3> TAKE v \in DOMAIN program.globals
    <3>1. v \in Value /\ program.globals[v].depth \in Nat BY <2>1, <1>2 DEF Type
    <3>2. \A k \in 0..program.globals[v].depth : Obj(v, 0, k) \in Object BY <3>1, <1>4
    <3> QED BY <3>2 DEF CreateAliasObject
  <2>3. DOMAIN alias \subseteq Object BY <2>2 DEF PassInit
  <2>4. \A o \in DOMAIN alias : {Obj(o.val, 0, o.lvl + 1)} \subseteq Object
    <3> TAKE o \in DOMAIN alias
    <3>1. o.val \in Value /\ o.lvl + 1 \in Nat BY <2>3 DEF Object
    <3> QED BY <3>1, <1>4
  <2> QED BY <2>3, <2>4 DEF AliasTypeOK, PassInit
<1>7. IsFiniteSet(vMap) BY FS_EmptySet DEF PassInit
<1> QED BY <1>2, <1>3, <1>5, <1>6, <1>7 DEF IInv, PassTypeOK, SetsTypeOK, ResultTypeOK, PassInit

-----------------------------------------------------------------------------
(* The actions.                                                            *)

\* What the analysis of one instruction does not touch stays typed, whatever it
\* does to the maps.
LEMMA DispatchTyped ==
  ASSUME IInv, NEW ops, Dispatch(ops), MapsTypeOK', AliasTypeOK',
         DOMAIN pMap \subseteq DOMAIN pMap', tMap' \subseteq Value \cup {Null}
  PROVE  IInv'
<1>1. Programmed BY ProgramKnown DEF IInv
<1>2. Visits(ops) /\ stack' = Stepped
      /\ UNCHANGED <<program, phase, vMap, ci, annotated, result>>
  BY DEF Dispatch
<1>3. stack' \in Seq(Frame)
  BY <1>1, <1>2, SteppedTyped DEF Visits, IInv, PassTypeOK
<1>4. stack' \in Seq(Frame)' BY <1>2, <1>3 DEF Frame
<1>5. SetsTypeOK' BY <1>2 DEF IInv, PassTypeOK, SetsTypeOK
<1>6. ResultTypeOK' BY <1>2 DEF IInv, PassTypeOK, ResultTypeOK, result
<1> QED BY <1>2, <1>4, <1>5, <1>6 DEF IInv, PassTypeOK

\* Memory allocated on the stack keeps the state typed.
LEMMA AllocaTyped == IInv /\ UpdateAlloca => IInv'
<1> SUFFICES ASSUME IInv, UpdateAlloca PROVE IInv' OBVIOUS
<1>1. Programmed /\ MapsTypeOK /\ AliasTypeOK /\ stack \in Seq(Frame) /\ tMap \subseteq Value \cup {Null}
  BY ProgramKnown DEF IInv, PassTypeOK, SetsTypeOK
<1>2. Dispatch({"alloca"}) BY DEF UpdateAlloca
<1>3. insn \in Insn /\ frame \in Frame BY <1>1, <1>2, VisitedTyped DEF Dispatch
<1>4. insn.id \in Value /\ insn.type.depth \in Nat /\ frame.gen \in Nat
  BY <1>3 DEF Insn, Type, Frame
<1>5. \A k \in Nat : Obj(insn.id, frame.gen, k) \in Object BY <1>4 DEF Obj, Object
<1>6. {At0(Obj(insn.id, frame.gen, 0))} \in SUBSET Tuple BY <1>5, At0Typed
<1>7. MapsTypeOK' /\ DOMAIN pMap \subseteq DOMAIN pMap'
  BY <1>1, <1>4, <1>6, NewTupleSetTyped DEF UpdateAlloca
<1>8. AliasTypeOK'
  <2> DEFINE new == CreateAliasObject(insn.id, frame.gen, insn.type)
  <2>1. DOMAIN new \subseteq Object BY <1>4, <1>5 DEF CreateAliasObject
  <2>2. \A o \in DOMAIN new : new[o] \in SUBSET Object
    <3> TAKE o \in DOMAIN new
    <3>1. o.lvl + 1 \in Nat BY <2>1 DEF Object
    <3>2. Obj(insn.id, frame.gen, o.lvl + 1) \in Object BY <3>1, <1>5
    <3> QED BY <3>2 DEF CreateAliasObject
  <2>3. alias' = [o \in DOMAIN alias \cup DOMAIN new |->
                    IF o \in DOMAIN new THEN new[o] ELSE alias[o]]
    BY DEF UpdateAlloca
  <2> HIDE DEF new
  <2> QED BY <2>1, <2>2, <2>3, <1>1 DEF AliasTypeOK
<1> QED BY <1>1, <1>2, <1>7, <1>8, DispatchTyped DEF UpdateAlloca

\* A load keeps the state typed.
LEMMA LoadTyped == IInv /\ UpdateLoad => IInv'
<1> SUFFICES ASSUME IInv, UpdateLoad PROVE IInv' OBVIOUS
<1>1. Programmed /\ MapsTypeOK /\ AliasTypeOK /\ stack \in Seq(Frame) /\ tMap \subseteq Value \cup {Null}
  BY ProgramKnown DEF IInv, PassTypeOK, SetsTypeOK
<1>2. Dispatch({"load"}) BY DEF UpdateLoad
<1>3. insn \in Insn BY <1>1, <1>2, VisitedTyped DEF Dispatch
<1>4. insn.id \in Value BY <1>3 DEF Insn
<1>5. MapsTypeOK' /\ DOMAIN pMap \subseteq DOMAIN pMap'
  <2>1. CASE Known(insn.ptr) /\ \A t \in TupleSet(insn.ptr) : HasEntry(t)
    <3>1. Pointees(TupleSet(insn.ptr)) \in SUBSET Object
      BY <1>1, <2>1, PointeesTyped DEF HasEntry
    <3>2. Loaded(insn.ptr) \in SUBSET Tuple BY <3>1, At0Typed DEF Loaded
    <3>3. NewTupleSet(insn.id, Loaded(insn.ptr)) BY <2>1 DEF UpdateLoad
    <3> QED BY <3>2, <3>3, <1>1, <1>4, NewTupleSetTyped
  <2>2. CASE ~(Known(insn.ptr) /\ \A t \in TupleSet(insn.ptr) : HasEntry(t))
    BY <2>2, <1>1 DEF UpdateLoad, NoEntry, MapsTypeOK
  <2> QED BY <2>1, <2>2
<1>6. AliasTypeOK' BY <1>1 DEF AliasTypeOK, UpdateLoad
<1>7. tMap' \subseteq Value \cup {Null} BY <1>1, <1>4 DEF UpdateLoad, UpdateTaintLoad
<1> QED BY <1>2, <1>5, <1>6, <1>7, DispatchTyped

\* So does a store.
LEMMA StoreTyped == IInv /\ UpdateStore => IInv'
<1> SUFFICES ASSUME IInv, UpdateStore PROVE IInv' OBVIOUS
<1>1. Programmed /\ MapsTypeOK /\ AliasTypeOK /\ stack \in Seq(Frame) /\ tMap \subseteq Value \cup {Null}
  BY ProgramKnown DEF IInv, PassTypeOK, SetsTypeOK
<1>2. Dispatch({"store"}) /\ UNCHANGED tMap BY DEF UpdateStore
<1>3. insn \in Insn BY <1>1, <1>2, VisitedTyped DEF Dispatch
<1>4. insn.ptr \in Value \cup {Null} BY <1>3 DEF Insn
<1>5. OperandTuples(insn.ptr) \in SUBSET Tuple
  <2>1. CASE insn.ptr \in DOMAIN program.gops
    <3>1. program.gops[insn.ptr] \in GepExpr BY <2>1, <1>1 DEF Programmed, IsProgram
    <3>2. program.gops[insn.ptr].off \in Nat BY <3>1 DEF GepExpr
    <3> QED BY <2>1, <3>2, <1>1, ElementsTyped DEF OperandTuples
  <2>2. CASE insn.ptr \notin DOMAIN program.gops
    BY <2>2, <1>1, TupleSetTyped DEF OperandTuples
  <2> QED BY <2>1, <2>2
<1>6. MapsTypeOK' /\ DOMAIN pMap \subseteq DOMAIN pMap'
  <2>1. CASE insn.ptr \in DOMAIN program.gops
    <3>1. program.gops[insn.ptr] \in GepExpr BY <2>1, <1>1 DEF Programmed, IsProgram
    <3>2. program.gops[insn.ptr].off \in Nat BY <3>1 DEF GepExpr
    <3>3. Element(insn.ptr, program.gops[insn.ptr]) BY <2>1 DEF UpdateStore
    <3> QED BY <3>2, <3>3, <1>1, <1>4, ElementTyped
  <2>2. CASE insn.ptr \notin DOMAIN program.gops
    BY <2>2, <1>1 DEF UpdateStore, NoEntry, MapsTypeOK
  <2> QED BY <2>1, <2>2
<1>7. AliasTypeOK'
  <2>1. CASE UNCHANGED alias BY <2>1, <1>1 DEF AliasTypeOK
  <2>2. CASE \E reached : alias' = [o \in DOMAIN alias |->
                                      IF \E t \in reached : t.ao = o
                                      THEN Stored(alias[o], TupleSet(insn.val))
                                      ELSE alias[o]]
    <3>1. TupleSet(insn.val) \in SUBSET Tuple BY <1>1, TupleSetTyped
    <3>2. \A o \in DOMAIN alias : Stored(alias[o], TupleSet(insn.val)) \in SUBSET Object
      BY <3>1, <1>1 DEF Stored, AliasTypeOK, Tuple
    <3> QED BY <2>2, <3>2, <1>1 DEF AliasTypeOK
  <2> QED BY <2>1, <2>2 DEF UpdateStore
<1> QED BY <1>1, <1>2, <1>6, <1>7, DispatchTyped

\* So does: an address computation.
LEMMA GEPTyped == IInv /\ UpdateGEP => IInv'
<1> SUFFICES ASSUME IInv, UpdateGEP PROVE IInv' OBVIOUS
<1>1. Programmed /\ MapsTypeOK /\ AliasTypeOK /\ stack \in Seq(Frame) /\ tMap \subseteq Value \cup {Null}
  BY ProgramKnown DEF IInv, PassTypeOK, SetsTypeOK
<1>2. Dispatch({"gep"}) BY DEF UpdateGEP
<1>3. insn \in Insn BY <1>1, <1>2, VisitedTyped DEF Dispatch
<1>4. insn.id \in Value /\ insn.off \in Nat BY <1>3 DEF Insn
<1>5. MapsTypeOK' /\ DOMAIN pMap \subseteq DOMAIN pMap'
  BY <1>1, <1>4, ElementTyped DEF UpdateGEP
<1>6. AliasTypeOK' BY <1>1 DEF AliasTypeOK, UpdateGEP
<1>7. tMap' \subseteq Value \cup {Null} BY <1>1, <1>4 DEF UpdateGEP, Tainted
<1> QED BY <1>2, <1>5, <1>6, <1>7, DispatchTyped

\* So does: a binary operation.
LEMMA BinOpTyped == IInv /\ UpdateBinOp => IInv'
<1> SUFFICES ASSUME IInv, UpdateBinOp PROVE IInv' OBVIOUS
<1>1. Programmed /\ MapsTypeOK /\ AliasTypeOK /\ stack \in Seq(Frame) /\ tMap \subseteq Value \cup {Null}
  BY ProgramKnown DEF IInv, PassTypeOK, SetsTypeOK
<1>2. Dispatch({"binop"}) BY DEF UpdateBinOp
<1>3. insn \in Insn BY <1>1, <1>2, VisitedTyped DEF Dispatch
<1>4. insn.id \in Value BY <1>3 DEF Insn
<1> DEFINE ts == TupleSet(insn.ptr) \cup TupleSet(insn.val)
<1>5. ts \in SUBSET Tuple
  <2>1. TupleSet(insn.ptr) \in SUBSET Tuple BY <1>1, TupleSetTyped
  <2>2. TupleSet(insn.val) \in SUBSET Tuple BY <1>1, TupleSetTyped
  <2> QED BY <2>1, <2>2
<1>6. MapsTypeOK' /\ DOMAIN pMap \subseteq DOMAIN pMap'
  <2>1. CASE Known(insn.id)
    <3>1. tuples' = [tuples EXCEPT ![pMap[insn.id]] = @ \cup ts] /\ UNCHANGED pMap
      BY <2>1 DEF UpdateBinOp
    <3> HIDE DEF ts
    <3> QED BY <3>1, <1>1, <1>5, MergeTyped
  <2>2. CASE ~Known(insn.id)
    <3>1. NewTupleSet(insn.id, ts) BY <2>2 DEF UpdateBinOp
    <3> HIDE DEF ts
    <3> QED BY <3>1, <1>1, <1>4, <1>5, NewTupleSetTyped
  <2> QED BY <2>1, <2>2
<1>7. AliasTypeOK' BY <1>1 DEF AliasTypeOK, UpdateBinOp
<1>8. tMap' \subseteq Value \cup {Null} BY <1>1, <1>4 DEF UpdateBinOp, Tainted
<1> QED BY <1>2, <1>6, <1>7, <1>8, DispatchTyped

\* So does: a cast.
LEMMA BitCastTyped == IInv /\ UpdateBitCast => IInv'
<1> SUFFICES ASSUME IInv, UpdateBitCast PROVE IInv' OBVIOUS
<1>1. Programmed /\ MapsTypeOK /\ AliasTypeOK /\ stack \in Seq(Frame) /\ tMap \subseteq Value \cup {Null}
  BY ProgramKnown DEF IInv, PassTypeOK, SetsTypeOK
<1>2. Dispatch({"bitcast"}) BY DEF UpdateBitCast
<1>3. insn \in Insn BY <1>1, <1>2, VisitedTyped DEF Dispatch
<1>4. insn.id \in Value BY <1>3 DEF Insn
<1>5. MapsTypeOK' /\ DOMAIN pMap \subseteq DOMAIN pMap'
  <2>1. CASE Known(insn.ptr)
    <3>1. Share(insn.id, pMap[insn.ptr]) /\ pMap[insn.ptr] \in DOMAIN tuples
      BY <2>1, <1>1, KnownEntry DEF UpdateBitCast
    <3> QED BY <3>1, <1>1, <1>4, ShareTyped
  <2>2. CASE ~Known(insn.ptr)
    <3>1. Share(insn.id, NoRef) BY <2>2 DEF UpdateBitCast
    <3> QED BY <3>1, <1>1, <1>4, ShareTyped
  <2> QED BY <2>1, <2>2
<1>6. AliasTypeOK' BY <1>1 DEF AliasTypeOK, UpdateBitCast
<1>7. tMap' \subseteq Value \cup {Null} BY <1>1, <1>4 DEF UpdateBitCast, Tainted
<1> QED BY <1>2, <1>5, <1>6, <1>7, DispatchTyped

\* So does: a return.
LEMMA RetTyped == IInv /\ UpdateRet => IInv'
<1> SUFFICES ASSUME IInv, UpdateRet PROVE IInv' OBVIOUS
<1>1. MapsTypeOK /\ AliasTypeOK /\ ci \in Value \cup {Null} /\ tMap \subseteq Value \cup {Null}
  BY DEF IInv, PassTypeOK, SetsTypeOK
<1>2. Dispatch({"ret"}) BY DEF UpdateRet
<1>3. MapsTypeOK' /\ DOMAIN pMap \subseteq DOMAIN pMap'
  <2>1. CASE ~Known(insn.ptr) BY <2>1, <1>1 DEF UpdateRet, NoEntry, MapsTypeOK
  <2>2. CASE Known(insn.ptr) /\ Known(ci)
    <3>1. TupleSet(insn.ptr) \in SUBSET Tuple BY <1>1, TupleSetTyped
    <3>2. tuples' = [tuples EXCEPT ![pMap[ci]] = @ \cup TupleSet(insn.ptr)] /\ UNCHANGED pMap
      BY <2>2 DEF UpdateRet
    <3> QED BY <3>1, <3>2, <1>1, MergeTyped
  <2>3. CASE Known(insn.ptr) /\ ~Known(ci)
    <3>1. Share(ci, pMap[insn.ptr]) /\ pMap[insn.ptr] \in DOMAIN tuples
      BY <2>3, <1>1, KnownEntry DEF UpdateRet
    <3> QED BY <3>1, <1>1, ShareTyped
  <2> QED BY <2>1, <2>2, <2>3
<1>4. AliasTypeOK' BY <1>1 DEF AliasTypeOK, UpdateRet
<1>5. tMap' \subseteq Value \cup {Null} BY <1>1 DEF UpdateRet, UpdateTaintRet
<1> QED BY <1>2, <1>3, <1>4, <1>5, DispatchTyped

\* So does: a branch.
LEMMA UnhandledTyped == IInv /\ Unhandled => IInv'
<1> SUFFICES ASSUME IInv, Unhandled PROVE IInv' OBVIOUS
<1>1. Dispatch({"br"}) /\ UNCHANGED <<pMap, tuples, alias, tMap>> BY DEF Unhandled
<1>2. MapsTypeOK' /\ AliasTypeOK' /\ tMap' \subseteq Value \cup {Null}
  BY <1>1 DEF IInv, PassTypeOK, MapsTypeOK, AliasTypeOK, SetsTypeOK
<1> QED BY <1>1, <1>2, DispatchTyped

\* So does the mark of an annotation.
LEMMA AnnotationTyped == IInv /\ HandleAnnotation => IInv'
<1> SUFFICES ASSUME IInv, HandleAnnotation PROVE IInv' OBVIOUS
<1>1. Programmed /\ stack \in Seq(Frame) BY ProgramKnown DEF IInv, PassTypeOK
<1>2. Visits({"annotate"}) BY DEF HandleAnnotation
<1>3. insn \in Insn /\ insn.ptr \in Value BY <1>1, <1>2, VisitedTyped
<1>4. insn.id \in Value BY <1>3 DEF Insn
<1>5. stack' \in Seq(Frame)
  BY <1>1, <1>2, SteppedTyped DEF HandleAnnotation, Visits
<1>6. (stack \in Seq(Frame))' BY <1>5 DEF HandleAnnotation, Frame
<1>7. SetsTypeOK' BY <1>3, <1>4 DEF HandleAnnotation, IInv, PassTypeOK, SetsTypeOK
<1>8. MapsTypeOK' /\ AliasTypeOK' /\ ResultTypeOK'
  BY DEF HandleAnnotation, IInv, PassTypeOK, MapsTypeOK, AliasTypeOK, ResultTypeOK, result
<1>9. IsFiniteSet(vMap') BY FS_AddElement DEF HandleAnnotation, IInv
<1> QED BY <1>6, <1>7, <1>8, <1>9 DEF HandleAnnotation, IInv, PassTypeOK

\* So does: a call of a function of the module.
LEMMA EnterTyped == IInv /\ EnterCall => IInv'
<1> SUFFICES ASSUME IInv, EnterCall PROVE IInv' OBVIOUS
<1>1. Programmed /\ stack \in Seq(Frame) /\ MapsTypeOK
  BY ProgramKnown DEF IInv, PassTypeOK
<1>2. Visits({"call"}) /\ insn.callee \in DOMAIN program.code
  BY DEF EnterCall, Defined
<1>3. insn \in Insn BY <1>1, <1>2, VisitedTyped
<1>4. insn.id \in Value BY <1>3 DEF Insn
<1>5. stack' \in Seq(Frame)
  <2>1. Cardinality(vMap) \in Nat BY FS_CardinalityType DEF IInv
  <2>2. Entered(insn.callee) \in Frame BY <2>1, <1>2 DEF Entered, Frame
  <2>3. Stepped \in Seq(Frame) BY <1>1, <1>2, SteppedTyped DEF Visits
  <2> QED BY <2>2, <2>3 DEF EnterCall
<1>6. (stack \in Seq(Frame))' BY <1>5 DEF EnterCall, Frame
<1>7. MapsTypeOK' /\ DOMAIN pMap \subseteq DOMAIN pMap' /\ tMap' \subseteq Value \cup {Null}
  <2> DEFINE params == program.params[insn.callee]
             given  == {k \in DOMAIN params \cap DOMAIN insn.args : Passed(insn.args[k])}
             bound  == {params[k] : k \in given}
             ArgOf(v) == insn.args[CHOOSE k \in given : params[k] = v]
  <2>1. params \in Seq(Value) BY <1>1, <1>2 DEF Programmed, IsProgram
  <2>2. bound \subseteq Value BY <2>1
  <2>3. \A v \in bound : ArgOf(v) \in DOMAIN pMap BY DEF Passed, Found
  <2>4. /\ pMap' = [v \in DOMAIN pMap \cup bound |->
                      IF v \in bound THEN pMap[ArgOf(v)] ELSE pMap[v]]
        /\ tMap' = tMap \cup bound /\ tuples' = tuples
    BY DEF EnterCall, InitializeParameters
  <2> HIDE DEF bound, ArgOf
  <2> QED BY <2>2, <2>3, <2>4, <1>1 DEF MapsTypeOK, IInv, PassTypeOK, SetsTypeOK
<1>8. SetsTypeOK' BY <1>4, <1>7 DEF EnterCall, IInv, PassTypeOK, SetsTypeOK
<1>9. AliasTypeOK' /\ ResultTypeOK'
  BY <1>7 DEF EnterCall, IInv, PassTypeOK, AliasTypeOK, ResultTypeOK, result
<1>10. IsFiniteSet(vMap') BY FS_AddElement DEF EnterCall, IInv
<1> QED BY <1>6, <1>7, <1>8, <1>9, <1>10 DEF EnterCall, IInv, PassTypeOK

\* So does: another call.
LEMMA SkipTyped == IInv /\ SkipCall => IInv'
<1> SUFFICES ASSUME IInv, SkipCall PROVE IInv' OBVIOUS
<1>1. Programmed /\ stack \in Seq(Frame) BY ProgramKnown DEF IInv, PassTypeOK
<1>2. Visits({"call", "icall"}) BY DEF SkipCall
<1>3. insn \in Insn BY <1>1, <1>2, VisitedTyped
<1>4. insn.id \in Value BY <1>3 DEF Insn
<1>5. stack' \in Seq(Frame) BY <1>1, <1>2, SteppedTyped DEF SkipCall, Visits
<1>6. (stack \in Seq(Frame))' BY <1>5 DEF SkipCall, Frame
<1>7. SetsTypeOK' BY <1>4 DEF SkipCall, IInv, PassTypeOK, SetsTypeOK
<1>8. MapsTypeOK' /\ AliasTypeOK' /\ ResultTypeOK'
  BY DEF SkipCall, IInv, PassTypeOK, MapsTypeOK, AliasTypeOK, ResultTypeOK, result
<1>9. IsFiniteSet(vMap') BY FS_AddElement DEF SkipCall, IInv
<1> QED BY <1>6, <1>7, <1>8, <1>9 DEF SkipCall, IInv, PassTypeOK

\* So does: the end of a function.
LEMMA LeaveTyped == IInv /\ LeaveFunction => IInv'
<1> SUFFICES ASSUME IInv, LeaveFunction PROVE IInv' OBVIOUS
<1>1. stack \in Seq(Frame) /\ stack # <<>> BY DEF IInv, PassTypeOK, LeaveFunction
<1>2. SubSeq(stack, 1, Len(stack) - 1) \in Seq(Frame) BY <1>1
<1>3. (stack \in Seq(Frame))' BY <1>2 DEF LeaveFunction, Frame
<1>4. MapsTypeOK' /\ AliasTypeOK' /\ SetsTypeOK' /\ ResultTypeOK'
  BY DEF LeaveFunction, IInv, PassTypeOK, MapsTypeOK, AliasTypeOK, SetsTypeOK,
         ResultTypeOK, analysis, result
<1> QED BY <1>3, <1>4 DEF LeaveFunction, IInv, PassTypeOK, analysis

-----------------------------------------------------------------------------
(* DefUseCheck().                                                          *)

\* The variables that values may alias are named.
LEMMA AliasValsTyped ==
  ASSUME AliasTypeOK, NEW v PROVE AliasVals(v) \subseteq Value
<1> DEFINE ts == {t \in TupleSet(v) : HasAliasMap(t) /\ (t.off = 0 \/ IsStruct(t.ao))}
<1>1. \A t \in ts : HasAliasMap(t) OBVIOUS
<1>2. Aliases(v) \in SUBSET Object
  <2>1. Aliases(v) = Pointees(ts) BY DEF Aliases
  <2> HIDE DEF ts
  <2> QED BY <2>1, <1>1, PointeesTyped
<1> QED BY <1>2 DEF AliasVals, Object

\* So does: the scope is collected.
LEMMA CollectTyped == IInv /\ CollectScope => IInv'
<1> SUFFICES ASSUME IInv, CollectScope PROVE IInv' OBVIOUS
<1>1. Programmed /\ AliasTypeOK BY ProgramKnown DEF IInv, PassTypeOK
<1>2. annotated' \subseteq Value
  BY <1>1 DEF CollectScope, IInv, PassTypeOK, SetsTypeOK, Programmed, IsProgram
<1>3. \A v \in Value : WithAliases(v) \subseteq Value
  BY <1>1, AliasValsTyped DEF WithAliases
<1>4. scope' \subseteq Value
  <2>1. scope' = UNION {WithAliases(v) : v \in annotated'} BY DEF CollectScope
  <2> QED BY <2>1, <1>2, <1>3
<1>5. ResultTypeOK'
  BY <1>4 DEF CollectScope, IInv, PassTypeOK, ResultTypeOK
<1>6. SetsTypeOK' BY <1>2 DEF CollectScope, IInv, PassTypeOK, SetsTypeOK
<1>7. MapsTypeOK' /\ AliasTypeOK' /\ (stack \in Seq(Frame))'
  BY DEF CollectScope, IInv, PassTypeOK, MapsTypeOK, AliasTypeOK, Frame
<1> QED BY <1>5, <1>6, <1>7 DEF CollectScope, IInv, PassTypeOK

\* So does: an entry is scanned, or none is left.
LEMMA ScanTyped == IInv /\ (Scan \/ EndScan) => IInv'
<1> SUFFICES ASSUME IInv, Scan \/ EndScan PROVE IInv' OBVIOUS
<1>1. UNCHANGED <<program, stack, vMap, ci, pMap, tuples, alias, tMap, annotated,
                  scope, recorded, checked>>
      /\ phase' \in {"scan", "instrument"}
  BY DEF Scan, EndScan, analysis, result
<1>2. unscanned' \subseteq DOMAIN pMap /\ senVarSet' \subseteq Value \cup {Null}
  <2>1. unscanned \subseteq DOMAIN pMap /\ DOMAIN pMap \subseteq Value \cup {Null}
        /\ senVarSet \subseteq Value \cup {Null}
    BY DEF IInv, PassTypeOK, ResultTypeOK, MapsTypeOK
  <2>2. CASE Scan
    <3>1. PICK v \in unscanned :
            /\ senVarSet' = IF AliasesSensitive(v) THEN senVarSet \cup {v} ELSE senVarSet
            /\ unscanned' = unscanned \ {v}
      BY <2>2 DEF Scan
    <3> QED BY <3>1, <2>1
  <2>3. CASE EndScan BY <2>3, <2>1 DEF EndScan, result
  <2> QED BY <2>2, <2>3
<1> QED BY <1>1, <1>2 DEF IInv, PassTypeOK, MapsTypeOK, AliasTypeOK, SetsTypeOK,
                          ResultTypeOK, Frame

\* What is instrumented are instructions of the program.
LEMMA InstrumentedTyped ==
  ASSUME Programmed, NEW insns, insns \subseteq Insns(program)
  PROVE  Instrumented(insns) \subseteq Value
<1>1. Insns(program) \subseteq Insn
  <2>1. \A f \in DOMAIN program.code : \A k \in DOMAIN program.code[f] : program.code[f][k] \in Insn
    BY DEF Programmed, IsProgram
  <2> QED BY <2>1 DEF Insns
<1>2. \A i \in insns : i.id \in Value BY <1>1 DEF Insn
<1> QED BY <1>2 DEF Instrumented

\* So does: the instrumentation.
LEMMA InstrumentTyped == IInv /\ Instrument => IInv'
<1> SUFFICES ASSUME IInv, Instrument PROVE IInv' OBVIOUS
<1>1. Programmed BY ProgramKnown DEF IInv
<1>2. UNION {Defines(v) : v \in senVarSet} \subseteq Insns(program)
  BY DEF Defines, StoresTo
<1>3. UNION {Uses(v) : v \in senVarSet} \subseteq Insns(program)
  BY DEF Uses, LoadsFrom
<1>4. recorded' \subseteq Value /\ checked' \subseteq Value
  BY <1>1, <1>2, <1>3, InstrumentedTyped DEF Instrument
<1> QED BY <1>4 DEF Instrument, IInv, PassTypeOK, MapsTypeOK, AliasTypeOK, SetsTypeOK,
                    ResultTypeOK, Frame, analysis

-----------------------------------------------------------------------------

\* A step of the pass keeps the invariant, and so does a step of another.
LEMMA StepTyped == IInv /\ [PassNext]_passVars => IInv'
<1> SUFFICES ASSUME IInv, [PassNext]_passVars PROVE IInv' OBVIOUS
<1>1. CASE Traverse
  BY <1>1, AllocaTyped, LoadTyped, StoreTyped, GEPTyped, BinOpTyped, BitCastTyped,
     RetTyped, UnhandledTyped, AnnotationTyped, EnterTyped, SkipTyped, LeaveTyped
  DEF Traverse
<1>2. CASE CollectScope \/ Scan \/ EndScan \/ Instrument
  BY <1>2, CollectTyped, ScanTyped, InstrumentTyped
<1>3. CASE UNCHANGED passVars
  BY <1>3 DEF passVars, analysis, result, IInv, PassTypeOK, MapsTypeOK, AliasTypeOK,
              SetsTypeOK, ResultTypeOK, Frame
<1> QED BY <1>1, <1>2, <1>3 DEF PassNext

(***************************************************************************)
(* Type correctness of the pass: in particular every points-to entry leads *)
(* to a TupleSet that exists, and a frame to a function of the program.    *)
(***************************************************************************)
THEOREM PassTyped == Pass => []PassTypeOK
<1>1. PassInit => IInv BY InitTyped
<1>2. IInv /\ [PassNext]_passVars => IInv' BY StepTyped
<1>3. IInv => PassTypeOK BY DEF IInv
<1> QED BY <1>1, <1>2, <1>3, PTL DEF Pass

-----------------------------------------------------------------------------
(* Nesting of the traversals.                                              *)

\* A call site that is new makes room for one more traversal.
LEMMA SiteCounted ==
  ASSUME IInv, NEW site, site \notin vMap
  PROVE  Cardinality(vMap \cup {site}) = Cardinality(vMap) + 1 /\ Cardinality(vMap) \in Nat
BY FS_AddElement, FS_CardinalityType DEF IInv

\* Visiting a site that is known changes nothing, a new one adds to the count.
LEMMA SitesGrow ==
  ASSUME IInv, NEW site
  PROVE  /\ Cardinality(vMap) \in Nat /\ Cardinality(vMap \cup {site}) \in Nat
         /\ Cardinality(vMap) <= Cardinality(vMap \cup {site})
<1>1. CASE site \in vMap
  <2>1. vMap \cup {site} = vMap BY <1>1
  <2>2. Cardinality(vMap) \in Nat BY FS_CardinalityType DEF IInv
  <2> QED BY <2>1, <2>2
<1>2. CASE site \notin vMap BY <1>2, SiteCounted
<1> QED BY <1>1, <1>2

\* What does not go through a call leaves the depth, or makes it smaller.
LEMMA DepthKept ==
  ASSUME TraversalsNest, UNCHANGED <<program, vMap>>, Len(stack') <= Len(stack),
         Len(stack') \in Nat, Len(stack) \in Nat, Cardinality(vMap) \in Nat
  PROVE  TraversalsNest'
BY DEF TraversalsNest, CallSites

\* One more site, and the stack no deeper.
LEMMA SiteVisited ==
  ASSUME IInv, TraversalsNest, NEW ops \in SUBSET {"call", "icall", "annotate"},
         Visits(ops), stack' = Stepped, vMap' = vMap \cup {insn.id}, UNCHANGED program
  PROVE  TraversalsNest'
<1>1. Programmed /\ stack \in Seq(Frame) BY ProgramKnown DEF IInv, PassTypeOK
<1>2. insn \in Insns(program) /\ insn.op \in ops BY <1>1, VisitedTyped
<1>3. insn.id \in CallSites BY <1>2 DEF CallSites
<1>4. Len(stack') = Len(stack) /\ Len(stack) \in Nat BY <1>1, SteppedTyped DEF Visits
<1>5. /\ Cardinality(vMap) \in Nat /\ Cardinality(vMap') \in Nat
      /\ Cardinality(vMap) <= Cardinality(vMap')
  BY SitesGrow
<1>6. Len(stack') <= Cardinality(vMap') + 1 BY <1>4, <1>5 DEF TraversalsNest
<1>7. CallSites' = CallSites BY DEF CallSites, Insns
<1> QED BY <1>3, <1>6, <1>7 DEF TraversalsNest

\* The nesting is inductive together with the type invariant.
LEMMA StepNests == IInv /\ TraversalsNest /\ [PassNext]_passVars => TraversalsNest'
<1> SUFFICES ASSUME IInv, TraversalsNest, [PassNext]_passVars PROVE TraversalsNest' OBVIOUS
<1>1. Programmed /\ stack \in Seq(Frame) /\ Len(stack) \in Nat
  BY ProgramKnown DEF IInv, PassTypeOK
<1>2. Cardinality(vMap) \in Nat BY FS_CardinalityType DEF IInv
<1>3. ASSUME NEW ops, Dispatch(ops) PROVE TraversalsNest'
  <2>1. Len(stack') = Len(stack) /\ UNCHANGED <<program, vMap>>
    BY <1>1, <1>3, SteppedTyped DEF Dispatch, Visits
  <2> QED BY <2>1, <1>1, <1>2, DepthKept
<1>4. CASE \/ UpdateAlloca \/ UpdateLoad \/ UpdateStore \/ UpdateGEP
           \/ UpdateBinOp \/ UpdateBitCast \/ UpdateRet \/ Unhandled
  <2>1. \/ Dispatch({"alloca"}) \/ Dispatch({"load"}) \/ Dispatch({"store"})
        \/ Dispatch({"gep"}) \/ Dispatch({"binop"}) \/ Dispatch({"bitcast"})
        \/ Dispatch({"ret"}) \/ Dispatch({"br"})
    BY <1>4 DEF UpdateAlloca, UpdateLoad, UpdateStore, UpdateGEP, UpdateBinOp,
                UpdateBitCast, UpdateRet, Unhandled
  <2> QED BY <2>1, <1>3
<1>5. CASE HandleAnnotation \/ SkipCall
  BY <1>5, SiteVisited DEF HandleAnnotation, SkipCall
<1>6. CASE EnterCall
  <2>1. Visits({"call"}) /\ Resolves(insn.id) /\ UNCHANGED program
        /\ vMap' = vMap \cup {insn.id} /\ stack' = Append(Stepped, Entered(insn.callee))
    BY <1>6 DEF EnterCall
  <2>2. insn \in Insns(program) /\ insn.op \in {"call"} BY <1>1, <2>1, VisitedTyped
  <2>3. insn.id \in CallSites BY <2>2 DEF CallSites
  <2>4. Stepped \in Seq(Frame) /\ Len(Stepped) = Len(stack)
    BY <1>1, <2>1, SteppedTyped DEF Visits
  <2>5. Len(stack') = Len(stack) + 1 BY <2>1, <2>4
  <2>6. Cardinality(vMap') = Cardinality(vMap) + 1
    BY <2>1, SiteCounted DEF Resolves
  <2> QED BY <2>1, <2>3, <2>5, <2>6, <1>1, <1>2 DEF TraversalsNest, CallSites
<1>7. CASE LeaveFunction
  <2>1. stack # <<>> /\ stack' = SubSeq(stack, 1, Len(stack) - 1) /\ UNCHANGED <<program, vMap>>
    BY <1>7 DEF LeaveFunction, analysis
  <2>2. Len(stack) \in 1..Len(stack) /\ \A k \in 1..(Len(stack) - 1) : stack[k] \in Frame
    BY <2>1, <1>1
  <2>3. Len(stack') = Len(stack) - 1 /\ Len(stack') \in Nat
    <3> DEFINE n == Len(stack) - 1
    <3>1. n \in Nat BY <2>2
    <3>2. Len(SubSeq(stack, 1, n)) = IF 1 <= n THEN n - 1 + 1 ELSE 0
      BY <3>1, <2>2, SubSeqProperties
    <3>3. stack' = SubSeq(stack, 1, n) BY <2>1
    <3>4. Len(stack') = n
      <4> HIDE DEF n
      <4>1. Len(stack') = IF 1 <= n THEN n - 1 + 1 ELSE 0 BY <3>2, <3>3
      <4> QED BY <4>1, <3>1
    <3> QED BY <3>1, <3>4
  <2> QED BY <2>1, <2>3, <1>1, <1>2, DepthKept
<1>8. CASE CollectScope \/ Scan \/ EndScan \/ Instrument \/ UNCHANGED passVars
  <2>1. UNCHANGED <<program, vMap, stack>>
    BY <1>8 DEF CollectScope, Scan, EndScan, Instrument, passVars, analysis
  <2> QED BY <2>1, <1>1, <1>2, DepthKept
<1> QED BY <1>4, <1>5, <1>6, <1>7, <1>8 DEF PassNext, Traverse

(***************************************************************************)
(* No program makes the pass nest its traversals deeper than it has call   *)
(* sites, recursive ones included.                                         *)
(***************************************************************************)
THEOREM NestedTraversals == Pass => []TraversalsNest
<1>1. PassInit => IInv /\ TraversalsNest
  <2> SUFFICES ASSUME PassInit PROVE IInv /\ TraversalsNest OBVIOUS
  <2>1. Cardinality({}) = 0 BY FS_EmptySet
  <2> QED BY <2>1, InitTyped DEF PassInit, TraversalsNest
<1>2. IInv /\ TraversalsNest /\ [PassNext]_passVars => (IInv /\ TraversalsNest)'
  BY StepTyped, StepNests
<1> QED BY <1>1, <1>2, PTL DEF Pass

-----------------------------------------------------------------------------
(* The scan.                                                               *)

\* In any set of values found there is one with an alias outside.
Founded(found) ==
  \A T \in SUBSET (found \ scope) : T # {} => \E v \in T : AliasVals(v) \cap (found \ T) # {}

(***************************************************************************)
(* In the middle of the scan, in whatever order it goes: a value that may  *)
(* refer to something in the scope is found already, or is still to come;  *)
(* what is still to come is not found; and what is found is founded.       *)
(***************************************************************************)
ScanInv ==
  /\ phase # "traverse" =>
       /\ scope \subseteq senVarSet
       /\ \A v \in DOMAIN pMap : AliasVals(v) \cap scope # {} => v \in senVarSet \cup unscanned
       /\ unscanned \cap senVarSet = {}
       /\ Founded(senVarSet)
  /\ phase \in {"instrument", "done"} => unscanned = {}
  /\ phase = "done" =>
       /\ recorded = Instrumented(UNION {Defines(v) : v \in senVarSet})
       /\ checked = Instrumented(UNION {Uses(v) : v \in senVarSet})

\* A value with an alias among those found can be added to them.
LEMMA FoundedGrows ==
  ASSUME NEW found, Founded(found), NEW u, u \notin found, AliasVals(u) \cap found # {}
  PROVE  Founded(found \cup {u})
<1> DEFINE more == found \cup {u}
<1> SUFFICES ASSUME NEW T \in SUBSET (more \ scope), T # {}
             PROVE  \E v \in T : AliasVals(v) \cap (more \ T) # {}
  BY DEF Founded
<1>1. CASE T \subseteq {u}
  <2>1. T = {u} BY <1>1
  <2>2. AliasVals(u) \cap (more \ T) # {} BY <2>1
  <2> QED BY <2>1, <2>2
<1>2. CASE ~(T \subseteq {u})
  <2> DEFINE R == T \ {u}
  <2>1. R \in SUBSET (found \ scope) /\ R # {} BY <1>2
  <2>2. PICK v \in R : AliasVals(v) \cap (found \ R) # {}
    <3> HIDE DEF R
    <3> QED BY <2>1 DEF Founded
  <2>3. found \ R \subseteq more \ T BY DEF R
  <2>4. v \in T /\ AliasVals(v) \cap (more \ T) # {} BY <2>2, <2>3
  <2> QED BY <2>4
<1> QED BY <1>1, <1>2

\* What a value may refer to is settled when the traversal ends.
LEMMA AliasesSettled ==
  ASSUME UNCHANGED <<program, pMap, tuples, alias>>
  PROVE  \A v : AliasVals(v)' = AliasVals(v)
BY DEF AliasVals, Aliases, Pointees, TupleSet, Known, Found, HasAliasMap, IsStruct,
       TypeOf, Insns

\* And so is what is founded.
LEMMA FoundedSettled ==
  ASSUME UNCHANGED scope, \A v : AliasVals(v)' = AliasVals(v), NEW found, Founded(found),
         senVarSet' = found
  PROVE  Founded(senVarSet)'
BY DEF Founded

\* The traversal says nothing of the scan yet.
LEMMA TraverseScans == Traverse => phase' = "traverse"
BY DEF Traverse, UpdateAlloca, UpdateLoad, UpdateStore, UpdateGEP, UpdateBinOp,
       UpdateBitCast, UpdateRet, Unhandled, Dispatch, Visits, HandleAnnotation,
       EnterCall, SkipCall, LeaveFunction

\* The invariant of the scan is inductive by itself.
LEMMA StepScans == ScanInv /\ [PassNext]_passVars => ScanInv'
<1> SUFFICES ASSUME ScanInv, [PassNext]_passVars PROVE ScanInv' OBVIOUS
<1>1. CASE Traverse BY <1>1, TraverseScans DEF ScanInv
<1>2. CASE CollectScope
  <2>1. \A v : AliasVals(v)' = AliasVals(v) BY <1>2, AliasesSettled DEF CollectScope
  <2>2. \A v : AliasVals(v) # {} => Aliases(v) # {} BY DEF AliasVals
  <2>3. \A v \in DOMAIN pMap : AliasVals(v) # {} => v \in senVarSet' \cup unscanned'
    BY <1>2, <2>2 DEF CollectScope
  <2>4. senVarSet' = scope' /\ unscanned' \cap senVarSet' = {} BY <1>2 DEF CollectScope
  <2>5. Founded(senVarSet)' BY <2>4 DEF Founded
  <2> QED BY <1>2, <2>1, <2>3, <2>4, <2>5 DEF CollectScope, ScanInv
<1>3. CASE Scan
  <2>1. \A v : AliasVals(v)' = AliasVals(v) BY <1>3, AliasesSettled DEF Scan, analysis
  <2>2. PICK u \in unscanned :
          /\ senVarSet' = IF AliasesSensitive(u) THEN senVarSet \cup {u} ELSE senVarSet
          /\ unscanned' = unscanned \ {u}
    BY <1>3 DEF Scan
  <2>3. scope \subseteq senVarSet /\ phase' = "scan" /\ UNCHANGED <<scope, pMap>>
    BY <1>3 DEF Scan, analysis, ScanInv
  <2>4. AliasVals(u) \cap scope # {} => u \in senVarSet'
    BY <2>2, <2>3 DEF AliasesSensitive
  <2>5. ASSUME NEW v \in DOMAIN pMap, AliasVals(v) \cap scope # {}
        PROVE  v \in senVarSet' \cup unscanned'
    <3>1. v \in senVarSet \cup unscanned BY <1>3, <2>5 DEF Scan, ScanInv
    <3> QED BY <3>1, <2>2, <2>4, <2>5
  <2>6. Founded(senVarSet) /\ unscanned \cap senVarSet = {} /\ u \notin senVarSet
    BY <1>3, <2>2 DEF Scan, ScanInv
  <2>7. unscanned' \cap senVarSet' = {} BY <2>2, <2>6
  <2>8. Founded(senVarSet)'
    <3>1. CASE AliasesSensitive(u)
      <4>1. Founded(senVarSet \cup {u}) BY <3>1, <2>6, FoundedGrows DEF AliasesSensitive
      <4>2. senVarSet' = senVarSet \cup {u} BY <3>1, <2>2
      <4> QED BY <4>1, <4>2, <2>1, <2>3, FoundedSettled
    <3>2. CASE ~AliasesSensitive(u)
      <4>1. senVarSet' = senVarSet BY <3>2, <2>2
      <4> QED BY <4>1, <2>1, <2>3, <2>6, FoundedSettled
    <3> QED BY <3>1, <3>2
  <2> QED BY <2>1, <2>2, <2>3, <2>5, <2>7, <2>8 DEF ScanInv
<1>4. CASE EndScan
  <2>1. \A v : AliasVals(v)' = AliasVals(v) BY <1>4, AliasesSettled DEF EndScan, analysis
  <2>2. Founded(senVarSet)' BY <1>4, <2>1, FoundedSettled DEF EndScan, result, ScanInv
  <2> QED BY <1>4, <2>1, <2>2 DEF EndScan, result, analysis, ScanInv
<1>5. CASE Instrument
  <2>1. \A v : AliasVals(v)' = AliasVals(v) BY <1>5, AliasesSettled DEF Instrument, analysis
  <2>2. recorded' = Instrumented(UNION {Defines(v) : v \in senVarSet})'
        /\ checked' = Instrumented(UNION {Uses(v) : v \in senVarSet})'
    BY <1>5 DEF Instrument, Instrumented, Defines, Uses, StoresTo, LoadsFrom, Insns
  <2>3. Founded(senVarSet)' BY <1>5, <2>1, FoundedSettled DEF Instrument, ScanInv
  <2> QED BY <1>5, <2>1, <2>2, <2>3 DEF Instrument, analysis, ScanInv
<1>6. CASE UNCHANGED passVars
  <2>1. \A v : AliasVals(v)' = AliasVals(v) BY <1>6, AliasesSettled DEF passVars, analysis
  <2>2. UNCHANGED <<phase, scope, senVarSet, unscanned, recorded, checked, pMap, program>>
    BY <1>6 DEF passVars, analysis, result
  <2>3. /\ Instrumented(UNION {Defines(v) : v \in senVarSet})' = Instrumented(UNION {Defines(v) : v \in senVarSet})
        /\ Instrumented(UNION {Uses(v) : v \in senVarSet})' = Instrumented(UNION {Uses(v) : v \in senVarSet})
    BY <2>2 DEF Instrumented, Defines, Uses, StoresTo, LoadsFrom, Insns
  <2>4. Founded(senVarSet) => Founded(senVarSet)' BY <2>1, <2>2, FoundedSettled
  <2> QED BY <2>1, <2>2, <2>3, <2>4 DEF ScanInv
<1> QED BY <1>1, <1>2, <1>3, <1>4, <1>5, <1>6 DEF PassNext

\* At the end nothing is left to scan.
LEMMA ScanFinds == ScanInv => ScanIsBounded
<1> SUFFICES ASSUME ScanInv PROVE ScanIsBounded OBVIOUS
<1>1. ASSUME phase = "done", NEW v \in DOMAIN pMap, AliasVals(v) \cap scope # {}
      PROVE  Watched(v)
  <2>1. v \in senVarSet BY <1>1 DEF ScanInv
  <2>2. \A i \in StoresTo(v) : i \in UNION {Defines(w) : w \in senVarSet}
    BY <2>1 DEF Defines
  <2>3. \A i \in LoadsFrom(v) : i \in UNION {Uses(w) : w \in senVarSet}
    BY <2>1 DEF Uses
  <2> QED BY <1>1, <2>1, <2>2, <2>3 DEF ScanInv, Instrumented, Watched
<1>2. phase = "instrument" => Founded(senVarSet) BY DEF ScanInv
<1> QED BY <1>1, <1>2 DEF ScanIsBounded, Founded

(***************************************************************************)
(* Whatever the order in which DefUseCheck() scans the points-to map, all  *)
(* that is written or read through an alias of the scope is instrumented,  *)
(* and nothing becomes sensitive but through aliases that are.             *)
(***************************************************************************)
THEOREM BoundedScan == Pass => []ScanIsBounded
<1>1. PassInit => ScanInv BY DEF PassInit, ScanInv
<1> QED BY <1>1, StepScans, ScanFinds, PTL DEF Pass

=============================================================================
