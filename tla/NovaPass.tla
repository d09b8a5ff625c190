------------------------------ MODULE NovaPass ------------------------------
(***************************************************************************)
(* The compiler pass Nova (lib/Transforms/Nova): it finds out what the     *)
(* annotated variables may be called by (points-to analysis), and inserts  *)
(* a record of every definition and a check of every use of them.          *)
(*                                                                         *)
(* One step visits one instruction, or looks at one entry of the points-to *)
(* map.  A TupleSet is shared by the entries that point to it and is       *)
(* changed through any of them, hence the indirection from pMap to tuples. *)
(* A SetVector is a set: where a loop over one ends early, any part of it  *)
(* may have been handled.                                                  *)
(***************************************************************************)
EXTENDS IRProgram, FiniteSets

CONSTANTS Programs,   \* the programs the pass is run on
          MaxDepth    \* bound on the nesting of traversals; TraversalsNest says
                      \* that a program needs no more than it has call sites

ASSUME ProgramsAssumption ==
  /\ MaxDepth \in Nat
  /\ \A p \in Programs : IsProgram(p)

VARIABLES program,
          phase,        \* "traverse", "scan", "instrument" or "done"
          stack,        \* Traversal()s in progress
          vMap,         \* call sites visited
          ci,           \* the current call instruction
          pMap,         \* value -> TupleSet
          tuples,       \* what is in a TupleSet
          alias,        \* object -> the objects at offset 0 of its aliasMap
          tMap,         \* values that have an entry in the taint map
          annotated,    \* gs->senVarSet
          scope,        \* senVarSet when the scan begins
          senVarSet,    \* the sensitive values
          unscanned,    \* entries of pMap the scan has not reached
          recorded,     \* stores behind a __record_defevt
          checked       \* loads in front of a __check_useevt

analysis == <<vMap, ci, pMap, tuples, alias, tMap, annotated>>
result   == <<scope, senVarSet, unscanned, recorded, checked>>
passVars == <<program, phase, stack, analysis, result>>

\* The n-th traversal names what it creates after itself.
Ref    == [val : Value, gen : Nat]
NoRef  == [val |-> Null, gen |-> 0]
Object == [val : Value, gen : Nat, lvl : Nat]
Tuple  == [off : Nat, ao : Object]

Obj(v, n, k) == [val |-> v, gen |-> n, lvl |-> k]
At0(o)       == [off |-> 0, ao |-> o]
Put(f, k, x) == [j \in DOMAIN f \cup {k} |-> IF j = k THEN x ELSE f[j]]

-----------------------------------------------------------------------------
(* Alias objects.                                                          *)

(***************************************************************************)
(* CreateAliasObject(): an object for the variable, one for what each      *)
(* pointer on the way points to before anything is stored, and a location  *)
(* at the end, which has no aliasMap.  SkipStructType() holds of every     *)
(* struct with a name but "struct.IO_...": a struct is like a scalar.      *)
(***************************************************************************)
CreateAliasObject(v, n, type) ==
  [o \in {Obj(v, n, k) : k \in 0..type.depth} |-> {Obj(v, n, o.lvl + 1)}]

TypeOf(v) ==
  IF v \in DOMAIN program.globals THEN program.globals[v]
  ELSE (CHOOSE i \in Insns(program) : i.id = v /\ i.op = "alloca").type

IsStruct(o) == TypeOf(o.val).struct /\ o.lvl = TypeOf(o.val).depth

HasAliasMap(t)   == t.ao \in DOMAIN alias
HasEntry(t)      == HasAliasMap(t) /\ t.off = 0
Found(v)         == v \in DOMAIN pMap
Known(v)         == Found(v) /\ pMap[v] # NoRef
TupleSet(v)      == IF Known(v) THEN tuples[pMap[v]] ELSE {}
Pointees(ts)     == UNION {alias[t.ao] : t \in ts}

-----------------------------------------------------------------------------
(* Traversal.                                                              *)

frame == stack[Len(stack)]
body  == program.code[frame.fn]
insn  == body[frame.pc]

Visits(ops) ==
  /\ phase = "traverse" /\ stack # <<>>
  /\ frame.pc \in DOMAIN body /\ insn.op \in ops

Stepped == [stack EXCEPT ![Len(stack)].pc = @ + 1]

\* DispatchClients(): the analysis visits an instruction that is not a call.
Dispatch(ops) ==
  /\ Visits(ops)
  /\ stack' = Stepped
  /\ UNCHANGED <<program, phase, vMap, ci, annotated, result>>

\* A new TupleSet for v, or that of another value.
NewTupleSet(v, ts) ==
  LET ref == [val |-> v, gen |-> frame.gen] IN
  /\ pMap' = Put(pMap, v, ref)
  /\ tuples' = Put(tuples, ref, ts)

Share(v, ref) == pMap' = Put(pMap, v, ref) /\ UNCHANGED tuples

NoEntry == UNCHANGED <<pMap, tuples>>

\* Every binary operation, address computation and cast gets a taint entry; an
\* alloca or a store none.
Tainted == tMap' = tMap \cup {insn.id}

UpdateAlloca ==
  /\ Dispatch({"alloca"})
  /\ NewTupleSet(insn.id, {At0(Obj(insn.id, frame.gen, 0))})
  /\ LET new == CreateAliasObject(insn.id, frame.gen, insn.type) IN
     alias' = [o \in DOMAIN alias \cup DOMAIN new |->
                 IF o \in DOMAIN new THEN new[o] ELSE alias[o]]
  /\ UNCHANGED tMap

\* What a load from ptr may give.
Loaded(ptr) == {At0(o) : o \in Pointees(TupleSet(ptr))}

\* A load gets one unless a tuple is a mere location.
UpdateTaintLoad ==
  tMap' = IF Known(insn.ptr) /\ \A t \in TupleSet(insn.ptr) : HasAliasMap(t)
          THEN tMap \cup {insn.id} ELSE tMap

\* One tuple without an alias set ends the analysis of the load.
UpdateLoad ==
  /\ Dispatch({"load"})
  /\ IF Known(insn.ptr) /\ \A t \in TupleSet(insn.ptr) : HasEntry(t)
     THEN NewTupleSet(insn.id, Loaded(insn.ptr)) ELSE NoEntry
  /\ UpdateTaintLoad
  /\ UNCHANGED alias

\* The tuples of the elements of a struct or an array.
Elements(gep) == IF gep.struct THEN {[off |-> gep.off, ao |-> t.ao] : t \in TupleSet(gep.ptr)}
                               ELSE TupleSet(gep.ptr)

\* Mutant: a store replaces what the object pointed to before.
StoredStrongly(old, ts) == {t.ao : t \in ts}

\* A store adds to what is there; the offset of what is stored is lost.
Stored(old, ts) == old \cup {t.ao : t \in ts}

\* An address within a struct gets a TupleSet of its own, one within an array
\* that of the array.
Element(v, gep) ==
  IF ~Known(gep.ptr) THEN NoEntry
  ELSE IF gep.struct THEN NewTupleSet(v, Elements(gep))
  ELSE Share(v, pMap[gep.ptr])

\* Through a constant expression: HandlePtoGEPOperator() gives it an entry,
\* if not for the points-to analysis then for the taint analysis.  The first
\* index of the constant expressions of the programs is a number: otherwise
\* there is no entry.
Operand(v) == IF v \in DOMAIN program.gops THEN program.gops[v].ptr ELSE v
OperandTuples(v) ==
  IF v \in DOMAIN program.gops THEN Elements(program.gops[v]) ELSE TupleSet(v)

UpdateStore ==
  /\ Dispatch({"store"})
  /\ LET ptr == insn.ptr
         ots == OperandTuples(ptr)
         good == {t \in ots : HasEntry(t)}
     IN  /\ IF ptr \in DOMAIN program.gops
            THEN Element(ptr, program.gops[ptr]) ELSE NoEntry
         /\ IF Known(insn.val) /\ Known(Operand(ptr))
            THEN \E reached \in SUBSET good :
                   /\ good = ots => reached = good
                   /\ alias' = [o \in DOMAIN alias |->
                                  IF \E t \in reached : t.ao = o
                                  THEN Stored(alias[o], TupleSet(insn.val))
                                  ELSE alias[o]]
            ELSE UNCHANGED alias
  /\ UNCHANGED tMap

UpdateGEP ==
  /\ Dispatch({"gep"})
  /\ Element(insn.id, insn)
  /\ Tainted
  /\ UNCHANGED alias

UpdateBinOp ==
  /\ Dispatch({"binop"})
  /\ LET ts == TupleSet(insn.ptr) \cup TupleSet(insn.val) IN
     IF Known(insn.id)
     THEN tuples' = [tuples EXCEPT ![pMap[insn.id]] = @ \cup ts] /\ UNCHANGED pMap
     ELSE NewTupleSet(insn.id, ts)
  /\ Tainted
  /\ UNCHANGED alias

UpdateBitCast ==
  /\ Dispatch({"bitcast"})
  /\ Share(insn.id, IF Known(insn.ptr) THEN pMap[insn.ptr] ELSE NoRef)
  /\ Tainted
  /\ UNCHANGED alias

UpdateTaintRet == tMap' = IF insn.ptr \in tMap THEN tMap \cup {ci} ELSE tMap

\* The returned value goes to the current call: the last one initialised, be
\* it the one that is returned from or one within the function.
UpdateRet ==
  /\ Dispatch({"ret"})
  /\ IF ~Known(insn.ptr) THEN NoEntry
     ELSE IF Known(ci)
     THEN tuples' = [tuples EXCEPT ![pMap[ci]] = @ \cup TupleSet(insn.ptr)] /\ UNCHANGED pMap
     ELSE Share(ci, pMap[insn.ptr])
  /\ UpdateTaintRet
  /\ UNCHANGED alias

\* PointsToAnalysis() and TaintAnalysis() do not handle branches.
Unhandled == Dispatch({"br"}) /\ UNCHANGED <<pMap, tuples, alias, tMap>>

-----------------------------------------------------------------------------
(* Calls.                                                                  *)

\* Mutant: a call site is not marked.
Unmarked(site) == TRUE

\* ResolveCall(): a call site is visited once; an indirect call has no callee.
Resolves(site) == site \notin vMap

\* Arguments of which the points-to AND the taint map have an entry: no
\* alloca has one in the taint map.
Passed(arg) == Found(arg) /\ arg \in tMap

CallSites == {i.id : i \in {j \in Insns(program) : j.op \in {"call", "icall", "annotate"}}}

HandleAnnotation ==
  /\ Visits({"annotate"})
  /\ stack' = Stepped
  /\ vMap' = vMap \cup {insn.id}
  /\ annotated' = IF Resolves(insn.id) THEN annotated \cup {insn.ptr} ELSE annotated
  /\ UNCHANGED <<program, phase, ci, pMap, tuples, alias, tMap, result>>

\* Mutant: a function is entered in front of its first instruction.
EnteredAtZero(fn) == [fn |-> fn, pc |-> 0, gen |-> Cardinality(vMap) + 1]

Entered(fn) == [fn |-> fn, pc |-> 1, gen |-> Cardinality(vMap) + 1]

\* InitializeFunction(): a parameter takes the argument of this call in place
\* of those of the calls before.
InitializeParameters(fn) ==
  LET params == program.params[fn]
      given  == {k \in DOMAIN params \cap DOMAIN insn.args : Passed(insn.args[k])}
      bound  == {params[k] : k \in given}
      ArgOf(v) == insn.args[CHOOSE k \in given : params[k] = v]
  IN  /\ pMap' = [v \in DOMAIN pMap \cup bound |->
                    IF v \in bound THEN pMap[ArgOf(v)] ELSE pMap[v]]
      /\ tMap' = tMap \cup bound

EnterCall ==
  /\ Visits({"call"})
  /\ Resolves(insn.id) /\ Defined(program, insn.callee)
  /\ Len(stack) < MaxDepth
  /\ vMap' = vMap \cup {insn.id}
  /\ ci' = insn.id
  /\ stack' = Append(Stepped, Entered(insn.callee))
  /\ InitializeParameters(insn.callee)
  /\ UNCHANGED <<program, phase, tuples, alias, annotated, result>>

SkipCall ==
  /\ Visits({"call", "icall"})
  /\ ~(insn.op = "call" /\ Resolves(insn.id) /\ Defined(program, insn.callee))
  /\ stack' = Stepped
  /\ vMap' = vMap \cup {insn.id}
  /\ UNCHANGED <<program, phase, ci, pMap, tuples, alias, tMap, annotated, result>>

LeaveFunction ==
  /\ phase = "traverse" /\ stack # <<>>
  /\ frame.pc \notin DOMAIN body
  /\ stack' = SubSeq(stack, 1, Len(stack) - 1)
  /\ UNCHANGED <<program, phase, analysis, result>>

-----------------------------------------------------------------------------
(* DefUseCheck().                                                          *)

\* What is looked at of a value: the objects that its tuples alias; of a
\* struct those at any offset.
Aliases(v) == Pointees({t \in TupleSet(v) : HasAliasMap(t) /\ (t.off = 0 \/ IsStruct(t.ao))})
AliasVals(v) == {o.val : o \in Aliases(v)}

WithAliases(v) == {v} \cup AliasVals(v)

\* GetAnnotatedVariables(), and the annotated variables with their aliases.
\* An entry whose objects alias nothing leaves the scan as it is.
CollectScope ==
  /\ phase = "traverse" /\ stack = <<>>
  /\ annotated' = annotated \cup program.annotated
  /\ scope' = UNION {WithAliases(v) : v \in annotated'}
  /\ senVarSet' = scope'
  /\ unscanned' = {v \in DOMAIN pMap \ scope' : Aliases(v) # {}}
  /\ phase' = "scan"
  /\ UNCHANGED <<program, stack, vMap, ci, pMap, tuples, alias, tMap, recorded, checked>>

\* Mutant: the scan compares with the annotated variables only.
AliasesAnnotated(v) == AliasVals(v) \cap annotated # {}

AliasesSensitive(v) == AliasVals(v) \cap senVarSet # {}

\* The entries are scanned once, in the order of the values' addresses in the
\* compiler's memory.
Scan ==
  /\ phase = "scan"
  /\ \E v \in unscanned :
       /\ senVarSet' = IF AliasesSensitive(v) THEN senVarSet \cup {v} ELSE senVarSet
       /\ unscanned' = unscanned \ {v}
  /\ UNCHANGED <<program, phase, stack, analysis, scope, recorded, checked>>

EndScan ==
  /\ phase = "scan" /\ unscanned = {}
  /\ phase' = "instrument"
  /\ UNCHANGED <<program, stack, analysis, result>>

StoresTo(v)  == {i \in Insns(program) : i.op = "store" /\ i.ptr = v}
LoadsFrom(v) == {i \in Insns(program) : i.op = "load" /\ i.ptr = v}

\* RecordDefineEvent(): writes to a variable, and through what is loaded from it.
Defines(v) == StoresTo(v) \cup UNION {StoresTo(i.id) : i \in LoadsFrom(v)}

\* Mutant: a use is checked of the annotated values only.
AnnotatedUses(v) == IF v \in annotated THEN LoadsFrom(v) ELSE {}

\* CheckUseEvent().
Uses(v) == LoadsFrom(v)

\* InstrumentStoreInst() and InstrumentLoadInst() give up on a float.
Instrumented(insns) == {i.id : i \in {j \in insns : ~j.float}}

Instrument ==
  /\ phase = "instrument"
  /\ phase' = "done"
  /\ recorded' = Instrumented(UNION {Defines(v) : v \in senVarSet})
  /\ checked' = Instrumented(UNION {Uses(v) : v \in senVarSet})
  /\ UNCHANGED <<program, stack, analysis, scope, senVarSet, unscanned>>

-----------------------------------------------------------------------------

\* InitializeGS().
PassInit ==
  /\ program \in Programs
  /\ phase = "traverse"
  /\ stack = << [fn |-> "main", pc |-> 1, gen |-> 0] >>
  /\ vMap = {}
  /\ ci = Null
  /\ pMap = [v \in DOMAIN program.globals |-> [val |-> v, gen |-> 0]]
  /\ tuples = [r \in {[val |-> v, gen |-> 0] : v \in DOMAIN program.globals}
                 |-> {At0(Obj(r.val, 0, 0))}]
  /\ alias = [o \in UNION {DOMAIN CreateAliasObject(v, 0, program.globals[v])
                             : v \in DOMAIN program.globals}
                |-> {Obj(o.val, 0, o.lvl + 1)}]
  /\ tMap = DOMAIN program.globals
  /\ annotated = {}
  /\ scope = {} /\ senVarSet = {} /\ unscanned = {}
  /\ recorded = {} /\ checked = {}

Traverse == \/ UpdateAlloca \/ UpdateLoad \/ UpdateStore \/ UpdateGEP
            \/ UpdateBinOp \/ UpdateBitCast \/ UpdateRet \/ Unhandled
            \/ HandleAnnotation \/ EnterCall \/ SkipCall \/ LeaveFunction

PassNext == Traverse \/ CollectScope \/ Scan \/ EndScan \/ Instrument

\* The compiler runs the pass to its end.
Pass == PassInit /\ [][PassNext]_passVars /\ WF_passVars(PassNext)

-----------------------------------------------------------------------------
(* Properties.                                                             *)

Frame == [fn : DOMAIN program.code, pc : Nat \ {0}, gen : Nat]

MapsTypeOK ==
  /\ DOMAIN pMap \subseteq Value \cup {Null}
  /\ \A v \in DOMAIN pMap : pMap[v] = NoRef \/ pMap[v] \in DOMAIN tuples
  /\ \A r \in DOMAIN tuples : tuples[r] \in SUBSET Tuple

AliasTypeOK ==
  /\ DOMAIN alias \subseteq Object
  /\ \A o \in DOMAIN alias : alias[o] \in SUBSET Object

SetsTypeOK ==
  /\ vMap \subseteq Value /\ ci \in Value \cup {Null}
  /\ tMap \subseteq Value \cup {Null}
  /\ annotated \subseteq Value

ResultTypeOK ==
  /\ scope \subseteq Value /\ senVarSet \subseteq Value \cup {Null}
  /\ unscanned \subseteq DOMAIN pMap
  /\ recorded \subseteq Value /\ checked \subseteq Value

\* Type invariant of the pass.
PassTypeOK ==
  /\ phase \in {"traverse", "scan", "instrument", "done"}
  /\ stack \in Seq(Frame)
  /\ MapsTypeOK /\ AliasTypeOK /\ SetsTypeOK /\ ResultTypeOK

(***************************************************************************)
(* Traversals are nested no deeper than there are call sites: one that is  *)
(* in progress keeps the next from its call site, so that a recursive      *)
(* program does not make the pass recurse for ever (ResolveCall(),         *)
(* Nova.cpp:470-479).                                                      *)
(***************************************************************************)
TraversalsNest ==
  /\ vMap \subseteq CallSites
  /\ Len(stack) <= Cardinality(vMap) + 1

\* What is written to v is recorded, what is read from it is checked.
Watched(v) ==
  /\ v \in senVarSet
  /\ \A i \in StoresTo(v) : i.float \/ i.id \in recorded
  /\ \A i \in LoadsFrom(v) : i.float \/ i.id \in checked

(***************************************************************************)
(* What the scan finds in every order.  At least the values that may refer *)
(* to the scope itself: they are watched.  At most those that reach the    *)
(* scope through others that it finds: in any set of values found there is *)
(* one with an alias outside that made it sensitive, and so nothing is     *)
(* instrumented that no chain of aliases leads from.  In between, the      *)
(* result depends on the order: "put those whose alias is in the senVar    *)
(* set into senVar, too" (Nova.cpp:5077) is not kept for a value scanned   *)
(* before its alias is found.                                              *)
(***************************************************************************)
ScanIsBounded ==
  /\ phase = "done" =>
       \A v \in DOMAIN pMap : AliasVals(v) \cap scope # {} => Watched(v)
  /\ phase = "instrument" =>
       \A T \in SUBSET (senVarSet \ scope) : T # {} =>
         \E v \in T : AliasVals(v) \cap (senVarSet \ T) # {}

\* The pass ends, for recursive programs too.
PassEnds == phase = "traverse" ~> phase = "done"

=============================================================================
