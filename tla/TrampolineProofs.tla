-------------------------- MODULE TrampolineProofs --------------------------
(***************************************************************************)
(* Proofs about the trampoline library, for any set of threads, any width  *)
(* of a field and any events.                                              *)
(***************************************************************************)
EXTENDS Trampoline, TLAPS

-----------------------------------------------------------------------------
(* Fields and their halves.                                                *)

\* A half is less than 2^32 (handle_event(), cfv_bellman.c:191-198) ...
LEMMA HalvesType ==
  ASSUME NEW x \in Fields
  PROVE  Halves(x) \in (0..Half-1) \X (0..Half-1)
<1>1. Half \in Nat /\ Half > 0
  BY TrampolineAssumption
<1>2. x \in Nat /\ x < Half * Half
  BY <1>1 DEF Fields
<1>3. x % Half \in 0..Half-1
  BY <1>1, <1>2
<1>4. x \div Half \in Nat /\ x = Half * (x \div Half) + (x % Half)
  BY <1>1, <1>2, Z3
<1>5. ASSUME x \div Half >= Half PROVE FALSE
  <2>1. Half * (x \div Half) >= Half * Half
    BY <1>1, <1>4, <1>5, Z3
  <2> QED
    BY <1>1, <1>2, <1>3, <1>4, <2>1
<1> QED
  BY <1>1, <1>3, <1>4, <1>5 DEF Halves

\* ... and the two halves make up the field again (verify(), hello_world_ta.c).
LEMMA HalvesJoin ==
  ASSUME NEW x \in Fields
  PROVE  Halves(x)[2] * Half + Halves(x)[1] = x
<1>1. Half \in Nat /\ Half > 0 /\ x \in Nat
  BY TrampolineAssumption DEF Fields
<1>2. (x \div Half) * Half + (x % Half) = x
  BY <1>1, Z3
<1> QED
  BY <1>2 DEF Halves

-----------------------------------------------------------------------------
(* The paths of the functions.                                             *)

\* The functions of the library, and the length of the path of each.
LEMMA PathLengths ==
  /\ DOMAIN Path = {"init", "quote", "event", "hinted", "switch"}
  /\ \A fn \in DOMAIN Path : Len(Path[fn]) \in 1..8
<1>1. DOMAIN Path = {"init", "quote", "event", "hinted", "switch"}
  BY DEF Path
<1>2. Len(Path["init"]) = 6 /\ Len(Path["quote"]) = 6 /\ Len(Path["switch"]) = 7
  BY DEF Path, InitPath, QuotePath, SwitchPath
<1>3. Len(Path["event"]) = 6 /\ Len(Path["hinted"]) = 8
  BY DEF Path, EventPath, HintedPath
<1> QED
  BY <1>1, <1>2, <1>3

\* An event, hinted or not, begins with the same six steps; only one with a
\* hint goes on, with two more (handle_event(), nova.c:36-48).
LEMMA EventSteps ==
  ASSUME NEW fn \in {"event", "hinted"}, NEW n \in 1..Len(Path[fn]),
         NEW step, Path[fn][n] = step
  PROVE  /\ n \in 1..8
         /\ n = 1 <=> step = "clear"
         /\ n = 2 <=> step = "types"
         /\ n = 3 <=> step = "etype"
         /\ n = 4 <=> step = "a"
         /\ n = 5 <=> step = "b"
         /\ n = 6 <=> step = "invoke"
         /\ n = 7 <=> step = "hint"
         /\ n = 8 <=> step = "print"
<1>1. CASE fn = "event"
  <2>1. Path[fn] = <<"clear", "types", "etype", "a", "b", "invoke">>
    BY <1>1 DEF Path, EventPath
  <2>2. n \in 1..6
    BY <2>1
  <2> QED
    BY <2>1, <2>2
<1>2. CASE fn = "hinted"
  <2>1. Path[fn] = <<"clear", "types", "etype", "a", "b", "invoke", "hint", "print">>
    BY <1>2 DEF Path, HintedPath
  <2>2. n \in 1..8
    BY <2>1
  <2> QED
    BY <2>1, <2>2
<1> QED
  BY <1>1, <1>2

\* Only an event with a hint prints one, and only cfv_init() and cfv_quote()
\* open and close.
LEMMA PrintIsHinted ==
  ASSUME NEW fn \in DOMAIN Path, NEW n \in 1..Len(Path[fn]),
         Path[fn][n] = "print"
  PROVE  fn = "hinted"
<1>1. CASE fn = "init"
  BY <1>1 DEF Path, InitPath
<1>2. CASE fn = "quote"
  BY <1>2 DEF Path, QuotePath
<1>3. CASE fn = "event"
  BY <1>3 DEF Path, EventPath
<1>4. CASE fn = "switch"
  BY <1>4 DEF Path, SwitchPath
<1> QED
  BY <1>1, <1>2, <1>3, <1>4, PathLengths

-----------------------------------------------------------------------------
(* The inductive invariant.                                                *)

\* The control of the threads: what Advance() and Return() touch.  A thread is
\* on the path with a hint only for an event that has one.
Control ==
  /\ status \in {"running", "exited", "crashed", "ended"}
  /\ call \in [Thread -> [fn : DOMAIN Path, ev : Events \cup {NoEvent}]]
  /\ pc \in [Thread -> Nat]
  /\ \A t \in Thread : pc[t] <= Len(PathOf(t))
  /\ \A t \in Thread : call[t].fn = "hinted" => Hinted(call[t].ev)

\* The global variables.
GlobalsOK ==
  /\ cfv_start \in BOOLEAN
  /\ hfp \in {"NULL", "open", "closed"}
  /\ hints \in Seq(HintLines)
  /\ op \in Operations
  /\ sess \in Session \cup {None}

IInv == Control /\ GlobalsOK

\* Zero is a field, and its halves are zero.
LEMMA ZeroIsAField == 0 \in Fields /\ 0 \in 0..Half-1
<1>1. Half \in Nat /\ Half > 0
  BY TrampolineAssumption
<1>2. Half * Half >= 1
  BY <1>1, Z3
<1> QED
  BY <1>1, <1>2 DEF Fields

\* memset() leaves an operation of the right type, and so does each store of a
\* field (cfv_bellman.c:184-198).
LEMMA ZeroOpType == ZeroOp \in Operations
BY ZeroIsAField DEF ZeroOp, Operations, NoTypes, LibTypes, Kinds

\* The fields of an event, or of a call that has none, have their types.
LEMMA EventType ==
  ASSUME NEW e \in Events \cup {NoEvent}
  PROVE  e.etype \in Kinds /\ e.a \in Fields /\ e.b \in Fields
<1>1. CASE e \in Events
  BY <1>1, TrampolineAssumption
<1>2. CASE e = NoEvent
  BY <1>2, ZeroIsAField DEF NoEvent, Kinds
<1> QED
  BY <1>1, <1>2

\* fopen() of a new file: no hints are hints.
LEMMA NoHints == <<>> \in Seq(HintLines)
OBVIOUS

\* What is printed for an event with a hint is a hint (nova.c:36-77).
LEMMA HintType ==
  ASSUME NEW e \in Events \cup {NoEvent}, Hinted(e)
  PROVE  HintOf(e) \in HintLines
BY EventType, ZeroIsAField DEF Hinted, HintOf, HintLines

\* The control stays typed when a thread goes on along its path or leaves it.
LEMMA MoveControl ==
  ASSUME Control, NEW t \in Thread, Advance(t) \/ Return(t)
  PROVE  Control'
<1> DEFINE len(u) == Len(PathOf(u))
<1>1. \A u \in Thread : len(u) \in 1..8
  BY PathLengths DEF Control, PathOf
<1>2. UNCHANGED <<status, call>>
  BY DEF Advance, Return
<1>3. \A u \in Thread : PathOf(u)' = PathOf(u)
  BY <1>2 DEF PathOf
<1>4. pc' \in [Thread -> Nat] /\ \A u \in Thread : pc'[u] <= len(u)
  <2>1. CASE Advance(t)
    BY <2>1, <1>1 DEF Advance, Control
  <2>2. CASE Return(t)
    BY <2>2, <1>1 DEF Return, Control
  <2> QED
    BY <2>1, <2>2
<1> QED
  BY <1>2, <1>3, <1>4 DEF Control

\* ... and when a thread enters a function.
LEMMA EnterControl ==
  ASSUME Control, NEW t \in Thread, NEW fn \in DOMAIN Path,
         NEW e \in Events \cup {NoEvent}, NEW at \in 1..Len(Path[fn]),
         fn = "hinted" => Hinted(e),
         Enter(t, fn, e, at)
  PROVE  Control'
<1>1. Len(Path[fn]) \in 1..8
  BY PathLengths
<1>2. call' = [call EXCEPT ![t] = [fn |-> fn, ev |-> e]]
  BY DEF Enter
<1>3. call' \in [Thread -> [fn : DOMAIN Path, ev : Events \cup {NoEvent}]]
  BY <1>2 DEF Control
<1>4. pc' = [pc EXCEPT ![t] = at] /\ status' = status
  BY DEF Enter
<1>5. pc' \in [Thread -> Nat]
  BY <1>1, <1>4 DEF Control
<1>6. ASSUME NEW u \in Thread PROVE pc'[u] <= Len(PathOf(u)')
  <2>1. CASE u = t
    <3>1. PathOf(u)' = Path[fn] /\ pc'[u] = at
      BY <2>1, <1>2, <1>4 DEF PathOf, Control
    <3> QED
      BY <3>1, <1>1
  <2>2. CASE u # t
    <3>1. PathOf(u)' = PathOf(u) /\ pc'[u] = pc[u]
      BY <2>2, <1>2, <1>4 DEF PathOf, Control
    <3> QED
      BY <3>1 DEF Control
  <2> QED
    BY <2>1, <2>2
<1>7. ASSUME NEW u \in Thread, call'[u].fn = "hinted" PROVE Hinted(call'[u].ev)
  BY <1>7, <1>2 DEF Control
<1> QED
  BY <1>3, <1>4, <1>5, <1>6, <1>7 DEF Control

\* Every call of a function of the library enters it at a step it has.
LEMMA CallStep ==
  ASSUME Control, NEW t \in Thread,
         \/ CallInit(t) \/ CallQuote(t) \/ CallSwitch(t)
         \/ \E e \in Events : CallEvent(t, e)
  PROVE  Control'
<1>1. ASSUME NEW fn \in DOMAIN Path PROVE 1 \in 1..Len(Path[fn])
  <2>1. Len(Path[fn]) \in 1..8
    BY PathLengths
  <2>2. \A n \in 1..8 : 1 \in 1..n
    OBVIOUS
  <2> QED
    BY <2>1, <2>2
<1>2. Len(EventPath) + 1 \in 1..Len(Path["hinted"])
  BY DEF EventPath, Path, HintedPath
<1>3. CASE CallInit(t)
  BY <1>1, <1>3, EnterControl, PathLengths DEF CallInit
<1>4. CASE CallQuote(t)
  BY <1>1, <1>4, EnterControl, PathLengths DEF CallQuote
<1>5. CASE CallSwitch(t)
  BY <1>1, <1>5, EnterControl, PathLengths DEF CallSwitch
<1>6. ASSUME NEW e \in Events, CallEvent(t, e) PROVE Control'
  <2>1. CASE cfv_start /\ Hinted(e)
    BY <2>1, <1>1, <1>6, EnterControl, PathLengths DEF CallEvent
  <2>2. CASE cfv_start /\ ~Hinted(e)
    BY <2>2, <1>1, <1>6, EnterControl, PathLengths DEF CallEvent
  <2>3. CASE ~cfv_start
    BY <2>3, <1>2, <1>6, EnterControl, PathLengths DEF CallEvent
  <2> QED
    BY <2>1, <2>2, <2>3
<1> QED
  BY <1>3, <1>4, <1>5, <1>6

-----------------------------------------------------------------------------
(* Each kind of step keeps the invariant.                                  *)

\* A step of the code that stores into op, and goes on.
LEMMA StoreStep ==
  ASSUME IInv, NEW t \in Thread, NEW step, NEW o \in Operations,
         StoreOp(t, step, o)
  PROVE  IInv'
<1>1. Control'
  BY MoveControl DEF IInv, StoreOp
<1>2. GlobalsOK'
  BY DEF IInv, GlobalsOK, StoreOp
<1> QED
  BY <1>1, <1>2 DEF IInv

\* memset() and the four stores that follow it (cfv_bellman.c:184-198).
LEMMA StoreSteps ==
  ASSUME IInv, NEW t \in Thread,
         \/ Clear(t) \/ SetTypes(t) \/ SetEtype(t) \/ SetA(t) \/ SetB(t)
  PROVE  IInv'
<1>1. op \in Operations
  BY DEF IInv, GlobalsOK
<1>2. call[t].fn \in DOMAIN Path /\ call[t].ev \in Events \cup {NoEvent}
  BY DEF IInv, Control
<1>3. /\ call[t].ev.etype \in Kinds
      /\ Halves(call[t].ev.a) \in (0..Half-1) \X (0..Half-1)
      /\ Halves(call[t].ev.b) \in (0..Half-1) \X (0..Half-1)
  BY <1>2, EventType, HalvesType
<1>4. CASE Clear(t)
  BY <1>4, ZeroOpType, StoreStep DEF Clear
<1>5. CASE SetTypes(t)
  <2>1. call[t].fn \in DOMAIN LibTypes
    BY <1>2, PathLengths DEF LibTypes
  <2>2. [op EXCEPT !.types = LibTypes[call[t].fn]] \in Operations
    BY <1>1, <2>1 DEF Operations
  <2> QED
    BY <1>5, <2>2, StoreStep DEF SetTypes
<1>6. CASE SetEtype(t)
  <2>1. [op EXCEPT !.etype = call[t].ev.etype] \in Operations
    BY <1>1, <1>3 DEF Operations
  <2> QED
    BY <1>6, <2>1, StoreStep DEF SetEtype
<1>7. CASE SetA(t)
  <2>1. [op EXCEPT !.a = Halves(call[t].ev.a)] \in Operations
    BY <1>1, <1>3 DEF Operations
  <2> QED
    BY <1>7, <2>1, StoreStep DEF SetA
<1>8. CASE SetB(t)
  <2>1. [op EXCEPT !.b = Halves(call[t].ev.b)] \in Operations
    BY <1>1, <1>3 DEF Operations
  <2> QED
    BY <1>8, <2>1, StoreStep DEF SetB
<1> QED
  BY <1>4, <1>5, <1>6, <1>7, <1>8

\* exit(), a crash and the end of the program change nothing but the status.
LEMMA EndStep ==
  ASSUME IInv, NEW how \in {"exited", "crashed", "ended"}, Ends(how)
  PROVE  IInv'
BY DEF IInv, Control, GlobalsOK, Ends, globals, PathOf

\* The session (open_ta() and close_ta(), and the answers of the TEE).
LEMMA SessionSteps ==
  ASSUME IInv, NEW t \in Thread,
         \/ \E s \in Session : OpenTa(t, s)
         \/ OpenRefused(t) \/ CloseTa(t)
         \/ \E success \in BOOLEAN : Invoked(t, success)
  PROVE  IInv'
<1>1. ASSUME NEW s \in Session, OpenTa(t, s) PROVE IInv'
  BY <1>1, MoveControl DEF IInv, GlobalsOK, OpenTa
<1>2. CASE OpenRefused(t)
  BY <1>2, EndStep DEF OpenRefused
<1>3. CASE CloseTa(t)
  BY <1>3, MoveControl DEF IInv, GlobalsOK, CloseTa, globals
<1>4. ASSUME NEW success \in BOOLEAN, Invoked(t, success) PROVE IInv'
  <2>1. CASE Ends("exited")
    BY <2>1, EndStep
  <2>2. CASE Advance(t) /\ UNCHANGED globals
    BY <2>2, MoveControl DEF IInv, GlobalsOK, globals
  <2> QED
    BY <1>4, <2>1, <2>2 DEF Invoked
<1> QED
  BY <1>1, <1>2, <1>3, <1>4

\* The hints file and cfv_start (cfv_init(), cfv_quote() and nova.c).
LEMMA FileSteps ==
  ASSUME IInv, NEW t \in Thread,
         \/ Fopen(t) \/ Start(t) \/ Stop(t)
         \/ Fclose(t) \/ TestHint(t) \/ PrintHint(t)
  PROVE  IInv'
<1>1. CASE Fopen(t)
  <2>1. hints' \in Seq(HintLines) /\ hfp' \in {"NULL", "open", "closed"}
    BY <1>1, NoHints DEF Fopen, IInv, GlobalsOK
  <2> QED
    BY <1>1, <2>1, MoveControl DEF IInv, GlobalsOK, Fopen
<1>2. CASE Start(t) \/ Stop(t)
  BY <1>2, MoveControl DEF IInv, GlobalsOK, Start, Stop, SetStart
<1>3. CASE Fclose(t)
  <2>1. CASE Ends("crashed")
    BY <2>1, EndStep
  <2>2. CASE Advance(t) /\ hfp' = "closed" /\ UNCHANGED <<cfv_start, hints, op, sess>>
    BY <2>2, MoveControl DEF IInv, GlobalsOK
  <2> QED
    BY <1>3, <2>1, <2>2 DEF Fclose
<1>4. CASE TestHint(t)
  BY <1>4, MoveControl DEF IInv, GlobalsOK, TestHint, globals
<1>5. CASE PrintHint(t)
  <2>1. CASE Ends("crashed")
    BY <2>1, EndStep
  <2>2. CASE Advance(t) /\ UNCHANGED globals
    BY <2>2, MoveControl DEF IInv, GlobalsOK, globals
  <2>3. CASE /\ hints' = Append(hints, HintOf(call[t].ev))
             /\ Advance(t) /\ UNCHANGED <<cfv_start, hfp, op, sess>>
    <3>1. call[t].fn \in DOMAIN Path /\ call[t].ev \in Events \cup {NoEvent}
      BY DEF IInv, Control
    <3>2. pc[t] \in 1..Len(Path[call[t].fn]) /\ Path[call[t].fn][pc[t]] = "print"
      <4>1. Len(Path[call[t].fn]) \in 1..8
        BY <3>1, PathLengths
      <4> QED
        BY <4>1, <1>5 DEF PrintHint, At, PathOf, IInv, Control
    <3>3. Hinted(call[t].ev)
      BY <3>1, <3>2, PrintIsHinted DEF IInv, Control
    <3>4. hints' \in Seq(HintLines)
      BY <2>3, <3>1, <3>3, HintType DEF IInv, GlobalsOK
    <3> QED
      BY <2>3, <3>4, MoveControl DEF IInv, GlobalsOK
  <2> QED
    BY <1>5, <2>1, <2>2, <2>3 DEF PrintHint
<1> QED
  BY <1>1, <1>2, <1>3, <1>4, <1>5

\* A program that starts, for the first time or again.
LEMMA FreshControl ==
  ASSUME NEW c, NEW p, NEW t \in Thread,
         c = [u \in Thread |-> Idle], p = [u \in Thread |-> 0]
  PROVE  /\ c[t] \in [fn : DOMAIN Path, ev : Events \cup {NoEvent}]
         /\ p[t] \in Nat /\ p[t] <= Len(Path[c[t].fn])
         /\ c[t].fn # "hinted"
<1>1. c[t] = Idle /\ p[t] = 0 /\ Idle.fn = "init"
  BY DEF Idle
<1>2. Len(Path["init"]) \in 1..8 /\ "init" \in DOMAIN Path
  BY PathLengths
<1> QED
  BY <1>1, <1>2 DEF Idle

\* The program starts in the invariant ...
LEMMA InitInvariant == Init => IInv
<1> SUFFICES ASSUME Init PROVE IInv
  OBVIOUS
<1>1. Control
  BY FreshControl DEF Init, Control, PathOf
<1>2. GlobalsOK
  BY ZeroOpType, NoHints DEF Init, GlobalsOK
<1> QED
  BY <1>1, <1>2 DEF IInv

\* ... and is started in it again, with the hints of the run before.
LEMMA RestartStep == IInv /\ Restart => IInv'
<1> SUFFICES ASSUME IInv, Restart PROVE IInv'
  OBVIOUS
<1>1. Control'
  BY FreshControl DEF Restart, Control, PathOf
<1>2. GlobalsOK'
  BY ZeroOpType DEF Restart, IInv, GlobalsOK
<1> QED
  BY <1>1, <1>2 DEF IInv

\* No step of any thread leaves the invariant.
LEMMA StepInvariant == IInv /\ [Next]_trampolineVars => IInv'
<1> SUFFICES ASSUME IInv, [Next]_trampolineVars PROVE IInv'
  OBVIOUS
<1>1. ASSUME NEW t \in Thread, Local(t) PROVE IInv'
  <2>1. CASE \/ CallInit(t) \/ CallQuote(t) \/ CallSwitch(t)
             \/ \E e \in Events : CallEvent(t, e)
    <3>1. Control'
      BY <2>1, CallStep DEF IInv
    <3>2. UNCHANGED globals
      BY <2>1 DEF CallInit, CallQuote, CallSwitch, CallEvent, Enter
    <3> QED
      BY <3>1, <3>2 DEF IInv, GlobalsOK, globals
  <2> QED
    BY <1>1, <2>1, StoreSteps, SessionSteps, FileSteps DEF Local
<1>2. ASSUME NEW t \in Thread, \/ CloseTa(t)
                               \/ \E s \in Session : OpenTa(t, s)
                               \/ \E success \in BOOLEAN : Invoked(t, success)
      PROVE IInv'
  BY <1>2, SessionSteps
<1>3. CASE Terminate
  BY <1>3, EndStep DEF Terminate
<1>4. CASE Restart
  BY <1>4, RestartStep
<1>5. CASE UNCHANGED trampolineVars
  BY <1>5 DEF trampolineVars, globals, IInv, Control, GlobalsOK, PathOf
<1> QED
  BY <1>1, <1>2, <1>3, <1>4, <1>5 DEF Next

(***************************************************************************)
(* The types of the library's globals, for any number of threads: the two  *)
(* halves of a field never leave 32 bits, and only hints are printed.      *)
(***************************************************************************)
THEOREM TrampolineTypeCorrect == Spec => []TypeOK
<1>1. IInv => TypeOK
  BY DEF IInv, Control, GlobalsOK, TypeOK
<1> QED
  BY <1>1, InitInvariant, StepInvariant, PTL DEF Spec

-----------------------------------------------------------------------------
(* Events arrive as they were sent when one thread reports them.           *)

ReportsEvent(t) == call[t].fn \in {"event", "hinted"}

\* How much of its event a thread in handle_event() has put into the shared
\* operation.  It is the thread's to keep only while no other thread stores.
Filled(t) ==
  ReportsEvent(t) =>
    /\ pc[t] \in 3..6 => op.types = LibTypes["event"]
    /\ pc[t] \in 4..6 => op.etype = call[t].ev.etype
    /\ pc[t] \in 5..6 => op.a = Halves(call[t].ev.a)
    /\ pc[t] = 6 => op.b = Halves(call[t].ev.b)

\* The step a thread in handle_event() is at, by its number.
LEMMA EventPlace ==
  ASSUME IInv, NEW t \in Thread, NEW step, At(t, step), ReportsEvent(t)
  PROVE  /\ pc[t] \in 1..8
         /\ pc[t] = 1 <=> step = "clear"
         /\ pc[t] = 2 <=> step = "types"
         /\ pc[t] = 3 <=> step = "etype"
         /\ pc[t] = 4 <=> step = "a"
         /\ pc[t] = 5 <=> step = "b"
         /\ pc[t] = 6 <=> step = "invoke"
         /\ pc[t] = 7 <=> step = "hint"
         /\ pc[t] = 8 <=> step = "print"
<1>1. call[t].fn \in {"event", "hinted"} /\ call[t].fn \in DOMAIN Path
  BY PathLengths DEF ReportsEvent
<1>2. Len(Path[call[t].fn]) \in 1..8
  BY <1>1, PathLengths
<1>3. pc[t] \in 1..Len(Path[call[t].fn]) /\ Path[call[t].fn][pc[t]] = step
  BY <1>2 DEF At, PathOf, IInv, Control
<1> DEFINE fn == call[t].fn
           n  == pc[t]
<1>4. fn \in {"event", "hinted"} /\ n \in 1..Len(Path[fn]) /\ Path[fn][n] = step
  BY <1>1, <1>3
<1> HIDE DEF fn, n
<1>5. /\ n \in 1..8
      /\ n = 1 <=> step = "clear"
      /\ n = 2 <=> step = "types"
      /\ n = 3 <=> step = "etype"
      /\ n = 4 <=> step = "a"
      /\ n = 5 <=> step = "b"
      /\ n = 6 <=> step = "invoke"
      /\ n = 7 <=> step = "hint"
      /\ n = 8 <=> step = "print"
  BY <1>4, EventSteps
<1> QED
  BY <1>5 DEF n

\* Where a step of a thread leads, and that it stays in its function.
LEMMA Moves ==
  ASSUME IInv, NEW t \in Thread, Advance(t) \/ Return(t)
  PROVE  /\ call' = call
         /\ pc'[t] = pc[t] + 1 \/ pc'[t] = 0
BY DEF IInv, Control, Advance, Return

\* A thread that enters handle_event() has all of it before it, or only the
\* test of the hint.
LEMMA EntersUnfilled ==
  ASSUME IInv, NEW t \in Thread,
         \/ CallInit(t) \/ CallQuote(t) \/ CallSwitch(t)
         \/ \E e \in Events : CallEvent(t, e)
  PROVE  Filled(t)'
<1>1. PICK fn, e, at : Enter(t, fn, e, at) /\ at \in {1, 7}
  <2>1. Len(EventPath) + 1 = 7
    BY DEF EventPath
  <2> QED
    BY <2>1 DEF CallInit, CallQuote, CallSwitch, CallEvent
<1>2. pc'[t] \in {1, 7}
  BY <1>1 DEF Enter, IInv, Control
<1> QED
  BY <1>2 DEF Filled

\* The stores of handle_event() fill the operation in, one after the other.
LEMMA StoresFill ==
  ASSUME IInv, NEW t \in Thread, Filled(t),
         \/ Clear(t) \/ SetTypes(t) \/ SetEtype(t) \/ SetA(t) \/ SetB(t)
  PROVE  Filled(t)'
<1>1. Advance(t)
  BY DEF Clear, SetTypes, SetEtype, SetA, SetB, StoreOp
<1>2. /\ call' = call
      /\ pc'[t] = pc[t] + 1 \/ pc'[t] = 0
  BY <1>1, Moves
<1>3. SUFFICES ASSUME ReportsEvent(t) PROVE Filled(t)'
  BY <1>2 DEF Filled, ReportsEvent
<1>4. op \in Operations
  BY DEF IInv, GlobalsOK
<1>5. DOMAIN op = {"types", "etype", "a", "b"}
  BY <1>4 DEF Operations
<1>6. CASE Clear(t)
  <2>1. pc[t] = 1
    BY <1>3, <1>6, EventPlace DEF Clear, StoreOp
  <2> QED
    BY <1>2, <2>1 DEF Filled
<1>7. CASE SetTypes(t)
  <2>1. pc[t] = 2
    BY <1>3, <1>7, EventPlace DEF SetTypes, StoreOp
  <2>2. op'.types = LibTypes[call[t].fn]
    BY <1>5, <1>7 DEF SetTypes, StoreOp
  <2>3. LibTypes[call[t].fn] = LibTypes["event"]
    BY <1>3 DEF ReportsEvent, LibTypes
  <2> QED
    BY <1>2, <2>1, <2>2, <2>3 DEF Filled
<1>8. CASE SetEtype(t)
  <2>1. pc[t] = 3
    BY <1>3, <1>8, EventPlace DEF SetEtype, StoreOp
  <2>2. op'.etype = call[t].ev.etype /\ op'.types = op.types
    BY <1>4, <1>8 DEF SetEtype, StoreOp, Operations
  <2> QED
    BY <1>2, <1>3, <2>1, <2>2 DEF Filled
<1>9. CASE SetA(t)
  <2>1. pc[t] = 4
    BY <1>3, <1>9, EventPlace DEF SetA, StoreOp
  <2>2. op'.a = Halves(call[t].ev.a) /\ op'.types = op.types /\ op'.etype = op.etype
    BY <1>4, <1>9 DEF SetA, StoreOp, Operations
  <2> QED
    BY <1>2, <1>3, <2>1, <2>2 DEF Filled
<1>10. CASE SetB(t)
  <2>1. pc[t] = 5
    BY <1>3, <1>10, EventPlace DEF SetB, StoreOp
  <2>2. /\ op'.b = Halves(call[t].ev.b)
        /\ op'.types = op.types /\ op'.etype = op.etype /\ op'.a = op.a
    BY <1>4, <1>10 DEF SetB, StoreOp, Operations
  <2> QED
    BY <1>2, <1>3, <2>1, <2>2 DEF Filled
<1> QED
  BY <1>6, <1>7, <1>8, <1>9, <1>10

\* Every other step of the thread is one of another function, or comes when the
\* operation was sent.
LEMMA OthersLeaveFilled ==
  ASSUME IInv, NEW t \in Thread, Filled(t), NEW step,
         step \notin {"clear", "types", "etype", "a", "b"},
         At(t, step), Advance(t) \/ Return(t)
  PROVE  Filled(t)'
<1>1. /\ call' = call
      /\ pc'[t] = pc[t] + 1 \/ pc'[t] = 0
  BY Moves
<1>2. SUFFICES ASSUME ReportsEvent(t) PROVE Filled(t)'
  BY <1>1 DEF Filled, ReportsEvent
<1>3. pc[t] \in 6..8
  BY <1>2, EventPlace
<1> QED
  BY <1>1, <1>3 DEF Filled

\* No step of a program with one thread disturbs what was filled in.
LEMMA StepKeepsFilled ==
  ASSUME Thread = {Main}, IInv, Filled(Main), [Next]_trampolineVars
  PROVE  Filled(Main)'
<1> DEFINE t == Main
<1>1. t \in Thread
  OBVIOUS
<1>2. ASSUME NEW how, Ends(how) PROVE Filled(t)'
  BY <1>2 DEF Ends, Filled, ReportsEvent, globals
<1>3. CASE \/ CallInit(t) \/ CallQuote(t) \/ CallSwitch(t)
           \/ \E e \in Events : CallEvent(t, e)
  BY <1>3, EntersUnfilled
<1>4. CASE \/ Clear(t) \/ SetTypes(t) \/ SetEtype(t) \/ SetA(t) \/ SetB(t)
  BY <1>4, StoresFill
<1>5. ASSUME NEW s \in Session, OpenTa(t, s) PROVE Filled(t)'
  BY <1>5, OthersLeaveFilled DEF OpenTa
<1>6. ASSUME NEW success \in BOOLEAN, Invoked(t, success) PROVE Filled(t)'
  BY <1>2, <1>6, OthersLeaveFilled DEF Invoked
<1>7. CASE OpenRefused(t) \/ CloseTa(t)
  BY <1>2, <1>7, OthersLeaveFilled DEF OpenRefused, CloseTa
<1>8. CASE Fopen(t) \/ Start(t) \/ Stop(t)
  BY <1>8, OthersLeaveFilled DEF Fopen, Start, Stop, SetStart
<1>9. CASE Fclose(t) \/ TestHint(t) \/ PrintHint(t)
  BY <1>2, <1>9, OthersLeaveFilled DEF Fclose, TestHint, PrintHint
<1>10. CASE Terminate
  BY <1>2, <1>10 DEF Terminate
<1>11. CASE Restart
  <2>1. pc'[t] = 0
    BY <1>11 DEF Restart
  <2> QED
    BY <2>1 DEF Filled
<1>12. CASE UNCHANGED trampolineVars
  BY <1>12 DEF trampolineVars, globals, Filled, ReportsEvent
<1> QED
  BY <1>3, <1>4, <1>5, <1>6, <1>7, <1>8, <1>9, <1>10, <1>11, <1>12 DEF Next, Local

(***************************************************************************)
(* A program with one thread sends what it reports: the type and both      *)
(* 64-bit fields of every event reach the engine as they were passed to    *)
(* handle_event(), however the calls follow each other and wherever the    *)
(* program ended before (cfv_bellman.c:172-204).  With a second thread     *)
(* this is false: TLC has the counterexample.                              *)
(***************************************************************************)
THEOREM OneThreadSendsEvents ==
  ASSUME Thread = {Main}
  PROVE  Spec => []EventsAsSent
<1>1. Init => Filled(Main)
  BY TrampolineAssumption DEF Init, Filled
<1>2. IInv /\ Filled(Main) => EventsAsSent
  <2> SUFFICES ASSUME IInv, Filled(Main), At(Main, "invoke"), ReportsEvent(Main)
               PROVE  Decode(op) = call[Main].ev /\ op.types = LibTypes["event"]
    BY DEF EventsAsSent, ReportsEvent
  <2>1. pc[Main] = 6
    BY EventPlace
  <2>2. /\ op.types = LibTypes["event"] /\ op.etype = call[Main].ev.etype
        /\ op.a = Halves(call[Main].ev.a) /\ op.b = Halves(call[Main].ev.b)
    BY <2>1 DEF Filled
  <2>3. call[Main].ev \in Events \cup {NoEvent}
    BY DEF IInv, Control
  <2>4. call[Main].ev \in [etype : Kinds, a : Fields, b : Fields]
    BY <2>3, TrampolineAssumption, ZeroIsAField DEF NoEvent, Kinds
  <2>5. Decode(op) = [etype |-> call[Main].ev.etype,
                      a |-> call[Main].ev.a, b |-> call[Main].ev.b]
    BY <2>2, <2>4, HalvesJoin DEF Decode
  <2> QED
    BY <2>2, <2>4, <2>5
<1>3. IInv /\ Filled(Main) /\ [Next]_trampolineVars => Filled(Main)'
  BY StepKeepsFilled
<1> QED
  BY <1>1, <1>2, <1>3, InitInvariant, StepInvariant, PTL DEF Spec

=============================================================================
