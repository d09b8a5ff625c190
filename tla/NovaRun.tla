------------------------------ MODULE NovaRun ------------------------------
(***************************************************************************)
(* A program that Nova has instrumented, executed: at every recorded store *)
(* the measurement engine's map learns the value an address has, at every  *)
(* checked load it compares.  Nobody tampers with the memory: an alarm is  *)
(* a false one.  The engine's map is the one hashmap_update() is meant to  *)
(* maintain.                                                               *)
(*                                                                         *)
(* An address is an element of a variable in the activation at a depth of  *)
(* the call stack.  An execution ends where it becomes undefined: it reads *)
(* what has no value, or uses a number as an address.                      *)
(***************************************************************************)
EXTENDS NovaPass

CONSTANT MaxFrames  \* bound on the call stack of the program

ASSUME MaxFramesAssumption == MaxFrames \in Nat \ {0}

VARIABLES frames,   \* activations; <<>> before and after the execution
          mem,      \* the memory: address -> value
          def,      \* the engine's map: address -> value
          writer,   \* history: the store that wrote an address last
          lost,     \* history: has a value gone where the analysis does not follow?
          alarms    \* history: the checks that failed

runVars == <<frames, mem, def, writer, lost, alarms>>
vars    == <<passVars, runVars>>

Addr(v, depth, off) == [val |-> v, depth |-> depth, off |-> off]
Number(v)           == [number |-> v]
IsAddr(x)           == "val" \in DOMAIN x

Top  == frames[Len(frames)]
Code == program.code[Top.fn]
Cur  == Code[Top.pc]

\* The value of an operand; a constant is the number of its instruction.
Eval(v) ==
  CASE v \in DOMAIN program.globals -> Addr(v, 0, 0)
    [] v \in DOMAIN program.gops    -> Addr(program.gops[v].ptr, 0, program.gops[v].off)
    [] v \in DOMAIN Top.env         -> Top.env[v]
    [] OTHER                        -> Number(Cur.id)

Activation(fn, env) == [fn |-> fn, pc |-> 1, env |-> env]

RunInit ==
  /\ frames = <<>>
  /\ mem = <<>> /\ def = <<>> /\ writer = <<>>
  /\ lost = FALSE
  /\ alarms = {}

Executes(ops) ==
  /\ frames # <<>>
  /\ Top.pc \in DOMAIN Code /\ Cur.op \in ops

\* On to the next instruction, with a value for this one or without.
Falls   == frames' = [frames EXCEPT ![Len(frames)].pc = @ + 1]
Gets(x) == frames' = [frames EXCEPT ![Len(frames)] =
                        [@ EXCEPT !.pc = @ + 1, !.env = Put(@, Cur.id, x)]]

\* The program starts, or is started again.  Nothing records the values that
\* globals are initialised with.
GlobalAddrs == {Addr(v, 0, k) : v \in DOMAIN program.globals, k \in 0..1}

Start ==
  /\ phase = "done" /\ frames = <<>>
  /\ frames' = << Activation("main", <<>>) >>
  /\ mem' = [a \in GlobalAddrs |-> Number("initial")]
  /\ writer' = [a \in GlobalAddrs |-> "initial"]
  /\ def' = <<>>
  /\ lost' = FALSE
  /\ alarms' = {}

ExecAlloca ==
  /\ Executes({"alloca"})
  /\ Gets(Addr(Cur.id, Len(frames), 0))
  /\ UNCHANGED <<mem, def, writer, lost, alarms>>

\* UpdatePtoLoad() and UpdatePtoStore() give up on a field behind the first.
BehindFirst(v) == \E t \in OperandTuples(v) : t.off # 0

\* data_event(): a value that was not recorded raises an alarm and is recorded.
Agrees(a)   == a \in DOMAIN def /\ def[a] = mem[a]
Alarm(a)    == [addr |-> a, writer |-> writer[a], lost |-> lost]

ExecLoad ==
  /\ Executes({"load"})
  /\ Eval(Cur.ptr) \in DOMAIN mem
  /\ LET a == Eval(Cur.ptr) IN
     /\ Gets(mem[a])
     /\ IF Cur.id \in checked /\ ~Agrees(a)
        THEN alarms' = alarms \cup {Alarm(a)} /\ def' = Put(def, a, mem[a])
        ELSE UNCHANGED <<alarms, def>>
     /\ lost' = (lost \/ (IsAddr(mem[a]) /\ BehindFirst(Cur.ptr)))
  /\ UNCHANGED <<mem, writer>>

ExecStore ==
  /\ Executes({"store"})
  /\ IsAddr(Eval(Cur.ptr))
  /\ LET a == Eval(Cur.ptr)
         x == Eval(Cur.val)
     IN  /\ mem' = Put(mem, a, x)
         /\ writer' = Put(writer, a, Cur.id)
         /\ def' = IF Cur.id \in recorded THEN Put(def, a, x) ELSE def
         /\ lost' = (lost \/ (IsAddr(x) /\ (BehindFirst(Cur.ptr) \/ Cur.val \in DOMAIN program.gops)))
  /\ Falls
  /\ UNCHANGED alarms

\* Any element of an array, the given field of a struct.
ExecGep ==
  /\ Executes({"gep"})
  /\ IsAddr(Eval(Cur.ptr))
  /\ \E k \in IF Cur.struct THEN {Cur.off} ELSE 0..1 : Gets([Eval(Cur.ptr) EXCEPT !.off = k])
  /\ UNCHANGED <<mem, def, writer, lost, alarms>>

ExecValue ==
  /\ Executes({"binop", "bitcast"})
  /\ Gets(IF Cur.op = "bitcast" THEN Eval(Cur.ptr) ELSE Number(Cur.id))
  /\ UNCHANGED <<mem, def, writer, lost, alarms>>

ExecAnnotate == Executes({"annotate"}) /\ Falls /\ UNCHANGED <<mem, def, writer, lost, alarms>>

\* Backwards is against the order of the analysis.
ExecBranch ==
  /\ Executes({"br"})
  /\ \E to \in Cur.to :
       /\ frames' = [frames EXCEPT ![Len(frames)].pc = to]
       /\ lost' = (lost \/ to <= Top.pc)
  /\ UNCHANGED <<mem, def, writer, alarms>>

Sites(fn) == {i \in Insns(program) : i.op = "call" /\ i.callee = fn /\ i.id \in vMap}

\* A call the analysis does not follow: it is not the only one it has visited of
\* the function (an indirect one is none), or a parameter was not given the
\* pointer that is passed.
Astray(i) ==
  \/ Sites(i.callee) # {i}
  \/ \E k \in DOMAIN i.args : i.args[k] # Null /\ IsAddr(Eval(i.args[k])) /\ i.args[k] \notin tMap

ExecCall ==
  /\ Executes({"call", "icall"})
  /\ Defined(program, Cur.callee)
  /\ Len(frames) < MaxFrames
  /\ LET params == program.params[Cur.callee]
         env == [v \in {params[k] : k \in DOMAIN params} |->
                   Eval(Cur.args[CHOOSE k \in DOMAIN params : params[k] = v])]
     IN  frames' = Append(frames, Activation(Cur.callee, env))
  /\ lost' = (lost \/ Astray(Cur))
  /\ UNCHANGED <<mem, def, writer, alarms>>

\* A function of a library may write where its arguments point to.
ExecExternal ==
  /\ Executes({"call"})
  /\ ~Defined(program, Cur.callee)
  /\ \E targets \in SUBSET {a \in {Eval(Cur.args[k]) : k \in DOMAIN Cur.args} : IsAddr(a)} :
       /\ mem' = [a \in DOMAIN mem \cup targets |-> IF a \in targets THEN Number(Cur.id) ELSE mem[a]]
       /\ writer' = [a \in DOMAIN writer \cup targets |->
                       IF a \in targets THEN "external" ELSE writer[a]]
  /\ Gets(Number(Cur.id))
  /\ UNCHANGED <<def, lost, alarms>>

\* The result of a function that calls another goes to that other call.
Misattributed == \E i \in Insns(program) :
                   /\ i.op = "call" /\ Defined(program, i.callee)
                   /\ \E k \in DOMAIN Code : Code[k] = i

ExecRet ==
  /\ Executes({"ret"})
  /\ LET rest == SubSeq(frames, 1, Len(frames) - 1)
         x == Eval(Cur.ptr)
     IN  /\ frames' = IF rest = <<>> THEN <<>>
                      ELSE LET caller == rest[Len(rest)]
                               site == program.code[caller.fn][caller.pc].id
                           IN  [rest EXCEPT ![Len(rest)] =
                                  [@ EXCEPT !.pc = @ + 1, !.env = Put(@, site, x)]]
         /\ lost' = (lost \/ (IsAddr(x) /\ Misattributed))
  /\ UNCHANGED <<mem, def, writer, alarms>>

Execute == \/ Start \/ ExecAlloca \/ ExecLoad \/ ExecStore \/ ExecGep \/ ExecValue
           \/ ExecAnnotate \/ ExecBranch \/ ExecCall \/ ExecExternal \/ ExecRet

NovaInit == PassInit /\ RunInit
NovaNext == \/ PassNext /\ UNCHANGED runVars
            \/ Execute /\ UNCHANGED passVars

\* The compiler finishes; the program may stop anywhere.
NovaSpec == NovaInit /\ [][NovaNext]_vars /\ WF_vars(PassNext /\ UNCHANGED runVars)

-----------------------------------------------------------------------------
(* Properties.                                                             *)

(***************************************************************************)
(* As long as an execution keeps to what the analysis follows, it never    *)
(* holds a pointer to a variable that the analysis does not know it may    *)
(* point to.                                                               *)
(***************************************************************************)
PointsToSound ==
  ~lost =>
    \A n \in DOMAIN frames : \A v \in DOMAIN frames[n].env :
      IsAddr(frames[n].env[v]) =>
        \E t \in TupleSet(v) : t.ao.val = frames[n].env[v].val /\ t.ao.lvl = 0

(***************************************************************************)
(* In such an execution the check of a variable in the scope of the        *)
(* annotations fails only over a value that no store of the program put    *)
(* there: its initial value, or one that a library function wrote.         *)
(***************************************************************************)
ScopeRaisesNoAlarm ==
  \A a \in alarms :
    ~a.lost /\ a.addr.val \in scope => a.writer \in {"initial", "external"}

(***************************************************************************)
(* And every read of such a variable is checked, by its name or through    *)
(* pointers, unless its type is one the pass does not instrument or it     *)
(* goes by a constant address that the analysis has met in no store.       *)
(***************************************************************************)
ScopeReadsAreChecked ==
  /\ Executes({"load"}) /\ ~lost
  /\ IsAddr(Eval(Cur.ptr)) /\ Eval(Cur.ptr).val \in scope
  => Cur.id \in checked \/ Cur.float
       \/ (Cur.ptr \in DOMAIN program.gops /\ ~Found(Cur.ptr))

=============================================================================
