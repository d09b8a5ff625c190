------------------------- MODULE InstrumentedProgram -------------------------
(***************************************************************************)
(* A compiled and instrumented program while it runs: its control flow,    *)
(* and the hints file that the trampoline library writes on the way.       *)
(*                                                                         *)
(* The code is a sequence of instructions; an address is a position in it. *)
(* Data is left out but for the outcome of the last comparison, which may  *)
(* be anything.  Calls into shared libraries return to the next address.   *)
(***************************************************************************)
EXTENDS Naturals, Sequences

CONSTANTS Programs,   \* the programs considered, each a sequence of Insn
          MaxHints    \* bound on the conditions of one measured operation

CondCodes == {"eq", "ne", "lt", "gt", "hi", "cc"}
Hooks     == {"cond", "icall", "ijmp", "ret"}
CbOps     == {"cbz", "cbnz", "tbz", "tbnz"}
Ops       == {"bl", "blr", "b", "br", "ret", "cset", "b.", "plt", "hook",
              "init", "quote"} \cup CbOps

(***************************************************************************)
(* Not every field means something to every op: arg is the condition of a  *)
(* cset or b., or the function a hook calls; to is the target; onTrue says *)
(* whether a conditional branch is taken when the source's condition holds *)
(* (or when it does not), which its op and arg alone do not tell.          *)
(***************************************************************************)
Insn == [op : Ops, arg : CondCodes \cup Hooks \cup {"-"}, to : Nat, onTrue : BOOLEAN]

Op(op)           == [op |-> op, arg |-> "-", to |-> 0, onTrue |-> TRUE]
OpTo(op, to)     == [Op(op) EXCEPT !.to = to]
Hook(name)       == [Op("hook") EXCEPT !.arg = name]

\* A conditional branch as instrumentCondBranch() and the backend leave it:
\* the condition is materialised, handed to __collect_cond_branch_hints(), and
\* then branched on.  A form tells how the backend compiled it.
CondSite(form, to) ==
  << [Op("cset") EXCEPT !.arg = form.cset],
     Hook("cond"),
     [op |-> form.op, arg |-> form.arg, to |-> to, onTrue |-> form.onTrue] >>

\* handleControlTransfer(): a call of __cfv_icall, __cfv_ijmp or __cfv_ret in
\* front of an indirect call, an indirect jump or a return.
HookOf == [blr |-> "icall", br |-> "ijmp", ret |-> "ret"]
IndirectSite(op, to) == << Hook(HookOf[op]), OpTo(op, to) >>

\* An instruction that is not the last of a block has a next one.
ASSUME ProgramsAssumption ==
  /\ MaxHints \in Nat
  /\ \A p \in Programs :
       /\ p \in Seq(Insn) /\ p # <<>>
       /\ \A a \in DOMAIN p :
            /\ p[a].op \in CbOps \cup {"bl", "blr", "b", "br", "b."} => p[a].to \in DOMAIN p
            /\ p[a].op \notin {"b", "br", "ret"} => a + 1 \in DOMAIN p
            /\ p[a].op = "hook" => p[a].arg \in Hooks

VARIABLES code,       \* the program; fixed
          run,        \* "running", "ended" or "killed"
          pc,         \* the next instruction
          frames,     \* return addresses
          cond,       \* does the condition last computed hold?
          measuring,  \* cfv_start
          hints,      \* what the hints file holds
          path        \* history: the edges the measured operation took

programVars == <<code, run, pc, frames, cond, measuring, hints, path>>

Init ==
  /\ code \in Programs
  /\ run = "running"
  /\ pc = 1
  /\ frames = <<>>
  /\ cond = FALSE
  /\ measuring = FALSE
  /\ hints = <<>>
  /\ path = <<>>

-----------------------------------------------------------------------------

Executes(ops) == run = "running" /\ code[pc].op \in ops
Next1 == pc + 1

\* Control goes to an address; the edge belongs to the operation it is in.
Goes(to) ==
  /\ pc' = to
  /\ path' = IF measuring THEN Append(path, <<pc, to>>) ELSE path
  /\ UNCHANGED <<code, run, cond, measuring, hints>>

\* An instruction that is followed by the next one.
Falls == pc' = Next1 /\ UNCHANGED <<code, run, frames>>

Library == Executes({"plt"}) /\ Falls /\ UNCHANGED <<cond, measuring, hints, path>>

\* cfv_init() truncates the hints file and sets cfv_start.
CfvInit ==
  /\ Executes({"init"})
  /\ Falls
  /\ measuring' = TRUE
  /\ hints' = <<>>
  /\ path' = <<>>
  /\ UNCHANGED cond

CfvQuote ==
  /\ Executes({"quote"})
  /\ Falls
  /\ measuring' = FALSE
  /\ UNCHANGED <<cond, hints, path>>

Compare ==
  /\ Executes({"cset"})
  /\ Falls
  /\ cond' \in BOOLEAN
  /\ UNCHANGED <<measuring, hints, path>>

\* What the library prints for a hook: cfv_ret() prints nothing.
Printed(hook) ==
  CASE hook = "cond" -> IF cond THEN <<"y">> ELSE <<"n">>
    [] hook = "ret"  -> <<>>
    [] OTHER         -> <<hook>>

CallHook ==
  /\ Executes({"hook"})
  /\ measuring => Len(hints) < MaxHints
  /\ Falls
  /\ hints' = IF measuring THEN hints \o Printed(code[pc].arg) ELSE hints
  /\ UNCHANGED <<cond, measuring, path>>

Branch ==
  /\ Executes(CbOps \cup {"b."})
  /\ Goes(IF cond = code[pc].onTrue THEN code[pc].to ELSE Next1)
  /\ UNCHANGED frames

Jump == Executes({"b", "br"}) /\ Goes(code[pc].to) /\ UNCHANGED frames

Call ==
  /\ Executes({"bl", "blr"})
  /\ Goes(code[pc].to)
  /\ frames' = Append(frames, Next1)

Return ==
  /\ Executes({"ret"})
  /\ frames # <<>>
  /\ Goes(frames[Len(frames)])
  /\ frames' = SubSeq(frames, 1, Len(frames) - 1)

\* A process that is gone has no registers and no memory.
Gone(how) ==
  /\ run' = how
  /\ pc' = 1
  /\ frames' = <<>>
  /\ cond' = FALSE
  /\ measuring' = FALSE
  /\ UNCHANGED <<code, path>>

\* main() returns.
End ==
  /\ Executes({"ret"})
  /\ frames = <<>>
  /\ Gone("ended")
  /\ UNCHANGED hints

\* The process dies; how much of the hints reached the file depends on stdio.
Kill ==
  /\ run = "running"
  /\ Gone("killed")
  /\ \E n \in 0..Len(hints) : hints' = SubSeq(hints, 1, n)

Run == \/ Library \/ CfvInit \/ CfvQuote \/ Compare \/ CallHook
       \/ Branch \/ Jump \/ Call \/ Return \/ End \/ Kill

=============================================================================
