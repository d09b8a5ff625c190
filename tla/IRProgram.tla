----------------------------- MODULE IRProgram -----------------------------
(***************************************************************************)
(* Modules in LLVM's intermediate representation, as far as the compiler   *)
(* pass Nova looks at them: which instruction moves which value where.     *)
(*                                                                         *)
(* A function is the sequence of its instructions in the order in which    *)
(* Traversal() visits them: strongly connected components of basic blocks  *)
(* in topological order.  An if or a do-while in source order has it.      *)
(***************************************************************************)
EXTENDS Naturals, Sequences

CONSTANTS Value,      \* the names of variables, parameters and instructions
          Function,   \* the names of functions
          Null        \* no value, a constant, a function that is not known

ASSUME NullAssumption == Null \notin Value /\ Null \notin Function

\* How many pointers lead from a variable to a scalar or a struct.
Type == [depth : Nat, struct : BOOLEAN]

Scalar  == [depth |-> 0, struct |-> FALSE]
Pointer(type) == [type EXCEPT !.depth = @ + 1]
Record == [depth |-> 0, struct |-> TRUE]

Ops == {"alloca", "load", "store", "gep", "binop", "bitcast",
        "call", "icall", "annotate", "br", "ret"}

(***************************************************************************)
(* Not every field means something to every op: ptr is the first operand   *)
(* and val the second; args, callee are those of a call, the target of an  *)
(* icall is known to the machine only; a gep that indexes a struct has the *)
(* offset of the field; to are the targets of a branch; float tells that   *)
(* the value moved is neither an integer nor a pointer.                    *)
(***************************************************************************)
Insn == [id : Value, op : Ops, ptr : Value \cup {Null}, val : Value \cup {Null},
         args : Seq(Value \cup {Null}), callee : Function \cup {Null},
         type : Type, struct : BOOLEAN, off : Nat, float : BOOLEAN, to : SUBSET Nat]

(***************************************************************************)
(* globals have types, some of them are annotated; gops are the constant   *)
(* expressions that address a field of a global struct or the elements of  *)
(* a global array.                                                         *)
(***************************************************************************)
GepExpr == [ptr : Value, off : Nat, struct : BOOLEAN]

IsProgram(p) ==
  /\ p.globals \in [DOMAIN p.globals -> Type] /\ DOMAIN p.globals \subseteq Value
  /\ p.annotated \subseteq DOMAIN p.globals
  /\ p.gops \in [DOMAIN p.gops -> GepExpr] /\ DOMAIN p.gops \subseteq Value
  /\ p.code \in [DOMAIN p.code -> Seq(Insn)]
  /\ \A f \in DOMAIN p.code : \A k \in DOMAIN p.code[f] :
       p.code[f][k].op = "annotate" => p.code[f][k].ptr \in Value
  /\ DOMAIN p.code \subseteq Function /\ "main" \in DOMAIN p.code
  /\ p.params \in [DOMAIN p.code -> Seq(Value)]

Nop == [id |-> Null, op |-> "br", ptr |-> Null, val |-> Null, args |-> <<>>,
        callee |-> Null, type |-> Scalar, struct |-> FALSE, off |-> 0,
        float |-> FALSE, to |-> {}]

Alloca(v, type)      == [Nop EXCEPT !.id = v, !.op = "alloca", !.type = type]
Load(v, ptr)         == [Nop EXCEPT !.id = v, !.op = "load", !.ptr = ptr]
Store(v, val, ptr)   == [Nop EXCEPT !.id = v, !.op = "store", !.val = val, !.ptr = ptr]
Gep(v, ptr)          == [Nop EXCEPT !.id = v, !.op = "gep", !.ptr = ptr]
Field(v, ptr, off)   == [Gep(v, ptr) EXCEPT !.struct = TRUE, !.off = off]
BinOp(v, a, b)       == [Nop EXCEPT !.id = v, !.op = "binop", !.ptr = a, !.val = b]
BitCast(v, ptr)      == [Nop EXCEPT !.id = v, !.op = "bitcast", !.ptr = ptr]
Call(v, fn, args)    == [Nop EXCEPT !.id = v, !.op = "call", !.callee = fn, !.args = args]
ICall(v, fn, args)   == [Call(v, fn, args) EXCEPT !.op = "icall"]
Annotate(v, ptr)     == [Nop EXCEPT !.id = v, !.op = "annotate", !.ptr = ptr]
Br(v, to)            == [Nop EXCEPT !.id = v, !.to = to]
Ret(v, ptr)          == [Nop EXCEPT !.id = v, !.op = "ret", !.ptr = ptr]
Float(i)             == [i EXCEPT !.float = TRUE]

\* All instructions of a program.
Insns(p) == UNION {{p.code[f][k] : k \in DOMAIN p.code[f]} : f \in DOMAIN p.code}

\* Functions the module defines, not only declares.
Defined(p, fn) == fn \in DOMAIN p.code

=============================================================================
