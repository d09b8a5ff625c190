---------------------------- MODULE VerifyEngine ----------------------------
(***************************************************************************)
(* The verify engine (verify_engine): it replays a program's binary, from  *)
(* cfv_init() to cfv_quote(), along the conditions in the hints file, and  *)
(* writes the edges it follows.                                            *)
(*                                                                         *)
(* The engine runs once the program has ended, or died.  One step handles  *)
(* one instruction, in the order of the tests in hookit().                 *)
(***************************************************************************)
EXTENDS InstrumentedProgram
LOCAL INSTANCE SequencesExt
LOCAL INSTANCE FiniteSetsExt

CONSTANT MaxEdges  \* bound on the edges of a replay: one that is longer stops
                   \* where it is, and ReplayEnds says so

ASSUME MaxEdgesAssumption == MaxEdges \in Nat

VARIABLES phase,          \* "waiting", "replaying", "done" or "crashed"
          trace,          \* self.__trace: the symbols of the first line
          idx,            \* self.__idx, from 1: the next symbol
          address,        \* i.address
          prev_address,
          replay_start, replay_stop,
          stack,          \* return addresses
          last_flag,      \* "eq", "e" or "lg": which flag decides a b.cond
          last_ne_flag, last_lt_flag,
          ofd             \* the edges written so far

flags == <<last_flag, last_ne_flag, last_lt_flag>>
engineVars == <<phase, trace, idx, address, prev_address, replay_start,
                replay_stop, stack, flags, ofd>>
vars == <<programVars, engineVars>>

EngineInit ==
  /\ phase = "waiting"
  /\ trace = <<>>
  /\ idx = 1
  /\ address = 1
  /\ prev_address = 0
  /\ replay_start = FALSE
  /\ replay_stop = FALSE
  /\ stack = <<>>
  /\ last_flag = "eq"
  /\ last_ne_flag = FALSE
  /\ last_lt_flag = FALSE
  /\ ofd = <<>>

-----------------------------------------------------------------------------
(* The trace.                                                              *)

\* Mutant: the last symbol is stripped with the end of the line.
FirstLineShort(h) == SubSeq(h, 1, Len(h) - 1)

\* The first line of the hints file: conditions are printed without a newline,
\* an indirect transfer with one, after a text that begins with no 'y' or 'n'.
FirstLine(h) ==
  LET texts == {i \in DOMAIN h : h[i] \notin {"y", "n"}}
  IN  IF texts = {} THEN h ELSE SubSeq(h, 1, Min(texts))

\* get_trace() asserts that there is a line.
ReadTrace ==
  /\ phase = "waiting"
  /\ run # "running"
  /\ trace' = FirstLine(hints)
  /\ phase' = IF hints = <<>> THEN "crashed" ELSE "replaying"
  /\ UNCHANGED <<idx, address, prev_address, replay_start, replay_stop, stack,
                 flags, ofd>>

\* next_branch() prints the symbol at idx before it tests idx: past the end
\* of the trace it raises an IndexError.
Exhausted == idx > Len(trace)

\* Mutant: the print before the test consumes a symbol as well.
AdvanceTwice == idx + 2

\* Mutant: a symbol is not consumed when it says 'n'.
AdvanceOnYes == IF trace[idx] = "y" THEN idx + 1 ELSE idx

\* Another symbol than 'y' and 'n' is an error, and stays where it is.
AdvanceIdx == IF trace[idx] \in {"y", "n"} THEN idx + 1 ELSE idx

-----------------------------------------------------------------------------
(* Deciding a conditional branch.                                          *)

\* handle_branch(): does 'y' mean that the branch is NOT taken?
FlipCond(cc, flag) ==
  CASE cc = "eq" -> flag
    [] cc = "ne" -> ~flag
    [] cc = "lt" -> ~flag
    [] cc = "gt" -> flag
    [] OTHER     -> TRUE

\* Mutant: cbnz is decided like cbz.
FlipLikeCbz(i) ==
  IF i.op = "b." THEN FlipCond(i.arg, IF last_flag = "e" THEN last_ne_flag
                                                         ELSE last_lt_flag)
                 ELSE last_ne_flag

\* handle_cbz(), handle_tbz(), handle_cbnz() and handle_tbnz() ask for
\* last_ne_flag, handle_branch() is given one of the two flags.  The flags f are
\* the three variables, in order.
FlipsBy(i, f) ==
  CASE i.op = "b." -> FlipCond(i.arg, IF f[1] = "e" THEN f[2] ELSE f[3])
    [] i.op \in {"cbz", "tbz"}   -> f[2]
    [] i.op \in {"cbnz", "tbnz"} -> ~f[2]

Flips(i) == FlipsBy(i, flags)

Taken(i) == trace[idx] = IF Flips(i) THEN "n" ELSE "y"

-----------------------------------------------------------------------------
(* hookit().                                                               *)

At(ops) == phase = "replaying" /\ address \in DOMAIN code /\ code[address].op \in ops
Fresh == address # prev_address
Replays(ops) == At(ops) /\ Fresh /\ replay_start

\* stack.pop() of an empty stack, or a symbol behind the last one.
RunsOut(i) == IF i.op = "ret" THEN stack = <<>> ELSE Exhausted

Handled == prev_address' = address
Writes(to) == Len(ofd) < MaxEdges /\ ofd' = Append(ofd, <<address, to>>)

\* On to the next instruction of the block.
Continue == address' = address + 1 /\ Handled /\ UNCHANGED phase

\* handle_cond_branch() takes the second operand for the target.  That of a tbz
\* or tbnz is the number of a bit: as an address, one below the binary.
BelowBinary == 0
TargetOf(i) == IF i.op \in {"tbz", "tbnz"} THEN BelowBinary ELSE i.to

\* A new block begins at the target, unless a cfv_quote() was met before, or
\* there is nothing to disassemble.
Follow(to) ==
  /\ address' = to
  /\ Handled
  /\ Writes(to)
  /\ phase' = IF replay_stop \/ to = BelowBinary THEN "done" ELSE phase

\* Library calls, hooks among them, are skipped; indirect calls and jumps are
\* only reported; outside the operation nothing but its bounds is looked at.
\* An instruction disassembled twice in a row counts once.
Skipped ==
  IF Fresh THEN {"plt", "hook", "blr", "br"}
                  \cup (IF replay_start THEN {} ELSE Ops \ {"init", "quote"})
           ELSE Ops

Skip ==
  /\ At(Skipped)
  /\ Continue
  /\ UNCHANGED <<trace, idx, replay_start, replay_stop, stack, flags, ofd>>

AttestationStart ==
  /\ At({"init"}) /\ Fresh
  /\ replay_start' = TRUE
  /\ Continue
  /\ UNCHANGED <<trace, idx, replay_stop, stack, flags, ofd>>

AttestationEnd ==
  /\ At({"quote"}) /\ Fresh
  /\ replay_stop' = TRUE
  /\ replay_start' = FALSE
  /\ Continue
  /\ UNCHANGED <<trace, idx, stack, flags, ofd>>

PushReturn == Append(stack, address + 1)

HandleCall ==
  /\ Replays({"bl"})
  /\ stack' = PushReturn
  /\ Follow(code[address].to)
  /\ UNCHANGED <<trace, idx, replay_start, replay_stop, flags>>

\* Only ne, gt and lt say which flag counts from now on.
AfterCset(cc, f) ==
  << CASE cc = "ne" -> "e"
       [] cc \in {"gt", "lt"} -> "lg"
       [] OTHER -> f[1],
     cc = "ne" \/ (cc # "eq" /\ f[2]),
     cc = "lt" \/ (cc # "gt" /\ f[3]) >>

HandleCset ==
  /\ Replays({"cset"})
  /\ LET f == AfterCset(code[address].arg, flags) IN
     last_flag' = f[1] /\ last_ne_flag' = f[2] /\ last_lt_flag' = f[3]
  /\ Continue
  /\ UNCHANGED <<trace, idx, replay_start, replay_stop, stack, ofd>>

HandleBranch ==
  /\ Replays({"b"})
  /\ Follow(code[address].to)
  /\ UNCHANGED <<trace, idx, replay_start, replay_stop, stack, flags>>

HandleCondBranch ==
  /\ Replays(CbOps \cup {"b."})
  /\ ~RunsOut(code[address])
  /\ idx' = AdvanceIdx
  /\ IF Taken(code[address])
     THEN Follow(TargetOf(code[address]))
     ELSE Writes(address + 1) /\ Continue
  /\ UNCHANGED <<trace, replay_start, replay_stop, stack, flags>>

HandleRet ==
  /\ Replays({"ret"})
  /\ ~RunsOut(code[address])
  /\ stack' = SubSeq(stack, 1, Len(stack) - 1)
  /\ Follow(stack[Len(stack)])
  /\ UNCHANGED <<trace, idx, replay_start, replay_stop, flags>>

\* An IndexError.
Crash ==
  /\ Replays(CbOps \cup {"b.", "ret"})
  /\ RunsOut(code[address])
  /\ phase' = "crashed"
  /\ UNCHANGED <<trace, idx, address, prev_address, replay_start, replay_stop,
                 stack, flags, ofd>>

\* text_end is reached.
TextEnd ==
  /\ phase = "replaying"
  /\ address \notin DOMAIN code
  /\ phase' = "done"
  /\ UNCHANGED <<trace, idx, address, prev_address, replay_start, replay_stop,
                 stack, flags, ofd>>

Replay == \/ ReadTrace \/ Skip \/ AttestationStart \/ AttestationEnd
          \/ HandleCall \/ HandleCset \/ HandleBranch \/ HandleCondBranch
          \/ HandleRet \/ Crash \/ TextEnd

VerifyInit == Init /\ EngineInit

VerifyNext == \/ Run /\ UNCHANGED engineVars
              \/ Replay /\ UNCHANGED programVars

\* Each handler is a step of a sequential script that nothing suspends.
Verification == VerifyInit /\ [][VerifyNext]_vars /\ WF_vars(Replay /\ UNCHANGED programVars)

-----------------------------------------------------------------------------
(* Programs that can be replayed.                                          *)

CondOps  == CbOps \cup {"b."}
Straight == {"plt", "hook", "cset"}       \* nothing but the next one follows
Noted    == CondOps \cup {"blr", "br"}    \* a hook prints a symbol for them
Hooked   == Noted \cup {"ret"}

HookFor(op) == IF op \in CondOps THEN "cond" ELSE HookOf[op]

\* Every transfer that has a hook comes behind it, and behind nothing else, and
\* none goes to itself: hookit() takes an address that it meets twice in a row
\* for one that was disassembled twice (verify_engine:207-211).
Instrumented(p) ==
  \A a \in DOMAIN p :
    /\ p[a].op \in Hooked =>
         a > 1 /\ p[a - 1].op = "hook" /\ p[a - 1].arg = HookFor(p[a].op)
    /\ p[a].op = "hook" => p[a + 1].op \in Hooked
    /\ p[a].op \in Noted \cup {"bl", "b"} =>
         p[a].to # a /\ p[p[a].to].op \notin Hooked

(***************************************************************************)
(* A plan says where the program calls cfv_init(), which instructions the  *)
(* operation consists of, its own and those of the functions it calls, and *)
(* which flags the engine may have in front of each of them.               *)
(***************************************************************************)
Operation(plan) == plan.body \cup plan.helpers

\* The operation ends with cfv_quote() in it, never with a return from the
\* function that began it, and has one beginning, in front of all its ends.
OneOperation(p, plan) ==
  /\ plan.start \in DOMAIN p /\ plan.start + 1 \in plan.body
  /\ Operation(plan) \subseteq DOMAIN p
  /\ plan.body \cap plan.helpers = {}
  /\ p[plan.start].op = "init"
  /\ \A a \in DOMAIN p : p[a].op = "init" => a = plan.start
  /\ \A a \in DOMAIN p : p[a].op = "quote" => plan.start < a
  /\ plan.start \notin Operation(plan)
  /\ \A a \in plan.body : p[a].op # "ret"
  /\ \A part \in {plan.body, plan.helpers} : \A a \in part :
       /\ p[a].op \in Straight \cup Noted \cup {"bl"} => a + 1 \in part
       /\ p[a].op \in CondOps \cup {"b", "br"} => p[a].to \in part
       /\ p[a].op \in {"bl", "blr"} => p[a].to \in plan.helpers

\* Whatever flags a branch is met with, they tell how it was compiled.
Flags == {"eq", "e", "lg"} \X BOOLEAN \X BOOLEAN

FlagsTell(p, plan) ==
  LET flow == plan.flow IN
  /\ flow \in [Operation(plan) -> SUBSET Flags]
  /\ <<"eq", FALSE, FALSE>> \in flow[plan.start + 1]
  /\ \A a \in Operation(plan) :
       /\ p[a].op = "cset" =>
            \A f \in flow[a] : AfterCset(p[a].arg, f) \in flow[a + 1]
       /\ p[a].op \in {"plt", "hook"} \cup Noted => flow[a] \subseteq flow[a + 1]
       /\ p[a].op \in {"cbz", "cbnz", "b.", "b", "bl"} => flow[a] \subseteq flow[p[a].to]
       /\ p[a].op = "ret" =>
            \A b \in Operation(plan) : p[b].op = "bl" => flow[a] \subseteq flow[b + 1]
       /\ p[a].op \in CondOps =>
            \A f \in flow[a] : FlipsBy(p[a], f) = ~p[a].onTrue

Legible(p, plan) == Instrumented(p) /\ OneOperation(p, plan) /\ FlagsTell(p, plan)

-----------------------------------------------------------------------------
(* Properties.                                                             *)

\* Type invariant of the engine's state.
TypeOK ==
  /\ phase \in {"waiting", "replaying", "done", "crashed"}
  /\ trace \in Seq({"y", "n", "icall", "ijmp"})
  /\ idx \in 1..(Len(trace) + 1)
  /\ address \in 0..(Len(code) + 1)
  /\ prev_address \in 0..Len(code)
  /\ replay_start \in BOOLEAN /\ replay_stop \in BOOLEAN
  /\ stack \in Seq(1..(Len(code) + 1))
  /\ last_flag \in {"eq", "e", "lg"}
  /\ last_ne_flag \in BOOLEAN /\ last_lt_flag \in BOOLEAN
  /\ ofd \in Seq((1..Len(code)) \X (0..(Len(code) + 1)))

\* Edges that the engine does not follow: indirect calls and jumps, and a tbz or
\* tbnz that is taken.
Unfollowed(edge) ==
  LET i == code[edge[1]] IN
  i.op \in {"blr", "br"} \/ (i.op \in {"tbz", "tbnz"} /\ edge[2] = i.to)

\* The path up to the first of them.
Known ==
  LET unknown == {n \in DOMAIN path : Unfollowed(path[n])}
  IN  IF unknown = {} THEN path ELSE SubSeq(path, 1, Min(unknown) - 1)

(***************************************************************************)
(* The replay follows the path the program took, edge by edge and back     *)
(* through its returns, up to the first edge it cannot follow, and all of  *)
(* it if there is none; of a program that was killed it may know more or   *)
(* less than what was executed ("ARMv8 Trace Based Binary Replay Tool",    *)
(* verify_engine:56).                                                      *)
(***************************************************************************)
ReplayFollows ==
  phase # "waiting" =>
    /\ \/ IsPrefix(ofd, Known)
       \/ IsPrefix(Known, ofd) /\ (run = "killed" \/ Known # path)
    /\ run = "ended" /\ phase = "done" =>
         /\ IsPrefix(Known, ofd)
         /\ Known = path => ofd = path /\ Exhausted

(***************************************************************************)
(* The trace and the return stack never run out in the replay of a program *)
(* that came to its end (verify_engine:158, 307).                          *)
(***************************************************************************)
CrashMeansKilled == phase = "crashed" => run = "killed"

\* The next symbol is the text of an indirect transfer: every condition is
\* answered with an 'e' that consumes nothing, and no branch is taken any more
\* (verify_engine:166-168).
Deaf == idx \in DOMAIN trace /\ trace[idx] \notin {"y", "n"}

\* A loop is closed by a plain b, as an ordinary while may be.
ClosedByB == \E a \in DOMAIN code : code[a].op = "b" /\ code[a].to < a

(***************************************************************************)
(* Wherever a program was killed, its replay comes to an end (the while    *)
(* loop of hookit(), 207-413), with one exception: once it is deaf it      *)
(* leaves a loop whose last branch is conditional, but not one that is     *)
(* closed by a b, which it goes round for ever.                            *)
(***************************************************************************)
ReplayEnds ==
  phase = "replaying" ~> phase \in {"done", "crashed"} \/ (Deaf /\ ClosedByB)

=============================================================================
