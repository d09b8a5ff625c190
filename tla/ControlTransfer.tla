--------------------------- MODULE ControlTransfer ---------------------------
(***************************************************************************)
(* An indirect call, an indirect jump or a return as the backend's control *)
(* flow verification pass leaves it (AArch64ControlFlowVerification.cpp):  *)
(* code in front of it hands its target to a stub (trampoline.S), which    *)
(* calls the library.  The program must not notice: what it finds in its   *)
(* registers afterwards is what it left there.                             *)
(*                                                                         *)
(* A step is a group of instructions on the registers of one thread.  The  *)
(* registers are modelled from a site to its transfer; what the program    *)
(* does with them in between is its own.                                   *)
(***************************************************************************)
EXTENDS HostProgram, Naturals

CONSTANTS Reg,        \* the registers considered
          Word,       \* what a register holds
          Site,       \* the instrumented instructions of the program
          Contents,   \* registers in front of a site
          Leftovers   \* registers as a C function may leave them

\* x0 to x30, and v0 to v31.
X(n) == n
V(n) == 32 + n
LR   == X(30)

\* The procedure call standard: what a C function need not preserve.
CallerSaved == {X(n) : n \in 0..18} \cup {LR} \cup {V(n) : n \in 0..7 \cup 16..31}

\* ret is where the call of the stub returns to.
SiteType == [op : {"blr", "br", "ret"}, reg : Reg \cap (0..30), ret : Word]

ASSUME TransferAssumption ==
  /\ {X(0), X(1), LR} \subseteq Reg
  /\ Site \subseteq SiteType
  /\ Contents \subseteq [Reg -> Word]
  /\ Leftovers \subseteq [Reg -> Word]

VARIABLE cpu  \* per thread: at, how far it is; the site; regs; what was pushed
              \* in front of the call, and stored in the frame of the stub;
              \* history: the registers on entry, and args, the C function's

NoRegs == <<>>
Elsewhere == [at |-> "program", site |-> NoRegs, regs |-> NoRegs, entry |-> NoRegs,
              pushed |-> NoRegs, frame |-> NoRegs, args |-> NoRegs]

TransferInit == cpu = [t \in Thread |-> Elsewhere]

-----------------------------------------------------------------------------

\* Thread t goes from one group of instructions to the next; c is its state.
Goes(t, from, c) == cpu[t].at = from /\ cpu' = [cpu EXCEPT ![t] = c]

\* The program comes to a site.
Reach(t, s, regs) ==
  Goes(t, "program", [Elsewhere EXCEPT !.at = "site", !.site = s, !.regs = regs, !.entry = regs])

\* sub sp, sp, 16; stp x0, lr, [sp]
Push(t) ==
  LET c == cpu[t] IN
  Goes(t, "site", [c EXCEPT !.at = "pushed", !.pushed = <<c.regs[X(0)], c.regs[LR]>>])

\* Mutant: the target is read after the call has set lr.
PassLate(c) ==
  LET called == [c.regs EXCEPT ![LR] = c.site.ret] IN
  [called EXCEPT ![X(0)] = called[c.site.reg]]

\* orr x0, xR, xzr; bl sym
Passed(c) == [c.regs EXCEPT ![X(0)] = c.regs[c.site.reg], ![LR] = c.site.ret]
Pass(t) == LET c == cpu[t] IN Goes(t, "pushed", [c EXCEPT !.at = "stub", !.regs = Passed(c)])

\* Mutant: the last pair is left out.
StubSavedShort == {X(n) : n \in 0..13} \cup {LR}

\* "store scratch registers": x0 to x15 and x30, but not x16 to x18, and none
\* of the vector registers.
StubSaved == {X(n) : n \in 0..15} \cup {LR}

\* The stub stores them; mov x1, x30; bl cfv_icall, cfv_ijmp or cfv_ret.
Save(t) ==
  LET c == cpu[t] IN
  Goes(t, "stub", [c EXCEPT !.at = "called",
                            !.frame = [r \in Reg \cap StubSaved |-> c.regs[r]],
                            !.regs = [@ EXCEPT ![X(1)] = c.regs[LR]],
                            !.args = <<c.regs[X(0)], c.regs[LR]>>])

\* The C function runs, and returns.
EnterLibrary(t) == Goes(t, "called", [cpu[t] EXCEPT !.at = "within"])

LeaveLibrary(t) ==
  \E left \in Leftovers :
    Goes(t, "within", [cpu[t] EXCEPT !.at = "returned",
                                     !.regs = [r \in Reg |-> IF r \in CallerSaved THEN left[r]
                                                                                  ELSE @[r]]])

\* "restore scratch registers", and ret
Restore(t) ==
  LET c == cpu[t] IN
  Goes(t, "returned", [c EXCEPT !.at = "restored",
                                !.regs = [r \in Reg |-> IF r \in StubSaved THEN c.frame[r]
                                                                           ELSE @[r]]])

\* ldp x0, lr, [sp]; add sp, sp, 16
Popped(c) == [c.regs EXCEPT ![X(0)] = c.pushed[1], ![LR] = c.pushed[2]]
Pop(t) == LET c == cpu[t] IN Goes(t, "restored", [c EXCEPT !.at = "transfer", !.regs = Popped(c)])

\* blr xR, br xR or ret: to what xR holds by now.
Transfer(t) == Goes(t, "transfer", Elsewhere)

\* The code of the compiler and of the stub.
Inserted(t) == Push(t) \/ Pass(t) \/ Save(t) \/ Restore(t) \/ Pop(t) \/ Transfer(t)

TransferNext == \E t \in Thread :
          \/ \E s \in Site, regs \in Contents : Reach(t, s, regs)
          \/ Inserted(t)
          \/ EnterLibrary(t)
          \/ LeaveLibrary(t)

TransferSpec == TransferInit /\ [][TransferNext]_cpu

-----------------------------------------------------------------------------
(* Properties.                                                             *)

Stages == {"program", "site", "pushed", "stub", "called", "within", "returned",
           "restored", "transfer"}

\* Type invariant.
TransferTypeOK ==
  cpu \in [Thread -> [at     : Stages,
                      site   : Site \cup {NoRegs},
                      regs   : [Reg -> Word] \cup {NoRegs},
                      entry  : [Reg -> Word] \cup {NoRegs},
                      pushed : (Word \X Word) \cup {NoRegs},
                      frame  : [Reg \cap StubSaved -> Word] \cup {NoRegs},
                      args   : (Word \X Word) \cup {NoRegs}]]

\* What a C function may change, and no code around it puts back.
Unsaved == {X(n) : n \in 16..18} \cup {V(n) : n \in 0..7 \cup 16..31}

\* The target of the transfer that thread t is about to make.
Target(t) == cpu[t].regs[cpu[t].site.reg]

(***************************************************************************)
(* In front of the transfer every register but x16 to x18 and the vector   *)
(* registers of the caller is what it was when the program came to the     *)
(* site, x0 and lr included, which the code uses twice over                *)
(* (AArch64ControlFlowVerification.cpp:93-138, trampoline.S:9-31).         *)
(***************************************************************************)
RegistersKept ==
  \A t \in Thread : cpu[t].at = "transfer" =>
    \A r \in Reg \ Unsaved : cpu[t].regs[r] = cpu[t].entry[r]

(***************************************************************************)
(* The library was told the address that the transfer goes to, although    *)
(* the target is read a second time after the call: unless xR is x16, x17  *)
(* or x18 ("cfv_icall(dest, src)", trampoline.S:21).                       *)
(***************************************************************************)
TargetReported ==
  \A t \in Thread : cpu[t].at = "transfer" /\ cpu[t].site.reg \notin Unsaved =>
    cpu[t].args = <<Target(t), cpu[t].site.ret>>

=============================================================================
