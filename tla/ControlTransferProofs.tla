------------------------ MODULE ControlTransferProofs ------------------------
(***************************************************************************)
(* The code around an indirect transfer leaves the program's registers     *)
(* alone and reports the target, for any registers, any contents and any   *)
(* that the library leaves behind.                                         *)
(***************************************************************************)
EXTENDS ControlTransfer, TLAPS

\* The types of one thread's state.
Cpu == [at     : Stages,
        site   : Site \cup {NoRegs},
        regs   : [Reg -> Word] \cup {NoRegs},
        entry  : [Reg -> Word] \cup {NoRegs},
        pushed : (Word \X Word) \cup {NoRegs},
        frame  : [Reg \cap StubSaved -> Word] \cup {NoRegs},
        args   : (Word \X Word) \cup {NoRegs}]

\* Registers other than those of a set are as they were on entry.
SameBut(c, set) == \A r \in Reg \ set : c.regs[r] = c.entry[r]

AtSite(c) == /\ c.at # "program" => /\ c.site \in Site
                                    /\ c.regs \in [Reg -> Word]
                                    /\ c.entry \in [Reg -> Word]
             /\ c.at \in {"site", "pushed"} => SameBut(c, {})

\* x0 and lr are on the stack from Push to Pop.
PushedOK(c) ==
  c.at \in {"pushed", "stub", "called", "within", "returned", "restored"} =>
    c.pushed = <<c.entry[X(0)], c.entry[LR]>>

\* The stub is called with the target in x0, and the site in lr.
PassedOK(c) ==
  c.at = "stub" => /\ SameBut(c, {X(0), LR})
                   /\ c.regs[X(0)] = c.entry[c.site.reg]
                   /\ c.regs[LR] = c.site.ret

\* The library is called with both.
ArgsOK(c) ==
  c.at \in {"called", "within", "returned", "restored", "transfer"} =>
    c.args = <<c.entry[c.site.reg], c.site.ret>>

\* The frame of the stub holds what the program had in x1 to x15.
FrameOK(c) ==
  c.at \in {"called", "within", "returned"} =>
    /\ c.frame \in [Reg \cap StubSaved -> Word]
    /\ \A r \in (Reg \cap StubSaved) \ {X(0), LR} : c.frame[r] = c.entry[r]

\* What the frame does not hold the library may change only if nobody saves it.
KeptOK(c) ==
  /\ c.at \in {"called", "within"} => SameBut(c, StubSaved)
  /\ c.at = "returned" => SameBut(c, StubSaved \cup Unsaved)
  /\ c.at = "restored" => SameBut(c, {X(0), LR} \cup Unsaved)
  /\ c.at = "transfer" => SameBut(c, Unsaved)

StateOK(c) == /\ c \in Cpu
              /\ AtSite(c) /\ PushedOK(c) /\ PassedOK(c) /\ ArgsOK(c)
              /\ FrameOK(c) /\ KeptOK(c)

CpuInv == cpu \in [Thread -> Cpu] /\ \A t \in Thread : StateOK(cpu[t])

-----------------------------------------------------------------------------

\* Every register a C function may change is saved by the stub, or by nobody.
LEMMA Registers ==
  /\ CallerSaved \subseteq StubSaved \cup Unsaved
  /\ X(0) \in StubSaved /\ X(1) \in StubSaved /\ LR \in StubSaved
  /\ X(0) \notin Unsaved /\ X(1) \notin Unsaved /\ LR \notin Unsaved
  /\ X(0) # X(1) /\ X(0) # LR /\ X(1) # LR
BY DEF CallerSaved, StubSaved, Unsaved, X, V, LR

\* A site's register is one of those considered, and its words are words.
LEMMA SiteFields ==
  ASSUME NEW s \in Site PROVE s.reg \in Reg /\ s.ret \in Word
BY TransferAssumption DEF SiteType

\* A step of one thread changes the state of that thread only.
LEMMA OneThread ==
  ASSUME CpuInv, NEW t \in Thread, NEW from, NEW c, Goes(t, from, c), StateOK(c)
  PROVE  CpuInv'
<1>1. cpu' = [cpu EXCEPT ![t] = c]
  BY DEF Goes
<1>2. c \in Cpu
  BY DEF StateOK
<1>3. cpu' \in [Thread -> Cpu]
  BY <1>1, <1>2 DEF CpuInv
<1>4. \A u \in Thread : StateOK(cpu'[u])
  <2> TAKE u \in Thread
  <2>1. CASE u = t
    <3>1. cpu'[u] = c
      BY <1>1, <2>1 DEF CpuInv
    <3> QED BY <3>1
  <2>2. CASE u # t
    <3>1. cpu'[u] = cpu[u]
      BY <1>1, <2>2 DEF CpuInv
    <3> QED BY <3>1 DEF CpuInv
  <2> QED BY <2>1, <2>2
<1> QED BY <1>3, <1>4 DEF CpuInv

\* In the program.
LEMMA IdleOK == StateOK(Elsewhere)
BY DEF StateOK, Elsewhere, Cpu, Stages, AtSite, PushedOK, PassedOK, ArgsOK, FrameOK, KeptOK

\* A thread comes to a site.
LEMMA ReachStep ==
  ASSUME NEW s \in Site, NEW regs \in Contents
  PROVE  StateOK([Elsewhere EXCEPT !.at = "site", !.site = s, !.regs = regs, !.entry = regs])
<1> DEFINE c == [Elsewhere EXCEPT !.at = "site", !.site = s, !.regs = regs, !.entry = regs]
<1>1. regs \in [Reg -> Word]
  BY TransferAssumption
<1>2. Elsewhere \in Cpu
  BY IdleOK DEF StateOK
<1>3. c.at = "site" /\ c.site = s /\ c.regs = regs /\ c.entry = regs
  BY <1>2 DEF Cpu
<1>4. c \in Cpu
  BY <1>1, <1>2 DEF Cpu, Stages
<1> HIDE DEF c
<1> QED BY <1>1, <1>3, <1>4 DEF StateOK, AtSite, PushedOK, PassedOK, ArgsOK, FrameOK, KeptOK, SameBut, c

\* sub; stp x0, lr.
LEMMA PushStep ==
  ASSUME NEW c, StateOK(c), c.at = "site"
  PROVE  StateOK([c EXCEPT !.at = "pushed", !.pushed = <<c.regs[X(0)], c.regs[LR]>>])
<1> DEFINE d == [c EXCEPT !.at = "pushed", !.pushed = <<c.regs[X(0)], c.regs[LR]>>]
<1>1. c \in Cpu /\ c.site \in Site /\ c.regs \in [Reg -> Word] /\ c.entry \in [Reg -> Word]
  BY DEF StateOK, AtSite
<1>2. X(0) \in Reg /\ LR \in Reg
  BY TransferAssumption
<1>3. SameBut(c, {})
  BY DEF StateOK, AtSite
<1>4. /\ d.at = "pushed" /\ d.site = c.site /\ d.regs = c.regs /\ d.entry = c.entry
      /\ d.pushed = <<c.regs[X(0)], c.regs[LR]>>
  BY <1>1 DEF Cpu
<1>5. d \in Cpu
  BY <1>1, <1>2 DEF Cpu, Stages
<1> HIDE DEF d
<1>6. AtSite(d) /\ PushedOK(d)
  BY <1>1, <1>2, <1>3, <1>4 DEF AtSite, PushedOK, SameBut
<1>7. PassedOK(d) /\ ArgsOK(d) /\ FrameOK(d) /\ KeptOK(d)
  BY <1>4 DEF PassedOK, ArgsOK, FrameOK, KeptOK
<1> QED BY <1>5, <1>6, <1>7 DEF StateOK, d

\* orr x0, xR; bl.
LEMMA PassStep ==
  ASSUME NEW c, StateOK(c), c.at = "pushed"
  PROVE  StateOK([c EXCEPT !.at = "stub", !.regs = Passed(c)])
<1> DEFINE d == [c EXCEPT !.at = "stub", !.regs = Passed(c)]
<1>1. c \in Cpu /\ c.site \in Site /\ c.regs \in [Reg -> Word] /\ c.entry \in [Reg -> Word]
  BY DEF StateOK, AtSite
<1>2. X(0) \in Reg /\ LR \in Reg /\ c.site.reg \in Reg /\ c.site.ret \in Word /\ X(0) # LR
  BY <1>1, TransferAssumption, SiteFields, Registers
<1>3. SameBut(c, {}) /\ c.pushed = <<c.entry[X(0)], c.entry[LR]>>
  BY DEF StateOK, AtSite, PushedOK
<1>4. /\ Passed(c) \in [Reg -> Word]
      /\ Passed(c)[X(0)] = c.regs[c.site.reg]
      /\ Passed(c)[LR] = c.site.ret
      /\ \A r \in Reg \ {X(0), LR} : Passed(c)[r] = c.regs[r]
  BY <1>1, <1>2 DEF Passed
<1>5. /\ d.at = "stub" /\ d.site = c.site /\ d.regs = Passed(c) /\ d.entry = c.entry
      /\ d.pushed = c.pushed
  BY <1>1 DEF Cpu
<1>6. d \in Cpu
  BY <1>1, <1>4 DEF Cpu, Stages
<1> HIDE DEF d
<1>7. AtSite(d) /\ PushedOK(d)
  BY <1>1, <1>3, <1>4, <1>5 DEF AtSite, PushedOK
<1>8. PassedOK(d)
  BY <1>2, <1>3, <1>4, <1>5 DEF PassedOK, SameBut
<1>9. ArgsOK(d) /\ FrameOK(d) /\ KeptOK(d)
  BY <1>5 DEF ArgsOK, FrameOK, KeptOK
<1> QED BY <1>6, <1>7, <1>8, <1>9 DEF StateOK, d

\* The stub stores its frame and calls the library.
LEMMA SaveStep ==
  ASSUME NEW c, StateOK(c), c.at = "stub"
  PROVE  StateOK([c EXCEPT !.at = "called",
                           !.frame = [r \in Reg \cap StubSaved |-> c.regs[r]],
                           !.regs = [@ EXCEPT ![X(1)] = c.regs[LR]],
                           !.args = <<c.regs[X(0)], c.regs[LR]>>])
<1> DEFINE d == [c EXCEPT !.at = "called",
                          !.frame = [r \in Reg \cap StubSaved |-> c.regs[r]],
                          !.regs = [@ EXCEPT ![X(1)] = c.regs[LR]],
                          !.args = <<c.regs[X(0)], c.regs[LR]>>]
<1>1. c \in Cpu /\ c.site \in Site /\ c.regs \in [Reg -> Word] /\ c.entry \in [Reg -> Word]
  BY DEF StateOK, AtSite
<1>2. X(0) \in Reg /\ X(1) \in Reg /\ LR \in Reg
  BY TransferAssumption
<1>3. /\ SameBut(c, {X(0), LR})
      /\ c.regs[X(0)] = c.entry[c.site.reg] /\ c.regs[LR] = c.site.ret
      /\ c.pushed = <<c.entry[X(0)], c.entry[LR]>>
  BY DEF StateOK, PassedOK, PushedOK
<1>4. /\ d.at = "called" /\ d.site = c.site /\ d.entry = c.entry /\ d.pushed = c.pushed
      /\ d.regs = [c.regs EXCEPT ![X(1)] = c.regs[LR]]
      /\ d.frame = [r \in Reg \cap StubSaved |-> c.regs[r]]
      /\ d.args = <<c.regs[X(0)], c.regs[LR]>>
  BY <1>1 DEF Cpu
<1>5. d \in Cpu
  <2>1. [c.regs EXCEPT ![X(1)] = c.regs[LR]] \in [Reg -> Word]
    BY <1>1, <1>2
  <2>2. [r \in Reg \cap StubSaved |-> c.regs[r]] \in [Reg \cap StubSaved -> Word]
    BY <1>1
  <2> QED BY <1>1, <1>2, <2>1, <2>2 DEF Cpu, Stages
<1> HIDE DEF d
<1>6. AtSite(d) /\ PushedOK(d) /\ PassedOK(d)
  BY <1>1, <1>2, <1>3, <1>4 DEF AtSite, PushedOK, PassedOK
<1>7. ArgsOK(d)
  BY <1>3, <1>4 DEF ArgsOK
<1>8. FrameOK(d)
  BY <1>1, <1>3, <1>4 DEF FrameOK, SameBut
<1>9. KeptOK(d)
  <2>1. \A r \in Reg \ StubSaved : r # X(0) /\ r # X(1) /\ r # LR
    BY Registers
  <2>2. SameBut(d, StubSaved)
    BY <1>1, <1>2, <1>3, <1>4, <2>1 DEF SameBut
  <2> QED BY <1>4, <2>2 DEF KeptOK
<1> QED BY <1>5, <1>6, <1>7, <1>8, <1>9 DEF StateOK, d

\* The library begins.
LEMMA EnterStep ==
  ASSUME NEW c, StateOK(c), c.at = "called"
  PROVE  StateOK([c EXCEPT !.at = "within"])
<1> DEFINE d == [c EXCEPT !.at = "within"]
<1>1. /\ d \in Cpu
      /\ d.at = "within" /\ d.site = c.site /\ d.entry = c.entry /\ d.pushed = c.pushed
      /\ d.regs = c.regs /\ d.frame = c.frame /\ d.args = c.args
  BY DEF StateOK, Cpu, Stages
<1> HIDE DEF d
<1> QED BY <1>1 DEF StateOK, AtSite, PushedOK, PassedOK, ArgsOK, FrameOK, KeptOK, SameBut, d

\* The library returns, with registers it need not preserve changed.
LEMMA ReturnStep ==
  ASSUME NEW c, StateOK(c), c.at = "within", NEW left \in Leftovers
  PROVE  StateOK([c EXCEPT !.at = "returned",
                           !.regs = [r \in Reg |-> IF r \in CallerSaved THEN left[r] ELSE @[r]]])
<1> DEFINE d == [c EXCEPT !.at = "returned",
                          !.regs = [r \in Reg |-> IF r \in CallerSaved THEN left[r] ELSE @[r]]]
<1>1. c \in Cpu /\ c.site \in Site /\ c.regs \in [Reg -> Word] /\ c.entry \in [Reg -> Word]
  BY DEF StateOK, AtSite
<1>2. left \in [Reg -> Word]
  BY TransferAssumption
<1>3. /\ d.at = "returned" /\ d.site = c.site /\ d.entry = c.entry /\ d.pushed = c.pushed
      /\ d.regs = [r \in Reg |-> IF r \in CallerSaved THEN left[r] ELSE c.regs[r]]
      /\ d.frame = c.frame /\ d.args = c.args
  BY <1>1 DEF Cpu
<1>4. d.regs \in [Reg -> Word]
  BY <1>1, <1>2, <1>3
<1>5. d \in Cpu
  <2>1. [r \in Reg |-> IF r \in CallerSaved THEN left[r] ELSE c.regs[r]] \in [Reg -> Word]
    BY <1>1, <1>2
  <2> QED BY <1>1, <2>1 DEF Cpu, Stages
<1> HIDE DEF d
<1>6. AtSite(d) /\ PushedOK(d) /\ PassedOK(d) /\ ArgsOK(d) /\ FrameOK(d)
  BY <1>1, <1>3, <1>4 DEF StateOK, AtSite, PushedOK, PassedOK, ArgsOK, FrameOK
<1>7. KeptOK(d)
  <2>1. SameBut(c, StubSaved)
    BY DEF StateOK, KeptOK
  <2>2. SameBut(d, StubSaved \cup Unsaved)
    BY <1>3, <2>1, Registers DEF SameBut
  <2> QED BY <1>3, <2>2 DEF KeptOK
<1> QED BY <1>5, <1>6, <1>7 DEF StateOK, d

\* The stub reloads its frame.
LEMMA RestoreStep ==
  ASSUME NEW c, StateOK(c), c.at = "returned"
  PROVE  StateOK([c EXCEPT !.at = "restored",
                           !.regs = [r \in Reg |-> IF r \in StubSaved THEN c.frame[r] ELSE @[r]]])
<1> DEFINE d == [c EXCEPT !.at = "restored",
                          !.regs = [r \in Reg |-> IF r \in StubSaved THEN c.frame[r] ELSE @[r]]]
<1>1. c \in Cpu /\ c.site \in Site /\ c.regs \in [Reg -> Word] /\ c.entry \in [Reg -> Word]
  BY DEF StateOK, AtSite
<1>2. /\ c.frame \in [Reg \cap StubSaved -> Word]
      /\ \A r \in (Reg \cap StubSaved) \ {X(0), LR} : c.frame[r] = c.entry[r]
  BY DEF StateOK, FrameOK
<1>3. /\ d.at = "restored" /\ d.site = c.site /\ d.entry = c.entry /\ d.pushed = c.pushed
      /\ d.regs = [r \in Reg |-> IF r \in StubSaved THEN c.frame[r] ELSE c.regs[r]]
      /\ d.args = c.args
  BY <1>1 DEF Cpu
<1>4. d \in Cpu /\ d.regs \in [Reg -> Word]
  <2>1. [r \in Reg |-> IF r \in StubSaved THEN c.frame[r] ELSE c.regs[r]] \in [Reg -> Word]
    BY <1>1, <1>2
  <2> QED BY <1>1, <1>3, <2>1 DEF Cpu, Stages
<1> HIDE DEF d
<1>5. AtSite(d) /\ PushedOK(d) /\ PassedOK(d) /\ ArgsOK(d) /\ FrameOK(d)
  BY <1>1, <1>3, <1>4 DEF StateOK, AtSite, PushedOK, PassedOK, ArgsOK, FrameOK
<1>6. KeptOK(d)
  <2>1. SameBut(c, StubSaved \cup Unsaved)
    BY DEF StateOK, KeptOK
  <2>2. SameBut(d, {X(0), LR} \cup Unsaved)
    BY <1>2, <1>3, <2>1 DEF SameBut
  <2> QED BY <1>3, <2>2 DEF KeptOK
<1> QED BY <1>4, <1>5, <1>6 DEF StateOK, d

\* x0 and lr are reloaded.
LEMMA PopStep ==
  ASSUME NEW c, StateOK(c), c.at = "restored"
  PROVE  StateOK([c EXCEPT !.at = "transfer", !.regs = Popped(c)])
<1> DEFINE d == [c EXCEPT !.at = "transfer", !.regs = Popped(c)]
<1>1. c \in Cpu /\ c.site \in Site /\ c.regs \in [Reg -> Word] /\ c.entry \in [Reg -> Word]
  BY DEF StateOK, AtSite
<1>2. X(0) \in Reg /\ LR \in Reg /\ X(0) # LR
  BY TransferAssumption, Registers
<1>3. /\ c.pushed = <<c.entry[X(0)], c.entry[LR]>>
      /\ SameBut(c, {X(0), LR} \cup Unsaved)
  BY DEF StateOK, PushedOK, KeptOK
<1>4. /\ Popped(c) \in [Reg -> Word]
      /\ Popped(c)[X(0)] = c.entry[X(0)]
      /\ Popped(c)[LR] = c.entry[LR]
      /\ \A r \in Reg \ {X(0), LR} : Popped(c)[r] = c.regs[r]
  BY <1>1, <1>2, <1>3 DEF Popped
<1>5. /\ d.at = "transfer" /\ d.site = c.site /\ d.regs = Popped(c) /\ d.entry = c.entry
      /\ d.args = c.args
  BY <1>1 DEF Cpu
<1>6. d \in Cpu
  BY <1>1, <1>4 DEF Cpu, Stages
<1> HIDE DEF d
<1>7. AtSite(d) /\ PushedOK(d) /\ PassedOK(d) /\ ArgsOK(d) /\ FrameOK(d)
  BY <1>1, <1>4, <1>5 DEF StateOK, AtSite, PushedOK, PassedOK, ArgsOK, FrameOK
<1>8. KeptOK(d)
  BY <1>3, <1>4, <1>5 DEF KeptOK, SameBut
<1> QED BY <1>6, <1>7, <1>8 DEF StateOK, d

\* The invariant holds at first.
LEMMA CpuInvInit == TransferInit => CpuInv
<1> SUFFICES ASSUME TransferInit PROVE CpuInv
  OBVIOUS
<1>1. Elsewhere \in Cpu
  BY IdleOK DEF StateOK
<1> QED BY <1>1, IdleOK DEF TransferInit, CpuInv

\* Every step preserves it.
LEMMA CpuInvNext == CpuInv /\ [TransferNext]_cpu => CpuInv'
<1> SUFFICES ASSUME CpuInv, [TransferNext]_cpu PROVE CpuInv'
  OBVIOUS
<1>1. CASE UNCHANGED cpu
  BY <1>1 DEF CpuInv
<1>2. CASE TransferNext
  <2> PICK t \in Thread : \/ \E s \in Site, regs \in Contents : Reach(t, s, regs)
                          \/ Inserted(t) \/ EnterLibrary(t) \/ LeaveLibrary(t)
    BY <1>2 DEF TransferNext
  <2> DEFINE c == cpu[t]
  <2>0. StateOK(c)
    BY DEF CpuInv
  <2>1. ASSUME NEW s \in Site, NEW regs \in Contents, Reach(t, s, regs) PROVE CpuInv'
    BY <2>1, ReachStep, OneThread DEF Reach
  <2>2. CASE Push(t)
    <3>1. c.at = "site"
      BY <2>2 DEF Push, Goes
    <3> QED BY <2>0, <2>2, <3>1, PushStep, OneThread DEF Push
  <2>3. CASE Pass(t)
    <3>1. c.at = "pushed"
      BY <2>3 DEF Pass, Goes
    <3> QED BY <2>0, <2>3, <3>1, PassStep, OneThread DEF Pass
  <2>4. CASE Save(t)
    <3>1. c.at = "stub"
      BY <2>4 DEF Save, Goes
    <3> QED BY <2>0, <2>4, <3>1, SaveStep, OneThread DEF Save
  <2>5. CASE EnterLibrary(t)
    <3>1. c.at = "called"
      BY <2>5 DEF EnterLibrary, Goes
    <3> QED BY <2>0, <2>5, <3>1, EnterStep, OneThread DEF EnterLibrary
  <2>6. CASE LeaveLibrary(t)
    <3> DEFINE d(left) == [cpu[t] EXCEPT !.at = "returned",
                             !.regs = [r \in Reg |-> IF r \in CallerSaved THEN left[r] ELSE @[r]]]
    <3>1. PICK left \in Leftovers : Goes(t, "within", d(left))
      BY <2>6 DEF LeaveLibrary
    <3>2. c.at = "within"
      BY <3>1 DEF Goes
    <3>3. StateOK(d(left))
      BY <2>0, <3>2, ReturnStep
    <3> HIDE DEF d
    <3> QED BY <3>1, <3>3, OneThread
  <2>7. CASE Restore(t)
    <3>1. c.at = "returned"
      BY <2>7 DEF Restore, Goes
    <3> QED BY <2>0, <2>7, <3>1, RestoreStep, OneThread DEF Restore
  <2>8. CASE Pop(t)
    <3>1. c.at = "restored"
      BY <2>8 DEF Pop, Goes
    <3> QED BY <2>0, <2>8, <3>1, PopStep, OneThread DEF Pop
  <2>9. CASE Transfer(t)
    BY <2>9, IdleOK, OneThread DEF Transfer
  <2> QED BY <2>1, <2>2, <2>3, <2>4, <2>5, <2>6, <2>7, <2>8, <2>9 DEF Inserted
<1> QED BY <1>1, <1>2

\* The strengthened invariant is one.
LEMMA CpuInvariance == TransferSpec => []CpuInv
BY CpuInvInit, CpuInvNext, PTL DEF TransferSpec

(***************************************************************************)
(* The states of the threads keep their types.                             *)
(***************************************************************************)
THEOREM TransferTyped == TransferSpec => []TransferTypeOK
<1>1. CpuInv => TransferTypeOK
  BY DEF CpuInv, TransferTypeOK, Cpu
<1> QED BY <1>1, CpuInvariance, PTL

(***************************************************************************)
(* Whatever the registers hold and whatever the library leaves in them,    *)
(* the program finds all of them as they were in front of the transfer,    *)
(* but x16 to x18 and the vector registers (trampoline.S:9-31).            *)
(***************************************************************************)
THEOREM ProgramKeepsItsRegisters == TransferSpec => []RegistersKept
<1>1. CpuInv => RegistersKept
  BY DEF CpuInv, StateOK, KeptOK, SameBut, RegistersKept
<1> QED BY <1>1, CpuInvariance, PTL

(***************************************************************************)
(* What the library is told is where the transfer goes, unless its target  *)
(* is in a register that nobody saves.                                     *)
(***************************************************************************)
THEOREM TargetsAreReported == TransferSpec => []TargetReported
<1>1. CpuInv => TargetReported
  <2> SUFFICES ASSUME CpuInv, NEW t \in Thread, cpu[t].at = "transfer",
                      cpu[t].site.reg \notin Unsaved
               PROVE  cpu[t].args = <<Target(t), cpu[t].site.ret>>
    BY DEF TargetReported
  <2>1. StateOK(cpu[t])
    BY DEF CpuInv
  <2>2. cpu[t].site.reg \in Reg
    BY <2>1, SiteFields DEF StateOK, AtSite
  <2>3. Target(t) = cpu[t].entry[cpu[t].site.reg]
    BY <2>1, <2>2 DEF StateOK, KeptOK, SameBut, Target
  <2> QED BY <2>1, <2>3 DEF StateOK, ArgsOK
<1> QED BY <1>1, CpuInvariance, PTL

=============================================================================
