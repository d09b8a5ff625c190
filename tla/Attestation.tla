---------------------------- MODULE Attestation ----------------------------
(***************************************************************************)
(* An instrumented program, its trampoline library and the measurement     *)
(* engine: an indirect transfer calls the library through a stub, and      *)
(* every call the library makes of the TEE is an invocation of an entry    *)
(* point of the engine, with what the global operation holds.              *)
(***************************************************************************)
EXTENDS Trampoline, ControlTransfer
LOCAL INSTANCE SequencesExt

CONSTANTS Capacity, BufCost, NodeCost, HeapSize, HashmapSize, StorageModes,
          MaxCommands, NoValue,
          Aligned  \* are the parameter types of the two sides made to agree?

VARIABLES session, ctx, result, blob, mayFail, commands, defined, check,
          committed

engine == <<session, ctx, result, blob, mayFail, commands, defined, check,
            committed>>
vars == <<trampolineVars, engine, cpu>>

\* The engine, for clients that may call it in any order.
TA == INSTANCE MeasurementEngineLog WITH
        Word <- Fields, ClientTypes <- {NoTypes}, Disciplined <- FALSE

ASSUME AttestationAssumption ==
  /\ Capacity \in [TA!Chan -> Nat \ {0}]
  /\ BufCost \in [TA!Chan -> Nat \ {0}]
  /\ NodeCost \in Nat \ {0}
  /\ HeapSize \in Nat
  /\ HashmapSize \in Nat \ {0}
  /\ StorageModes \subseteq BOOLEAN
  /\ MaxCommands \in Nat
  /\ NoValue \notin Fields

\* What the engine insists on, per function of the library.
Expected == [init   |-> TA!InitTypes,
             quote  |-> TA!QuoteTypes,
             event  |-> TA!VerifyTypes,
             hinted |-> TA!VerifyTypes]

\* The parameter types that reach the engine.  The two sides of the repository
\* disagree on all three commands; when Aligned, the types that the library
\* sets for a command stand for those that the engine expects of it.
Types(fn) == IF Aligned /\ op.types = LibTypes[fn] THEN Expected[fn] ELSE op.types

-----------------------------------------------------------------------------

\* The command of function fn reaches the instance of session s.
Serve(fn, s) ==
  LET e == Decode(op) IN
  \/ TA!InvokeDead(s)
  \/ fn = "switch" /\ TA!InvokeBad(s, op.types, TA!InitTypes)
  \/ fn # "switch" /\ TA!InvokeBad(s, Types(fn), Expected[fn])
  \/ fn = "init" /\ TA!CfaInit(s, Types(fn))
  \/ fn = "quote" /\ TA!CfaQuote(s, Types(fn))
  \/ /\ fn \in {"event", "hinted"}
     /\ \/ TA!ControlEvent(s, Types(fn), e)
        \/ TA!AddressEvent(s, Types(fn), e)
        \/ TA!CondEvent(s, Types(fn), e)
        \/ TA!DefEvent(s, Types(fn), e)
        \/ TA!UseEvent(s, Types(fn), e)
        \/ TA!UnknownEvent(s, Types(fn), e)

Connected == sess # None /\ session[sess] # "closed"

Invoke(t) ==
  /\ At(t, "invoke")
  /\ \/ /\ ~Connected
        /\ Invoked(t, FALSE)
        /\ UNCHANGED engine
     \/ /\ Connected
        /\ Serve(call[t].fn, sess)
        /\ Invoked(t, result' = "SUCCESS")

Connect(t) ==
  \E s \in Session : OpenTa(t, s) /\ TA!OpenSession(s, TA!OpenTypes)

Disconnect(t) ==
  /\ CloseTa(t)
  /\ IF Connected THEN TA!CloseSession(sess) ELSE UNCHANGED engine

\* The TEE closes the sessions of a process that ended.
Reap(s) == ~Running /\ TA!CloseSession(s) /\ UNCHANGED trampolineVars

\* cfv_icall(dest, src), cfv_ijmp() and cfv_ret() are called by the stubs, with
\* the pc and the target of a transfer.
EventOf == [blr |-> "ICALL", br |-> "IBR", ret |-> "CTRL"]
EventAt(kind, dest, src) == [etype |-> EventOf[kind], a |-> src, b |-> dest]
Reported(t) == EventAt(cpu[t].site.op, cpu[t].args[1], cpu[t].args[2])

\* The program calls the library, and is in it, but for the calls of the stubs.
Program(t) ==
  /\ Local(t)
  /\ pc[t] = 0 => /\ cpu[t].at = "program"
                  /\ \A kind \in DOMAIN EventOf : call'[t].ev.etype # EventOf[kind]
  /\ UNCHANGED <<engine, cpu>>

ReachSite(t) ==
  /\ Running /\ pc[t] = 0
  /\ \E s \in Site, regs \in Contents :
       /\ EventAt(s.op, regs[s.reg], s.ret) \in Events
       /\ Reach(t, s, regs)
  /\ UNCHANGED <<trampolineVars, engine>>

RunInserted(t) == Running /\ Inserted(t) /\ UNCHANGED <<trampolineVars, engine>>

\* While cfv_start is false handle_event() returns at once, and so does cfv_ret().
Report(t) ==
  /\ Running
  /\ EnterLibrary(t)
  /\ \/ CallEvent(t, Reported(t))
     \/ ~cfv_start /\ ~Hinted(Reported(t)) /\ UNCHANGED trampolineVars
  /\ UNCHANGED engine

Reports(t) == Running /\ pc[t] = 0 /\ LeaveLibrary(t) /\ UNCHANGED <<trampolineVars, engine>>

SystemInit == Init /\ TA!Init /\ TransferInit

SystemNext ==
  \/ \E t \in Thread : \/ Program(t)
                       \/ ReachSite(t) \/ RunInserted(t) \/ Report(t) \/ Reports(t)
                       \/ Invoke(t) /\ UNCHANGED cpu
                       \/ Connect(t) /\ UNCHANGED cpu
                       \/ Disconnect(t) /\ UNCHANGED cpu
  \/ Terminate /\ UNCHANGED <<engine, cpu>>
  \/ \E s \in Session : Reap(s) /\ UNCHANGED cpu
  \/ /\ \A s \in Session : session[s] = "closed"
     /\ Restart
     /\ cpu' = [t \in Thread |-> Elsewhere]
     /\ UNCHANGED engine

System == SystemInit /\ [][SystemNext]_vars

-----------------------------------------------------------------------------
(* Properties.                                                             *)

Client == INSTANCE MeasurementEngine WITH
            Word        <- Fields,
            ClientTypes <- {LibTypes[fn] : fn \in DOMAIN LibTypes}
                             \cup {Expected[fn] : fn \in DOMAIN Expected},
            Disciplined <- TRUE

(***************************************************************************)
(* Whatever sequence of cfv_init(), cfv_quote() and events a program with  *)
(* one thread goes through, restarts included, each engine sees a client   *)
(* that initialises it first, once, and sends nothing after the quote:     *)
(* what cfv_start and the sessions are for (cfv_bellman.c:124, 158, 182).  *)
(***************************************************************************)
DisciplinedClients == Client!Spec

(***************************************************************************)
(* The library ends the program only for a session it was refused, for a   *)
(* quote of no operation, or for an instance that ran out of heap: never   *)
(* for an event, and never because the two sides disagree                  *)
(* (check_res(), cfv_bellman.c:61-65).                                     *)
(***************************************************************************)
ExitExplained ==
  [][Running /\ status' = "exited" =>
       \E t \in Thread :
         \/ At(t, "open")
         \/ At(t, "invoke") /\ call[t].fn = "quote" /\ ~Connected
         \/ /\ At(t, "invoke") /\ Connected
            /\ session[sess] = "open" /\ session'[sess] = "dead"
            /\ ctx[sess].p # 0]_vars

(***************************************************************************)
(* The library never prints to, or closes, a file that was closed before:  *)
(* a program crashes in it only when fopen() failed, and not before its    *)
(* quote was taken.  What keeps cfv_quote() and the hints from the file of *)
(* an operation that is over is the closed session and cfv_start           *)
(* (cfv_bellman.c:153-167, nova.c:42, 61, 74).                          *)
(***************************************************************************)
CrashExplained ==
  [][Running /\ status' = "crashed" =>
       /\ hfp = "NULL"
       /\ \E t \in Thread : At(t, "fclose")]_vars

\* The lines of a hints file that begin with one of some symbols.
LinesOf(h, syms) ==
  LET of[i \in 0..Len(h)] ==
        IF i = 0 THEN <<>>
        ELSE IF h[i].sym \in syms THEN Append(of[i - 1], h[i]) ELSE of[i - 1]
  IN  of[Len(h)]

Conds(h) == LET c == LinesOf(h, {"y", "n"})
            IN  [i \in DOMAIN c |-> IF c[i].sym = "y" THEN 1 ELSE 0]
Dests(h) == LET d == LinesOf(h, {"ICALL", "IBR"})
            IN  [i \in DOMAIN d |-> d[i].dest]

(***************************************************************************)
(* Between two calls of a measured operation the hints file is the tail of *)
(* the trace the engine recorded, condition for condition and destination  *)
(* for destination, whatever the engine flushed meanwhile: the verifier    *)
(* works from this file in place of the blob (README.md:33, nova.c:36-77). *)
(***************************************************************************)
HintsAreTheTrace ==
  (Running /\ cfv_start /\ hfp = "open" /\ ~mayFail /\ \A t \in Thread : pc[t] = 0)
    => LET trace == TA!Recorded(sess)
       IN  IsSuffix(Conds(hints), trace["cond"]) /\ IsSuffix(Dests(hints), trace["addr"])

(***************************************************************************)
(* When an indirect transfer of a measured operation is made, the last     *)
(* thing of its kind that the engine recorded is where it goes, although   *)
(* the stub, the library, the TEE and a C function's worth of clobbered    *)
(* registers lie between the report and the instruction.  The exception    *)
(* are targets in registers that nobody saves, x16 to x18                  *)
(* (trampoline.S:9-31, cfv_bellman.c:182-202, hello_world_ta.c:273-300).   *)
(***************************************************************************)
TransfersAttested ==
  \A t \in Thread :
    /\ Running /\ cpu[t].at = "transfer" /\ cpu[t].site.reg \notin Unsaved
    /\ cfv_start /\ Connected /\ session[sess] = "open" /\ ~mayFail
    => IF cpu[t].site.op = "ret"
       THEN Last(ctx[sess].S.fed) = <<cpu[t].site.ret, Target(t)>>
       ELSE Last(TA!Recorded(sess)["addr"]) = Target(t)

=============================================================================
