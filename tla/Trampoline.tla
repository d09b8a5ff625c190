----------------------------- MODULE Trampoline -----------------------------
(***************************************************************************)
(* The trampoline library linked with an instrumented program              *)
(* (cfv_bellman.c and nova.c): cfv_init(), cfv_quote(), the events and the *)
(* hints file, all through global variables no lock protects.              *)
(*                                                                         *)
(* Every function is a path of steps over those variables, so that threads *)
(* interleave between any two.  The library's side of a call of the TEE is *)
(* modelled here, with any answer the TEE may give; the module Attestation *)
(* puts the measurement engine on the other side.                          *)
(***************************************************************************)
EXTENDS HostProgram, Naturals, Sequences

CONSTANTS Half,         \* values of half an event field: 2^32
          Session,      \* sessions the TEE hands out
          Events,       \* events the instrumented program reports
          None          \* sess before the first TEEC_OpenSession

\* etype, a and b as cfv_bellman.h and handle_event() have them.
Fields == 0..(Half * Half - 1)
Kinds  == {"CTRL", "DATA_DEF", "DATA_USE", "CONDBR", "ICALL", "IBR", "UNKNOWN"}

ASSUME TrampolineAssumption ==
  /\ Half \in Nat \ {0}
  /\ None \notin Session
  /\ Events \subseteq [etype : Kinds, a : Fields, b : Fields]
  \* __collect_cond_branch_hints() reports 1 or 0.
  /\ \A e \in Events : e.etype = "CONDBR" => e.a \in {0, 1}

VARIABLES
  status,     \* the process: "running", or how it ended
  cfv_start,  \* events are forwarded
  hfp,        \* the hints file: "NULL", "open" or "closed"
  hints,      \* what was printed to it since it was opened
  op,         \* the global TEEC_Operation
  sess,       \* the global TEEC_Session
  call,       \* per thread: the function it is in, and its event
  pc          \* per thread: the next step of that function's path, or 0

globals == <<cfv_start, hfp, hints, op, sess>>
trampolineVars == <<status, globals, call, pc>>

-----------------------------------------------------------------------------
(* The functions of the library as the steps they take.                    *)

InitPath == <<"open", "clear", "types", "fopen", "start", "invoke">>

\* Mutant: cfv_quote() leaves cfv_start set.
QuotePathKeepsStart == <<"clear", "types", "invoke", "close", "fclose">>

\* Mutant: cfv_quote() returns once the quote was taken.
QuotePathLeaves == <<"clear", "types", "invoke">>

QuotePath == <<"clear", "types", "invoke", "stop", "close", "fclose">>

EventPath == <<"clear", "types", "etype", "a", "b", "invoke">>

\* Events of nova.c that go on to print a hint after handle_event().
HintedPath == <<"clear", "types", "etype", "a", "b", "invoke", "hint", "print">>

\* test_world_switch() invokes a command that the engine does not know, five times.
SwitchPath == <<"clear", "types", "invoke", "invoke", "invoke", "invoke", "invoke">>

Path == [init |-> InitPath, quote |-> QuotePath, event |-> EventPath,
         hinted |-> HintedPath, switch |-> SwitchPath]

NoTypes == <<"NONE", "NONE", "NONE", "NONE">>

\* op.paramTypes as each function sets it.
LibTypes ==
  [init   |-> NoTypes,
   quote  |-> <<"VALUE_INOUT", "VALUE_INOUT", "NONE", "NONE">>,
   event  |-> <<"VALUE_INOUT", "VALUE_INOUT", "VALUE_INOUT", "NONE">>,
   hinted |-> <<"VALUE_INOUT", "VALUE_INOUT", "VALUE_INOUT", "NONE">>,
   switch |-> NoTypes]

\* memset(&op, 0, sizeof(op))
ZeroOp == [types |-> NoTypes, etype |-> "UNKNOWN", a |-> <<0, 0>>, b |-> <<0, 0>>]

NoEvent == [etype |-> "UNKNOWN", a |-> 0, b |-> 0]
Idle    == [fn |-> "init", ev |-> NoEvent]

\* Mutant: the lower half is not masked.
HalvesUnmasked(x) == <<x, x \div Half>>

\* Mutant: the upper half is lost.
HalvesLow(x) == <<x % Half, 0>>

\* value.a and value.b: the lower and the upper half of a field.
Halves(x) == <<x % Half, x \div Half>>

\* verify(), on the other side, puts the halves together again.
Decode(o) == [etype |-> o.etype,
              a     |-> o.a[2] * Half + o.a[1],
              b     |-> o.b[2] * Half + o.b[1]]

\* What is printed for a conditional branch, or an indirect call or jump.
HintOf(e) ==
  IF e.etype = "CONDBR"
  THEN [sym |-> IF e.a # 0 THEN "y" ELSE "n", dest |-> 0, src |-> 0]
  ELSE [sym |-> e.etype, dest |-> e.b, src |-> e.a]

\* __collect_cond_branch_hints(), cfv_icall() and cfv_ijmp() print hints.
Hinted(e) == e.etype \in {"CONDBR", "ICALL", "IBR"}

Init ==
  /\ status = "running"
  /\ cfv_start = FALSE
  /\ hfp = "NULL"
  /\ hints = <<>>
  /\ op = ZeroOp
  /\ sess = None
  /\ call = [t \in Thread |-> Idle]
  /\ pc = [t \in Thread |-> 0]

-----------------------------------------------------------------------------
(* Control flow.                                                           *)

Running == status = "running"
PathOf(t) == Path[call[t].fn]
At(t, step) == Running /\ pc[t] # 0 /\ PathOf(t)[pc[t]] = step

\* The thread goes on to the next step of its path, or returns.
Advance(t) ==
  /\ pc' = [pc EXCEPT ![t] = IF @ < Len(PathOf(t)) THEN @ + 1 ELSE 0]
  /\ UNCHANGED <<status, call>>

Return(t) == pc' = [pc EXCEPT ![t] = 0] /\ UNCHANGED <<status, call>>

\* The process ends, with all its threads.
Ends(how) == status' = how /\ UNCHANGED <<globals, call, pc>>

Enter(t, fn, e, at) ==
  /\ Running /\ pc[t] = 0
  /\ call' = [call EXCEPT ![t] = [fn |-> fn, ev |-> e]]
  /\ pc' = [pc EXCEPT ![t] = at]
  /\ UNCHANGED <<status, globals>>

CallInit(t)   == t = Main /\ Enter(t, "init", NoEvent, 1)
CallQuote(t)  == t = Main /\ Enter(t, "quote", NoEvent, 1)
CallSwitch(t) == t = Main /\ Enter(t, "switch", NoEvent, 1)

\* handle_event() skips the event while cfv_start is false; the function that
\* called it then comes to its own test of cfv_start.
CallEvent(t, e) ==
  \/ /\ cfv_start
     /\ Enter(t, IF Hinted(e) THEN "hinted" ELSE "event", e, 1)
  \/ /\ ~cfv_start
     /\ Hinted(e)
     /\ Enter(t, "hinted", e, Len(EventPath) + 1)

-----------------------------------------------------------------------------
(* Steps on the globals.                                                   *)

StoreOp(t, step, o) ==
  /\ At(t, step)
  /\ op' = o
  /\ Advance(t)
  /\ UNCHANGED <<cfv_start, hfp, hints, sess>>

Clear(t)    == StoreOp(t, "clear", ZeroOp)
SetTypes(t) == StoreOp(t, "types", [op EXCEPT !.types = LibTypes[call[t].fn]])
SetEtype(t) == StoreOp(t, "etype", [op EXCEPT !.etype = call[t].ev.etype])
SetA(t)     == StoreOp(t, "a", [op EXCEPT !.a = Halves(call[t].ev.a)])
SetB(t)     == StoreOp(t, "b", [op EXCEPT !.b = Halves(call[t].ev.b)])

\* open_ta(): check_res() ends the process when a session is refused.
OpenTa(t, s) ==
  /\ At(t, "open")
  /\ sess' = s
  /\ Advance(t)
  /\ UNCHANGED <<cfv_start, hfp, hints, op>>

OpenRefused(t) == At(t, "open") /\ Ends("exited")

\* Mutant: fopen (hints_file, "a+")
FopenAppends(t) ==
  /\ At(t, "fopen")
  /\ \/ hfp' = "open" /\ UNCHANGED hints
     \/ hfp' = "NULL" /\ UNCHANGED hints
  /\ Advance(t)
  /\ UNCHANGED <<cfv_start, op, sess>>

\* fopen (hints_file, "w+") truncates the file; its result is not looked at.
Fopen(t) ==
  /\ At(t, "fopen")
  /\ \/ hfp' = "open" /\ hints' = <<>>
     \/ hfp' = "NULL" /\ UNCHANGED hints
  /\ Advance(t)
  /\ UNCHANGED <<cfv_start, op, sess>>

SetStart(t, step, value) ==
  /\ At(t, step)
  /\ cfv_start' = value
  /\ Advance(t)
  /\ UNCHANGED <<hfp, hints, op, sess>>

Start(t) == SetStart(t, "start", TRUE)
Stop(t)  == SetStart(t, "stop", FALSE)

\* TEEC_InvokeCommand() and the check_res() after it; test_world_switch(), a
\* benchmark, ignores what its commands return.
Invoked(t, success) ==
  /\ At(t, "invoke")
  /\ IF success \/ call[t].fn = "switch"
     THEN Advance(t) /\ UNCHANGED globals
     ELSE Ends("exited")

\* close_ta(): the global still names the closed session.
CloseTa(t) == At(t, "close") /\ Advance(t) /\ UNCHANGED globals

\* fclose(hfp), of a pointer that may be NULL or closed before.
Fclose(t) ==
  /\ At(t, "fclose")
  /\ IF hfp = "open"
     THEN hfp' = "closed" /\ Advance(t) /\ UNCHANGED <<cfv_start, hints, op, sess>>
     ELSE Ends("crashed")

\* Mutant: only the file is tested.
TestFileOnly(t) ==
  /\ At(t, "hint")
  /\ IF hfp = "NULL" THEN Return(t) ELSE Advance(t)
  /\ UNCHANGED globals

\* if (hfp == NULL || cfv_start == false) return;
TestHint(t) ==
  /\ At(t, "hint")
  /\ IF hfp = "NULL" \/ ~cfv_start THEN Return(t) ELSE Advance(t)
  /\ UNCHANGED globals

\* fprintf(), which crashes or prints nothing if the file was closed since.
PrintHint(t) ==
  /\ At(t, "print")
  /\ \/ /\ hfp = "open"
        /\ hints' = Append(hints, HintOf(call[t].ev))
        /\ Advance(t)
        /\ UNCHANGED <<cfv_start, hfp, op, sess>>
     \/ /\ hfp # "open"
        /\ Advance(t) /\ UNCHANGED globals
     \/ /\ hfp # "open"
        /\ Ends("crashed")

-----------------------------------------------------------------------------

\* Everything a thread does without the TEE.
Local(t) ==
  \/ CallInit(t) \/ CallQuote(t) \/ CallSwitch(t)
  \/ \E e \in Events : CallEvent(t, e)
  \/ Clear(t) \/ SetTypes(t) \/ SetEtype(t) \/ SetA(t) \/ SetB(t)
  \/ OpenRefused(t) \/ Fopen(t) \/ Start(t) \/ Stop(t)
  \/ Fclose(t) \/ TestHint(t) \/ PrintHint(t)

\* main() returns, or the process is killed.
Terminate == Running /\ Ends("ended")

\* The program is started again: the globals are new, the hints file is not.
Restart ==
  /\ ~Running
  /\ status' = "running"
  /\ cfv_start' = FALSE
  /\ hfp' = "NULL"
  /\ op' = ZeroOp
  /\ sess' = None
  /\ call' = [t \in Thread |-> Idle]
  /\ pc' = [t \in Thread |-> 0]
  /\ UNCHANGED hints

Next ==
  \/ \E t \in Thread :
       \/ Local(t)
       \/ CloseTa(t)
       \/ \E s \in Session : OpenTa(t, s)
       \/ \E success \in BOOLEAN : Invoked(t, success)
  \/ Terminate
  \/ Restart

Spec == Init /\ [][Next]_trampolineVars

-----------------------------------------------------------------------------
(* Properties.                                                             *)

HintLines == [sym : {"y", "n", "ICALL", "IBR"}, dest : Fields, src : Fields]
Operations ==
  [types : {LibTypes[fn] : fn \in DOMAIN LibTypes}, etype : Kinds,
   a : (0..Half-1) \X (0..Half-1), b : (0..Half-1) \X (0..Half-1)]

\* Type invariant of the globals and of the threads' control.
TypeOK ==
  /\ status \in {"running", "exited", "crashed", "ended"}
  /\ cfv_start \in BOOLEAN
  /\ hfp \in {"NULL", "open", "closed"}
  /\ hints \in Seq(HintLines)
  /\ op \in Operations
  /\ sess \in Session \cup {None}
  /\ call \in [Thread -> [fn : DOMAIN Path, ev : Events \cup {NoEvent}]]
  /\ pc \in [Thread -> Nat]
  /\ \A t \in Thread : pc[t] <= Len(PathOf(t))

(***************************************************************************)
(* When a thread hands an event to the TEE, the shared operation holds     *)
(* that event - its type, both halves of both fields - and the parameter   *)
(* types of an event (handle_event(), cfv_bellman.c:184-198).              *)
(***************************************************************************)
EventsAsSent ==
  \A t \in Thread :
    At(t, "invoke") /\ call[t].fn \in {"event", "hinted"} =>
      /\ Decode(op) = call[t].ev
      /\ op.types = LibTypes["event"]

=============================================================================
