-------------------------- MODULE AttestationProofs --------------------------
(***************************************************************************)
(* The instrumented program, its library and the engines of its sessions,  *)
(* for a program with one thread: the clients that the engines see are     *)
(* disciplined, the library ends the program only for a reason, what an    *)
(* indirect transfer does was recorded before it is done, and the hints    *)
(* file says what the engine recorded.                                     *)
(***************************************************************************)
EXTENDS Attestation, TrampolineProofs, ControlTransferProofs
LOCAL INSTANCE SequencesExt
LOCAL INSTANCE SequenceTheorems

\* The engines as their own proofs have them, for disciplined clients.
Engine == INSTANCE MeasurementEngineProofs WITH
            Word        <- Fields,
            ClientTypes <- {LibTypes[fn] : fn \in DOMAIN LibTypes}
                             \cup {Expected[fn] : fn \in DOMAIN Expected},
            Disciplined <- TRUE

-----------------------------------------------------------------------------
(* Where the thread is.                                                    *)

\* The thread is in a function, at one of the steps from..to of its path.
In(fn, from, to) == call[Main].fn = fn /\ pc[Main] \in from..to

\* The steps of cfv_init(), cfv_quote() and test_world_switch(), by their
\* numbers.
LEMMA OtherSteps ==
  ASSUME NEW fn \in {"init", "quote", "switch"}, NEW n \in 1..Len(Path[fn]),
         NEW step, Path[fn][n] = step
  PROVE  /\ fn = "init" =>
              /\ n \in 1..6
              /\ n = 1 <=> step = "open"
              /\ n = 2 <=> step = "clear"
              /\ n = 3 <=> step = "types"
              /\ n = 4 <=> step = "fopen"
              /\ n = 5 <=> step = "start"
              /\ n = 6 <=> step = "invoke"
         /\ fn = "quote" =>
              /\ n \in 1..6
              /\ n = 1 <=> step = "clear"
              /\ n = 2 <=> step = "types"
              /\ n = 3 <=> step = "invoke"
              /\ n = 4 <=> step = "stop"
              /\ n = 5 <=> step = "close"
              /\ n = 6 <=> step = "fclose"
         /\ fn = "switch" =>
              /\ n \in 1..7
              /\ n = 1 <=> step = "clear"
              /\ n = 2 <=> step = "types"
              /\ n \in 3..7 <=> step = "invoke"
<1>1. CASE fn = "init"
  <2>1. Path[fn] = <<"open", "clear", "types", "fopen", "start", "invoke">>
    BY <1>1 DEF Path, InitPath
  <2>2. n \in 1..6
    BY <2>1
  <2> QED
    BY <1>1, <2>1, <2>2
<1>2. CASE fn = "quote"
  <2>1. Path[fn] = <<"clear", "types", "invoke", "stop", "close", "fclose">>
    BY <1>2 DEF Path, QuotePath
  <2>2. n \in 1..6
    BY <2>1
  <2> QED
    BY <1>2, <2>1, <2>2
<1>3. CASE fn = "switch"
  <2>1. Path[fn] = <<"clear", "types", "invoke", "invoke", "invoke", "invoke", "invoke">>
    BY <1>3 DEF Path, SwitchPath
  <2>2. n \in 1..7
    BY <2>1
  <2> QED
    BY <1>3, <2>1, <2>2
<1> QED
  BY <1>1, <1>2, <1>3

\* The step the thread is at, in a function that reports no event.
LEMMA OtherPlace ==
  ASSUME IInv, NEW step, At(Main, step), ~ReportsEvent(Main)
  PROVE  /\ call[Main].fn \in {"init", "quote", "switch"}
         /\ call[Main].fn = "init" =>
              /\ pc[Main] \in 1..6
              /\ pc[Main] = 1 <=> step = "open"
              /\ pc[Main] = 2 <=> step = "clear"
              /\ pc[Main] = 3 <=> step = "types"
              /\ pc[Main] = 4 <=> step = "fopen"
              /\ pc[Main] = 5 <=> step = "start"
              /\ pc[Main] = 6 <=> step = "invoke"
         /\ call[Main].fn = "quote" =>
              /\ pc[Main] \in 1..6
              /\ pc[Main] = 1 <=> step = "clear"
              /\ pc[Main] = 2 <=> step = "types"
              /\ pc[Main] = 3 <=> step = "invoke"
              /\ pc[Main] = 4 <=> step = "stop"
              /\ pc[Main] = 5 <=> step = "close"
              /\ pc[Main] = 6 <=> step = "fclose"
         /\ call[Main].fn = "switch" =>
              /\ pc[Main] \in 1..7
              /\ pc[Main] = 1 <=> step = "clear"
              /\ pc[Main] = 2 <=> step = "types"
              /\ pc[Main] \in 3..7 <=> step = "invoke"
<1>1. call[Main].fn \in {"init", "quote", "switch"} /\ call[Main].fn \in DOMAIN Path
  BY MainAssumption, PathLengths DEF ReportsEvent, IInv, Control
<1>2. Len(Path[call[Main].fn]) \in 1..8
  BY <1>1, PathLengths
<1>3. pc[Main] \in 1..Len(Path[call[Main].fn]) /\ Path[call[Main].fn][pc[Main]] = step
  BY <1>2, MainAssumption DEF At, PathOf, IInv, Control
<1> QED
  BY <1>1, <1>3, OtherSteps

\* The steps of a function's path, and the place after the n-th of them.
Steps(fn) == CASE fn = "switch" -> 7 [] fn = "hinted" -> 8 [] OTHER -> 6
After(fn, n) == IF n < Steps(fn) THEN n + 1 ELSE 0

LEMMA PathSteps ==
  ASSUME IInv
  PROVE  /\ call[Main].fn \in {"init", "quote", "event", "hinted", "switch"}
         /\ Len(PathOf(Main)) = Steps(call[Main].fn)
<1>1. call[Main].fn \in {"init", "quote", "event", "hinted", "switch"}
  BY MainAssumption, PathLengths DEF IInv, Control
<1>2. Len(Path["init"]) = 6 /\ Len(Path["quote"]) = 6 /\ Len(Path["event"]) = 6
  BY DEF Path, InitPath, QuotePath, EventPath
<1>3. Len(Path["hinted"]) = 8 /\ Len(Path["switch"]) = 7
  BY DEF Path, HintedPath, SwitchPath
<1> QED
  BY <1>1, <1>2, <1>3 DEF PathOf, Steps

LEMMA Onward ==
  ASSUME IInv, Advance(Main)
  PROVE  /\ pc'[Main] = After(call[Main].fn, pc[Main])
         /\ call' = call /\ status' = status
BY PathSteps, MainAssumption DEF Advance, After, IInv, Control

\* What the thread does by itself is a call of a function, or a step of the one
\* it is in.
LEMMA LocalMoves ==
  ASSUME Local(Main)
  PROVE  \/ /\ pc[Main] = 0
            /\ \/ CallInit(Main) \/ CallQuote(Main) \/ CallSwitch(Main)
               \/ \E e \in Events : CallEvent(Main, e)
         \/ pc[Main] # 0 /\ call' = call
<1>1. CASE \/ CallInit(Main) \/ CallQuote(Main) \/ CallSwitch(Main)
           \/ \E e \in Events : CallEvent(Main, e)
  <2>1. pc[Main] = 0
    BY <1>1 DEF CallInit, CallQuote, CallSwitch, CallEvent, Enter
  <2> QED
    BY <1>1, <2>1
<1>2. CASE Clear(Main) \/ SetTypes(Main) \/ SetEtype(Main) \/ SetA(Main) \/ SetB(Main)
  BY <1>2 DEF Clear, SetTypes, SetEtype, SetA, SetB, StoreOp, At, Advance
<1>3. CASE OpenRefused(Main) \/ Fclose(Main)
  BY <1>3 DEF OpenRefused, Fclose, At, Advance, Ends
<1>4. CASE Fopen(Main) \/ Start(Main) \/ Stop(Main)
  BY <1>4 DEF Fopen, Start, Stop, SetStart, At, Advance
<1>5. CASE TestHint(Main) \/ PrintHint(Main)
  BY <1>5 DEF TestHint, PrintHint, At, Advance, Return, Ends
<1> QED
  BY <1>1, <1>2, <1>3, <1>4, <1>5 DEF Local

-----------------------------------------------------------------------------
(* Every step of the system is a step of the library, or none of it.       *)

\* The site at which the thread reports is one whose event the program has;
\* while the thread is in the library on behalf of a stub, it reports the site.
SiteOK ==
  /\ cpu[Main].at # "program" =>
       EventAt(cpu[Main].site.op, cpu[Main].entry[cpu[Main].site.reg], cpu[Main].site.ret)
         \in Events
  /\ pc[Main] # 0 =>
       \/ cpu[Main].at = "program"
       \/ /\ cpu[Main].at = "within"
          /\ ReportsEvent(Main) /\ call[Main].ev = Reported(Main)
  /\ ReportsEvent(Main) => call[Main].ev \in Events

\* What a stub passes to the library is an event of the program.
LEMMA ReportedEvent ==
  ASSUME CpuInv, SiteOK, cpu[Main].at \in {"called", "within"}
  PROVE  Reported(Main) \in Events
<1>1. cpu[Main].args = <<cpu[Main].entry[cpu[Main].site.reg], cpu[Main].site.ret>>
  BY MainAssumption DEF CpuInv, StateOK, ArgsOK
<1> QED
  BY <1>1 DEF SiteOK, Reported

LEMMA LibraryStep ==
  ASSUME Thread = {Main}, CpuInv, SiteOK, [SystemNext]_vars
  PROVE  [Next]_trampolineVars
<1> DEFINE t == Main
<1>1. t \in Thread
  OBVIOUS
<1>2. CASE Program(t)
  BY <1>2 DEF Program, Next
<1>3. CASE ReachSite(t) \/ RunInserted(t) \/ Reports(t)
  BY <1>3 DEF ReachSite, RunInserted, Reports
<1>4. CASE Report(t)
  <2>1. Reported(t) \in Events
    BY <1>4, ReportedEvent DEF Report, EnterLibrary, Goes
  <2>2. CASE CallEvent(t, Reported(t))
    BY <2>1, <2>2 DEF Next, Local
  <2> QED
    BY <1>4, <2>2 DEF Report
<1>5. CASE Invoke(t)
  <2>1. \A x : (x = "SUCCESS") \in BOOLEAN
    OBVIOUS
  <2>2. \E success \in BOOLEAN : Invoked(t, success)
    BY <1>5, <2>1, Zenon DEF Invoke
  <2> QED
    BY <2>2 DEF Next
<1>6. CASE Connect(t)
  BY <1>6 DEF Connect, Next
<1>7. CASE Disconnect(t)
  BY <1>7 DEF Disconnect, Next
<1>8. ASSUME NEW s \in Session, Reap(s) PROVE UNCHANGED trampolineVars
  BY <1>8 DEF Reap
<1>9. CASE Terminate \/ Restart
  BY <1>9 DEF Next
<1>10. CASE UNCHANGED vars
  BY <1>10 DEF vars
<1> QED
  BY <1>2, <1>3, <1>4, <1>5, <1>6, <1>7, <1>8, <1>9, <1>10 DEF SystemNext

\* The state of the thread around a transfer, and its site.
LEMMA CpuStep ==
  ASSUME Thread = {Main}, CpuInv, [SystemNext]_vars
  PROVE  CpuInv'
<1> DEFINE t == Main
<1>1. t \in Thread
  OBVIOUS
<1>2. CASE UNCHANGED cpu
  BY <1>2, CpuInvNext
<1>3. CASE ReachSite(t) \/ RunInserted(t) \/ Report(t) \/ Reports(t)
  <2>1. TransferNext
    BY <1>3, Zenon DEF ReachSite, RunInserted, Report, Reports, TransferNext
  <2> QED
    BY <2>1, CpuInvNext
<1>4. CASE cpu' = [u \in Thread |-> Elsewhere]
  <2>1. Elsewhere \in Cpu
    BY IdleOK DEF StateOK
  <2> QED
    BY <1>4, <2>1, IdleOK DEF CpuInv
<1>5. CASE Program(t)
  BY <1>2, <1>5 DEF Program
<1> QED
  BY <1>2, <1>3, <1>4, <1>5 DEF SystemNext, vars

\* The code around a transfer goes from one stage to the next, for the same
\* site; what it passes to the library is fixed when the stub has stored it.
LEMMA Onwards ==
  ASSUME CpuInv, Inserted(Main) \/ EnterLibrary(Main) \/ LeaveLibrary(Main)
  PROVE  \/ /\ cpu[Main].at = "transfer" /\ cpu'[Main].at = "program"
            /\ Inserted(Main)
         \/ /\ cpu'[Main].site = cpu[Main].site /\ cpu'[Main].entry = cpu[Main].entry
            /\ \/ /\ cpu[Main].at \in {"site", "pushed", "stub"}
                  /\ cpu'[Main].at \in {"pushed", "stub", "called"}
                  /\ Inserted(Main)
               \/ /\ cpu[Main].at = "called" /\ cpu'[Main].at = "within"
                  /\ EnterLibrary(Main) /\ cpu'[Main].args = cpu[Main].args
               \/ /\ cpu[Main].at = "within" /\ cpu'[Main].at = "returned"
                  /\ LeaveLibrary(Main) /\ cpu'[Main].args = cpu[Main].args
               \/ /\ cpu[Main].at \in {"returned", "restored"}
                  /\ cpu'[Main].at \in {"restored", "transfer"}
                  /\ Inserted(Main) /\ cpu'[Main].args = cpu[Main].args
<1> DEFINE c == cpu[Main]
<1>1. c \in Cpu /\ DOMAIN cpu = Thread
  BY MainAssumption DEF CpuInv
<1>2. ASSUME NEW from, NEW d, Goes(Main, from, d) PROVE c.at = from /\ cpu'[Main] = d
  BY <1>1, <1>2, MainAssumption DEF Goes
<1>3. /\ c = [at |-> c.at, site |-> c.site, regs |-> c.regs, entry |-> c.entry,
              pushed |-> c.pushed, frame |-> c.frame, args |-> c.args]
  BY <1>1 DEF Cpu
<1>4. CASE Push(Main)
  BY <1>1, <1>2, <1>4 DEF Push, Inserted, Cpu
<1>5. CASE Pass(Main)
  BY <1>1, <1>2, <1>5 DEF Pass, Inserted, Cpu
<1>6. CASE Save(Main)
  BY <1>1, <1>2, <1>6 DEF Save, Inserted, Cpu
<1>7. CASE Restore(Main)
  BY <1>1, <1>2, <1>7 DEF Restore, Inserted, Cpu
<1>8. CASE Pop(Main)
  BY <1>1, <1>2, <1>8 DEF Pop, Inserted, Cpu
<1>9. CASE Transfer(Main)
  BY <1>2, <1>9 DEF Transfer, Inserted, Elsewhere
<1>10. CASE EnterLibrary(Main)
  BY <1>1, <1>2, <1>10 DEF EnterLibrary, Cpu
<1>11. CASE LeaveLibrary(Main)
  BY <1>1, <1>2, <1>11 DEF LeaveLibrary, Cpu
<1> QED
  BY <1>4, <1>5, <1>6, <1>7, <1>8, <1>9, <1>10, <1>11 DEF Inserted

\* A site the program comes to reports an event that it has.
LEMMA ReachSiteOK ==
  ASSUME CpuInv, SiteOK, ReachSite(Main)
  PROVE  SiteOK'
<1>1. PICK s \in Site, regs \in Contents : /\ EventAt(s.op, regs[s.reg], s.ret) \in Events
                                          /\ Reach(Main, s, regs)
  BY DEF ReachSite
<1> DEFINE c == [Elsewhere EXCEPT !.at = "site", !.site = s, !.regs = regs, !.entry = regs]
<1>2. c.site = s /\ c.entry = regs
  BY DEF Elsewhere
<1> HIDE DEF c
<1>3. cpu'[Main] = c
  BY <1>1, MainAssumption DEF Reach, Goes, c, CpuInv
<1>4. pc[Main] = 0 /\ UNCHANGED <<pc, call>>
  BY DEF ReachSite, trampolineVars
<1> QED
  BY <1>1, <1>2, <1>3, <1>4 DEF SiteOK, ReportsEvent

\* What SiteOK says of the next state, when the site is the same ...
LEMMA SameSite ==
  ASSUME SiteOK, cpu[Main].at # "program",
         cpu'[Main].site = cpu[Main].site, cpu'[Main].entry = cpu[Main].entry,
         pc'[Main] # 0 => /\ cpu'[Main].at = "within"
                          /\ ReportsEvent(Main)' /\ call'[Main].ev = Reported(Main)',
         ReportsEvent(Main)' => call'[Main].ev \in Events
  PROVE  SiteOK'
BY DEF SiteOK

\* ... or the thread is in the program, and not in the library.
LEMMA NoSite ==
  ASSUME cpu'[Main].at = "program", pc'[Main] = 0,
         ReportsEvent(Main)' => call'[Main].ev \in Events
  PROVE  SiteOK'
BY DEF SiteOK

\* The program goes on through the code around a transfer.
LEMMA TransferSiteOK ==
  ASSUME CpuInv, IInv, SiteOK, RunInserted(Main) \/ Report(Main) \/ Reports(Main)
  PROVE  SiteOK'
<1>1. CASE RunInserted(Main) \/ Reports(Main)
  <2>1. /\ Inserted(Main) \/ LeaveLibrary(Main)
        /\ UNCHANGED <<pc, call>>
    BY <1>1 DEF RunInserted, Reports, trampolineVars
  <2>2. pc[Main] = 0
    <3>1. CASE RunInserted(Main)
      <4>1. cpu[Main].at \notin {"program", "within"}
        BY <3>1 DEF RunInserted, Inserted, Push, Pass, Save, Restore, Pop, Transfer, Goes
      <4> QED
        BY <4>1 DEF SiteOK
    <3>2. CASE Reports(Main)
      BY <3>2 DEF Reports
    <3> QED
      BY <1>1, <3>1, <3>2
  <2>3. ReportsEvent(Main)' => call'[Main].ev \in Events
    BY <2>1 DEF SiteOK, ReportsEvent
  <2>4. CASE cpu'[Main].at = "program"
    BY <2>1, <2>2, <2>3, <2>4, NoSite
  <2>5. CASE /\ cpu[Main].at # "program"
             /\ cpu'[Main].site = cpu[Main].site /\ cpu'[Main].entry = cpu[Main].entry
    BY <2>1, <2>2, <2>3, <2>5, SameSite
  <2> QED
    BY <2>1, <2>4, <2>5, Onwards
<1>3. CASE Report(Main)
  <2>1. /\ EnterLibrary(Main) /\ cpu[Main].at = "called"
        /\ CallEvent(Main, Reported(Main)) \/ UNCHANGED trampolineVars
    BY <1>3 DEF Report, EnterLibrary, Goes
  <2>2. /\ cpu'[Main].at = "within"
        /\ cpu'[Main].site = cpu[Main].site /\ cpu'[Main].entry = cpu[Main].entry
        /\ cpu'[Main].args = cpu[Main].args
    BY <2>1, Onwards
  <2>3. Reported(Main)' = Reported(Main)
    BY <2>2 DEF Reported
  <2>4. CASE UNCHANGED trampolineVars
    <3>1. UNCHANGED <<pc, call>> /\ pc[Main] = 0
      BY <2>1, <2>4 DEF trampolineVars, SiteOK
    <3>2. ReportsEvent(Main)' => call'[Main].ev \in Events
      BY <3>1 DEF SiteOK, ReportsEvent
    <3> QED
      BY <2>1, <2>2, <3>1, <3>2, SameSite
  <2>5. CASE CallEvent(Main, Reported(Main))
    <3>1. PICK fn \in {"event", "hinted"} : \E n : Enter(Main, fn, Reported(Main), n)
      BY <2>5 DEF CallEvent
    <3>2. call'[Main] = [fn |-> fn, ev |-> Reported(Main)]
      BY <3>1, MainAssumption DEF Enter, IInv, Control
    <3>3. Reported(Main) \in Events
      BY <2>1, ReportedEvent
    <3>4. ReportsEvent(Main)' /\ call'[Main].ev = Reported(Main)
      BY <3>2 DEF ReportsEvent
    <3> QED
      BY <2>1, <2>2, <2>3, <3>3, <3>4, SameSite
  <2> QED
    BY <2>1, <2>4, <2>5
<1> QED
  BY <1>1, <1>3

\* What the thread does of the library by itself, with no stub involved, or of
\* an event that a stub reports.
LEMMA ProgramSiteOK ==
  ASSUME IInv, SiteOK, Program(Main)
  PROVE  SiteOK'
<1>1. Local(Main) /\ cpu' = cpu /\ (pc[Main] = 0 => cpu[Main].at = "program")
  BY DEF Program
<1>2. CASE pc[Main] # 0 /\ call' = call
  BY <1>1, <1>2 DEF SiteOK, ReportsEvent, Reported
<1>3. CASE /\ pc[Main] = 0
           /\ \/ CallInit(Main) \/ CallQuote(Main) \/ CallSwitch(Main)
              \/ \E e \in Events : CallEvent(Main, e)
  <2>1. PICK fn, e, n : /\ Enter(Main, fn, e, n)
                        /\ fn \in {"event", "hinted"} => e \in Events
    BY <1>3 DEF CallInit, CallQuote, CallSwitch, CallEvent
  <2>2. call'[Main] = [fn |-> fn, ev |-> e]
    BY <2>1, MainAssumption DEF Enter, IInv, Control
  <2> QED
    BY <1>1, <1>3, <2>1, <2>2 DEF SiteOK, ReportsEvent
<1> QED
  BY <1>1, <1>2, <1>3, LocalMoves

LEMMA SiteStep ==
  ASSUME Thread = {Main}, CpuInv, IInv, SiteOK, [SystemNext]_vars
  PROVE  SiteOK'
<1> DEFINE t == Main
<1>1. CASE Program(t)
  BY <1>1, ProgramSiteOK
<1>2. CASE ReachSite(t)
  BY <1>2, ReachSiteOK
<1>3. CASE RunInserted(t) \/ Report(t) \/ Reports(t)
  BY <1>3, TransferSiteOK
<1>4. ASSUME UNCHANGED <<cpu, call>>, pc[t] # 0 \/ pc'[t] = 0 PROVE SiteOK'
  BY <1>4 DEF SiteOK, ReportsEvent, Reported
<1>5. CASE (Invoke(t) \/ Connect(t) \/ Disconnect(t)) /\ UNCHANGED cpu
  BY <1>4, <1>5
  DEF Invoke, Invoked, Connect, OpenTa, Disconnect, CloseTa, At, Advance, Ends
<1>6. CASE \/ Terminate /\ UNCHANGED <<engine, cpu>>
           \/ \E s \in Session : Reap(s) /\ UNCHANGED cpu
           \/ UNCHANGED vars
  <2>1. UNCHANGED <<cpu, call, pc>>
    BY <1>6 DEF Terminate, Ends, Reap, trampolineVars, vars
  <2> QED
    BY <1>4, <2>1
<1>7. CASE Restart /\ cpu' = [u \in Thread |-> Elsewhere]
  <2>1. /\ call'[t] = Idle /\ pc'[t] = 0 /\ cpu'[t] = Elsewhere
    BY <1>7, MainAssumption DEF Restart
  <2> QED
    BY <2>1 DEF SiteOK, ReportsEvent, Idle, Elsewhere
<1> QED
  BY <1>1, <1>2, <1>3, <1>5, <1>6, <1>7 DEF SystemNext

-----------------------------------------------------------------------------
(* The engine that the library's calls reach.                              *)

\* What the engine of any client does is what the engine of a disciplined one
\* does: its helpers know nothing of the client.
LEMMA SamePanic ==
  ASSUME NEW s
  PROVE  /\ TA!Panic(s) <=> Engine!Panic(s)
         /\ TA!Panic(s) <=> Client!Panic(s)
BY DEF TA!Panic, TA!FreshContext, TA!RawHash, TA!EmptyMap, TA!Returns, TA!Chan, TA!Slots,
       Engine!Panic, Engine!FreshContext, Engine!RawHash, Engine!EmptyMap, Engine!Returns,
       Engine!Chan, Engine!Slots,
       Client!Panic, Client!FreshContext, Client!RawHash, Client!EmptyMap, Client!Returns,
       Client!Chan, Client!Slots

LEMMA SameOutcomes ==
  ASSUME NEW object, NEW chunk, NEW fails
  PROVE  /\ TA!SaveOutcomes(object, chunk, fails) = Engine!SaveOutcomes(object, chunk, fails)
         /\ TA!SaveOutcomes(object, chunk, fails) = Client!SaveOutcomes(object, chunk, fails)
BY DEF TA!SaveOutcomes, TA!AppendOutcomes, TA!PrepareOutcomes, TA!Holding,
       Engine!SaveOutcomes, Engine!AppendOutcomes, Engine!PrepareOutcomes, Engine!Holding,
       Client!SaveOutcomes, Client!AppendOutcomes, Client!PrepareOutcomes, Client!Holding

LEMMA SameEntries ==
  ASSUME NEW s, NEW values
  PROVE  /\ TA!Entries(s, values) = Engine!Entries(s, values)
         /\ TA!Entries(s, values) = Client!Entries(s, values)
BY DEF TA!Entries, Engine!Entries, Client!Entries

LEMMA SameMap ==
  ASSUME NEW map, NEW key, NEW v
  PROVE  /\ TA!Found(map, key) <=> Engine!Found(map, key)
         /\ TA!Found(map, key) <=> Client!Found(map, key)
         /\ TA!Maps(map, key, v) <=> Engine!Maps(map, key, v)
         /\ TA!Maps(map, key, v) <=> Client!Maps(map, key, v)
         /\ TA!Update(map, key, v) = Engine!Update(map, key, v)
         /\ TA!Update(map, key, v) = Client!Update(map, key, v)
<1>1. /\ TA!Hits(map, key) = Engine!Hits(map, key)
      /\ TA!Hits(map, key) = Client!Hits(map, key)
  BY DEF TA!Hits, Engine!Hits, Client!Hits
<1>2. /\ TA!Found(map, key) <=> Engine!Found(map, key)
      /\ TA!Found(map, key) <=> Client!Found(map, key)
      /\ TA!Maps(map, key, v) <=> Engine!Maps(map, key, v)
      /\ TA!Maps(map, key, v) <=> Client!Maps(map, key, v)
  BY <1>1 DEF TA!Found, Engine!Found, Client!Found, TA!Maps, Engine!Maps, Client!Maps
<1>3. /\ TA!LinkedUpdate(map, key, v) = Engine!LinkedUpdate(map, key, v)
      /\ TA!LinkedUpdate(map, key, v) = Client!LinkedUpdate(map, key, v)
  BY DEF TA!Found, Engine!Found, Client!Found, TA!Hits, Engine!Hits, Client!Hits,
         TA!LinkedUpdate, Engine!LinkedUpdate, Client!LinkedUpdate
<1> QED
  BY <1>2, <1>3 DEF TA!Update, Engine!Update, Client!Update

LEMMA SameStores ==
  ASSUME NEW s, NEW e, NEW matched, NEW reported
  PROVE  /\ TA!Stores(s, e, matched, reported) <=> Engine!Stores(s, e, matched, reported)
         /\ TA!Stores(s, e, matched, reported) <=> Client!Stores(s, e, matched, reported)
BY SamePanic, SameMap
DEF TA!Stores, TA!Returns, TA!Allocates, TA!Fits,
    Engine!Stores, Engine!Returns, Engine!Allocates, Engine!Fits,
    Client!Stores, Client!Returns, Client!Allocates, Client!Fits

\* The parameter types a program's commands arrive with.
Known(types) == types \in {LibTypes[fn] : fn \in DOMAIN LibTypes}
                           \cup {Expected[fn] : fn \in DOMAIN Expected}

\* Whatever the engine answers to a client, it may answer to a disciplined one,
\* if the command is in order: opening and closing a session ...
LEMMA SessionAllowed ==
  ASSUME NEW s \in Session,
         \/ TA!OpenSession(s, TA!OpenTypes)
         \/ TA!CloseSession(s) \/ TA!InvokeDead(s)
         \/ \E types, fn : /\ Known(types) /\ fn \in DOMAIN Expected
                          /\ TA!InvokeBad(s, types, Expected[fn])
  PROVE  Engine!Next /\ Client!Next
<1>1. CASE TA!OpenSession(s, TA!OpenTypes)
  <2>1. Known(TA!OpenTypes)
    BY DEF Known, TA!OpenTypes, LibTypes, NoTypes
  <2>2. /\ Engine!OpenSession(s, TA!OpenTypes)
        /\ Client!OpenSession(s, TA!OpenTypes)
    BY <1>1
    DEF TA!OpenSession, TA!OpenTypes, TA!Returns, TA!history, Engine!OpenSession,
    Engine!OpenTypes, Engine!Returns, Engine!history, Client!OpenSession,
    Client!OpenTypes, Client!Returns, Client!history
  <2> QED
    BY <2>1, <2>2 DEF Known, Engine!Next, Client!Next
<1>2. CASE TA!CloseSession(s)
  <2>1. Engine!CloseSession(s) /\ Client!CloseSession(s)
    BY <1>2
    DEF TA!CloseSession, TA!FreshContext, TA!RawHash, TA!EmptyMap, TA!Slots, TA!Chan,
    TA!Returns, Engine!CloseSession, Engine!FreshContext, Engine!RawHash,
    Engine!EmptyMap, Engine!Slots, Engine!Chan, Engine!Returns, Client!CloseSession,
    Client!FreshContext, Client!RawHash, Client!EmptyMap, Client!Slots, Client!Chan,
    Client!Returns
  <2> QED
    BY <2>1 DEF Engine!Next, Client!Next
<1>3. CASE TA!InvokeDead(s)
  <2>1. Engine!InvokeDead(s) /\ Client!InvokeDead(s)
    BY <1>3
    DEF TA!InvokeDead, TA!Returns, TA!history, Engine!InvokeDead, Engine!Returns,
    Engine!history, Client!InvokeDead, Client!Returns, Client!history
  <2> QED
    BY <2>1 DEF Engine!Next, Client!Next
<1>4. ASSUME NEW types, Known(types), NEW fn \in DOMAIN Expected,
             TA!InvokeBad(s, types, Expected[fn])
      PROVE  Engine!Next /\ Client!Next
  <2>1. /\ Engine!InvokeBad(s, types, Expected[fn])
        /\ Client!InvokeBad(s, types, Expected[fn])
    BY <1>4
    DEF TA!InvokeBad, TA!Returns, TA!history, Engine!InvokeBad, Engine!Returns,
    Engine!history, Client!InvokeBad, Client!Returns, Client!history
  <2>2. /\ Expected[fn] \in {Engine!InitTypes, Engine!VerifyTypes, Engine!QuoteTypes}
        /\ Expected[fn] \in {Client!InitTypes, Client!VerifyTypes, Client!QuoteTypes}
    BY
    DEF TA!InitTypes, TA!VerifyTypes, TA!QuoteTypes, Engine!InitTypes, Engine!VerifyTypes,
    Engine!QuoteTypes, Client!InitTypes, Client!VerifyTypes, Client!QuoteTypes, Expected
  <2> QED
    BY <1>4, <2>1, <2>2 DEF Known, Engine!Next, Client!Next
<1> QED
  BY <1>1, <1>2, <1>3, <1>4

\* ... the initialisation of an instance that has none yet ...
LEMMA InitAllowed ==
  ASSUME NEW s \in Session, NEW types, Known(types), TA!CfaInit(s, types), ctx[s].p = 0
  PROVE  Engine!Next /\ Client!Next
<1>1. Engine!CfaInit(s, types) /\ Client!CfaInit(s, types)
  BY
  DEF TA!Accepted, TA!Returns, TA!history, TA!CfaInit, TA!InitTypes, TA!Initialised,
    TA!Take, TA!Fits, TA!NewHash, TA!EmptyMap, TA!Slots, TA!Chan, Engine!Accepted,
    Engine!Returns, Engine!history, Engine!CfaInit, Engine!InitTypes,
    Engine!Initialised, Engine!Take, Engine!Fits, Engine!NewHash, Engine!EmptyMap,
    Engine!Slots, Engine!Chan, Client!Accepted, Client!Returns, Client!history,
    Client!CfaInit, Client!InitTypes, Client!Initialised, Client!Take, Client!Fits,
    Client!NewHash, Client!EmptyMap, Client!Slots, Client!Chan
<1> QED
  BY <1>1 DEF Known, Engine!Next, Client!Next

\* ... the quote of an instance that has ...
LEMMA QuoteAllowed ==
  ASSUME NEW s \in Session, NEW types, Known(types), TA!CfaQuote(s, types), ctx[s].initialized
  PROVE  Engine!Next /\ Client!Next
<1>1. Engine!CfaQuote(s, types)
  BY DEF TA!Accepted, TA!Returns, TA!history, TA!CfaQuote, TA!QuoteTypes, TA!Final,
        TA!DigestOf, TA!Own, TA!Blob, TA!Chan, TA!Entries, TA!SaveOutcomes,
        TA!AppendOutcomes, TA!PrepareOutcomes, TA!Holding, Engine!Accepted,
        Engine!Returns, Engine!history, Engine!CfaQuote, Engine!QuoteTypes,
        Engine!Final, Engine!DigestOf, Engine!Own, Engine!Blob, Engine!Chan,
        Engine!Entries, Engine!SaveOutcomes, Engine!AppendOutcomes,
        Engine!PrepareOutcomes, Engine!Holding
<1>2. Client!CfaQuote(s, types)
  BY DEF TA!Accepted, TA!Returns, TA!history, TA!CfaQuote, TA!QuoteTypes, TA!Final,
        TA!DigestOf, TA!Own, TA!Blob, TA!Chan, TA!Entries, TA!SaveOutcomes,
        TA!AppendOutcomes, TA!PrepareOutcomes, TA!Holding, Client!Accepted,
        Client!Returns, Client!history, Client!CfaQuote, Client!QuoteTypes,
        Client!Final, Client!DigestOf, Client!Own, Client!Blob, Client!Chan,
        Client!Entries, Client!SaveOutcomes, Client!AppendOutcomes,
        Client!PrepareOutcomes, Client!Holding
<1> QED
  BY <1>1, <1>2 DEF Known, Engine!Next, Client!Next

\* What handle_event() of the engine may do with event e.
Handles(s, types, e) ==
  \/ TA!ControlEvent(s, types, e)
  \/ TA!AddressEvent(s, types, e)
  \/ TA!CondEvent(s, types, e)
  \/ TA!DefEvent(s, types, e)
  \/ TA!UseEvent(s, types, e)
  \/ TA!UnknownEvent(s, types, e)

LEMMA TraceAllowed ==
  ASSUME NEW s, NEW types, NEW ch, NEW v, TA!TraceEvent(s, types, ch, v), ctx[s].initialized
  PROVE  Engine!TraceEvent(s, types, ch, v) /\ Client!TraceEvent(s, types, ch, v)
BY SamePanic, SameOutcomes, SameEntries
DEF TA!Accepted, TA!Returns, TA!history, TA!VerifyTypes, TA!Verify, TA!TraceEvent,
    TA!Full, Engine!Accepted, Engine!Returns, Engine!history, Engine!VerifyTypes,
    Engine!Verify, Engine!TraceEvent, Engine!Full, Client!Accepted, Client!Returns,
    Client!history, Client!VerifyTypes, Client!Verify, Client!TraceEvent, Client!Full

\* ... and its events.
LEMMA EventAllowed ==
  ASSUME NEW s \in Session, NEW types, Known(types), NEW e \in Events,
         Handles(s, types, e), ctx[s].initialized
  PROVE  Engine!Next /\ Client!Next
<1>1. CASE TA!ControlEvent(s, types, e)
  <2>1. Engine!ControlEvent(s, types, e) /\ Client!ControlEvent(s, types, e)
    BY <1>1
    DEF TA!Accepted, TA!Returns, TA!history, TA!VerifyTypes, TA!Verify, TA!ControlEvent,
    Engine!Accepted, Engine!Returns, Engine!history, Engine!VerifyTypes, Engine!Verify,
    Engine!ControlEvent, Client!Accepted, Client!Returns, Client!history,
    Client!VerifyTypes, Client!Verify, Client!ControlEvent
  <2> QED
    BY <2>1 DEF Known, Engine!Next, Client!Next
<1>2. CASE TA!AddressEvent(s, types, e)
  <2>1. Engine!AddressEvent(s, types, e) /\ Client!AddressEvent(s, types, e)
    BY <1>2, TraceAllowed
    DEF TA!AddressEvent, Engine!AddressEvent, Client!AddressEvent
  <2> QED
    BY <2>1 DEF Known, Engine!Next, Client!Next
<1>3. CASE TA!CondEvent(s, types, e)
  <2>1. Engine!CondEvent(s, types, e) /\ Client!CondEvent(s, types, e)
    BY <1>3, TraceAllowed
    DEF TA!CondEvent, TA!CondByte, Engine!CondEvent, Engine!CondByte, Client!CondEvent,
    Client!CondByte
  <2> QED
    BY <2>1 DEF Known, Engine!Next, Client!Next
<1>4. CASE TA!DefEvent(s, types, e)
  <2>1. Engine!DefEvent(s, types, e) /\ Client!DefEvent(s, types, e)
    BY <1>4, SameStores, SamePanic
    DEF TA!DefEvent, TA!WildLookup, TA!Accepted, TA!Returns, TA!history, TA!VerifyTypes,
    TA!Verify, Engine!DefEvent, Engine!WildLookup, Engine!Accepted, Engine!Returns,
    Engine!history, Engine!VerifyTypes, Engine!Verify, Client!DefEvent,
    Client!WildLookup, Client!Accepted, Client!Returns, Client!history,
    Client!VerifyTypes, Client!Verify
  <2> QED
    BY <2>1 DEF Known, Engine!Next, Client!Next
<1>5. CASE TA!UseEvent(s, types, e)
  <2>1. Engine!UseEvent(s, types, e) /\ Client!UseEvent(s, types, e)
    BY <1>5, SameStores, SamePanic, SameMap
    DEF TA!UseEvent, TA!WildLookup, TA!Agrees, TA!Accepted, TA!Returns, TA!history,
    TA!VerifyTypes, TA!Verify, Engine!UseEvent, Engine!WildLookup, Engine!Agrees,
    Engine!Accepted, Engine!Returns, Engine!history, Engine!VerifyTypes, Engine!Verify,
    Client!UseEvent, Client!WildLookup, Client!Agrees, Client!Accepted, Client!Returns,
    Client!history, Client!VerifyTypes, Client!Verify
  <2> QED
    BY <2>1 DEF Known, Engine!Next, Client!Next
<1>6. CASE TA!UnknownEvent(s, types, e)
  <2>1. Engine!UnknownEvent(s, types, e) /\ Client!UnknownEvent(s, types, e)
    BY <1>6
    DEF TA!UnknownEvent, TA!Accepted, TA!Returns, TA!history, TA!VerifyTypes, TA!Verify,
    Engine!UnknownEvent, Engine!Accepted, Engine!Returns, Engine!history,
    Engine!VerifyTypes, Engine!Verify, Client!UnknownEvent, Client!Accepted,
    Client!Returns, Client!history, Client!VerifyTypes, Client!Verify
  <2> QED
    BY <2>1 DEF Known, Engine!Next, Client!Next
<1> QED
  BY <1>1, <1>2, <1>3, <1>4, <1>5, <1>6 DEF Handles

-----------------------------------------------------------------------------
(* What the commands do to an instance.                                    *)

\* An instance that an event may be sent to, and one cfa_init() may be sent to.
Ready(s) == session[s] = "open" /\ ctx[s].initialized
Blank(s) == session[s] = "open" /\ ctx[s].p = 0

\* The engines' invariant, and that what a closed session left behind is blank.
EngineInv == /\ Engine!LogInv
             /\ \A s \in Session : session[s] = "closed" => ctx[s].p = 0

\* The types of the engine's state.
LEMMA SessionTypes ==
  ASSUME EngineInv, NEW s \in Session
  PROVE  /\ session \in [Session -> {"closed", "open", "dead"}]
         /\ DOMAIN ctx = Session
         /\ ctx[s] \in Engine!Contexts
         /\ ctx[s].S.fed \in Seq(Fields \X Fields)
         /\ ctx[s].buf \in [Engine!Chan -> Seq(Fields \cup {0, 1})]
         /\ session[s] # "open" => ~ctx[s].initialized
         /\ ctx[s].initialized => ctx[s].p # 0
<1>1. Engine!LogInv
  BY DEF EngineInv
<1>2. /\ session \in [Session -> {"closed", "open", "dead"}]
      /\ DOMAIN ctx = Session
  BY <1>1 DEF Engine!LogInv, Engine!IInv, Engine!EnvironmentOK, Engine!ContextsOK
<1>3. ctx[s] \in Engine!Contexts
  BY <1>1 DEF Engine!LogInv, Engine!IInv, Engine!ContextsOK, Engine!ContextOK
<1>5. /\ session[s] # "open" => ~ctx[s].initialized
      /\ ctx[s].initialized => ctx[s].p # 0
  BY <1>1 DEF Engine!LogInv, Engine!ProtocolOK
<1>4. /\ ctx[s].S.fed \in Seq(Fields \X Fields)
      /\ ctx[s].buf \in [Engine!Chan -> Seq(Fields \cup {0, 1})]
  BY <1>3 DEF Engine!Contexts, Engine!HashStates
<1> QED
  BY <1>2, <1>3, <1>4, <1>5

\* A command changes one instance only.
Alone(s) == \A x \in Session \ {s} : session'[x] = session[x] /\ ctx'[x] = ctx[x]

\* x is the last of sequence q.
Latest(q, x) == Len(q) > 0 /\ q[Len(q)] = x

\* What the engine was told last of a return, or of an indirect call or jump.
Noted(c, e) == /\ e.etype = "CTRL" => Latest(c.S.fed, <<e.a, e.b>>)
               /\ e.etype \in {"ICALL", "IBR"} => Latest(c.buf["addr"], e.b)

LEMMA LatestAppended == ASSUME NEW S, NEW q \in Seq(S), NEW x PROVE Latest(Append(q, x), x)
<1>1. Len(Append(q, x)) = Len(q) + 1 /\ Append(q, x)[Len(q) + 1] = x /\ Len(q) \in Nat
  OBVIOUS
<1> QED
  BY <1>1 DEF Latest

LEMMA OpenEffect ==
  ASSUME EngineInv, NEW s \in Session, TA!OpenSession(s, TA!OpenTypes)
  PROVE  Alone(s) /\ session'[s] = "open" /\ ctx'[s].p = 0
BY SessionTypes DEF EngineInv, TA!OpenSession, Alone

LEMMA CloseEffect ==
  ASSUME EngineInv, NEW s \in Session, TA!CloseSession(s)
  PROVE  Alone(s) /\ session'[s] = "closed" /\ ctx'[s].p = 0
<1>1. TA!FreshContext.p = 0
  BY DEF TA!FreshContext
<1> HIDE DEF TA!FreshContext
<1> QED
  BY <1>1, SessionTypes DEF TA!CloseSession, Alone

LEMMA PanicEffect ==
  ASSUME EngineInv, NEW s \in Session, TA!Panic(s)
  PROVE  Alone(s) /\ session'[s] = "dead" /\ result' = "TARGET_DEAD"
BY SessionTypes DEF TA!Panic, TA!Returns, Alone

LEMMA InitEffect ==
  ASSUME EngineInv, NEW s \in Session, NEW types, TA!CfaInit(s, types)
  PROVE  Alone(s) /\ session'[s] = "open" /\ ctx'[s].initialized /\ result' = "SUCCESS"
<1>1. TA!Initialised(ctx[s]).initialized
  BY SessionTypes DEF TA!Initialised, Engine!Contexts
<1> HIDE DEF TA!Initialised
<1> QED
  BY <1>1, SessionTypes DEF TA!CfaInit, TA!Accepted, TA!Returns, Alone

LEMMA QuoteEffect ==
  ASSUME EngineInv, NEW s \in Session, NEW types, TA!CfaQuote(s, types)
  PROVE  Alone(s) /\ session'[s] = "open" /\ result' = "SUCCESS"
BY SessionTypes DEF TA!CfaQuote, TA!Accepted, TA!Returns, Alone

\* The fields of a context that an event changes.
LEMMA ContextFields ==
  ASSUME NEW c \in Engine!Contexts, NEW q
  PROVE  /\ [c EXCEPT !.S.fed = q].initialized = c.initialized
         /\ [c EXCEPT !.S.fed = q].S.fed = q
         /\ \A ch \in Engine!Chan : /\ [c EXCEPT !.buf[ch] = q].initialized = c.initialized
                                   /\ [c EXCEPT !.buf[ch] = q].buf[ch] = q
<1>1. /\ c = [c EXCEPT !.p = c.p]
      /\ DOMAIN c = {"initialized", "p", "S", "digest", "alloc", "buf", "map", "heap"}
      /\ DOMAIN c.S = {"keyed", "fed", "last"} /\ DOMAIN c.buf = Engine!Chan
  BY DEF Engine!Contexts, Engine!HashStates
<1> QED
  BY <1>1

\* An event that is handled is noted, or its instance panics.
LEMMA TraceEffect ==
  ASSUME EngineInv, NEW s \in Session, NEW types, NEW ch \in Engine!Chan, NEW v,
         TA!TraceEvent(s, types, ch, v)
  PROVE  /\ Alone(s)
         /\ \/ /\ session'[s] = session[s] /\ result' = "SUCCESS"
               /\ ctx'[s].initialized = ctx[s].initialized
               /\ Latest(ctx'[s].buf[ch], v)
            \/ session'[s] = "dead" /\ result' = "TARGET_DEAD"
<1>1. CASE TA!Panic(s)
  BY <1>1, PanicEffect
<1>2. ASSUME NEW q, Latest(q, v), ctx' = [ctx EXCEPT ![s].buf[ch] = q],
             session' = session, result' = "SUCCESS"
      PROVE  /\ Alone(s)
             /\ session'[s] = session[s] /\ result' = "SUCCESS"
             /\ ctx'[s].initialized = ctx[s].initialized
             /\ Latest(ctx'[s].buf[ch], v)
  <2>1. ctx'[s] = [ctx[s] EXCEPT !.buf[ch] = q] /\ Alone(s)
    BY <1>2, SessionTypes DEF Alone
  <2>2. ctx'[s].initialized = ctx[s].initialized /\ ctx'[s].buf[ch] = q
    BY <2>1, SessionTypes, ContextFields
  <2> QED
    BY <1>2, <2>1, <2>2
<1>3. Latest(<<v>>, v) /\ Latest(Append(ctx[s].buf[ch], v), v)
  BY SessionTypes, LatestAppended DEF Latest
<1>4. ctx' = [ctx EXCEPT ![s].buf[ch] = Append(@, v)]
        => ctx' = [ctx EXCEPT ![s].buf[ch] = Append(ctx[s].buf[ch], v)]
  BY SessionTypes DEF Engine!Contexts
<1> QED
  BY <1>1, <1>2, <1>3, <1>4 DEF TA!TraceEvent, TA!Returns

LEMMA StoresEffect ==
  ASSUME EngineInv, NEW s \in Session, NEW e, NEW matched, NEW reported,
         TA!Stores(s, e, matched, reported)
  PROVE  /\ Alone(s)
         /\ \/ /\ session'[s] = session[s] /\ result' = "SUCCESS"
               /\ ctx'[s].initialized = ctx[s].initialized
            \/ session'[s] = "dead" /\ result' = "TARGET_DEAD"
<1>1. CASE TA!Panic(s)
  BY <1>1, PanicEffect
<1>2. CASE ~TA!Panic(s)
  <2>1. /\ ctx' = [ctx EXCEPT ![s].map = TA!Update(ctx[s].map, e.a, e.b),
                             ![s].heap = IF TA!Allocates(ctx[s].map, e.a)
                                         THEN @ + NodeCost ELSE @]
        /\ session' = session /\ result' = "SUCCESS"
    BY <1>2 DEF TA!Stores, TA!Returns
  <2>2. ctx[s] \in Engine!Contexts /\ DOMAIN ctx = Session
    BY SessionTypes
  <2>3. ctx'[s].initialized = ctx[s].initialized /\ Alone(s)
    BY <2>1, <2>2 DEF Alone, Engine!Contexts
  <2> QED
    BY <2>1, <2>2, <2>3
<1> QED
  BY <1>1, <1>2

LEMMA EventEffect ==
  ASSUME EngineInv, NEW s \in Session, NEW types, NEW e, Handles(s, types, e)
  PROVE  /\ Alone(s) /\ session[s] = "open"
         /\ \/ /\ session'[s] = "open" /\ result' = "SUCCESS"
               /\ ctx'[s].initialized = ctx[s].initialized
               /\ Noted(ctx'[s], e)
            \/ session'[s] = "dead" /\ result' = "TARGET_DEAD"
<1>1. session[s] = "open"
  BY DEF Handles, TA!ControlEvent, TA!AddressEvent, TA!CondEvent, TA!TraceEvent, TA!DefEvent,
         TA!UseEvent, TA!UnknownEvent, TA!Verify, TA!Accepted
<1>2. CASE TA!ControlEvent(s, types, e)
  <2>1. /\ ctx' = [ctx EXCEPT ![s].S.fed = Append(@, <<e.a, e.b>>)]
        /\ session' = session /\ result' = "SUCCESS" /\ e.etype = "CTRL"
    BY <1>2 DEF TA!ControlEvent, TA!Returns
  <2>2. ctx'[s] = [ctx[s] EXCEPT !.S.fed = Append(ctx[s].S.fed, <<e.a, e.b>>)] /\ Alone(s)
    BY <2>1, SessionTypes DEF Alone, Engine!Contexts, Engine!HashStates
  <2>3. /\ ctx'[s].initialized = ctx[s].initialized
        /\ ctx'[s].S.fed = Append(ctx[s].S.fed, <<e.a, e.b>>)
    <3> DEFINE q == Append(ctx[s].S.fed, <<e.a, e.b>>)
    <3>1. ctx[s] \in Engine!Contexts /\ ctx'[s] = [ctx[s] EXCEPT !.S.fed = q]
      BY <2>2, SessionTypes
    <3> HIDE DEF q
    <3>2. /\ [ctx[s] EXCEPT !.S.fed = q].initialized = ctx[s].initialized
          /\ [ctx[s] EXCEPT !.S.fed = q].S.fed = q
      BY <3>1, ContextFields
    <3> QED
      BY <3>1, <3>2 DEF q
  <2>4. Latest(ctx'[s].S.fed, <<e.a, e.b>>)
    <3>1. ctx[s].S.fed \in Seq(Fields \X Fields)
      BY SessionTypes
    <3>2. Latest(Append(ctx[s].S.fed, <<e.a, e.b>>), <<e.a, e.b>>)
      BY <3>1, LatestAppended
    <3> QED
      BY <2>3, <3>2
  <2> QED
    BY <1>1, <2>1, <2>2, <2>3, <2>4 DEF Noted
<1>3. CASE TA!AddressEvent(s, types, e)
  BY <1>1, <1>3, TraceEffect DEF TA!AddressEvent, Engine!Chan, Noted
<1>4. CASE TA!CondEvent(s, types, e)
  BY <1>1, <1>4, TraceEffect DEF TA!CondEvent, Engine!Chan, Noted
<1>5. CASE TA!DefEvent(s, types, e)
  BY <1>1, <1>5, StoresEffect, PanicEffect DEF TA!DefEvent, Noted
<1>6. CASE TA!UseEvent(s, types, e)
  BY <1>1, <1>6, StoresEffect, PanicEffect DEF TA!UseEvent, TA!Returns, Alone, Noted
<1>7. CASE TA!UnknownEvent(s, types, e)
  BY <1>1, <1>7 DEF TA!UnknownEvent, TA!Returns, Alone, Noted
<1> QED
  BY <1>2, <1>3, <1>4, <1>5, <1>6, <1>7 DEF Handles

-----------------------------------------------------------------------------
(* The library, its session and its file, between two steps.               *)

\* cfv_init() has not opened its session yet, nor was the quote taken.
Between == \/ pc[Main] = 0
           \/ call[Main].fn \in {"event", "hinted", "switch"}
           \/ In("init", 1, 1) \/ In("quote", 1, 3)

\* cfv_start says whether the library's session is one that takes events.
LinkOK ==
  /\ Between => IF cfv_start THEN sess # None /\ Ready(sess) ELSE ~Connected
  /\ In("init", 2, 6) => sess # None /\ Blank(sess)
  /\ In("init", 6, 6) => cfv_start
  /\ ReportsEvent(Main) /\ pc[Main] \in 1..6 => cfv_start
  /\ In("quote", 5, 6) => ~cfv_start
  /\ In("quote", 6, 6) => ~Connected

\* ... and whether the hints file can be printed to, if it could be opened.
FileOK ==
  /\ Between /\ hfp = "closed" => ~cfv_start
  /\ In("init", 5, 6) \/ In("quote", 4, 6) => hfp # "closed"
  /\ In("hinted", 8, 8) => hfp = "open"

\* A thread in the library is at a step it has.
LEMMA PlaceType ==
  ASSUME IInv
  PROVE  /\ call[Main].fn \in {"init", "quote", "event", "hinted", "switch"}
         /\ pc[Main] \in 0..8
         /\ call[Main].fn \in {"init", "quote", "event"} => pc[Main] \in 0..6
         /\ call[Main].fn = "switch" => pc[Main] \in 0..7
<1>1. pc[Main] \in Nat /\ pc[Main] <= Len(PathOf(Main))
  BY MainAssumption DEF IInv, Control
<1> QED
  <2>1. pc[Main] <= Steps(call[Main].fn)
    BY <1>1, PathSteps
  <2> QED
    BY <1>1, <2>1, PathSteps DEF Steps

\* Calls of the library begin between operations.
LEMMA EnterKeeps ==
  ASSUME IInv, LinkOK, FileOK, NEW fn, NEW e, NEW n, Enter(Main, fn, e, n),
         UNCHANGED engine,
         \/ n = 1 /\ fn \in {"init", "quote", "switch"}
         \/ n = 1 /\ fn \in {"event", "hinted"} /\ cfv_start
         \/ n = 7 /\ fn = "hinted"
  PROVE  LinkOK' /\ FileOK'
<1>1. /\ call'[Main].fn = fn /\ pc'[Main] = n /\ pc[Main] = 0
      /\ UNCHANGED <<cfv_start, hfp, sess, session, ctx>>
  BY MainAssumption DEF Enter, globals, engine, IInv, Control
<1> QED
  BY <1>1 DEF LinkOK, FileOK, Between, In, ReportsEvent, Ready, Connected

\* The stores into op change neither.
LEMMA StoreKeeps ==
  ASSUME IInv, LinkOK, FileOK, NEW step \in {"clear", "types", "etype", "a", "b"}, NEW o,
         StoreOp(Main, step, o), UNCHANGED engine
  PROVE  LinkOK' /\ FileOK'
<1>1. /\ call' = call /\ pc'[Main] = After(call[Main].fn, pc[Main])
      /\ UNCHANGED <<cfv_start, hfp, sess, session, ctx>> /\ At(Main, step)
  BY Onward DEF StoreOp, engine
<1>2. CASE ReportsEvent(Main)
  <2>1. pc[Main] \in 1..5
    BY <1>1, <1>2, EventPlace, MainAssumption
  <2>2. pc'[Main] \in 1..6
    BY <1>1, <1>2, <2>1 DEF After, Steps, ReportsEvent
  <2> QED
    BY <1>1, <1>2, <2>1, <2>2 DEF LinkOK, FileOK, Between, In, ReportsEvent, Ready, Connected
<1>3. CASE ~ReportsEvent(Main)
  <2>1. \/ In("init", 2, 3) /\ pc'[Main] \in 3..4
        \/ In("quote", 1, 2) /\ pc'[Main] \in 2..3
        \/ In("switch", 1, 2) /\ pc'[Main] \in 2..3
    BY <1>1, <1>3, OtherPlace DEF In, After, Steps
  <2> QED
    BY <1>1, <2>1 DEF LinkOK, FileOK, Between, In, ReportsEvent, Ready, Blank, Connected
<1> QED
  BY <1>2, <1>3

\* cfv_init() opens its file, and sets cfv_start.
LEMMA InitKeeps ==
  ASSUME IInv, LinkOK, FileOK, Fopen(Main) \/ Start(Main), UNCHANGED engine
  PROVE  LinkOK' /\ FileOK'
<1>1. /\ call' = call /\ pc'[Main] = After(call[Main].fn, pc[Main])
      /\ UNCHANGED <<sess, session, ctx>>
  BY Onward DEF Fopen, Start, SetStart, engine
<1>2. CASE Fopen(Main)
  <2>1. At(Main, "fopen") /\ UNCHANGED cfv_start /\ hfp' # "closed"
    BY <1>2 DEF Fopen
  <2>2. ~ReportsEvent(Main)
    BY <2>1, EventPlace, MainAssumption
  <2>3. In("init", 4, 4) /\ pc'[Main] = 5
    BY <1>1, <2>1, <2>2, OtherPlace DEF In, After, Steps
  <2> QED
    BY <1>1, <2>1, <2>3 DEF LinkOK, FileOK, Between, In, ReportsEvent, Ready, Blank, Connected
<1>3. CASE Start(Main)
  <2>1. At(Main, "start") /\ cfv_start' /\ UNCHANGED hfp
    BY <1>3 DEF Start, SetStart
  <2>2. ~ReportsEvent(Main)
    BY <2>1, EventPlace, MainAssumption
  <2>3. In("init", 5, 5) /\ pc'[Main] = 6
    BY <1>1, <2>1, <2>2, OtherPlace DEF In, After, Steps
  <2> QED
    BY <1>1, <2>1, <2>3 DEF LinkOK, FileOK, Between, In, ReportsEvent, Ready, Blank, Connected
<1> QED
  BY <1>2, <1>3

\* cfv_quote() clears cfv_start, and closes its file.
LEMMA QuoteKeeps ==
  ASSUME IInv, LinkOK, FileOK, Stop(Main) \/ Fclose(Main), Running', UNCHANGED engine
  PROVE  LinkOK' /\ FileOK'
<1>1. CASE Stop(Main)
  <2>1. /\ call' = call /\ pc'[Main] = After(call[Main].fn, pc[Main])
        /\ UNCHANGED <<sess, session, ctx, hfp>> /\ ~cfv_start' /\ At(Main, "stop")
    BY <1>1, Onward DEF Stop, SetStart, engine
  <2>2. ~ReportsEvent(Main)
    BY <2>1, EventPlace, MainAssumption
  <2>3. In("quote", 4, 4) /\ pc'[Main] = 5
    BY <2>1, <2>2, OtherPlace DEF In, After, Steps
  <2> QED
    BY <2>1, <2>3 DEF LinkOK, FileOK, Between, In, ReportsEvent, Ready, Blank, Connected
<1>2. CASE Fclose(Main)
  <2>1. At(Main, "fclose") /\ Advance(Main) /\ UNCHANGED <<cfv_start, sess, session, ctx>>
    BY <1>2 DEF Fclose, Ends, Running, engine
  <2>2. call' = call /\ pc'[Main] = After(call[Main].fn, pc[Main])
    BY <2>1, Onward
  <2>3. ~ReportsEvent(Main)
    BY <2>1, EventPlace, MainAssumption
  <2>4. In("quote", 6, 6) /\ pc'[Main] = 0
    BY <2>1, <2>2, <2>3, OtherPlace DEF In, After, Steps
  <2> QED
    BY <2>1, <2>2, <2>4 DEF LinkOK, FileOK, Between, In, ReportsEvent, Ready, Connected
<1> QED
  BY <1>1, <1>2

\* A hint is printed, or it is not.
LEMMA HintKeeps ==
  ASSUME IInv, LinkOK, FileOK, TestHint(Main) \/ PrintHint(Main), Running', UNCHANGED engine
  PROVE  LinkOK' /\ FileOK'
<1>1. PICK step \in {"hint", "print"} : At(Main, step)
  BY DEF TestHint, PrintHint
<1>2. UNCHANGED <<cfv_start, hfp, sess, session, ctx>>
  BY DEF TestHint, PrintHint, Ends, Running, globals, engine
<1>3. ReportsEvent(Main) /\ pc[Main] \in 7..8
  BY <1>1, OtherPlace, EventPlace, MainAssumption
<1>4. call' = call
  BY DEF TestHint, PrintHint, Advance, Return, Ends
<1>5. call[Main].fn = "hinted"
  BY <1>3, PlaceType DEF ReportsEvent
<1>6. \/ pc'[Main] = 0
      \/ pc'[Main] = 8 /\ hfp # "NULL" /\ cfv_start
  <2>1. CASE TestHint(Main)
    <3>1. At(Main, "hint")
      BY <2>1 DEF TestHint
    <3>2. pc[Main] = 7
      BY <1>3, <3>1, EventPlace, MainAssumption
    <3>3. CASE Return(Main)
      BY <3>3, MainAssumption DEF Return, IInv, Control
    <3>4. CASE Advance(Main) /\ hfp # "NULL" /\ cfv_start
      BY <1>5, <3>2, <3>4, Onward DEF After, Steps
    <3> QED
      BY <2>1, <3>3, <3>4 DEF TestHint
  <2>2. CASE PrintHint(Main)
    <3>1. At(Main, "print")
      BY <2>2 DEF PrintHint
    <3>2. pc[Main] = 8
      BY <1>3, <3>1, EventPlace, MainAssumption
    <3>3. Advance(Main)
      BY <2>2, <3>1 DEF PrintHint, Ends, Running
    <3> QED
      BY <1>5, <3>2, <3>3, Onward DEF After, Steps
  <2> QED
    BY <2>1, <2>2
<1>7. hfp \in {"NULL", "open", "closed"}
  BY DEF IInv, GlobalsOK
<1> QED
  BY <1>2, <1>4, <1>5, <1>6, <1>7 DEF LinkOK, FileOK, Between, In, ReportsEvent, Ready, Connected

-----------------------------------------------------------------------------
(* Calls of the TEE.                                                       *)

\* The parameter types of an operation that is about to be invoked.
TypesOK ==
  In("init", 4, 6) \/ In("quote", 3, 3) \/ In("switch", 3, 7) =>
    op.types = LibTypes[call[Main].fn]

\* The types that reach the engine are among those the program passes.
LEMMA TypesKnown ==
  ASSUME IInv, NEW fn \in DOMAIN Expected
  PROVE  Known(op.types) /\ Known(Types(fn))
<1>1. op.types \in {LibTypes[f] : f \in DOMAIN LibTypes}
  BY DEF IInv, GlobalsOK, Operations
<1> QED
  BY <1>1 DEF Known, Types

\* The functions whose command the engine knows.
LEMMA ExpectedFunctions == DOMAIN Expected = {"init", "quote", "event", "hinted"}
BY DEF Expected

\* The global session is one of the TEE's, once there is one.
LEMMA ConnectedSession == ASSUME IInv, sess # None PROVE sess \in Session
BY DEF IInv, GlobalsOK

\* Where the thread is when it invokes a command.
LEMMA InvokePlace ==
  ASSUME IInv, At(Main, "invoke")
  PROVE  \/ In("init", 6, 6) /\ After(call[Main].fn, pc[Main]) = 0
         \/ In("quote", 3, 3) /\ After(call[Main].fn, pc[Main]) = 4
         \/ In("switch", 3, 7) /\ After(call[Main].fn, pc[Main]) \in {0} \cup 4..7
         \/ In("event", 6, 6) /\ After(call[Main].fn, pc[Main]) = 0
         \/ In("hinted", 6, 6) /\ After(call[Main].fn, pc[Main]) = 7
<1>1. CASE ReportsEvent(Main)
  BY <1>1, EventPlace, MainAssumption DEF ReportsEvent, In, After, Steps
<1>2. CASE ~ReportsEvent(Main)
  BY <1>2, OtherPlace DEF In, After, Steps
<1> QED
  BY <1>1, <1>2

\* The operation holds the event that the thread reports.
LEMMA EventSent ==
  ASSUME IInv, Filled(Main), ReportsEvent(Main), pc[Main] = 6
  PROVE  Decode(op) = call[Main].ev /\ op.types = LibTypes["event"]
<1>1. /\ op.types = LibTypes["event"] /\ op.etype = call[Main].ev.etype
      /\ op.a = Halves(call[Main].ev.a) /\ op.b = Halves(call[Main].ev.b)
  BY DEF Filled
<1>2. call[Main].ev \in Events \cup {NoEvent}
  BY MainAssumption DEF IInv, Control
<1>3. call[Main].ev \in [etype : Kinds, a : Fields, b : Fields]
  BY <1>2, TrampolineAssumption, ZeroIsAField DEF NoEvent, Kinds
<1>4. Decode(op) = [etype |-> call[Main].ev.etype, a |-> call[Main].ev.a, b |-> call[Main].ev.b]
  BY <1>1, <1>3, HalvesJoin DEF Decode
<1> QED
  BY <1>1, <1>3, <1>4

\* What a command of the library does: what the engine was told, and whether
\* the program goes on.
Served ==
  /\ Engine!Next /\ Client!Next
  /\ Alone(sess)
  /\ session'[sess] = "closed" => ctx'[sess].p = 0
  /\ call[Main].fn = "init" /\ result' = "SUCCESS" =>
       session'[sess] = "open" /\ ctx'[sess].initialized
  /\ call[Main].fn = "switch" => UNCHANGED <<session, ctx>>
  /\ ReportsEvent(Main) /\ result' = "SUCCESS" =>
       session'[sess] = "open" /\ ctx'[sess].initialized /\ Noted(ctx'[sess], call[Main].ev)

LEMMA ServeIs ==
  ASSUME IInv, Filled(Main), SiteOK, EngineInv, LinkOK,
         At(Main, "invoke"), Connected, Serve(call[Main].fn, sess)
  PROVE  Served
<1> DEFINE fn == call[Main].fn
<1>1. sess \in Session
  BY ConnectedSession DEF Connected
<1>2. CASE TA!InvokeDead(sess)
  <2>1. Engine!Next /\ Client!Next
    BY <1>1, <1>2, SessionAllowed
  <2>2. UNCHANGED <<session, ctx>> /\ result' = "TARGET_DEAD" /\ session[sess] = "dead"
    BY <1>2 DEF TA!InvokeDead, TA!Returns
  <2> QED
    BY <1>1, <2>1, <2>2 DEF Served, Alone
<1>3. ASSUME NEW types, NEW f \in DOMAIN Expected, Known(types),
             TA!InvokeBad(sess, types, Expected[f])
      PROVE  Served
  <2>1. Engine!Next /\ Client!Next
    BY <1>1, <1>3, SessionAllowed
  <2>2. UNCHANGED <<session, ctx>> /\ result' = "BAD_PARAMETERS" /\ session[sess] = "open"
    BY <1>3 DEF TA!InvokeBad, TA!Returns
  <2> QED
    BY <1>1, <2>1, <2>2 DEF Served, Alone
<1>4. CASE fn = "switch" /\ TA!InvokeBad(sess, op.types, TA!InitTypes)
  <2>1. TA!InitTypes = Expected["init"]
    BY DEF Expected
  <2> QED
    BY <1>3, <1>4, <2>1, TypesKnown, ExpectedFunctions
<1>5. CASE fn # "switch" /\ TA!InvokeBad(sess, Types(fn), Expected[fn])
  <2>1. fn \in DOMAIN Expected
    BY <1>5, PathSteps, ExpectedFunctions
  <2> QED
    BY <1>3, <1>5, <2>1, TypesKnown
<1>6. CASE fn = "init" /\ TA!CfaInit(sess, Types(fn))
  <2>1. ctx[sess].p = 0
    BY <1>6, InvokePlace DEF LinkOK, Blank, In
  <2>2. Engine!Next /\ Client!Next
    BY <1>1, <1>6, <2>1, InitAllowed, TypesKnown, ExpectedFunctions
  <2>3. Alone(sess) /\ session'[sess] = "open" /\ ctx'[sess].initialized
    BY <1>1, <1>6, InitEffect
  <2> QED
    BY <1>6, <2>2, <2>3 DEF Served, ReportsEvent
<1>7. CASE fn = "quote" /\ TA!CfaQuote(sess, Types(fn))
  <2>1. Ready(sess)
    BY <1>7, InvokePlace DEF LinkOK, Between, In
  <2>2. Engine!Next /\ Client!Next
    BY <1>1, <1>7, <2>1, QuoteAllowed, TypesKnown, ExpectedFunctions DEF Ready
  <2>3. Alone(sess) /\ session'[sess] = "open"
    BY <1>1, <1>7, QuoteEffect
  <2> QED
    BY <1>7, <2>2, <2>3 DEF Served, ReportsEvent
<1>8. CASE fn \in {"event", "hinted"} /\ Handles(sess, Types(fn), Decode(op))
  <2>1. ReportsEvent(Main) /\ pc[Main] = 6
    BY <1>8, InvokePlace DEF ReportsEvent, In
  <2>2. Decode(op) = call[Main].ev /\ call[Main].ev \in Events
    BY <2>1, EventSent DEF SiteOK
  <2>3. Ready(sess)
    BY <2>1 DEF LinkOK, Between, ReportsEvent
  <2>4. Engine!Next /\ Client!Next
    BY <1>1, <1>8, <2>2, <2>3, EventAllowed, TypesKnown, ExpectedFunctions DEF Ready
  <2>5. /\ Alone(sess)
        /\ \/ /\ session'[sess] = "open" /\ result' = "SUCCESS"
              /\ ctx'[sess].initialized = ctx[sess].initialized
              /\ Noted(ctx'[sess], Decode(op))
           \/ session'[sess] = "dead" /\ result' = "TARGET_DEAD"
    BY <1>1, <1>8, EventEffect
  <2> QED
    BY <1>8, <2>2, <2>3, <2>4, <2>5 DEF Served, Ready
<1> QED
  BY <1>2, <1>4, <1>5, <1>6, <1>7, <1>8 DEF Serve, Handles

\* The program goes on after a command only as its session allows.
LEMMA InvokeKeeps ==
  ASSUME IInv, Filled(Main), SiteOK, EngineInv, LinkOK, FileOK, Invoke(Main), Running'
  PROVE  LinkOK' /\ FileOK'
<1>1. At(Main, "invoke")
  BY DEF Invoke
<1>2. Advance(Main) /\ UNCHANGED <<cfv_start, hfp, sess>>
  BY DEF Invoke, Invoked, Ends, Running, globals
<1>3. call' = call /\ pc'[Main] = After(call[Main].fn, pc[Main])
  BY <1>2, Onward
<1>4. CASE UNCHANGED engine /\ Invoked(Main, FALSE)
  <2>1. call[Main].fn = "switch"
    BY <1>4 DEF Invoked, Ends, Running
  <2>2. UNCHANGED <<session, ctx>>
    BY <1>4 DEF engine
  <2>3. pc'[Main] \in {0} \cup 4..7
    BY <1>1, <1>3, <2>1, InvokePlace DEF In
  <2> QED
    BY <1>2, <1>3, <2>1, <2>2, <2>3
    DEF LinkOK, FileOK, Between, In, ReportsEvent, Ready, Connected
<1>5. CASE Connected /\ Serve(call[Main].fn, sess) /\ Invoked(Main, result' = "SUCCESS")
  <2>1. Served
    BY <1>1, <1>5, ServeIs
  <2>2. result' = "SUCCESS" \/ call[Main].fn = "switch"
    BY <1>5 DEF Invoked, Ends, Running
  <2>3. sess # None
    BY <1>5 DEF Connected
  <2>4. CASE In("init", 6, 6)
    <3>1. session'[sess] = "open" /\ ctx'[sess].initialized /\ cfv_start
      BY <2>1, <2>2, <2>4 DEF Served, In, LinkOK
    <3>2. pc'[Main] = 0
      BY <1>1, <1>3, <2>4, InvokePlace DEF In
    <3> QED
      BY <1>2, <1>3, <2>3, <2>4, <3>1, <3>2
      DEF LinkOK, FileOK, Between, In, ReportsEvent, Ready
  <2>5. CASE In("quote", 3, 3)
    <3>1. cfv_start /\ hfp # "closed"
      BY <1>5, <2>5 DEF LinkOK, FileOK, Between, In
    <3>2. pc'[Main] = 4
      BY <1>1, <1>3, <2>5, InvokePlace DEF In
    <3> QED
      BY <1>2, <1>3, <2>5, <3>1, <3>2 DEF LinkOK, FileOK, Between, In, ReportsEvent
  <2>6. CASE In("switch", 3, 7)
    <3>1. UNCHANGED <<session, ctx>>
      BY <2>1, <2>6 DEF Served, In
    <3>2. pc'[Main] \in {0} \cup 4..7
      BY <1>1, <1>3, <2>6, InvokePlace DEF In
    <3> QED
      BY <1>2, <1>3, <2>6, <3>1, <3>2
      DEF LinkOK, FileOK, Between, In, ReportsEvent, Ready, Connected
  <2>7. CASE In("event", 6, 6) \/ In("hinted", 6, 6)
    <3>1. ReportsEvent(Main) /\ pc[Main] \in 1..6 /\ call[Main].fn # "switch"
      BY <2>7 DEF In, ReportsEvent
    <3>2. session'[sess] = "open" /\ ctx'[sess].initialized /\ cfv_start
      BY <2>1, <2>2, <3>1 DEF Served, LinkOK
    <3>3. pc'[Main] \in {0, 7}
      BY <1>1, <1>3, <2>7, InvokePlace DEF In
    <3> QED
      BY <1>2, <1>3, <2>3, <3>1, <3>2, <3>3
      DEF LinkOK, FileOK, Between, In, ReportsEvent, Ready
  <2> QED
    BY <1>1, <2>4, <2>5, <2>6, <2>7, InvokePlace
<1> QED
  BY <1>4, <1>5 DEF Invoke

\* open_ta() and close_ta().
LEMMA ConnectKeeps ==
  ASSUME IInv, EngineInv, LinkOK, FileOK, Connect(Main)
  PROVE  LinkOK' /\ FileOK'
<1>1. PICK s \in Session : OpenTa(Main, s) /\ TA!OpenSession(s, TA!OpenTypes)
  BY DEF Connect
<1>2. session'[s] = "open" /\ ctx'[s].p = 0 /\ s # None
  BY <1>1, OpenEffect, TrampolineAssumption
<1>3. /\ At(Main, "open") /\ sess' = s /\ UNCHANGED <<cfv_start, hfp>>
      /\ call' = call /\ pc'[Main] = After(call[Main].fn, pc[Main])
  BY <1>1, Onward DEF OpenTa
<1>4. ~ReportsEvent(Main)
  BY <1>3, EventPlace, MainAssumption
<1>5. In("init", 1, 1) /\ pc'[Main] = 2
  BY <1>3, <1>4, OtherPlace DEF In, After, Steps
<1> QED
  BY <1>2, <1>3, <1>5 DEF LinkOK, FileOK, Between, In, ReportsEvent, Blank

LEMMA DisconnectKeeps ==
  ASSUME IInv, EngineInv, LinkOK, FileOK, Disconnect(Main)
  PROVE  LinkOK' /\ FileOK'
<1>1. /\ At(Main, "close") /\ UNCHANGED <<cfv_start, hfp, sess>>
      /\ call' = call /\ pc'[Main] = After(call[Main].fn, pc[Main])
  BY Onward DEF Disconnect, CloseTa, globals
<1>2. ~ReportsEvent(Main)
  BY <1>1, EventPlace, MainAssumption
<1>3. In("quote", 5, 5) /\ pc'[Main] = 6
  BY <1>1, <1>2, OtherPlace DEF In, After, Steps
<1>4. sess = None \/ session'[sess] = "closed"
  <2>1. CASE Connected
    BY <2>1, CloseEffect, ConnectedSession DEF Disconnect, Connected
  <2>2. CASE ~Connected
    BY <2>2 DEF Disconnect, Connected, engine
  <2> QED
    BY <2>1, <2>2
<1> QED
  BY <1>1, <1>3, <1>4 DEF LinkOK, FileOK, Between, In, ReportsEvent, Connected

\* Everything the thread does without the TEE.
LEMMA LocalKeeps ==
  ASSUME IInv, LinkOK, FileOK, Local(Main), Running', UNCHANGED engine
  PROVE  LinkOK' /\ FileOK'
<1>1. CASE CallInit(Main) \/ CallQuote(Main) \/ CallSwitch(Main)
  BY <1>1, EnterKeeps DEF CallInit, CallQuote, CallSwitch
<1>2. ASSUME NEW e \in Events, CallEvent(Main, e) PROVE LinkOK' /\ FileOK'
  <2>1. Len(EventPath) + 1 = 7
    BY DEF EventPath
  <2> QED
    BY <1>2, <2>1, EnterKeeps DEF CallEvent
<1>3. CASE Clear(Main) \/ SetTypes(Main) \/ SetEtype(Main) \/ SetA(Main) \/ SetB(Main)
  BY <1>3, StoreKeeps DEF Clear, SetTypes, SetEtype, SetA, SetB
<1>4. CASE Fopen(Main) \/ Start(Main)
  BY <1>4, InitKeeps
<1>5. CASE Stop(Main) \/ Fclose(Main)
  BY <1>5, QuoteKeeps
<1>6. CASE TestHint(Main) \/ PrintHint(Main)
  BY <1>6, HintKeeps
<1>7. ~OpenRefused(Main)
  BY DEF OpenRefused, Ends, Running
<1> QED
  BY <1>1, <1>2, <1>3, <1>4, <1>5, <1>6, <1>7 DEF Local

\* The parameter types stay in the operation until the command is invoked.
LEMMA TypesMove ==
  ASSUME IInv, TypesOK, NEW step, At(Main, step), Advance(Main) \/ Return(Main),
         \/ ReportsEvent(Main)
         \/ step = "clear"
         \/ step = "types" /\ op'.types = LibTypes[call[Main].fn]
         \/ step \notin {"clear", "types"} /\ op' = op
  PROVE  TypesOK'
<1>1. call' = call
  BY DEF Advance, Return
<1>2. CASE ReportsEvent(Main)
  BY <1>1, <1>2 DEF TypesOK, In, ReportsEvent
<1>3. CASE Return(Main)
  <2>1. pc'[Main] = 0
    BY <1>3, MainAssumption DEF Return, IInv, Control
  <2> QED
    BY <2>1 DEF TypesOK, In
<1>4. CASE ~ReportsEvent(Main) /\ Advance(Main)
  <2>1. pc'[Main] = After(call[Main].fn, pc[Main])
    BY <1>4, Onward
  <2>2. CASE step = "clear"
    <3>1. \/ call[Main].fn = "init" /\ pc'[Main] = 3
          \/ call[Main].fn \in {"quote", "switch"} /\ pc'[Main] = 2
      BY <1>4, <2>1, <2>2, OtherPlace DEF After, Steps
    <3> QED
      BY <1>1, <3>1 DEF TypesOK, In
  <2>3. CASE step = "types"
    BY <1>1, <1>4, <2>3 DEF TypesOK
  <2>4. CASE step \notin {"clear", "types"} /\ op' = op
    <3>1. \/ call[Main].fn = "init" /\ pc'[Main] \in {0, 2}
          \/ In("init", 4, 5)
          \/ call[Main].fn = "quote" /\ pc'[Main] # 3
          \/ In("switch", 3, 7)
      BY <1>4, <2>1, <2>4, OtherPlace DEF After, Steps, In
    <3> QED
      BY <1>1, <2>4, <3>1 DEF TypesOK, In
  <2> QED
    BY <1>4, <2>2, <2>3, <2>4
<1> QED
  BY <1>2, <1>3, <1>4

LEMMA TypesStep ==
  ASSUME Thread = {Main}, IInv, TypesOK, [Next]_trampolineVars
  PROVE  TypesOK'
<1> DEFINE t == Main
<1>1. ASSUME NEW how, Ends(how) PROVE TypesOK'
  BY <1>1 DEF Ends, TypesOK, In, globals
<1>2. CASE \/ CallInit(t) \/ CallQuote(t) \/ CallSwitch(t)
           \/ \E e \in Events : CallEvent(t, e)
  <2>1. PICK fn, e, n : Enter(t, fn, e, n) /\ (n = 1 \/ fn = "hinted")
    BY <1>2 DEF CallInit, CallQuote, CallSwitch, CallEvent
  <2>2. call'[t].fn = fn /\ pc'[t] = n
    BY <2>1, MainAssumption DEF Enter, IInv, Control
  <2> QED
    BY <2>1, <2>2 DEF TypesOK, In
<1>3. CASE Clear(t)
  BY <1>3, TypesMove DEF Clear, StoreOp
<1>4. CASE SetTypes(t)
  <2>1. op'.types = LibTypes[call[t].fn]
    BY <1>4 DEF SetTypes, StoreOp, IInv, GlobalsOK, Operations
  <2> QED
    BY <1>4, <2>1, TypesMove DEF SetTypes, StoreOp
<1>5. CASE SetEtype(t) \/ SetA(t) \/ SetB(t)
  <2>1. PICK step \in {"etype", "a", "b"} : At(t, step) /\ Advance(t)
    BY <1>5 DEF SetEtype, SetA, SetB, StoreOp
  <2>2. ReportsEvent(t)
    BY <2>1, OtherPlace
  <2> QED
    BY <2>1, <2>2, TypesMove
<1>6. CASE OpenRefused(t)
  BY <1>1, <1>6 DEF OpenRefused
<1>7. CASE Fopen(t) \/ Start(t) \/ Stop(t)
  BY <1>7, TypesMove DEF Fopen, Start, Stop, SetStart
<1>8. CASE Fclose(t) \/ TestHint(t) \/ PrintHint(t)
  BY <1>1, <1>8, TypesMove DEF Fclose, TestHint, PrintHint, globals
<1>9. CASE CloseTa(t)
  BY <1>9, TypesMove DEF CloseTa, globals
<1>10. ASSUME NEW s \in Session, OpenTa(t, s) PROVE TypesOK'
  BY <1>10, TypesMove DEF OpenTa
<1>11. ASSUME NEW success \in BOOLEAN, Invoked(t, success) PROVE TypesOK'
  BY <1>1, <1>11, TypesMove DEF Invoked, globals
<1>12. CASE Terminate
  BY <1>1, <1>12 DEF Terminate
<1>13. CASE Restart
  <2>1. pc'[t] = 0
    BY <1>13, MainAssumption DEF Restart
  <2> QED
    BY <2>1 DEF TypesOK, In
<1>14. CASE UNCHANGED trampolineVars
  BY <1>14 DEF trampolineVars, globals, TypesOK, In
<1> QED
  BY <1>2, <1>3, <1>4, <1>5, <1>6, <1>7, <1>8, <1>9, <1>10, <1>11, <1>12, <1>13, <1>14
  DEF Next, Local

-----------------------------------------------------------------------------
(* What the engine heard of a transfer.                                    *)

\* The stub's call of the library has been through the engine.
Heard == \/ cpu[Main].at = "within" /\ pc[Main] \in {0, 7, 8}
         \/ cpu[Main].at \in {"returned", "restored", "transfer"}

NotedOK == cfv_start /\ Heard => Noted(ctx[sess], Reported(Main))

\* The code around a transfer runs.
LEMMA InsertedNoted ==
  ASSUME CpuInv, NotedOK, ReachSite(Main) \/ RunInserted(Main) \/ Reports(Main)
  PROVE  NotedOK'
<1>1. UNCHANGED <<cfv_start, sess, pc, ctx>>
  BY DEF ReachSite, RunInserted, Reports, trampolineVars, globals, engine
<1>2. CASE ReachSite(Main)
  <2>1. cpu'[Main].at = "site"
    <3>1. PICK s, regs : Reach(Main, s, regs)
      BY <1>2 DEF ReachSite
    <3> DEFINE c == [Elsewhere EXCEPT !.at = "site", !.site = s, !.regs = regs, !.entry = regs]
    <3>2. c.at = "site"
      BY DEF Elsewhere
    <3> HIDE DEF c
    <3>3. cpu'[Main] = c
      BY <3>1, MainAssumption DEF Reach, Goes, CpuInv, c
    <3> QED
      BY <3>2, <3>3
  <2> QED
    BY <2>1 DEF NotedOK, Heard
<1>3. CASE RunInserted(Main) \/ Reports(Main)
  <2>1. /\ Inserted(Main) \/ LeaveLibrary(Main)
        /\ LeaveLibrary(Main) => pc[Main] = 0
    BY <1>3 DEF RunInserted, Reports, Inserted, Push, Pass, Save, Restore, Pop, Transfer,
                LeaveLibrary, Goes
  <2>2. cpu[Main].at # "called"
    BY <2>1 DEF Inserted, Push, Pass, Save, Restore, Pop, Transfer, LeaveLibrary, Goes
  <2>3. Heard' => Heard /\ Reported(Main)' = Reported(Main)
    BY <2>1, <2>2, Onwards DEF Heard, Reported
  <2> QED
    BY <1>1, <2>3 DEF NotedOK
<1> QED
  BY <1>2, <1>3

\* A stub calls the library, or an event of the operation begins.
LEMMA ReportNoted ==
  ASSUME IInv, CpuInv, SiteOK, Report(Main)
  PROVE  NotedOK'
<1>1. CASE ~cfv_start'
  BY <1>1 DEF NotedOK
<1>2. CASE cfv_start'
  <2>1. cfv_start
    BY <1>2 DEF Report, CallEvent, Enter, trampolineVars, globals
  <2>2. EnterLibrary(Main) /\ cpu'[Main].at = "within"
    <3>1. EnterLibrary(Main) /\ cpu[Main].at = "called"
      BY DEF Report, EnterLibrary, Goes
    <3> QED
      BY <3>1, Onwards
  <2>3. PICK fn, e : Enter(Main, fn, e, 1)
    BY <2>1 DEF Report, CallEvent
  <2>4. pc'[Main] = 1
    BY <2>3, MainAssumption DEF Enter, IInv, Control
  <2> QED
    BY <2>2, <2>4 DEF NotedOK, Heard
<1> QED
  BY <1>1, <1>2

\* The thread is in the library.
LEMMA ProgramNoted ==
  ASSUME IInv, SiteOK, NotedOK, Program(Main)
  PROVE  NotedOK'
<1>1. /\ Local(Main) /\ UNCHANGED <<cpu, ctx>>
      /\ pc[Main] = 0 => cpu[Main].at = "program"
  BY DEF Program, engine
<1>2. CASE cpu[Main].at = "program"
  BY <1>1, <1>2 DEF NotedOK, Heard
<1>3. CASE cpu[Main].at # "program"
  <2>1. /\ pc[Main] # 0 /\ call' = call
        /\ cpu[Main].at = "within" /\ ReportsEvent(Main)
    BY <1>1, <1>3, LocalMoves DEF SiteOK
  <2>2. Reported(Main)' = Reported(Main)
    BY <1>1 DEF Reported
  <2>3. CASE Clear(Main) \/ SetTypes(Main) \/ SetEtype(Main) \/ SetA(Main) \/ SetB(Main)
    <3>1. PICK step \in {"clear", "types", "etype", "a", "b"} : At(Main, step) /\ Advance(Main)
      BY <2>3 DEF Clear, SetTypes, SetEtype, SetA, SetB, StoreOp
    <3>2. pc[Main] \in 1..5
      BY <2>1, <3>1, EventPlace, MainAssumption
    <3>3. pc'[Main] \in 2..6
      BY <2>1, <3>1, <3>2, Onward DEF After, Steps, ReportsEvent
    <3> QED
      BY <1>1, <2>1, <3>3 DEF NotedOK, Heard
  <2>4. CASE TestHint(Main) \/ PrintHint(Main)
    <3>1. PICK step \in {"hint", "print"} : At(Main, step)
      BY <2>4 DEF TestHint, PrintHint
    <3>2. pc[Main] \in 7..8
      BY <2>1, <3>1, EventPlace, MainAssumption
    <3>3. UNCHANGED <<cfv_start, sess>>
      BY <2>4 DEF TestHint, PrintHint, Ends, globals
    <3> QED
      BY <1>1, <2>1, <2>2, <3>2, <3>3 DEF NotedOK, Heard
  <2>5. CASE OpenRefused(Main) \/ Fopen(Main) \/ Start(Main) \/ Stop(Main) \/ Fclose(Main)
    <3>1. PICK step \in {"open", "fopen", "start", "stop", "fclose"} : At(Main, step)
      BY <2>5 DEF OpenRefused, Fopen, Start, Stop, SetStart, Fclose
    <3> QED
      BY <2>1, <3>1, EventPlace, MainAssumption
  <2>6. ~ \/ CallInit(Main) \/ CallQuote(Main) \/ CallSwitch(Main)
          \/ \E e \in Events : CallEvent(Main, e)
    BY <2>1 DEF CallInit, CallQuote, CallSwitch, CallEvent, Enter
  <2> QED
    BY <1>1, <2>3, <2>4, <2>5, <2>6 DEF Local
<1> QED
  BY <1>2, <1>3

\* The command of an event is served.
LEMMA InvokeNoted ==
  ASSUME IInv, Filled(Main), CpuInv, SiteOK, EngineInv, LinkOK,
         Invoke(Main), UNCHANGED cpu, Running'
  PROVE  NotedOK'
<1>1. At(Main, "invoke") /\ pc[Main] # 0
  BY DEF Invoke, At
<1>2. CASE cpu[Main].at = "program"
  BY <1>2 DEF NotedOK, Heard
<1>3. CASE cpu[Main].at # "program"
  <2>1. /\ cpu[Main].at = "within" /\ ReportsEvent(Main)
        /\ call[Main].ev = Reported(Main)
    BY <1>1, <1>3 DEF SiteOK
  <2>2. pc[Main] = 6 /\ call[Main].fn # "switch"
    BY <1>1, <2>1, EventPlace, MainAssumption DEF ReportsEvent
  <2>3. sess' = sess
    BY DEF Invoke, Invoked, Ends, globals
  <2>4. /\ Connected /\ Serve(call[Main].fn, sess) /\ result' = "SUCCESS"
    BY <2>2 DEF Invoke, Invoked, Ends, Running
  <2>5. Noted(ctx'[sess], Reported(Main))
    BY <1>1, <2>1, <2>4, ServeIs DEF Served
  <2>6. Reported(Main)' = Reported(Main)
    BY DEF Reported
  <2> QED
    BY <2>3, <2>5, <2>6 DEF NotedOK
<1> QED
  BY <1>2, <1>3

\* While a stub's call is in the library no session is opened or closed.
LEMMA SessionNoted ==
  ASSUME IInv, SiteOK, Connect(Main) \/ Disconnect(Main), UNCHANGED cpu
  PROVE  NotedOK'
<1>1. PICK step \in {"open", "close"} : At(Main, step)
  BY DEF Connect, Disconnect, OpenTa, CloseTa
<1>2. ~ReportsEvent(Main)
  BY <1>1, EventPlace, MainAssumption
<1>3. cpu[Main].at = "program"
  BY <1>1, <1>2 DEF SiteOK, At
<1> QED
  BY <1>3 DEF NotedOK, Heard

-----------------------------------------------------------------------------
(* Every step of the system is a step of the engines, or none of theirs.   *)

\* The constants of the engines are what their proofs take them to be.
LEMMA EngineConstants ==
  /\ Fields \subseteq Nat
  /\ Events \subseteq [etype : Engine!Etype, a : Fields, b : Fields]
  /\ Capacity \in [Engine!Chan -> Nat \ {0}] /\ BufCost \in [Engine!Chan -> Nat \ {0}]
<1>1. ASSUME NEW x \in Kinds PROVE x \in Engine!Etype
  BY DEF Kinds, Engine!Etype
<1>2. Events \subseteq [etype : Engine!Etype, a : Fields, b : Fields]
  BY <1>1, TrampolineAssumption
<1>3. Fields \subseteq Nat
  BY TrampolineAssumption DEF Fields
<1>4. Capacity \in [Engine!Chan -> Nat \ {0}] /\ BufCost \in [Engine!Chan -> Nat \ {0}]
  BY AttestationAssumption DEF TA!Chan, Engine!Chan
<1> QED
  BY <1>2, <1>3, <1>4

LEMMA EngineNext == Engine!LogInv /\ [Engine!Next]_(Engine!vars) => Engine!LogInv'
BY EngineConstants, AttestationAssumption, Engine!NextLog DEF Engine!NextLog

LEMMA EngineInit == Engine!Init => Engine!LogInv
BY EngineConstants, AttestationAssumption, Engine!InitLogInv DEF Engine!InitLogInv

\* No command leaves a closed session with an instance.
LEMMA StaysBlank ==
  ASSUME EngineInv, NEW s \in Session, Alone(s), session'[s] = "closed" => ctx'[s].p = 0
  PROVE  \A x \in Session : session'[x] = "closed" => ctx'[x].p = 0
<1> SUFFICES ASSUME NEW x \in Session, session'[x] = "closed" PROVE ctx'[x].p = 0
  OBVIOUS
<1>1. CASE x = s
  BY <1>1
<1>2. CASE x # s
  BY <1>2 DEF Alone, EngineInv
<1> QED
  BY <1>1, <1>2

LEMMA EngineStep ==
  ASSUME Thread = {Main}, IInv, Filled(Main), SiteOK, EngineInv, Running => LinkOK,
         [SystemNext]_vars
  PROVE  /\ [Engine!Next]_(Engine!vars) /\ [Client!Next]_(Client!vars)
         /\ EngineInv'
<1> DEFINE Blanks == \A x \in Session : session'[x] = "closed" => ctx'[x].p = 0
           Goal   == [Engine!Next]_(Engine!vars) /\ [Client!Next]_(Client!vars) /\ Blanks
<1>1. ASSUME UNCHANGED engine PROVE Goal
  <2>1. UNCHANGED Engine!vars /\ UNCHANGED Client!vars
    BY <1>1 DEF engine, Engine!vars, Client!vars
  <2>2. Blanks
    BY <1>1 DEF engine, EngineInv
  <2> HIDE DEF Blanks
  <2> QED
    BY <2>1, <2>2, Zenon
<1>2. ASSUME Invoke(Main) PROVE Goal
  <2>1. CASE Connected /\ Serve(call[Main].fn, sess)
    <3>1. At(Main, "invoke") /\ Running /\ sess \in Session
      BY <1>2, <2>1, ConnectedSession DEF Invoke, At, Connected
    <3>2. Served
      BY <2>1, <3>1, ServeIs
    <3>3. Blanks
      BY <3>1, <3>2, StaysBlank DEF Served
    <3> HIDE DEF Blanks
    <3> QED
      BY <3>2, <3>3, Zenon DEF Served
  <2> QED
    BY <1>1, <1>2, <2>1 DEF Invoke
<1>3. ASSUME Connect(Main) PROVE Goal
  <2>1. PICK s \in Session : TA!OpenSession(s, TA!OpenTypes)
    BY <1>3 DEF Connect
  <2>2. Engine!Next /\ Client!Next
    BY <2>1, SessionAllowed
  <2>3. Blanks
    BY <2>1, OpenEffect, StaysBlank
  <2> HIDE DEF Blanks
  <2> QED
    BY <2>2, <2>3, Zenon
<1>4. ASSUME NEW s \in Session, TA!CloseSession(s) PROVE Goal
  <2>1. Engine!Next /\ Client!Next
    BY <1>4, SessionAllowed
  <2>2. Blanks
    BY <1>4, CloseEffect, StaysBlank
  <2> HIDE DEF Blanks
  <2> QED
    BY <2>1, <2>2, Zenon
<1>5. ASSUME Disconnect(Main) PROVE Goal
  <2>1. CASE Connected /\ TA!CloseSession(sess)
    <3>1. sess \in Session /\ TA!CloseSession(sess)
      BY <2>1, ConnectedSession DEF Connected
    <3> HIDE DEF Goal
    <3> QED
      BY <1>4, <3>1
  <2> QED
    BY <1>1, <1>5, <2>1 DEF Disconnect
<1>6. ASSUME NEW s \in Session, Reap(s) PROVE Goal
  BY <1>4, <1>6 DEF Reap
<1>7. Goal
  <2> HIDE DEF Goal
  <2>1. ASSUME NEW t \in Thread, ~UNCHANGED engine
        PROVE  /\ ~Program(t) /\ ~ReachSite(t) /\ ~RunInserted(t) /\ ~Report(t) /\ ~Reports(t)
    BY <2>1 DEF Program, ReachSite, RunInserted, Report, Reports
  <2> QED
    BY <1>1, <1>2, <1>3, <1>5, <1>6, <2>1 DEF SystemNext, vars
<1>8. Engine!LogInv'
  BY <1>7, EngineNext DEF EngineInv
<1> QED
  BY <1>7, <1>8 DEF EngineInv

-----------------------------------------------------------------------------
(* The inductive invariant of the system.                                  *)

SystemInv ==
  /\ IInv /\ Filled(Main) /\ TypesOK
  /\ CpuInv /\ SiteOK
  /\ EngineInv
  /\ Running => LinkOK /\ FileOK /\ NotedOK

LEMMA InitEngines == TA!Init => Engine!Init /\ Client!Init
BY DEF TA!Init, TA!FreshContext, TA!RawHash, TA!EmptyMap, TA!Slots, TA!Chan, TA!Blob, TA!Absent,
       Engine!Init, Engine!FreshContext, Engine!RawHash, Engine!EmptyMap, Engine!Slots,
       Engine!Chan, Engine!Blob, Engine!Absent,
       Client!Init, Client!FreshContext, Client!RawHash, Client!EmptyMap, Client!Slots,
       Client!Chan, Client!Blob, Client!Absent

\* A program that has just been started is between operations, in its own code.
LEMMA FreshLibrary ==
  ASSUME pc = [t \in Thread |-> 0], call = [t \in Thread |-> Idle],
         cpu = [t \in Thread |-> Elsewhere], cfv_start = FALSE, sess = None, hfp = "NULL"
  PROVE  Filled(Main) /\ TypesOK /\ SiteOK /\ LinkOK /\ FileOK /\ NotedOK
<1>1. pc[Main] = 0 /\ call[Main] = Idle /\ cpu[Main].at = "program"
  BY MainAssumption DEF Elsewhere
<1>2. call[Main].fn = "init"
  BY <1>1 DEF Idle
<1> QED
  BY <1>1, <1>2
  DEF Filled, TypesOK, SiteOK, LinkOK, FileOK, NotedOK, ReportsEvent, In, Between, Connected

LEMMA SystemInvInit == SystemInit => SystemInv
<1> SUFFICES ASSUME SystemInit PROVE SystemInv
  OBVIOUS
<1>1. IInv /\ CpuInv
  BY InitInvariant, CpuInvInit DEF SystemInit
<1>2. Filled(Main) /\ TypesOK /\ SiteOK /\ LinkOK /\ FileOK /\ NotedOK
  BY FreshLibrary DEF SystemInit, Init, TransferInit
<1>3. EngineInv
  <2>1. Engine!LogInv
    BY InitEngines, EngineInit DEF SystemInit
  <2>2. \A s \in Session : ctx[s].p = 0
    BY DEF SystemInit, TA!Init, TA!FreshContext
  <2> QED
    BY <2>1, <2>2 DEF EngineInv
<1> QED
  BY <1>1, <1>2, <1>3 DEF SystemInv

\* What LinkOK and FileOK are about.
LEMMA SameLink ==
  ASSUME LinkOK, FileOK, UNCHANGED <<pc, call, cfv_start, sess, hfp, session, ctx>>
  PROVE  LinkOK' /\ FileOK'
BY DEF LinkOK, FileOK, Between, In, ReportsEvent, Ready, Blank, Connected

\* While the program runs, each of its steps leaves the library in order.
LEMMA RunningStep ==
  ASSUME Thread = {Main}, SystemInv, Running, Running', [SystemNext]_vars
  PROVE  LinkOK' /\ FileOK' /\ NotedOK'
<1> USE DEF SystemInv
<1>1. CASE Program(Main)
  BY <1>1, LocalKeeps, ProgramNoted DEF Program
<1>2. CASE ReachSite(Main) \/ RunInserted(Main) \/ Reports(Main)
  <2>1. UNCHANGED <<pc, call, cfv_start, sess, hfp, session, ctx>>
    BY <1>2 DEF ReachSite, RunInserted, Reports, trampolineVars, globals, engine
  <2> QED
    BY <1>2, <2>1, SameLink, InsertedNoted
<1>3. CASE Report(Main)
  <2>1. UNCHANGED engine
    BY <1>3 DEF Report
  <2>2. CASE CallEvent(Main, Reported(Main))
    <3>1. Reported(Main) \in Events
      BY <1>3, ReportedEvent DEF Report, EnterLibrary, Goes
    <3>2. Local(Main)
      BY <2>2, <3>1 DEF Local
    <3> QED
      BY <1>3, <2>1, <3>2, LocalKeeps, ReportNoted
  <2>3. CASE UNCHANGED trampolineVars
    <3>1. UNCHANGED <<pc, call, cfv_start, sess, hfp, session, ctx>>
      BY <2>1, <2>3 DEF trampolineVars, globals, engine
    <3> QED
      BY <1>3, <3>1, SameLink, ReportNoted
  <2> QED
    BY <1>3, <2>2, <2>3 DEF Report
<1>4. CASE Invoke(Main) /\ UNCHANGED cpu
  BY <1>4, InvokeKeeps, InvokeNoted
<1>5. CASE Connect(Main) /\ UNCHANGED cpu
  BY <1>5, ConnectKeeps, SessionNoted
<1>6. CASE Disconnect(Main) /\ UNCHANGED cpu
  BY <1>6, DisconnectKeeps, SessionNoted
<1>7. ~Terminate /\ ~Restart /\ \A s \in Session : ~Reap(s)
  BY DEF Terminate, Ends, Restart, Reap, Running
<1>8. CASE UNCHANGED vars
  <2>1. UNCHANGED <<pc, call, cfv_start, sess, hfp, session, ctx, cpu>>
    BY <1>8 DEF vars, trampolineVars, globals, engine
  <2>2. NotedOK'
    BY <2>1 DEF NotedOK, Heard, Reported
  <2> QED
    BY <2>1, <2>2, SameLink
<1> QED
  BY <1>1, <1>2, <1>3, <1>4, <1>5, <1>6, <1>7, <1>8 DEF SystemNext

LEMMA SystemInvNext ==
  ASSUME Thread = {Main}, SystemInv, [SystemNext]_vars
  PROVE  SystemInv'
<1>1. [Next]_trampolineVars
  BY LibraryStep DEF SystemInv
<1>2. IInv' /\ Filled(Main)' /\ TypesOK'
  BY <1>1, StepInvariant, StepKeepsFilled, TypesStep DEF SystemInv
<1>3. CpuInv' /\ SiteOK'
  BY CpuStep, SiteStep DEF SystemInv
<1>4. EngineInv'
  BY EngineStep DEF SystemInv
<1>5. CASE ~Running'
  BY <1>2, <1>3, <1>4, <1>5 DEF SystemInv
<1>6. CASE Running /\ Running'
  BY <1>2, <1>3, <1>4, <1>6, RunningStep DEF SystemInv
<1>7. CASE ~Running /\ Running'
  <2>1. Restart /\ cpu' = [t \in Thread |-> Elsewhere]
    <3>1. status' # status
      BY <1>7 DEF Running
    <3>2. ~UNCHANGED vars /\ ~Terminate /\ \A s \in Session : ~Reap(s)
      BY <1>7, <3>1 DEF vars, trampolineVars, Terminate, Reap
    <3>3. /\ ~Program(Main) /\ ~ReachSite(Main) /\ ~RunInserted(Main) /\ ~Report(Main)
          /\ ~Reports(Main) /\ ~Invoke(Main) /\ ~Connect(Main) /\ ~Disconnect(Main)
      <4>1. ~Local(Main)
        BY <1>7 DEF Local, CallInit, CallQuote, CallSwitch, CallEvent, Enter, Clear, SetTypes,
                    SetEtype, SetA, SetB, StoreOp, OpenRefused, Fopen, Start, Stop, SetStart,
                    Fclose, TestHint, PrintHint, At
      <4> QED
        BY <1>7, <4>1 DEF Program, ReachSite, RunInserted, Report, Reports, Invoke, Connect,
                          OpenTa, Disconnect, CloseTa, At
    <3> QED
      BY <3>2, <3>3 DEF SystemNext
  <2>2. Filled(Main)' /\ TypesOK' /\ SiteOK' /\ LinkOK' /\ FileOK' /\ NotedOK'
    <3>1. pc'[Main] = 0 /\ call'[Main] = Idle /\ cpu'[Main].at = "program"
      BY <2>1, MainAssumption DEF Restart, Elsewhere
    <3>2. call'[Main].fn = "init" /\ ~cfv_start' /\ sess' = None
      BY <2>1, <3>1 DEF Restart, Idle
    <3> QED
      BY <3>1, <3>2
      DEF Filled, TypesOK, SiteOK, LinkOK, FileOK, NotedOK, ReportsEvent, In, Between, Connected
  <2> QED
    BY <1>2, <1>3, <1>4, <2>2 DEF SystemInv
<1> QED
  BY <1>5, <1>6, <1>7

LEMMA SystemInvariance == ASSUME Thread = {Main} PROVE System => []SystemInv
<1>1. SystemInv /\ [SystemNext]_vars => SystemInv'
  BY SystemInvNext
<1> QED
  BY <1>1, SystemInvInit, PTL DEF System

-----------------------------------------------------------------------------
(* Endings of sequences.                                                   *)

\* The last elements of t are those of s.
Ending(s, t) ==
  /\ Len(s) <= Len(t)
  /\ \A i \in 1..Len(s) : s[i] = t[(Len(t) - Len(s)) + i]

\* IsSuffix compares two sequences from their ends, through Reverse: here it is
\* an Ending.
LEMMA ReverseIs ==
  ASSUME NEW Vals, NEW s \in Seq(Vals)
  PROVE  /\ Reverse(s) \in Seq(Vals) /\ Len(Reverse(s)) = Len(s)
         /\ \A i \in 1..Len(s) : Reverse(s)[i] = s[(Len(s) - i) + 1]
<1>1. \A i \in 1..Len(s) : (Len(s) - i) + 1 \in 1..Len(s)
  OBVIOUS
<1>2. \A i \in 1..Len(s) : s[(Len(s) - i) + 1] \in Vals
  BY <1>1
<1>3. Reverse(s) \in [1..Len(s) -> Vals]
  BY <1>2 DEF Reverse
<1>4. Len(s) \in Nat
  OBVIOUS
<1>5. Reverse(s) \in Seq(Vals) /\ Len(Reverse(s)) = Len(s)
  BY <1>3, <1>4, SeqDef, LenProperties
<1> QED
  BY <1>5 DEF Reverse

LEMMA SuffixIs ==
  ASSUME NEW Vals, NEW s \in Seq(Vals), NEW t \in Seq(Vals)
  PROVE  IsSuffix(s, t) <=> Ending(s, t)
<1> DEFINE p == Reverse(s)
           q == Reverse(t)
           n == Len(s)
           m == Len(t)
<1>1. /\ n \in Nat /\ m \in Nat
      /\ p \in Seq(Vals) /\ Len(p) = n /\ \A i \in 1..n : p[i] = s[(n - i) + 1]
      /\ q \in Seq(Vals) /\ Len(q) = m /\ \A i \in 1..m : q[i] = t[(m - i) + 1]
  BY ReverseIs
<1>2. IsSuffix(s, t) <=> n <= m /\ SubSeq(p, 1, n) = SubSeq(q, 1, n)
  BY <1>1 DEF IsSuffix, IsPrefix
<1> HIDE DEF p, q
<1>3. n <= m => /\ SubSeq(p, 1, n) = [i \in 1..n |-> p[i]]
               /\ SubSeq(q, 1, n) = [i \in 1..n |-> q[i]]
  BY <1>1
<1>4. n <= m => (SubSeq(p, 1, n) = SubSeq(q, 1, n) <=> \A i \in 1..n : p[i] = q[i])
  BY <1>3
<1>5. ASSUME n <= m, \A i \in 1..n : p[i] = q[i]
      PROVE  \A i \in 1..n : s[i] = t[(m - n) + i]
  <2> TAKE i \in 1..n
  <2>1. (n - i) + 1 \in 1..n /\ (n - ((n - i) + 1)) + 1 = i
        /\ (m - ((n - i) + 1)) + 1 = (m - n) + i /\ (n - i) + 1 \in 1..m
    BY <1>1, <1>5
  <2>2. p[(n - i) + 1] = s[i] /\ q[(n - i) + 1] = t[(m - n) + i]
    BY <1>1, <2>1
  <2> QED
    BY <1>5, <2>1, <2>2
<1>6. ASSUME n <= m, \A i \in 1..n : s[i] = t[(m - n) + i]
      PROVE  \A i \in 1..n : p[i] = q[i]
  <2> TAKE i \in 1..n
  <2>1. (n - i) + 1 \in 1..n /\ (m - n) + ((n - i) + 1) = (m - i) + 1 /\ i \in 1..m
    BY <1>1, <1>6
  <2>2. p[i] = s[(n - i) + 1] /\ q[i] = t[(m - i) + 1]
    BY <1>1, <2>1
  <2> QED
    BY <1>6, <2>1, <2>2
<1> QED
  BY <1>2, <1>4, <1>5, <1>6 DEF Ending

\* The same value behind both, and the empty sequence before any.
LEMMA SuffixAppend ==
  ASSUME NEW Vals, NEW s \in Seq(Vals), NEW t \in Seq(Vals), NEW v \in Vals, IsSuffix(s, t)
  PROVE  IsSuffix(Append(s, v), Append(t, v))
<1>1. Append(s, v) \in Seq(Vals) /\ Append(t, v) \in Seq(Vals)
  OBVIOUS
<1>2. Ending(s, t)
  BY SuffixIs
<1>3. Ending(Append(s, v), Append(t, v))
  <2>1. Len(Append(s, v)) = Len(s) + 1 /\ Len(Append(t, v)) = Len(t) + 1
        /\ Len(s) \in Nat /\ Len(t) \in Nat
    OBVIOUS
  <2>2. ASSUME NEW i \in 1..(Len(s) + 1)
        PROVE  Append(s, v)[i] = Append(t, v)[(Len(t) - Len(s)) + i]
    <3>1. CASE i = Len(s) + 1
      <4>1. (Len(t) - Len(s)) + i = Len(t) + 1
        BY <2>1, <3>1
      <4> QED
        BY <3>1, <4>1
    <3>2. CASE i \in 1..Len(s)
      <4>1. (Len(t) - Len(s)) + i \in 1..Len(t)
        BY <1>2, <2>1, <3>2 DEF Ending
      <4>2. Append(s, v)[i] = s[i]
        BY <3>2
      <4>3. Append(t, v)[(Len(t) - Len(s)) + i] = t[(Len(t) - Len(s)) + i]
        BY <4>1
      <4> QED
        BY <1>2, <3>2, <4>2, <4>3 DEF Ending
    <3>3. i = Len(s) + 1 \/ i \in 1..Len(s)
      BY <2>1
    <3> QED
      BY <3>1, <3>2, <3>3
  <2>3. Len(s) <= Len(t)
    BY <1>2 DEF Ending
  <2>4. /\ Len(s) + 1 <= Len(t) + 1
        /\ \A i \in 1..(Len(s) + 1) :
             ((Len(t) + 1) - (Len(s) + 1)) + i = (Len(t) - Len(s)) + i
    BY <2>1, <2>3
  <2> DEFINE longer == Append(s, v)
             whole == Append(t, v)
  <2>5. /\ Len(longer) = Len(s) + 1 /\ Len(whole) = Len(t) + 1
        /\ \A i \in 1..(Len(s) + 1) : longer[i] = whole[(Len(t) - Len(s)) + i]
    BY <2>1, <2>2
  <2> HIDE DEF longer, whole
  <2>6. Ending(longer, whole)
    BY <2>4, <2>5, Zenon DEF Ending
  <2> QED
    BY <2>6 DEF longer, whole
<1> QED
  BY <1>1, <1>3, SuffixIs

LEMMA SuffixEmpty == ASSUME NEW Vals, NEW t \in Seq(Vals) PROVE IsSuffix(<<>>, t)
<1>1. <<>> \in Seq(Vals) /\ Ending(<<>>, t)
  BY DEF Ending
<1> QED
  BY <1>1, SuffixIs

-----------------------------------------------------------------------------
(* The hints file and the trace of the engine: what the lines of a file    *)
(* say, and what the engine recorded.                                      *)

\* What the engine's proofs say of what is owned of an object.
LEMMA TablePrefix ==
  ASSUME NEW data, NEW longer, NEW s, NEW t, NEW u,
         Len(data) \in Nat, Len(longer) \in Nat, Len(data) <= Len(longer),
         \A i \in 1..Len(data) : longer[i] = data[i],
         Engine!Owns(t, data, s), Engine!Owns(u, longer, s)
  PROVE  \A i \in 0..Len(data) : u[i] = t[i]
BY EngineConstants, AttestationAssumption, Engine!OwnsPrefix DEF Engine!OwnsPrefix

\* The lines of a hints file as what one owner, 1, has of an object.
Tagged(h, syms) == [i \in 1..Len(h) |-> [owner |-> IF h[i].sym \in syms THEN 1 ELSE 0, val |-> h[i]]]

\* What is tagged is as long as the file.
LEMMA TaggedType ==
  ASSUME NEW h \in Seq(HintLines), NEW syms
  PROVE  /\ Tagged(h, syms) \in Seq([owner : {0, 1}, val : HintLines])
         /\ Len(Tagged(h, syms)) = Len(h) /\ Len(h) \in Nat
<1>1. Len(h) \in Nat /\ \A i \in 1..Len(h) : h[i] \in HintLines
  OBVIOUS
<1>2. \A i \in 1..Len(h) : [owner |-> IF h[i].sym \in syms THEN 1 ELSE 0, val |-> h[i]]
                             \in [owner : {0, 1}, val : HintLines]
  BY <1>1
<1>3. Tagged(h, syms) \in [1..Len(h) -> [owner : {0, 1}, val : HintLines]]
  BY <1>2 DEF Tagged
<1> HIDE DEF Tagged
<1>4. Tagged(h, syms) \in Seq([owner : {0, 1}, val : HintLines])
  <2> DEFINE S == [owner : {0, 1}, val : HintLines]
             f == Tagged(h, syms)
  <2>1. f \in [1..Len(h) -> S]
    BY <1>3
  <2> HIDE DEF S, f
  <2>2. f \in Seq(S)
    BY <1>1, <2>1, SeqDef, Zenon
  <2> QED
    BY <2>2 DEF S, f
<1>5. DOMAIN Tagged(h, syms) = 1..Len(h)
  BY <1>3
<1> QED
  BY <1>1, <1>4, <1>5, LenProperties

\* The lines of some kinds are the last entry of a table of what is owned.
LEMMA LinesTable ==
  ASSUME NEW h \in Seq(HintLines), NEW syms
  PROVE  \E t : /\ Engine!Owns(t, Tagged(h, syms), 1)
                /\ LinesOf(h, syms) = t[Len(h)]
<1> DEFINE Fits(t) == t = [i \in 0..Len(h) |->
                             IF i = 0 THEN <<>>
                             ELSE IF h[i].sym \in syms THEN Append(t[i - 1], h[i])
                             ELSE t[i - 1]]
           table == CHOOSE t : Fits(t)
<1>0. /\ Len(Tagged(h, syms)) = Len(h)
      /\ \A i \in 0..Len(h) : i # 0 =>
           /\ Tagged(h, syms)[i].owner = 1 <=> h[i].sym \in syms
           /\ Tagged(h, syms)[i].val = h[i]
  <2>1. Len(h) \in Nat /\ Len(Tagged(h, syms)) = Len(h)
    BY TaggedType
  <2>2. \A i \in 0..Len(h) : i # 0 => i \in 1..Len(h)
    BY <2>1
  <2> QED
    BY <2>1, <2>2 DEF Tagged
<1> HIDE DEF Tagged
<1>1. ASSUME NEW t, Engine!Owns(t, Tagged(h, syms), 1) PROVE Fits(t)
  BY <1>0, <1>1 DEF Engine!Owns
<1>2. ASSUME NEW t, Fits(t) PROVE Engine!Owns(t, Tagged(h, syms), 1)
  BY <1>0, <1>2 DEF Engine!Owns
<1>3. \E t : Engine!Owns(t, Tagged(h, syms), 1)
  BY TaggedType, EngineConstants, AttestationAssumption, Engine!OwnsExists
  DEF Engine!OwnsExists
<1>4. Fits(table)
  <2>1. \E t : Fits(t)
    BY <1>1, <1>3
  <2> QED
    BY <2>1, Zenon
<1>5. LinesOf(h, syms) = table[Len(h)]
  BY Zenon DEF LinesOf
<1> HIDE DEF Fits, table
<1> QED
  BY <1>2, <1>4, <1>5

\* What is printed comes behind the lines that were there, if it is of their kind.
LEMMA LinesAppend ==
  ASSUME NEW h \in Seq(HintLines), NEW x \in HintLines, NEW syms
  PROVE  /\ LinesOf(h, syms) \in Seq(HintLines)
         /\ LinesOf(Append(h, x), syms) = IF x.sym \in syms
                                          THEN Append(LinesOf(h, syms), x)
                                          ELSE LinesOf(h, syms)
<1> DEFINE g == Append(h, x)
           d == Tagged(h, syms)
           e == Tagged(g, syms)
<1>1. g \in Seq(HintLines) /\ Len(g) = Len(h) + 1 /\ g[Len(h) + 1] = x
      /\ Len(h) \in Nat /\ \A i \in 1..Len(h) : g[i] = h[i]
  OBVIOUS
<1> HIDE DEF g
<1>2. PICK t : Engine!Owns(t, d, 1) /\ LinesOf(h, syms) = t[Len(h)]
  BY LinesTable
<1>3. PICK u : Engine!Owns(u, e, 1) /\ LinesOf(g, syms) = u[Len(g)]
  BY <1>1, LinesTable
<1>4. /\ d \in Seq([owner : {0, 1}, val : HintLines]) /\ Len(d) = Len(h)
      /\ Len(e) = Len(h) + 1
      /\ \A i \in 1..Len(d) : e[i] = d[i]
      /\ e[Len(h) + 1] = [owner |-> IF x.sym \in syms THEN 1 ELSE 0, val |-> x]
  <2>1. /\ d \in Seq([owner : {0, 1}, val : HintLines]) /\ Len(d) = Len(h)
        /\ Len(e) = Len(h) + 1
    BY <1>1, TaggedType
  <2> QED
    BY <1>1, <2>1 DEF Tagged
<1> HIDE DEF d, e
<1>5. \A i \in 0..Len(h) : t[i] \in Seq(HintLines)
  BY <1>2, <1>4, EngineConstants, AttestationAssumption, Engine!OwnsType DEF Engine!OwnsType
<1>6. u[Len(h)] = t[Len(h)]
  <2>1. \A i \in 0..Len(d) : u[i] = t[i]
    <3>1. Len(d) \in Nat /\ Len(e) \in Nat /\ Len(d) <= Len(e)
      BY <1>1, <1>4
    <3> QED
      BY <1>2, <1>3, <1>4, <3>1, TablePrefix
  <2> QED
    BY <1>1, <1>4, <2>1
<1>7. u[Len(h) + 1] = Engine!OwnStep(u[(Len(h) + 1) - 1], e[Len(h) + 1], 1)
  <2>1. \A i \in 1..Len(e) : u[i] = Engine!OwnStep(u[i - 1], e[i], 1)
    <3>1. Len(e) \in Nat
      BY <1>1, <1>4
    <3> QED
      BY <1>3, <3>1, EngineConstants, AttestationAssumption, Engine!OwnsLines
      DEF Engine!OwnsLines
  <2>2. Len(h) + 1 \in 1..Len(e)
    BY <1>1, <1>4
  <2> QED
    BY <2>1, <2>2
<1>8. LinesOf(g, syms) = IF x.sym \in syms THEN Append(t[Len(h)], x) ELSE t[Len(h)]
  <2>1. (Len(h) + 1) - 1 = Len(h)
    BY <1>1
  <2> QED
    BY <1>1, <1>3, <1>4, <1>6, <1>7, <2>1 DEF Engine!OwnStep
<1> QED
  BY <1>1, <1>2, <1>5, <1>8 DEF g

\* Nothing was printed, of any kind.
LEMMA LinesEmpty == ASSUME NEW syms PROVE LinesOf(<<>>, syms) = <<>>
<1>1. <<>> \in Seq(HintLines) /\ Len(<<>>) = 0
  OBVIOUS
<1>2. PICK t : Engine!Owns(t, Tagged(<<>>, syms), 1) /\ LinesOf(<<>>, syms) = t[0]
  BY <1>1, LinesTable
<1>3. t[0] = <<>>
  BY <1>1, <1>2, TaggedType, EngineConstants, AttestationAssumption, Engine!OwnsLines
  DEF Engine!OwnsLines
<1> QED
  BY <1>2, <1>3


\* A sequence taken element by element to another.
LEMMA Mapped ==
  ASSUME NEW Vals, NEW c \in Seq(Vals), NEW W, NEW f \in [Vals -> W]
  PROVE  [i \in DOMAIN c |-> f[c[i]]] \in Seq(W)
<1>1. DOMAIN c = 1..Len(c) /\ Len(c) \in Nat /\ \A i \in 1..Len(c) : c[i] \in Vals
  OBVIOUS
<1>2. [i \in DOMAIN c |-> f[c[i]]] \in [1..Len(c) -> W]
  BY <1>1
<1> QED
  BY <1>1, <1>2, SeqDef

\* One more element is taken to one more.
LEMMA MappedAppend ==
  ASSUME NEW Vals, NEW c \in Seq(Vals), NEW W, NEW f \in [Vals -> W], NEW x \in Vals
  PROVE  [i \in DOMAIN Append(c, x) |-> f[Append(c, x)[i]]]
           = Append([i \in DOMAIN c |-> f[c[i]]], f[x])
<1> DEFINE d == Append(c, x)
           p == [i \in DOMAIN c |-> f[c[i]]]
           q == [i \in DOMAIN d |-> f[d[i]]]
<1>1. /\ DOMAIN c = 1..Len(c) /\ Len(c) \in Nat
      /\ DOMAIN d = 1..(Len(c) + 1) /\ d[Len(c) + 1] = x
      /\ \A i \in 1..Len(c) : d[i] = c[i]
  OBVIOUS
<1>2. p \in Seq(W) /\ Len(p) = Len(c)
  <2>1. p \in Seq(W)
    BY Mapped
  <2> QED
    BY <1>1, <2>1, LenProperties
<1>3. /\ Append(p, f[x]) \in Seq(W) /\ DOMAIN Append(p, f[x]) = 1..(Len(c) + 1)
      /\ Append(p, f[x])[Len(c) + 1] = f[x]
      /\ \A i \in 1..Len(c) : Append(p, f[x])[i] = p[i]
  <2> HIDE DEF p
  <2> QED
    BY <1>2
<1>4. \A i \in 1..(Len(c) + 1) : q[i] = Append(p, f[x])[i]
  <2> TAKE i \in 1..(Len(c) + 1)
  <2>1. CASE i = Len(c) + 1
    BY <1>1, <1>3, <2>1
  <2>2. CASE i \in 1..Len(c)
    <3>1. q[i] = f[c[i]] /\ p[i] = f[c[i]]
      BY <1>1, <2>2
    <3> QED
      BY <1>3, <2>2, <3>1
  <2>3. i = Len(c) + 1 \/ i \in 1..Len(c)
    BY <1>1
  <2> QED
    BY <2>1, <2>2, <2>3
<1>5. q = [i \in 1..(Len(c) + 1) |-> q[i]]
  BY <1>1
<1>6. Append(p, f[x]) = [i \in 1..(Len(c) + 1) |-> Append(p, f[x])[i]]
  BY <1>3
<1> HIDE DEF p, q
<1>7. q = Append(p, f[x])
  BY <1>4, <1>5, <1>6
<1> QED
  BY <1>7 DEF p, q, d

\* What the hints file says of conditions and of destinations, when a line of
\* an event is printed.
LEMMA CondsAppend ==
  ASSUME NEW h \in Seq(HintLines), NEW x \in HintLines
  PROVE  /\ Conds(h) \in Seq({0, 1})
         /\ x.sym \in {"y", "n"} =>
              Conds(Append(h, x)) = Append(Conds(h), IF x.sym = "y" THEN 1 ELSE 0)
         /\ x.sym \notin {"y", "n"} => Conds(Append(h, x)) = Conds(h)
<1> DEFINE syms == {"y", "n"}
           Bit == [l \in HintLines |-> IF l.sym = "y" THEN 1 ELSE 0]
           c == LinesOf(h, syms)
           d == LinesOf(Append(h, x), syms)
<1>1. c \in Seq(HintLines) /\ d = IF x.sym \in syms THEN Append(c, x) ELSE c
  BY LinesAppend
<1>2. d \in Seq(HintLines)
  BY <1>1
<1>3. Bit \in [HintLines -> {0, 1}]
  OBVIOUS
<1>4. /\ Conds(h) = [i \in DOMAIN c |-> Bit[c[i]]]
      /\ Conds(Append(h, x)) = [i \in DOMAIN d |-> Bit[d[i]]]
  <2>1. \A i \in DOMAIN c : c[i] \in HintLines
    BY <1>1
  <2>2. \A i \in DOMAIN d : d[i] \in HintLines
    BY <1>2
  <2>3. /\ Conds(h) = [i \in DOMAIN c |-> IF c[i].sym = "y" THEN 1 ELSE 0]
        /\ Conds(Append(h, x)) = [i \in DOMAIN d |-> IF d[i].sym = "y" THEN 1 ELSE 0]
    BY Zenon DEF Conds
  <2> HIDE DEF c, d
  <2> QED
    BY <2>1, <2>2, <2>3
<1> HIDE DEF c, d, Bit
<1>5. Conds(h) \in Seq({0, 1})
  BY <1>1, <1>3, <1>4, Mapped
<1>6. ASSUME d = Append(c, x) PROVE Conds(Append(h, x)) = Append(Conds(h), Bit[x])
  BY <1>1, <1>3, <1>4, <1>6, MappedAppend
<1> QED
  BY <1>1, <1>4, <1>5, <1>6 DEF Bit

LEMMA DestsAppend ==
  ASSUME NEW h \in Seq(HintLines), NEW x \in HintLines
  PROVE  /\ Dests(h) \in Seq(Fields)
         /\ x.sym \in {"ICALL", "IBR"} => Dests(Append(h, x)) = Append(Dests(h), x.dest)
         /\ x.sym \notin {"ICALL", "IBR"} => Dests(Append(h, x)) = Dests(h)
<1> DEFINE syms == {"ICALL", "IBR"}
           To == [l \in HintLines |-> l.dest]
           c == LinesOf(h, syms)
           d == LinesOf(Append(h, x), syms)
<1>1. c \in Seq(HintLines) /\ d = IF x.sym \in syms THEN Append(c, x) ELSE c
  BY LinesAppend
<1>2. d \in Seq(HintLines)
  BY <1>1
<1>3. To \in [HintLines -> Fields]
  BY DEF HintLines
<1>4. /\ Dests(h) = [i \in DOMAIN c |-> To[c[i]]]
      /\ Dests(Append(h, x)) = [i \in DOMAIN d |-> To[d[i]]]
  <2>1. \A i \in DOMAIN c : c[i] \in HintLines
    BY <1>1
  <2>2. \A i \in DOMAIN d : d[i] \in HintLines
    BY <1>2
  <2>3. /\ Dests(h) = [i \in DOMAIN c |-> c[i].dest]
        /\ Dests(Append(h, x)) = [i \in DOMAIN d |-> d[i].dest]
    BY Zenon DEF Dests
  <2> HIDE DEF c, d
  <2> QED
    BY <2>1, <2>2, <2>3
<1> HIDE DEF c, d, To
<1>5. Dests(h) \in Seq(Fields)
  BY <1>1, <1>3, <1>4, Mapped
<1>6. ASSUME d = Append(c, x) PROVE Dests(Append(h, x)) = Append(Dests(h), To[x])
  BY <1>1, <1>3, <1>4, <1>6, MappedAppend
<1> QED
  BY <1>1, <1>4, <1>5, <1>6 DEF To

\* A file that was just opened has no lines to compare.
LEMMA NothingPrinted == Conds(<<>>) = <<>> /\ Dests(<<>>) = <<>>
BY LinesEmpty DEF Conds, Dests

\* The hints file is the tail of a trace, of each kind.
Matches(h, r) == IsSuffix(Conds(h), r["cond"]) /\ IsSuffix(Dests(h), r["addr"])

\* What a session recorded are sequences of the values of a trace.
TracesOK == \A s \in Session : \A ch \in {"cond", "addr"} :
              TA!Recorded(s)[ch] \in Seq(Fields \cup {0, 1})

\* What is in the objects and in the buffers has its type.
LEMMA RecordedType == EngineInv => TracesOK
<1> SUFFICES ASSUME EngineInv, NEW s \in Session, NEW ch \in {"cond", "addr"}
             PROVE  TA!Recorded(s)[ch] \in Seq(Fields \cup {0, 1})
  BY DEF TracesOK
<1>1. Engine!IInv /\ ch \in Engine!Chan /\ ch \in Engine!Blob /\ ch \in TA!Chan
  BY DEF EngineInv, Engine!LogInv, Engine!Chan, Engine!Blob, TA!Chan
<1>2. /\ Engine!Own(blob[ch], s) \in Seq(Fields \cup {0, 1})
      /\ ctx[s].buf[ch] \in Seq(Fields \cup {0, 1})
  BY <1>1, EngineConstants, AttestationAssumption, Engine!LogTypes DEF Engine!LogTypes
<1>3. TA!Own(blob[ch], s) = Engine!Own(blob[ch], s)
  BY Zenon DEF TA!Own, Engine!Own
<1> DEFINE buffered == IF TA!Running(s) THEN ctx[s].buf[ch] ELSE <<>>
<1>4. TA!Recorded(s)[ch] = TA!Own(blob[ch], s) \o buffered
  BY <1>1 DEF TA!Recorded
<1>5. buffered \in Seq(Fields \cup {0, 1})
  BY <1>2
<1> HIDE DEF buffered
<1> QED
  BY <1>2, <1>3, <1>4, <1>5

LEMMA RecordedTypeNext == EngineInv' => TracesOK'
BY RecordedType, PTL

\* The trace stays what it is, unless an event is recorded or lost.
LEMMA RecordedStays ==
  ASSUME NEW s, sess = s, sess' = s,
         UNCHANGED <<blob, session[s], ctx[s].initialized, ctx[s].buf>>
  PROVE  TA!Recorded(sess)' = TA!Recorded(sess)
<1>1. TA!Recorded(sess) = [ch \in TA!Chan |-> TA!Own(blob[ch], s) \o
                             (IF TA!Running(s) THEN ctx[s].buf[ch] ELSE <<>>)]
  BY DEF TA!Recorded
<1>2. TA!Recorded(sess)' = [ch \in TA!Chan |-> TA!Own(blob'[ch], s) \o
                             (IF TA!Running(s)' THEN ctx'[s].buf[ch] ELSE <<>>)]
  BY DEF TA!Recorded, TA!Running
<1>3. TA!Running(s)' = TA!Running(s)
  BY DEF TA!Running
<1> QED
  BY <1>1, <1>2, <1>3

\* What a line adds, and what an event adds to the trace, are the same.
LEMMA MatchesMore ==
  ASSUME NEW h \in Seq(HintLines), NEW e \in Events, Hinted(e), NEW r, NEW q,
         r["cond"] \in Seq(Fields \cup {0, 1}), r["addr"] \in Seq(Fields \cup {0, 1}),
         Matches(h, r),
         IF e.etype = "CONDBR"
         THEN q["cond"] = Append(r["cond"], TA!CondByte(e.a)) /\ q["addr"] = r["addr"]
         ELSE q["addr"] = Append(r["addr"], e.b) /\ q["cond"] = r["cond"]
  PROVE  Matches(Append(h, HintOf(e)), q)
<1> DEFINE Vals == Fields \cup {0, 1}
           x == HintOf(e)
           c == Conds(h)
           d == Dests(h)
<1>1. x \in HintLines
  BY HintType
<1>2. c \in Seq({0, 1}) /\ d \in Seq(Fields)
  BY <1>1, CondsAppend, DestsAppend
<1>3. c \in Seq(Vals) /\ d \in Seq(Vals)
  BY <1>2
<1>4. CASE e.etype = "CONDBR"
  <2>1. e.a \in {0, 1}
    BY <1>4, TrampolineAssumption
  <2>2. x.sym \in {"y", "n"} /\ (IF x.sym = "y" THEN 1 ELSE 0) = TA!CondByte(e.a)
    BY <1>4, <2>1 DEF HintOf, TA!CondByte
  <2>3. TA!CondByte(e.a) \in Vals
    BY DEF TA!CondByte
  <2>4. Conds(Append(h, x)) = Append(c, TA!CondByte(e.a)) /\ Dests(Append(h, x)) = d
    <3>1. x.sym \notin {"ICALL", "IBR"}
      BY <2>2
    <3> HIDE DEF x
    <3> QED
      BY <1>1, <2>2, <3>1, CondsAppend, DestsAppend
  <2> HIDE DEF Vals, x, c, d
  <2>5. IsSuffix(c, r["cond"]) /\ IsSuffix(d, r["addr"])
    BY DEF Matches, c, d
  <2>6. IsSuffix(Append(c, TA!CondByte(e.a)), Append(r["cond"], TA!CondByte(e.a)))
    BY <1>3, <2>3, <2>5, SuffixAppend DEF Vals
  <2> QED
    BY <1>4, <2>4, <2>5, <2>6 DEF Matches, x
<1>5. CASE e.etype # "CONDBR"
  <2>1. e.etype \in {"ICALL", "IBR"} /\ e.b \in Fields
    BY <1>5, TrampolineAssumption DEF Hinted
  <2>2. x.sym \in {"ICALL", "IBR"} /\ x.sym \notin {"y", "n"} /\ x.dest = e.b
    BY <1>5, <2>1 DEF HintOf
  <2>3. Dests(Append(h, x)) = Append(d, e.b) /\ Conds(Append(h, x)) = c
    <3> HIDE DEF x
    <3> QED
      BY <1>1, <2>2, CondsAppend, DestsAppend
  <2>4. e.b \in Vals
    BY <2>1
  <2> HIDE DEF Vals, x, c, d
  <2>5. IsSuffix(c, r["cond"]) /\ IsSuffix(d, r["addr"])
    BY DEF Matches, c, d
  <2>6. IsSuffix(Append(d, e.b), Append(r["addr"], e.b))
    BY <1>3, <2>4, <2>5, SuffixAppend DEF Vals
  <2> QED
    BY <1>5, <2>3, <2>5, <2>6 DEF Matches, x
<1> QED
  BY <1>4, <1>5

\* An event that is handled adds what its hint will say; one without a hint
\* adds nothing.
LEMMA EventRecords ==
  ASSUME EngineInv, ~mayFail, NEW s \in Session, sess = s, sess' = s,
         NEW types, NEW e \in Events, Handles(s, types, e),
         ctx[s].initialized, session'[s] = "open"
  PROVE  /\ e.etype = "CONDBR" =>
              /\ TA!Recorded(sess)'["cond"]
                   = Append(TA!Recorded(sess)["cond"], TA!CondByte(e.a))
              /\ TA!Recorded(sess)'["addr"] = TA!Recorded(sess)["addr"]
         /\ e.etype \in {"ICALL", "IBR"} =>
              /\ TA!Recorded(sess)'["addr"] = Append(TA!Recorded(sess)["addr"], e.b)
              /\ TA!Recorded(sess)'["cond"] = TA!Recorded(sess)["cond"]
         /\ ~Hinted(e) => TA!Recorded(sess)' = TA!Recorded(sess)
<1>1. \A ch \in Engine!Chan :
        /\ TA!Recorded(sess)[ch] = Engine!Recorded(s)[ch]
        /\ TA!Recorded(sess)'[ch] = Engine!Recorded(s)'[ch]
  <2>1. \A o : TA!Own(o, s) = Engine!Own(o, s)
    BY Zenon DEF TA!Own, Engine!Own
  <2>2. TA!Chan = Engine!Chan
    BY DEF TA!Chan, Engine!Chan
  <2>3. /\ TA!Recorded(sess) = [ch \in TA!Chan |-> TA!Own(blob[ch], s) \o
                                  (IF TA!Running(s) THEN ctx[s].buf[ch] ELSE <<>>)]
        /\ TA!Recorded(sess)' = [ch \in TA!Chan |-> TA!Own(blob'[ch], s) \o
                                   (IF TA!Running(s)' THEN ctx'[s].buf[ch] ELSE <<>>)]
    BY DEF TA!Recorded, TA!Running
  <2>4. /\ Engine!Recorded(s) = [ch \in Engine!Chan |-> Engine!Own(blob[ch], s) \o
                                  (IF Engine!Running(s) THEN ctx[s].buf[ch] ELSE <<>>)]
        /\ Engine!Recorded(s)' = [ch \in Engine!Chan |-> Engine!Own(blob'[ch], s) \o
                                   (IF Engine!Running(s)' THEN ctx'[s].buf[ch] ELSE <<>>)]
    BY DEF Engine!Recorded, Engine!Running
  <2>5. /\ TA!Running(s) <=> Engine!Running(s)
        /\ TA!Running(s)' <=> Engine!Running(s)'
    BY DEF TA!Running, Engine!Running
  <2> TAKE ch \in Engine!Chan
  <2>6. ch \in TA!Chan
    BY <2>2
  <2>7. TA!Recorded(sess)[ch] = TA!Own(blob[ch], s) \o
                                (IF TA!Running(s) THEN ctx[s].buf[ch] ELSE <<>>)
    BY <2>3, <2>6
  <2>8. TA!Recorded(sess)'[ch] = TA!Own(blob'[ch], s) \o
                                 (IF TA!Running(s)' THEN ctx'[s].buf[ch] ELSE <<>>)
    BY <2>3, <2>6
  <2>9. Engine!Recorded(s)[ch] = Engine!Own(blob[ch], s) \o
                                (IF Engine!Running(s) THEN ctx[s].buf[ch] ELSE <<>>)
    BY <2>4
  <2>10. Engine!Recorded(s)'[ch] = Engine!Own(blob'[ch], s) \o
                                 (IF Engine!Running(s)' THEN ctx'[s].buf[ch] ELSE <<>>)
    BY <2>4
  <2>11. /\ TA!Own(blob[ch], s) = Engine!Own(blob[ch], s)
         /\ TA!Own(blob'[ch], s) = Engine!Own(blob'[ch], s)
    BY <2>1
  <2>12. TA!Recorded(sess)[ch] = Engine!Recorded(s)[ch]
    BY <2>5, <2>7, <2>9, <2>11
  <2>13. TA!Recorded(sess)'[ch] = Engine!Recorded(s)'[ch]
    BY <2>5, <2>8, <2>10, <2>11
  <2> QED
    BY <2>12, <2>13
<1>2. "cond" \in Engine!Chan /\ "addr" \in Engine!Chan /\ "cond" # "addr"
  BY DEF Engine!Chan
<1>3. ASSUME NEW ch \in Engine!Chan, NEW v \in Fields \cup {0, 1}, TA!TraceEvent(s, types, ch, v)
      PROVE  /\ Engine!Recorded(s)'[ch] = Append(Engine!Recorded(s)[ch], v)
             /\ \A k \in Engine!Chan : k # ch => Engine!Recorded(s)'[k] = Engine!Recorded(s)[k]
  <2>1. Engine!TraceEvent(s, types, ch, v)
    BY <1>3, TraceAllowed
  <2>2. Engine!LogInv
    BY DEF EngineInv
  <2> QED
    BY <2>1, <2>2, <1>3, EngineConstants, AttestationAssumption, Engine!TraceAppends
    DEF Engine!TraceAppends
<1>4. ASSUME e.etype = "CONDBR"
      PROVE  /\ TA!Recorded(sess)'["cond"]
                  = Append(TA!Recorded(sess)["cond"], TA!CondByte(e.a))
             /\ TA!Recorded(sess)'["addr"] = TA!Recorded(sess)["addr"]
  <2>1. TA!TraceEvent(s, types, "cond", TA!CondByte(e.a))
    BY <1>4 DEF Handles, TA!ControlEvent, TA!AddressEvent, TA!CondEvent, TA!DefEvent,
                TA!UseEvent, TA!UnknownEvent
  <2>2. TA!CondByte(e.a) \in Fields \cup {0, 1}
    BY DEF TA!CondByte
  <2> QED
    BY <1>1, <1>2, <1>3, <2>1, <2>2
<1>5. ASSUME e.etype \in {"ICALL", "IBR"}
      PROVE  /\ TA!Recorded(sess)'["addr"] = Append(TA!Recorded(sess)["addr"], e.b)
             /\ TA!Recorded(sess)'["cond"] = TA!Recorded(sess)["cond"]
  <2>1. TA!TraceEvent(s, types, "addr", e.b)
    BY <1>5 DEF Handles, TA!ControlEvent, TA!AddressEvent, TA!CondEvent, TA!DefEvent,
                TA!UseEvent, TA!UnknownEvent
  <2>2. e.b \in Fields \cup {0, 1}
    BY TrampolineAssumption
  <2> QED
    BY <1>1, <1>2, <1>3, <2>1, <2>2
<1>6. ASSUME ~Hinted(e) PROVE TA!Recorded(sess)' = TA!Recorded(sess)
  <2>1. \/ TA!ControlEvent(s, types, e) \/ TA!DefEvent(s, types, e)
        \/ TA!UseEvent(s, types, e) \/ TA!UnknownEvent(s, types, e)
    BY <1>6 DEF Handles, TA!AddressEvent, TA!CondEvent, Hinted
  <2>2. ctx[s] \in Engine!Contexts /\ DOMAIN ctx = Session /\ session[s] = "open"
        /\ session \in [Session -> {"closed", "open", "dead"}]
    BY <2>1, SessionTypes DEF TA!ControlEvent, TA!DefEvent, TA!UseEvent, TA!UnknownEvent,
                              TA!Verify, TA!Accepted
  <2>3. ~TA!Panic(s)
    BY <2>2 DEF TA!Panic
  <2>4. ASSUME NEW m, NEW rep, TA!Stores(s, e, m, rep)
        PROVE  UNCHANGED <<blob, session, ctx[s].initialized, ctx[s].buf>>
    <3>1. PICK map, heap : /\ ctx' = [ctx EXCEPT ![s].map = map, ![s].heap = heap]
                           /\ UNCHANGED <<blob, session>>
      <4>1. PICK map, heap :
              /\ map = TA!Update(ctx[s].map, e.a, e.b)
              /\ heap = IF TA!Allocates(ctx[s].map, e.a)
                        THEN ctx[s].heap + NodeCost ELSE ctx[s].heap
        OBVIOUS
      <4>2. ctx' = [ctx EXCEPT ![s].map = map, ![s].heap = heap]
        BY <2>3, <2>4, <4>1, Zenon DEF TA!Stores
      <4>3. UNCHANGED <<blob, session>>
        BY <2>3, <2>4 DEF TA!Stores
      <4> QED
        BY <4>2, <4>3
    <3> QED
      BY <2>2, <3>1 DEF Engine!Contexts
  <2>5. CASE TA!ControlEvent(s, types, e)
    <3>1. /\ ctx' = [ctx EXCEPT ![s].S.fed = Append(@, <<e.a, e.b>>)]
          /\ UNCHANGED <<blob, session>>
      BY <2>5 DEF TA!ControlEvent
    <3>2. UNCHANGED <<ctx[s].initialized, ctx[s].buf>>
      BY <2>2, <3>1 DEF Engine!Contexts
    <3> QED
      BY <3>1, <3>2, RecordedStays
  <2>6. CASE UNCHANGED <<blob, session, ctx>>
    BY <2>6, RecordedStays
  <2>7. ASSUME UNCHANGED <<blob, session, ctx[s].initialized, ctx[s].buf>>
        PROVE  TA!Recorded(sess)' = TA!Recorded(sess)
    BY <2>7, RecordedStays
  <2> QED
    BY <2>1, <2>3, <2>4, <2>5, <2>6, <2>7 DEF TA!DefEvent, TA!UseEvent, TA!UnknownEvent
<1> QED
  BY <1>4, <1>5, <1>6

\* A command that is answered leaves the storage as good as it was; one of
\* test_world_switch() leaves everything.
LEMMA ServeKeeps ==
  ASSUME NEW fn, NEW s, Serve(fn, s)
  PROVE  /\ UNCHANGED mayFail
         /\ fn = "switch" => UNCHANGED <<blob, session, ctx>>
<1>1. UNCHANGED mayFail
  BY DEF Serve, TA!InvokeDead, TA!InvokeBad, TA!CfaInit, TA!CfaQuote, TA!ControlEvent,
         TA!AddressEvent, TA!CondEvent, TA!TraceEvent, TA!DefEvent, TA!UseEvent,
         TA!UnknownEvent, TA!Verify, TA!Accepted
<1> QED
  BY <1>1 DEF Serve, TA!InvokeDead, TA!InvokeBad

-----------------------------------------------------------------------------
(* The hints file, between two steps.                                      *)

\* The thread is where nothing of the trace is without its hint, or on its way
\* through handle_event() with an event that the engine has not heard of.
Settled == \/ pc[Main] = 0 \/ call[Main].fn \in {"event", "switch"}
           \/ In("hinted", 1, 6)

\* What is printed to an open file: nothing before the operation, then what is
\* recorded, but for the hint of an event that is still to be printed.
HintsOK ==
  hfp = "open" /\ ~mayFail =>
    /\ In("init", 5, 6) => hints = <<>>
    /\ cfv_start /\ Settled => Matches(hints, TA!Recorded(sess))
    /\ cfv_start /\ In("hinted", 7, 8) =>
         Matches(Append(hints, HintOf(call[Main].ev)), TA!Recorded(sess))

\* The function of an event that has no hint is not on the path of one that has.
HintKind == call[Main].fn = "event" => ~Hinted(call[Main].ev)

\* A call keeps the event it was made with.
LEMMA HintKindStep ==
  ASSUME Thread = {Main}, IInv, HintKind, [Next]_trampolineVars
  PROVE  HintKind'
<1>1. CASE call' = call
  BY <1>1 DEF HintKind
<1>2. ASSUME \/ CallInit(Main) \/ CallQuote(Main) \/ CallSwitch(Main)
             \/ \E e \in Events : CallEvent(Main, e)
      PROVE  HintKind'
  <2>1. PICK fn, e, n : Enter(Main, fn, e, n) /\ (fn = "event" => ~Hinted(e))
    BY <1>2 DEF CallInit, CallQuote, CallSwitch, CallEvent
  <2>2. call'[Main] = [fn |-> fn, ev |-> e]
    BY <2>1, MainAssumption DEF Enter, IInv, Control
  <2> QED
    BY <2>1, <2>2 DEF HintKind
<1>3. ASSUME Local(Main) PROVE HintKind'
  BY <1>1, <1>2, <1>3, LocalMoves
<1>4. CASE Restart
  <2>1. call'[Main] = Idle
    BY <1>4, MainAssumption DEF Restart
  <2> QED
    BY <2>1 DEF HintKind, Idle
<1>5. CASE \/ CloseTa(Main) \/ Terminate \/ UNCHANGED trampolineVars
           \/ \E s \in Session : OpenTa(Main, s)
           \/ \E success \in BOOLEAN : Invoked(Main, success)
  BY <1>1, <1>5 DEF CloseTa, OpenTa, Invoked, Terminate, Advance, Ends, trampolineVars
<1> QED
  BY <1>3, <1>4, <1>5 DEF Next

\* The trace is what it was while the engine is.
LEMMA TraceStays ==
  ASSUME UNCHANGED <<sess, blob, session, ctx>>
  PROVE  TA!Recorded(sess)' = TA!Recorded(sess)
BY RecordedStays

\* Calls of the library begin with the file and the trace as they are.
LEMMA EnterHints ==
  ASSUME IInv, HintsOK, NEW fn, NEW e, NEW n, Enter(Main, fn, e, n), UNCHANGED engine,
         \/ n = 1 /\ fn \in {"init", "quote", "switch", "event", "hinted"}
         \/ n = 7 /\ fn = "hinted" /\ ~cfv_start
  PROVE  HintsOK'
<1>1. /\ call'[Main].fn = fn /\ pc'[Main] = n /\ pc[Main] = 0
      /\ UNCHANGED <<cfv_start, hfp, hints, sess, session, ctx, blob, mayFail>>
  BY MainAssumption DEF Enter, globals, engine, IInv, Control
<1>2. TA!Recorded(sess)' = TA!Recorded(sess)
  BY <1>1, TraceStays
<1> QED
  BY <1>1, <1>2 DEF HintsOK, Settled, In

\* The steps on op and on cfv_start print nothing.
LEMMA StoreHints ==
  ASSUME IInv, HintsOK, NEW step \in {"clear", "types", "etype", "a", "b"}, NEW o,
         StoreOp(Main, step, o), UNCHANGED engine
  PROVE  HintsOK'
<1>1. /\ call' = call /\ pc'[Main] = After(call[Main].fn, pc[Main])
      /\ UNCHANGED <<cfv_start, hfp, hints, sess, session, ctx, blob, mayFail>>
      /\ At(Main, step)
  BY Onward DEF StoreOp, engine
<1>2. TA!Recorded(sess)' = TA!Recorded(sess)
  BY <1>1, TraceStays
<1>3. CASE ReportsEvent(Main)
  <2>1. pc[Main] \in 1..5
    BY <1>1, <1>3, EventPlace, MainAssumption
  <2>2. pc'[Main] \in 1..6
    BY <1>1, <1>3, <2>1 DEF After, Steps, ReportsEvent
  <2> QED
    BY <1>1, <1>2, <1>3, <2>1, <2>2 DEF HintsOK, Settled, In, ReportsEvent
<1>4. CASE ~ReportsEvent(Main)
  <2>1. \/ In("init", 2, 3) /\ pc'[Main] \in 3..4
        \/ In("quote", 1, 2) /\ pc'[Main] \in 2..3
        \/ In("switch", 1, 2) /\ pc'[Main] \in 2..3
    BY <1>1, <1>4, OtherPlace DEF In, After, Steps
  <2> QED
    BY <1>1, <1>2, <2>1 DEF HintsOK, Settled, In
<1> QED
  BY <1>3, <1>4

\* The file is opened empty, and closed with cfv_start cleared.
LEMMA FileHints ==
  ASSUME IInv, HintsOK, Fopen(Main) \/ Start(Main) \/ Stop(Main) \/ Fclose(Main),
         Running', UNCHANGED engine
  PROVE  HintsOK'
<1>1. PICK step \in {"fopen", "start", "stop", "fclose"} : At(Main, step) /\ Advance(Main)
  BY DEF Fopen, Start, Stop, SetStart, Fclose, Ends, Running
<1>2. call' = call /\ pc'[Main] = After(call[Main].fn, pc[Main])
  BY <1>1, Onward
<1>3. ~ReportsEvent(Main)
  BY <1>1, EventPlace, MainAssumption
<1>4. CASE Fopen(Main)
  <2>1. At(Main, "fopen") /\ (hfp' = "open" => hints' = <<>>)
    BY <1>4 DEF Fopen
  <2>2. In("init", 4, 4) /\ pc'[Main] = 5
    BY <1>2, <1>3, <2>1, OtherPlace DEF In, After, Steps
  <2> QED
    BY <1>2, <2>1, <2>2 DEF HintsOK, Settled, In
<1>5. CASE Start(Main)
  <2>1. At(Main, "start") /\ UNCHANGED <<hfp, hints, mayFail>>
    BY <1>5 DEF Start, SetStart, engine
  <2>2. In("init", 5, 5) /\ pc'[Main] = 6
    BY <1>2, <1>3, <2>1, OtherPlace DEF In, After, Steps
  <2> QED
    BY <1>2, <2>1, <2>2 DEF HintsOK, Settled, In
<1>6. CASE Stop(Main)
  <2>1. At(Main, "stop") /\ ~cfv_start'
    BY <1>6 DEF Stop, SetStart
  <2>2. In("quote", 4, 4)
    BY <1>3, <2>1, OtherPlace DEF In
  <2> QED
    BY <1>2, <2>1, <2>2 DEF HintsOK, In
<1>7. CASE Fclose(Main)
  <2>1. hfp' = "closed"
    BY <1>7 DEF Fclose, Ends, Running
  <2> QED
    BY <2>1 DEF HintsOK
<1> QED
  BY <1>4, <1>5, <1>6, <1>7

\* The hint of an event that was recorded is printed.
LEMMA PrintHints ==
  ASSUME IInv, HintsOK, TestHint(Main) \/ PrintHint(Main), Running', UNCHANGED engine
  PROVE  HintsOK'
<1>1. PICK step \in {"hint", "print"} : At(Main, step)
  BY DEF TestHint, PrintHint
<1>2. ReportsEvent(Main) /\ pc[Main] \in 7..8
  BY <1>1, OtherPlace, EventPlace, MainAssumption
<1>3. call[Main].fn = "hinted"
  BY <1>2, PlaceType DEF ReportsEvent
<1>4. UNCHANGED <<call, cfv_start, hfp, sess, session, ctx, blob, mayFail>>
  BY DEF TestHint, PrintHint, Advance, Return, Ends, Running, globals, engine
<1>5. TA!Recorded(sess)' = TA!Recorded(sess)
  BY <1>4, TraceStays
<1>6. CASE TestHint(Main)
  <2>1. At(Main, "hint") /\ UNCHANGED hints
    BY <1>6 DEF TestHint, globals
  <2>2. pc[Main] = 7
    BY <1>2, <2>1, EventPlace, MainAssumption
  <2>3. CASE hfp = "NULL" \/ ~cfv_start
    BY <1>3, <1>4, <2>3 DEF HintsOK, In
  <2>4. CASE Advance(Main)
    <3>1. pc'[Main] = 8
      BY <1>3, <2>2, <2>4, Onward DEF After, Steps
    <3> QED
      BY <1>3, <1>4, <1>5, <2>1, <2>2, <3>1 DEF HintsOK, Settled, In
  <2> QED
    BY <1>6, <2>3, <2>4 DEF TestHint
<1>7. CASE PrintHint(Main)
  <2>1. At(Main, "print") /\ Advance(Main)
        /\ (hfp = "open" => hints' = Append(hints, HintOf(call[Main].ev)))
    BY <1>7 DEF PrintHint, Ends, Running
  <2>2. pc[Main] = 8
    BY <1>2, <2>1, EventPlace, MainAssumption
  <2>3. pc'[Main] = 0
    BY <1>3, <2>1, <2>2, Onward DEF After, Steps
  <2>4. In("hinted", 7, 8)
    BY <1>3, <2>2 DEF In
  <2>5. hfp = "open" /\ ~mayFail /\ cfv_start => Matches(hints', TA!Recorded(sess)')
    BY <1>5, <2>1, <2>4 DEF HintsOK
  <2>6. ~In("init", 5, 6)' /\ ~In("hinted", 7, 8)'
    BY <2>3 DEF In
  <2> QED
    BY <1>4, <2>5, <2>6 DEF HintsOK
<1> QED
  BY <1>6, <1>7

\* Every step of the library without the engine.
LEMMA LocalHints ==
  ASSUME IInv, HintsOK, Local(Main), Running', UNCHANGED engine
  PROVE  HintsOK'
<1>1. CASE CallInit(Main) \/ CallQuote(Main) \/ CallSwitch(Main)
  BY <1>1, EnterHints DEF CallInit, CallQuote, CallSwitch
<1>2. ASSUME NEW e \in Events, CallEvent(Main, e) PROVE HintsOK'
  <2>1. Len(EventPath) + 1 = 7
    BY DEF EventPath
  <2> QED
    BY <1>2, <2>1, EnterHints DEF CallEvent
<1>3. CASE Clear(Main) \/ SetTypes(Main) \/ SetEtype(Main) \/ SetA(Main) \/ SetB(Main)
  BY <1>3, StoreHints DEF Clear, SetTypes, SetEtype, SetA, SetB
<1>4. CASE Fopen(Main) \/ Start(Main) \/ Stop(Main) \/ Fclose(Main)
  BY <1>4, FileHints
<1>5. CASE TestHint(Main) \/ PrintHint(Main)
  BY <1>5, PrintHints
<1>6. ~OpenRefused(Main)
  BY DEF OpenRefused, Ends, Running
<1> QED
  BY <1>1, <1>2, <1>3, <1>4, <1>5, <1>6 DEF Local

\* An event that the program goes on after was handled.
LEMMA EventHandled ==
  ASSUME IInv, Filled(Main), SiteOK, NEW s, ReportsEvent(Main), pc[Main] = 6,
         Serve(call[Main].fn, s), result' = "SUCCESS"
  PROVE  Handles(s, Types(call[Main].fn), call[Main].ev) /\ call[Main].ev \in Events
<1>1. Decode(op) = call[Main].ev /\ call[Main].ev \in Events
  BY EventSent DEF SiteOK
<1>2. ~TA!InvokeDead(s) /\ ~TA!InvokeBad(s, Types(call[Main].fn), Expected[call[Main].fn])
  BY DEF TA!InvokeDead, TA!InvokeBad, TA!Returns
<1> QED
  BY <1>1, <1>2 DEF Serve, Handles, ReportsEvent

\* An invocation: the engine records the event whose hint is printed next.
LEMMA InvokeHints ==
  ASSUME IInv, Filled(Main), SiteOK, EngineInv, EngineInv', LinkOK, HintKind, HintsOK,
         Invoke(Main), Running'
  PROVE  HintsOK'
<1>1. At(Main, "invoke")
  BY DEF Invoke
<1>2. Advance(Main) /\ UNCHANGED <<cfv_start, hfp, hints, sess>>
  BY DEF Invoke, Invoked, Ends, Running, globals
<1>3. call' = call /\ pc'[Main] = After(call[Main].fn, pc[Main])
  BY <1>2, Onward
<1>4. ASSUME UNCHANGED <<blob, session, ctx, mayFail>>, call[Main].fn = "switch"
      PROVE  HintsOK'
  <2>1. pc'[Main] \in {0} \cup 4..7 /\ Settled
    BY <1>1, <1>3, <1>4, InvokePlace DEF In, Settled
  <2>2. TA!Recorded(sess)' = TA!Recorded(sess)
    BY <1>2, <1>4, TraceStays
  <2> QED
    BY <1>2, <1>3, <1>4, <2>1, <2>2 DEF HintsOK, Settled, In
<1>5. CASE UNCHANGED engine /\ Invoked(Main, FALSE)
  <2>1. call[Main].fn = "switch"
    BY <1>5 DEF Invoked, Ends, Running
  <2> QED
    BY <1>4, <1>5, <2>1 DEF engine
<1>6. CASE Connected /\ Serve(call[Main].fn, sess) /\ Invoked(Main, result' = "SUCCESS")
  <2>1. Served /\ UNCHANGED mayFail
    BY <1>1, <1>6, ServeIs, ServeKeeps
  <2>2. result' = "SUCCESS" \/ call[Main].fn = "switch"
    BY <1>6 DEF Invoked, Ends, Running
  <2>3. sess \in Session
    BY <1>6, ConnectedSession DEF Connected
  <2>4. CASE In("init", 6, 6)
    <3>1. pc'[Main] = 0
      BY <1>1, <1>3, <2>4, InvokePlace DEF In
    <3>2. Matches(<<>>, TA!Recorded(sess)')
      <4>1. /\ TA!Recorded(sess)'["cond"] \in Seq(Fields \cup {0, 1})
            /\ TA!Recorded(sess)'["addr"] \in Seq(Fields \cup {0, 1})
        BY <1>2, <2>3, RecordedTypeNext DEF TracesOK
      <4> QED
        BY <4>1, NothingPrinted, SuffixEmpty DEF Matches
    <3>3. hfp = "open" /\ ~mayFail => hints' = <<>>
      BY <1>2, <2>4 DEF HintsOK, In
    <3> QED
      BY <1>2, <1>3, <2>1, <2>4, <3>1, <3>2, <3>3 DEF HintsOK, In
  <2>5. CASE In("quote", 3, 3)
    <3>1. pc'[Main] = 4
      BY <1>1, <1>3, <2>5, InvokePlace DEF In
    <3> QED
      BY <1>3, <2>5, <3>1 DEF HintsOK, Settled, In
  <2>6. CASE In("switch", 3, 7)
    BY <1>4, <1>6, <2>1, <2>6, ServeKeeps DEF In
  <2>7. CASE In("event", 6, 6) \/ In("hinted", 6, 6)
    <3> DEFINE e == call[Main].ev
    <3>1. ReportsEvent(Main) /\ pc[Main] = 6 /\ result' = "SUCCESS"
      BY <2>2, <2>7 DEF In, ReportsEvent
    <3>2. Handles(sess, Types(call[Main].fn), e) /\ e \in Events
      BY <1>6, <3>1, EventHandled
    <3>3. Ready(sess) /\ session'[sess] = "open"
      BY <2>1, <3>1 DEF LinkOK, Between, ReportsEvent, Served
    <3>4. CASE In("event", 6, 6)
      <4>1. pc'[Main] = 0 /\ ~Hinted(e)
        BY <1>1, <1>3, <3>4, InvokePlace DEF In, HintKind
      <4>2. ~mayFail => TA!Recorded(sess)' = TA!Recorded(sess)
        BY <1>2, <2>3, <3>2, <3>3, <4>1, EventRecords DEF Ready
      <4> QED
        BY <1>2, <1>3, <2>1, <3>4, <4>1, <4>2 DEF HintsOK, Settled, In
    <3>5. CASE In("hinted", 6, 6)
      <4>1. pc'[Main] = 7 /\ Hinted(e) /\ Settled
        BY <1>1, <1>3, <3>5, InvokePlace, MainAssumption DEF In, Settled, IInv, Control
      <4>2. ASSUME hfp = "open", ~mayFail, cfv_start
            PROVE  Matches(Append(hints, HintOf(e)), TA!Recorded(sess)')
        <5>1. IF e.etype = "CONDBR"
              THEN /\ TA!Recorded(sess)'["cond"]
                        = Append(TA!Recorded(sess)["cond"], TA!CondByte(e.a))
                   /\ TA!Recorded(sess)'["addr"] = TA!Recorded(sess)["addr"]
              ELSE /\ TA!Recorded(sess)'["addr"] = Append(TA!Recorded(sess)["addr"], e.b)
                   /\ TA!Recorded(sess)'["cond"] = TA!Recorded(sess)["cond"]
          BY <1>2, <2>3, <3>2, <3>3, <4>1, <4>2, EventRecords DEF Ready, Hinted
        <5>2. /\ TA!Recorded(sess)["cond"] \in Seq(Fields \cup {0, 1})
              /\ TA!Recorded(sess)["addr"] \in Seq(Fields \cup {0, 1})
          BY <2>3, RecordedType DEF TracesOK
        <5>3. Matches(hints, TA!Recorded(sess)) /\ hints \in Seq(HintLines)
          BY <4>1, <4>2 DEF HintsOK, IInv, GlobalsOK
        <5> QED
          BY <3>2, <4>1, <5>1, <5>2, <5>3, MatchesMore
      <4> QED
        BY <1>2, <1>3, <2>1, <3>5, <4>1, <4>2 DEF HintsOK, Settled, In
    <3> QED
      BY <2>7, <3>4, <3>5
  <2> QED
    BY <1>1, <2>4, <2>5, <2>6, <2>7, InvokePlace
<1> QED
  BY <1>5, <1>6 DEF Invoke

\* Opening a session comes before the file is opened, closing it after
\* cfv_start is cleared.
LEMMA SessionHints ==
  ASSUME IInv, LinkOK, HintsOK, Connect(Main) \/ Disconnect(Main)
  PROVE  HintsOK'
<1>1. PICK step \in {"open", "close"} : At(Main, step) /\ Advance(Main)
  BY DEF Connect, Disconnect, OpenTa, CloseTa
<1>2. call' = call /\ pc'[Main] = After(call[Main].fn, pc[Main])
  BY <1>1, Onward
<1>3. ~ReportsEvent(Main)
  BY <1>1, EventPlace, MainAssumption
<1>4. CASE Connect(Main)
  <2>1. At(Main, "open")
    BY <1>4 DEF Connect, OpenTa
  <2>2. In("init", 1, 1) /\ pc'[Main] = 2
    BY <1>2, <1>3, <2>1, OtherPlace DEF In, After, Steps
  <2> QED
    BY <1>2, <2>2 DEF HintsOK, Settled, In
<1>5. CASE Disconnect(Main)
  <2>1. At(Main, "close") /\ UNCHANGED cfv_start
    BY <1>5 DEF Disconnect, CloseTa, globals
  <2>2. In("quote", 5, 5)
    BY <1>3, <2>1, OtherPlace DEF In
  <2>3. ~cfv_start'
    BY <2>1, <2>2 DEF LinkOK, In
  <2> QED
    BY <1>2, <2>2, <2>3 DEF HintsOK, In
<1> QED
  BY <1>4, <1>5

\* The invariant of the system, with the hints file.
TraceInv == SystemInv /\ HintKind /\ (Running => HintsOK)

LEMMA TraceInvNext ==
  ASSUME Thread = {Main}, TraceInv, [SystemNext]_vars
  PROVE  TraceInv'
<1>1. SystemInv /\ SystemInv' /\ HintKind
  BY SystemInvNext DEF TraceInv
<1>2. HintKind'
  <2>1. [Next]_trampolineVars
    BY <1>1, LibraryStep DEF SystemInv
  <2> QED
    BY <1>1, <2>1, HintKindStep DEF SystemInv
<1>3. ASSUME Running' PROVE HintsOK'
  <2>1. ASSUME Running, UNCHANGED <<trampolineVars, engine>> PROVE HintsOK'
    <3>1. UNCHANGED <<pc, call, cfv_start, hfp, hints, sess, session, ctx, blob, mayFail>>
      BY <2>1 DEF trampolineVars, globals, engine
    <3>2. TA!Recorded(sess)' = TA!Recorded(sess)
      BY <3>1, TraceStays
    <3>3. HintsOK
      BY <2>1 DEF TraceInv
    <3> QED
      BY <3>1, <3>2, <3>3 DEF HintsOK, Settled, In
  <2>2. ASSUME Running, Local(Main), UNCHANGED engine PROVE HintsOK'
    BY <1>1, <1>3, <2>2, LocalHints DEF TraceInv, SystemInv
  <2>3. CASE Program(Main)
    BY <2>2, <2>3 DEF Program, Local, CallInit, CallQuote, CallSwitch, CallEvent, Enter, Clear,
      SetTypes, SetEtype, SetA, SetB, StoreOp, OpenRefused, Fopen, Start, Stop, SetStart,
      Fclose, TestHint, PrintHint, At
  <2>4. CASE ReachSite(Main) \/ RunInserted(Main) \/ Reports(Main)
    BY <2>1, <2>4 DEF ReachSite, RunInserted, Reports
  <2>5. CASE Report(Main)
    <3>1. Running /\ UNCHANGED engine /\ Reported(Main) \in Events
      BY <1>1, <2>5, ReportedEvent DEF Report, EnterLibrary, Goes, SystemInv
    <3>2. CASE CallEvent(Main, Reported(Main))
      BY <2>2, <3>1, <3>2 DEF Local
    <3> QED
      BY <2>1, <2>5, <3>1, <3>2 DEF Report
  <2>6. CASE Invoke(Main)
    <3>1. Running
      BY <2>6 DEF Invoke, At
    <3> QED
      BY <1>1, <1>3, <2>6, <3>1, InvokeHints DEF TraceInv, SystemInv
  <2>7. CASE Connect(Main) \/ Disconnect(Main)
    <3>1. Running
      BY <2>7 DEF Connect, OpenTa, Disconnect, CloseTa, At
    <3> QED
      BY <1>1, <2>7, <3>1, SessionHints DEF TraceInv, SystemInv
  <2>8. CASE Restart
    BY <2>8 DEF Restart, HintsOK
  <2>9. ~Terminate /\ \A s \in Session : ~Reap(s)
    <3>1. ~Terminate
      BY <1>3 DEF Terminate, Ends, Running
    <3>2. ASSUME NEW s \in Session, Reap(s) PROVE FALSE
      BY <1>3, <3>2 DEF Reap, trampolineVars, Running
    <3> QED
      BY <3>1, <3>2
  <2>10. CASE UNCHANGED vars
    <3>1. Running /\ UNCHANGED <<trampolineVars, engine>>
      BY <1>3, <2>10 DEF vars, trampolineVars, Running
    <3> QED
      BY <2>1, <3>1
  <2> QED
    BY <2>3, <2>4, <2>5, <2>6, <2>7, <2>8, <2>9, <2>10 DEF SystemNext
<1> QED
  BY <1>1, <1>2, <1>3 DEF TraceInv

LEMMA TraceInvInit == SystemInit => TraceInv
<1> SUFFICES ASSUME SystemInit PROVE TraceInv
  OBVIOUS
<1>1. hfp = "NULL" /\ call[Main].fn = "init"
  BY MainAssumption DEF SystemInit, Init, Idle
<1> QED
  BY <1>1, SystemInvInit DEF TraceInv, HintKind, HintsOK

-----------------------------------------------------------------------------
(* Theorems.                                                               *)

(***************************************************************************)
(* A program with one thread is a disciplined client of every engine it    *)
(* reaches, whatever it calls in which order, however its runs end and     *)
(* whether or not the two sides agree on the parameter types: it           *)
(* initialises a session first and once, and sends it nothing after its    *)
(* quote (cfv_bellman.c:124, 158, 182).                                    *)
(***************************************************************************)
THEOREM ProgramsAreDisciplined ==
  ASSUME Thread = {Main}
  PROVE  System => DisciplinedClients
<1>1. SystemInit => Client!Init
  BY InitEngines DEF SystemInit
<1>2. SystemInv /\ [SystemNext]_vars => [Client!Next]_(Client!vars)
  BY EngineStep DEF SystemInv
<1> QED
  BY <1>1, <1>2, SystemInvariance, PTL DEF System, DisciplinedClients, Client!Spec

(***************************************************************************)
(* ... and so every session of such a program implements the operation     *)
(* log: its quote commits the trace and one digest of exactly the control  *)
(* events of its operation, whatever other sessions - those of earlier     *)
(* runs of the program - left in the same objects                          *)
(* (hello_world_ta.c:279-364).                                             *)
(***************************************************************************)
THEOREM ProgramsAreLogged ==
  ASSUME Thread = {Main}
  PROVE  System => Engine!ImplementsLog
<1>1. SystemInit => Engine!Init
  BY InitEngines DEF SystemInit
<1>2. SystemInv /\ [SystemNext]_vars => [Engine!Next]_(Engine!vars)
  BY EngineStep DEF SystemInv
<1>3. System => Engine!Spec
  BY <1>1, <1>2, SystemInvariance, PTL DEF System, Engine!Spec
<1>4. Engine!Spec => Engine!ImplementsLog
  BY EngineConstants, AttestationAssumption, Engine!EngineImplementsLog
  DEF Engine!EngineImplementsLog
<1> QED
  BY <1>3, <1>4, PTL

(***************************************************************************)
(* The steps of the system are steps of the library as the module          *)
(* Trampoline has it, where the TEE may answer anything.                   *)
(***************************************************************************)
THEOREM SystemImplementsLibrary ==
  ASSUME Thread = {Main}
  PROVE  System => Spec
<1>1. SystemInit => Init
  BY DEF SystemInit
<1>2. SystemInv /\ [SystemNext]_vars => [Next]_trampolineVars
  BY LibraryStep DEF SystemInv
<1> QED
  BY <1>1, <1>2, SystemInvariance, PTL DEF System, Spec

(***************************************************************************)
(* Every event reaches the engine as the program, or the stub of a         *)
(* transfer, reported it (cfv_bellman.c:184-198).                          *)
(***************************************************************************)
THEOREM EventsReachTheEngine ==
  ASSUME Thread = {Main}
  PROVE  System => []EventsAsSent
BY SystemImplementsLibrary, OneThreadSendsEvents, PTL

(***************************************************************************)
(* The program finds its registers as they were in front of a transfer,    *)
(* restarts included (trampoline.S:9-31).                                  *)
(***************************************************************************)
THEOREM SystemKeepsRegisters ==
  ASSUME Thread = {Main}
  PROVE  System => []RegistersKept
<1>1. SystemInv => RegistersKept
  BY DEF SystemInv, CpuInv, StateOK, KeptOK, SameBut, RegistersKept
<1> QED
  BY <1>1, SystemInvariance, PTL

\* The values a session wrote to the object of the addresses are a sequence.
LEMMA OwnSequence ==
  ASSUME EngineInv, NEW s \in Session
  PROVE  TA!Own(blob["addr"], s) \in Seq(Fields \cup {0, 1})
<1>1. Engine!IInv
  BY DEF EngineInv, Engine!LogInv
<1>2. "addr" \in Engine!Chan /\ "addr" \in Engine!Blob
  BY DEF Engine!Chan, Engine!Blob
<1>3. Engine!Own(blob["addr"], s) \in Seq(Fields \cup {0, 1})
  BY <1>1, <1>2, EngineConstants, AttestationAssumption, Engine!LogTypes
  DEF Engine!LogTypes
<1>4. TA!Own(blob["addr"], s) = Engine!Own(blob["addr"], s)
  BY Zenon DEF TA!Own, Engine!Own
<1> QED
  BY <1>3, <1>4

(***************************************************************************)
(* Where an indirect transfer goes is the last thing that the engine       *)
(* recorded of its kind, for every site whose target is not in one of the  *)
(* registers that nobody saves, every register contents and everything the *)
(* library may leave behind (trampoline.S:9-31, cfv_bellman.c:182-202,     *)
(* hello_world_ta.c:273-300).                                              *)
(***************************************************************************)
THEOREM TransfersAreAttested ==
  ASSUME Thread = {Main}
  PROVE  System => []TransfersAttested
<1>1. SystemInv => TransfersAttested
  <2> DEFINE c == cpu[Main]
             k == ctx[sess]
  <2> SUFFICES ASSUME SystemInv, Running, c.at = "transfer", c.site.reg \notin Unsaved,
                      cfv_start, Connected, session[sess] = "open"
               PROVE  IF c.site.op = "ret"
                      THEN Last(k.S.fed) = <<c.site.ret, Target(Main)>>
                      ELSE Last(TA!Recorded(sess)["addr"]) = Target(Main)
    BY DEF TransfersAttested
  <2>1. StateOK(c) /\ c.site \in Site
    BY MainAssumption DEF SystemInv, CpuInv, StateOK, AtSite
  <2>2. c.args = <<Target(Main), c.site.ret>>
    <3>1. Target(Main) = c.entry[c.site.reg]
      BY <2>1, SiteFields DEF StateOK, KeptOK, SameBut, Target
    <3> QED
      BY <2>1, <3>1 DEF StateOK, ArgsOK
  <2>3. Noted(k, Reported(Main))
    BY DEF SystemInv, NotedOK, Heard
  <2>4. Reported(Main) = [etype |-> EventOf[c.site.op], a |-> c.site.ret, b |-> Target(Main)]
    BY <2>2 DEF Reported, EventAt
  <2>5. sess \in Session
    BY ConnectedSession DEF SystemInv, Connected
  <2>6. pc[Main] = 0 /\ k.initialized
    BY DEF SystemInv, SiteOK, LinkOK, Between, Ready
  <2>7. CASE c.site.op = "ret"
    <3>1. EventOf["ret"] = "CTRL"
      BY DEF EventOf
    <3>2. Latest(k.S.fed, <<c.site.ret, Target(Main)>>)
      BY <2>3, <2>4, <2>7, <3>1 DEF Noted
    <3> QED
      BY <2>7, <3>2 DEF Last, Latest
  <2>8. CASE c.site.op # "ret"
    <3>1. c.site.op \in {"blr", "br"}
      BY <2>1, <2>8, TransferAssumption DEF SiteType
    <3>2. EventOf["blr"] = "ICALL" /\ EventOf["br"] = "IBR"
      BY DEF EventOf
    <3>3. Latest(k.buf["addr"], Target(Main))
      BY <2>3, <2>4, <3>1, <3>2 DEF Noted
    <3> DEFINE own == TA!Own(blob["addr"], sess)
    <3>4. TA!Recorded(sess)["addr"] = own \o k.buf["addr"]
      BY <2>6 DEF TA!Recorded, TA!Running, TA!Chan
    <3>5. own \in Seq(Fields \cup {0, 1})
      BY <2>5, OwnSequence DEF SystemInv
    <3>6. k.buf["addr"] \in Seq(Fields \cup {0, 1})
      BY <2>5, SessionTypes DEF SystemInv, Engine!Chan
    <3> HIDE DEF own
    <3>7. Latest(own \o k.buf["addr"], Target(Main))
      BY <3>3, <3>5, <3>6 DEF Latest
    <3> QED
      BY <2>8, <3>4, <3>7 DEF Last, Latest
  <2> QED
    BY <2>7, <2>8
<1> QED
  BY <1>1, SystemInvariance, PTL

(***************************************************************************)
(* The library crashes only when it closes, at the end of a quote, a hints *)
(* file that could not be opened (cfv_bellman.c:153-167, nova.c:42).       *)
(***************************************************************************)
THEOREM CrashesAreExplained ==
  ASSUME Thread = {Main}
  PROVE  System => CrashExplained
<1>1. ASSUME SystemInv, [SystemNext]_vars, Running, status' = "crashed"
      PROVE  hfp = "NULL" /\ At(Main, "fclose")
  <2>1. [Next]_trampolineVars
    BY <1>1, LibraryStep DEF SystemInv
  <2>2. Fclose(Main) \/ PrintHint(Main)
    BY <1>1, <2>1 DEF Next, Local, CallInit, CallQuote, CallSwitch, CallEvent, Enter, Clear,
      SetTypes, SetEtype, SetA, SetB, StoreOp, OpenRefused, Fopen, Start, Stop, SetStart,
      TestHint, Advance, Return, Ends, CloseTa, OpenTa, Invoked, Terminate, Restart,
      trampolineVars, Running
  <2>3. IInv /\ FileOK /\ hfp \in {"NULL", "open", "closed"}
    BY <1>1 DEF SystemInv, IInv, GlobalsOK
  <2>4. CASE Fclose(Main)
    <3>1. At(Main, "fclose") /\ hfp # "open"
      BY <1>1, <2>4 DEF Fclose, Advance, Running
    <3>2. ~ReportsEvent(Main)
      BY <2>3, <3>1, EventPlace, MainAssumption
    <3>3. In("quote", 6, 6)
      BY <2>3, <3>1, <3>2, OtherPlace DEF In
    <3>4. In("quote", 4, 6)
      BY <3>3 DEF In
    <3> QED
      BY <2>3, <3>1, <3>4 DEF FileOK
  <2>5. CASE PrintHint(Main)
    <3>1. At(Main, "print") /\ hfp # "open"
      BY <1>1, <2>5 DEF PrintHint, Advance, Running
    <3>2. ReportsEvent(Main)
      BY <2>3, <3>1, OtherPlace
    <3>3. pc[Main] = 8
      BY <2>3, <3>1, <3>2, EventPlace, MainAssumption
    <3>4. In("hinted", 8, 8)
      BY <2>3, <3>2, <3>3, PlaceType DEF ReportsEvent, In
    <3> QED
      BY <2>3, <3>1, <3>4 DEF FileOK
  <2> QED
    BY <2>2, <2>4, <2>5
<1>2. SystemInv /\ [SystemNext]_vars =>
        [Running /\ status' = "crashed" =>
           /\ hfp = "NULL"
           /\ \E t \in Thread : At(t, "fclose")]_vars
  BY <1>1
<1> QED
  BY <1>2, SystemInvariance, PTL DEF System, CrashExplained

(***************************************************************************)
(* When the two sides agree on the parameter types, the library ends the   *)
(* program only for a session it was refused, for a quote of no operation, *)
(* or for an instance that panicked after it was initialised               *)
(* (check_res(), cfv_bellman.c:61-65).                                     *)
(***************************************************************************)
THEOREM ExitsAreExplained ==
  ASSUME Thread = {Main}, Aligned = TRUE
  PROVE  System => ExitExplained
<1> DEFINE Died == /\ At(Main, "invoke") /\ Connected
                   /\ session[sess] = "open" /\ session'[sess] = "dead"
                   /\ ctx[sess].p # 0
           Empty == At(Main, "invoke") /\ call[Main].fn = "quote" /\ ~Connected
<1>1. ASSUME SystemInv, Running, Invoke(Main), status' = "exited"
      PROVE  Empty \/ Died
  <2>1. IInv /\ LinkOK /\ Filled(Main) /\ TypesOK /\ EngineInv /\ SiteOK
    BY <1>1 DEF SystemInv
  <2>2. At(Main, "invoke")
    BY <1>1 DEF Invoke
  <2>3. call[Main].fn # "switch"
    BY <1>1 DEF Invoke, Invoked, Advance, Running
  <2>4. CASE ~Connected
    <3>1. call[Main].fn = "quote"
      BY <2>1, <2>2, <2>3, <2>4, InvokePlace
      DEF LinkOK, In, Blank, Between, Ready, Connected, ReportsEvent
    <3> QED
      BY <2>2, <2>4, <3>1
  <2>5. CASE Connected
    <3> DEFINE fn == call[Main].fn
    <3>1. sess \in Session /\ session[sess] = "open"
      BY <2>1, <2>2, <2>3, <2>5, InvokePlace, ConnectedSession
      DEF LinkOK, In, Blank, Between, Ready, Connected, ReportsEvent
    <3>2. Serve(fn, sess) /\ result' # "SUCCESS"
      BY <1>1, <2>5 DEF Invoke, Invoked, Advance, Running
    <3>3. ~TA!InvokeDead(sess)
      BY <3>1 DEF TA!InvokeDead
    <3>4. Types(fn) = Expected[fn]
      <4>1. op.types = LibTypes[fn]
        <5>1. CASE ReportsEvent(Main)
          <6>1. pc[Main] = 6
            BY <2>1, <2>2, <5>1, EventPlace, MainAssumption
          <6>2. op.types = LibTypes["event"]
            BY <2>1, <5>1, <6>1 DEF Filled
          <6> QED
            BY <5>1, <6>2 DEF ReportsEvent, LibTypes
        <5>2. CASE ~ReportsEvent(Main)
          BY <2>1, <2>2, <2>3, <5>2, InvokePlace DEF TypesOK, In, ReportsEvent
        <5> QED
          BY <5>1, <5>2
      <4> QED
        BY <4>1 DEF Types
    <3>5. ~TA!InvokeBad(sess, Types(fn), Expected[fn])
      BY <3>4 DEF TA!InvokeBad
    <3>6. ~TA!CfaInit(sess, Types(fn)) /\ ~TA!CfaQuote(sess, Types(fn))
      BY <2>1, <3>1, <3>2, InitEffect, QuoteEffect
    <3>7. fn \in {"event", "hinted"} /\ Handles(sess, Types(fn), Decode(op))
      BY <2>3, <3>2, <3>3, <3>5, <3>6 DEF Serve, Handles
    <3>8. session'[sess] = "dead"
      BY <2>1, <3>1, <3>2, <3>7, EventEffect
    <3>9. Ready(sess)
      BY <2>1, <2>2, <3>7, InvokePlace DEF LinkOK, In, Between, ReportsEvent
    <3>10. ctx[sess].p # 0
      BY <2>1, <3>1, <3>9, SessionTypes DEF Ready
    <3> QED
      BY <2>2, <2>5, <3>1, <3>8, <3>10
  <2> QED
    BY <2>4, <2>5
<1>2. ASSUME SystemInv, [SystemNext]_vars, Running, status' = "exited"
      PROVE  At(Main, "open") \/ Empty \/ Died
  <2> HIDE DEF Empty, Died
  <2>1. CASE Invoke(Main)
    BY <1>1, <1>2, <2>1
  <2>2. ASSUME Local(Main) PROVE At(Main, "open")
    BY <1>2, <2>2 DEF Local, CallInit, CallQuote, CallSwitch, CallEvent, Enter, Clear,
      SetTypes, SetEtype, SetA, SetB, StoreOp, OpenRefused, Fopen, Start, Stop, SetStart,
      Fclose, TestHint, PrintHint, Advance, Return, Ends, Running
  <2>3. /\ ~ReachSite(Main) /\ ~RunInserted(Main) /\ ~Reports(Main) /\ ~Report(Main)
        /\ ~Connect(Main) /\ ~Disconnect(Main) /\ ~Terminate /\ ~Restart
        /\ ~UNCHANGED vars /\ \A s \in Session : ~Reap(s)
    BY <1>2 DEF ReachSite, RunInserted, Reports, Report, CallEvent, Enter, Connect, OpenTa,
      Disconnect, CloseTa, Advance, Terminate, Ends, Restart, Reap, vars, trampolineVars,
      Running
  <2> QED
    BY <1>2, <2>1, <2>2, <2>3 DEF SystemNext, Program
<1>3. SystemInv /\ [SystemNext]_vars =>
        [Running /\ status' = "exited" =>
           \E t \in Thread :
             \/ At(t, "open")
             \/ At(t, "invoke") /\ call[t].fn = "quote" /\ ~Connected
             \/ /\ At(t, "invoke") /\ Connected
                /\ session[sess] = "open" /\ session'[sess] = "dead"
                /\ ctx[sess].p # 0]_vars
  BY <1>2
<1> QED
  BY <1>3, SystemInvariance, PTL DEF System, ExitExplained

(***************************************************************************)
(* Between two calls of a measured operation the hints file, which the     *)
(* verifier works from in place of the blob, is the tail of the trace that *)
(* the engine recorded, whatever was flushed meanwhile and however the     *)
(* runs before ended, as long as storage does not fail (README.md:33,      *)
(* nova.c:36-77, hello_world_ta.c:273-300).                                *)
(***************************************************************************)
THEOREM HintsAreRecorded ==
  ASSUME Thread = {Main}
  PROVE  System => []HintsAreTheTrace
<1>1. TraceInv /\ [SystemNext]_vars => TraceInv'
  BY TraceInvNext
<1>2. TraceInv => HintsAreTheTrace
  BY MainAssumption DEF TraceInv, HintsOK, Settled, Matches, HintsAreTheTrace
<1> QED
  BY <1>1, <1>2, TraceInvInit, PTL DEF System

=============================================================================
