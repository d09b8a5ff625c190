------------------------- MODULE VerifyEngineProofs -------------------------
(***************************************************************************)
(* The replay of every program that can be replayed follows the path which *)
(* the program took.                                                       *)
(***************************************************************************)
EXTENDS VerifyEngine, SequenceTheorems, TLAPS
LOCAL INSTANCE SequencesExt
LOCAL INSTANCE FiniteSetsExt
LOCAL WF == INSTANCE WellFoundedInduction

-----------------------------------------------------------------------------
(* Types.                                                                  *)

Symbols == {"y", "n", "icall", "ijmp"}

\* A return address is behind a call.
ProgramTyped ==
  /\ code \in Programs
  /\ run \in {"running", "ended", "killed"}
  /\ pc \in DOMAIN code
  /\ frames \in Seq(DOMAIN code)
  /\ \A i \in DOMAIN frames :
       frames[i] - 1 \in DOMAIN code /\ code[frames[i] - 1].op \in {"bl", "blr"}
  /\ cond \in BOOLEAN /\ measuring \in BOOLEAN
  /\ hints \in Seq(Symbols)
  /\ path \in Seq((DOMAIN code) \X (DOMAIN code))

LEMMA FrontOf ==
  ASSUME NEW S, NEW s \in Seq(S), s # <<>>
  PROVE  /\ Len(s) \in Nat \ {0} /\ s[Len(s)] \in S /\ DOMAIN s = 1..Len(s)
         /\ SubSeq(s, 1, Len(s) - 1) \in Seq(S)
         /\ Len(SubSeq(s, 1, Len(s) - 1)) = Len(s) - 1
         /\ DOMAIN SubSeq(s, 1, Len(s) - 1) = 1..(Len(s) - 1)
         /\ \A i \in 1..(Len(s) - 1) : SubSeq(s, 1, Len(s) - 1)[i] = s[i]
<1>1. Len(s) \in Nat \ {0} /\ s[Len(s)] \in S /\ DOMAIN s = 1..Len(s)
      /\ \A i \in 1..Len(s) : s[i] \in S
  BY EmptySeq, LenProperties, ElementOfSeq
<1>2. \A i \in 1..(Len(s) - 1) : s[i] \in S
  BY <1>1
<1>3. /\ SubSeq(s, 1, Len(s) - 1) \in Seq(S)
      /\ Len(SubSeq(s, 1, Len(s) - 1)) = Len(s) - 1
      /\ \A i \in 1..(Len(s) - 1) : SubSeq(s, 1, Len(s) - 1)[i] = s[i]
  BY <1>1, <1>2, SubSeqProperties
<1> QED
  BY <1>1, <1>3, LenProperties

LEMMA Extended ==
  ASSUME NEW S, NEW s \in Seq(S), NEW e \in S
  PROVE  /\ Append(s, e) \in Seq(S) /\ Len(s) \in Nat
         /\ DOMAIN s = 1..Len(s)
         /\ Len(Append(s, e)) = Len(s) + 1
         /\ DOMAIN Append(s, e) = 1..(Len(s) + 1)
         /\ Append(s, e)[Len(s) + 1] = e
         /\ \A i \in 1..Len(s) : Append(s, e)[i] = s[i]
OBVIOUS

LEMMA CodeFacts ==
  ASSUME code \in Programs
  PROVE  /\ Len(code) \in Nat \ {0} /\ DOMAIN code = 1..Len(code)
         /\ 1 \in DOMAIN code
         /\ \A a \in DOMAIN code :
              /\ a \in Nat \ {0} /\ code[a] \in Insn
              /\ code[a].op \in Ops /\ code[a].onTrue \in BOOLEAN
              /\ code[a].op \in CbOps \cup {"bl", "blr", "b", "br", "b."}
                   => code[a].to \in DOMAIN code
              /\ code[a].op \notin {"b", "br", "ret"} => a + 1 \in DOMAIN code
              /\ code[a].op = "hook" => code[a].arg \in Hooks
<1>1. code \in Seq(Insn) /\ code # <<>>
  BY ProgramsAssumption
<1>2. Len(code) \in Nat \ {0} /\ DOMAIN code = 1..Len(code)
  BY <1>1
<1>3. \A a \in DOMAIN code : a \in Nat \ {0} /\ code[a] \in Insn
  BY <1>1, <1>2
<1> QED
  BY <1>2, <1>3, ProgramsAssumption DEF Insn

LEMMA InitTyped == Init => ProgramTyped
<1>1. \A S : <<>> \in Seq(S)
  BY EmptySeq
<1>2. DOMAIN <<>> = {}
  OBVIOUS
<1> QED
  BY <1>1, <1>2, CodeFacts DEF Init, ProgramTyped

LEMMA RunTyped ==
  ASSUME ProgramTyped, Run
  PROVE  ProgramTyped'
<1> USE DEF Executes, Next1
<1>1. /\ code \in Programs /\ pc \in DOMAIN code /\ frames \in Seq(DOMAIN code)
      /\ hints \in Seq(Symbols) /\ path \in Seq((DOMAIN code) \X (DOMAIN code))
      /\ cond \in BOOLEAN /\ measuring \in BOOLEAN
      /\ run \in {"running", "ended", "killed"}
  BY DEF ProgramTyped
<1>2. ASSUME code' = code, run' = run, pc' \in DOMAIN code,
             \/ UNCHANGED frames
             \/ frames' = SubSeq(frames, 1, Len(frames) - 1) /\ frames # <<>>
             \/ code[pc].op \in {"bl", "blr"} /\ frames' = Append(frames, pc + 1),
             cond' \in BOOLEAN, measuring' \in BOOLEAN, hints' \in Seq(Symbols),
             path' \in Seq((DOMAIN code) \X (DOMAIN code))
      PROVE  ProgramTyped'
  <2>1. /\ frames' \in Seq(DOMAIN code)
        /\ \A i \in DOMAIN frames' :
             \/ (i \in DOMAIN frames /\ frames'[i] = frames[i])
             \/ (frames'[i] = pc + 1 /\ code[pc].op \in {"bl", "blr"})
    <3>1. CASE UNCHANGED frames
      BY <1>1, <3>1, Zenon
    <3>2. CASE frames' = SubSeq(frames, 1, Len(frames) - 1) /\ frames # <<>>
      <4>1. /\ frames' \in Seq(DOMAIN code) /\ DOMAIN frames' = 1..(Len(frames) - 1)
            /\ DOMAIN frames = 1..Len(frames) /\ Len(frames) \in Nat
            /\ \A i \in 1..(Len(frames) - 1) : frames'[i] = frames[i]
        BY <1>1, <3>2, FrontOf, LenProperties
      <4> QED
        BY <4>1
    <3>3. CASE code[pc].op \in {"bl", "blr"} /\ frames' = Append(frames, pc + 1)
      <4>1. pc + 1 \in DOMAIN code
        BY <1>1, <3>3, CodeFacts
      <4> QED
        BY <1>1, <3>3, <4>1, AppendProperties
    <3> QED
      BY <1>2, <3>1, <3>2, <3>3
  <2>2. \A i \in DOMAIN frames' :
          frames'[i] - 1 \in DOMAIN code /\ code[frames'[i] - 1].op \in {"bl", "blr"}
    <3> SUFFICES ASSUME NEW i \in DOMAIN frames'
                 PROVE  /\ frames'[i] - 1 \in DOMAIN code
                        /\ code[frames'[i] - 1].op \in {"bl", "blr"}
      OBVIOUS
    <3>1. CASE i \in DOMAIN frames /\ frames'[i] = frames[i]
      BY <3>1 DEF ProgramTyped
    <3>2. CASE frames'[i] = pc + 1 /\ code[pc].op \in {"bl", "blr"}
      <4>1. frames'[i] - 1 = pc
        BY <3>2, <1>1, CodeFacts
      <4> QED
        BY <4>1, <3>2, <1>1
    <3> QED
      BY <2>1, <3>1, <3>2
  <2> QED
    BY <1>1, <1>2, <2>1, <2>2 DEF ProgramTyped
<1>3. CASE Library
  BY <1>1, <1>2, <1>3, CodeFacts DEF Library, Falls
<1>4. CASE CfvInit
  BY <1>1, <1>2, <1>4, CodeFacts, EmptySeq DEF CfvInit, Falls
<1>5. CASE CfvQuote
  BY <1>1, <1>2, <1>5, CodeFacts DEF CfvQuote, Falls
<1>6. CASE Compare
  BY <1>1, <1>2, <1>6, CodeFacts DEF Compare, Falls
<1>7. CASE CallHook
  <2>1. code[pc].arg \in Hooks
    BY <1>1, <1>7, CodeFacts DEF CallHook
  <2>2. Printed(code[pc].arg) \in Seq(Symbols)
    <3>1. \A x \in Symbols : <<x>> \in Seq(Symbols)
      OBVIOUS
    <3>2. {"y", "n", "icall", "ijmp"} \subseteq Symbols /\ <<>> \in Seq(Symbols)
      BY EmptySeq DEF Symbols
    <3> QED
      BY <2>1, <3>1, <3>2 DEF Printed, Hooks
  <2>3. hints \o Printed(code[pc].arg) \in Seq(Symbols)
    BY <1>1, <2>2, ConcatProperties
  <2> QED
    BY <1>1, <1>2, <1>7, <2>3, CodeFacts DEF CallHook, Falls
<1>8. ASSUME NEW to \in DOMAIN code, Goes(to)
      PROVE  /\ code' = code /\ run' = run /\ pc' \in DOMAIN code
             /\ cond' \in BOOLEAN /\ measuring' \in BOOLEAN /\ hints' \in Seq(Symbols)
             /\ path' \in Seq((DOMAIN code) \X (DOMAIN code))
  <2>1. Append(path, <<pc, to>>) \in Seq((DOMAIN code) \X (DOMAIN code))
    BY <1>1, AppendProperties
  <2> QED
    BY <1>1, <1>8, <2>1 DEF Goes
<1>9. CASE Branch
  BY <1>1, <1>2, <1>8, <1>9, CodeFacts DEF Branch, CbOps
<1>10. CASE Jump
  BY <1>1, <1>2, <1>8, <1>10, CodeFacts DEF Jump
<1>11. CASE Call
  BY <1>1, <1>2, <1>8, <1>11, CodeFacts DEF Call
<1>12. CASE Return
  <2>1. frames[Len(frames)] \in DOMAIN code
    BY <1>1, <1>12 DEF Return
  <2> QED
    BY <1>1, <1>2, <1>8, <1>12, <2>1 DEF Return
<1>13. ASSUME NEW how \in {"ended", "killed"}, Gone(how), hints' \in Seq(Symbols)
       PROVE  ProgramTyped'
  <2>1. frames' \in Seq(DOMAIN code) /\ DOMAIN frames' = {}
    BY <1>13, EmptySeq DEF Gone
  <2>2. 1 \in DOMAIN code
    BY <1>1, CodeFacts
  <2> QED
    BY <1>1, <1>13, <2>1, <2>2 DEF Gone, ProgramTyped
<1>14. CASE End
  BY <1>1, <1>13, <1>14 DEF End
<1>15. CASE Kill
  <2>1. \A n \in 0..Len(hints) : SubSeq(hints, 1, n) \in Seq(Symbols)
    BY <1>1
  <2> QED
    BY <1>13, <1>15, <2>1 DEF Kill
<1> QED
  BY <1>3, <1>4, <1>5, <1>6, <1>7, <1>9, <1>10, <1>11, <1>12, <1>14, <1>15 DEF Run

LEMMA RunKeepsCode == Run => code' = code
BY DEF Run, Library, CfvInit, CfvQuote, Compare, CallHook, Branch, Jump, Call, Return,
       End, Kill, Falls, Goes, Gone

-----------------------------------------------------------------------------
(* The trace.                                                              *)

LEMMA MinOf ==
  ASSUME NEW S \in SUBSET Nat, S # {}
  PROVE  Min(S) \in S /\ \A y \in S : Min(S) <= y
<1> DEFINE Less == {p \in Nat \X Nat : p[1] < p[2]}
<1>1. WF!IsWellFoundedOn(Less, Nat)
  BY WF!NatLessThanWellFounded, Zenon DEF WF!OpToRel
<1>2. \A x \in Nat, y \in Nat : x < y => <<x, y>> \in Less
  OBVIOUS
<1> HIDE DEF Less
<1>3. PICK x \in S : \A y \in S : <<y, x>> \notin Less
  BY <1>1, WF!WFMin
<1>4. ASSUME NEW y \in S
      PROVE  x <= y
  <2>1. x \in Nat /\ y \in Nat
    BY <1>3
  <2>2. ~(y < x)
    BY <1>2, <1>3, <2>1
  <2> QED
    BY <2>1, <2>2
<1>5. x \in S /\ \A y \in S : x <= y
  BY <1>3, <1>4
<1>6. Min(S) = CHOOSE z \in S : \A y \in S : z <= y
  BY DEF Min
<1> QED
  BY <1>5, <1>6

\* The first line is what the hints begin with, at least up to the first symbol
\* that is not a condition's.
LEMMA FirstLineOf ==
  ASSUME NEW h \in Seq(Symbols)
  PROVE  /\ FirstLine(h) \in Seq(Symbols)
         /\ Len(FirstLine(h)) <= Len(h)
         /\ \A i \in 1..Len(FirstLine(h)) : FirstLine(h)[i] = h[i]
         /\ \A n \in DOMAIN h : (\A i \in 1..(n - 1) : h[i] \in {"y", "n"})
                                => n \in DOMAIN FirstLine(h)
<1> DEFINE texts == {i \in DOMAIN h : h[i] \notin {"y", "n"}}
<1>1. Len(h) \in Nat /\ DOMAIN h = 1..Len(h) /\ \A i \in 1..Len(h) : h[i] \in Symbols
  BY LenProperties, ElementOfSeq
<1>2. CASE texts = {}
  BY <1>1, <1>2 DEF FirstLine
<1>3. CASE texts # {}
  <2> DEFINE m == Min(texts)
  <2>1. /\ m \in 1..Len(h) /\ h[m] \notin {"y", "n"}
        /\ \A i \in texts : m <= i
    <3>1. texts \in SUBSET Nat /\ texts \subseteq 1..Len(h)
      BY <1>1
    <3>2. m \in texts /\ \A i \in texts : m <= i
      BY <1>3, <3>1, MinOf
    <3> QED
      BY <3>1, <3>2
  <2>2. FirstLine(h) = SubSeq(h, 1, m)
    BY <1>3 DEF FirstLine
  <2> HIDE DEF m
  <2>3. \A i \in 1..m : h[i] \in Symbols
    BY <1>1, <2>1
  <2>4. /\ FirstLine(h) \in Seq(Symbols) /\ Len(FirstLine(h)) = m
        /\ \A i \in 1..m : FirstLine(h)[i] = h[i]
    BY <2>1, <2>2, <2>3, SubSeqProperties
  <2>5. \A n \in DOMAIN h : (\A i \in 1..(n - 1) : h[i] \in {"y", "n"}) => n <= m
    BY <1>1, <2>1
  <2> QED
    BY <1>1, <2>1, <2>4, <2>5, LenProperties
<1> QED
  BY <1>2, <1>3

-----------------------------------------------------------------------------
(* Types of the engine.                                                    *)

TypedInv == ProgramTyped /\ TypeOK /\ (phase = "waiting" => idx = 1)

LEMMA VerifyInitTyped == VerifyInit => TypedInv
<1> SUFFICES ASSUME VerifyInit PROVE TypedInv
  OBVIOUS
<1>1. ProgramTyped
  BY InitTyped DEF VerifyInit
<1>2. Len(code) \in Nat \ {0}
  BY <1>1, CodeFacts DEF ProgramTyped
<1>3. \A S : <<>> \in Seq(S)
  BY EmptySeq
<1>4. Len(<<>>) = 0
  OBVIOUS
<1>5. idx = 1 /\ idx \in 1..(Len(trace) + 1) /\ trace = <<>> /\ stack = <<>> /\ ofd = <<>>
  BY <1>4 DEF VerifyInit, EngineInit
<1>6. address \in 0..(Len(code) + 1) /\ prev_address \in 0..Len(code)
  BY <1>2 DEF VerifyInit, EngineInit
<1>7. TypeOK
  BY <1>3, <1>5, <1>6 DEF VerifyInit, EngineInit, TypeOK
<1> QED
  BY <1>1, <1>5, <1>7 DEF TypedInv

LEMMA ReplayTyped ==
  ASSUME TypedInv, Replay, UNCHANGED programVars
  PROVE  TypeOK'
<1> USE DEF flags
<1>1. code' = code /\ code \in Programs /\ hints \in Seq(Symbols)
  BY DEF TypedInv, ProgramTyped, programVars
<1>2. /\ Len(code) \in Nat \ {0} /\ DOMAIN code = 1..Len(code)
      /\ \A a \in DOMAIN code : /\ code[a].op \in CbOps \cup {"bl", "blr", "b", "br", "b."}
                                   => code[a].to \in DOMAIN code
                              /\ code[a].op \in Ops
  BY <1>1, CodeFacts
<1>3. TypeOK
  BY DEF TypedInv
<1>4. /\ idx \in Nat \ {0} /\ address \in Nat /\ Len(trace) \in Nat
      /\ stack \in Seq(1..(Len(code) + 1))
      /\ ofd \in Seq((1..Len(code)) \X (0..(Len(code) + 1)))
  BY <1>3, LenProperties DEF TypeOK
<1>5. ASSUME NEW ops, At(ops)
      PROVE  /\ address \in 1..Len(code) /\ phase = "replaying"
             /\ Handled => prev_address' \in 0..Len(code)
             /\ Continue => /\ address' \in 0..(Len(code) + 1) /\ prev_address' \in 0..Len(code)
                            /\ phase' \in {"waiting", "replaying", "done", "crashed"}
             /\ \A to \in 0..(Len(code) + 1) :
                  Writes(to) => ofd' \in Seq((1..Len(code)) \X (0..(Len(code) + 1)))
             /\ \A to \in 0..(Len(code) + 1) : Follow(to) =>
                  /\ address' \in 0..(Len(code) + 1) /\ prev_address' \in 0..Len(code)
                  /\ phase' \in {"waiting", "replaying", "done", "crashed"}
                  /\ ofd' \in Seq((1..Len(code)) \X (0..(Len(code) + 1)))
  <2>1. address \in 1..Len(code) /\ phase = "replaying"
    BY <1>2, <1>5 DEF At
  <2>2. \A to \in 0..(Len(code) + 1) :
          Append(ofd, <<address, to>>) \in Seq((1..Len(code)) \X (0..(Len(code) + 1)))
    BY <2>1, <1>4, AppendProperties
  <2>3. Handled => prev_address' \in 0..Len(code)
    BY <1>2, <2>1 DEF Handled
  <2>4. Continue => /\ address' \in 0..(Len(code) + 1) /\ prev_address' \in 0..Len(code)
                    /\ phase' \in {"waiting", "replaying", "done", "crashed"}
    BY <1>2, <2>1, <2>3 DEF Continue
  <2>5. \A to \in 0..(Len(code) + 1) :
          Writes(to) => ofd' \in Seq((1..Len(code)) \X (0..(Len(code) + 1)))
    BY <2>2 DEF Writes
  <2>6. \A to \in 0..(Len(code) + 1) : Follow(to) =>
          /\ address' \in 0..(Len(code) + 1) /\ prev_address' \in 0..Len(code)
          /\ phase' \in {"waiting", "replaying", "done", "crashed"}
          /\ ofd' \in Seq((1..Len(code)) \X (0..(Len(code) + 1)))
    BY <2>1, <2>3, <2>5 DEF Follow
  <2> QED
    BY <2>1, <2>3, <2>4, <2>5, <2>6
<1>6. CASE ReadTrace
  <2>1. trace' \in Seq(Symbols) /\ Len(trace') \in Nat
    BY <1>1, <1>6, FirstLineOf, LenProperties DEF ReadTrace
  <2>2. idx' = 1 /\ idx' \in 1..(Len(trace') + 1)
    BY <1>6, <2>1 DEF ReadTrace, TypedInv
  <2> QED
    BY <1>1, <1>3, <1>6, <2>1, <2>2 DEF ReadTrace, TypeOK, Symbols
<1>7. CASE Skip
  BY <1>1, <1>3, <1>5, <1>7 DEF Skip, TypeOK
<1>8. CASE AttestationStart
  BY <1>1, <1>3, <1>5, <1>8 DEF AttestationStart, TypeOK
<1>9. CASE AttestationEnd
  BY <1>1, <1>3, <1>5, <1>9 DEF AttestationEnd, TypeOK
<1>10. CASE HandleCall
  <2>1. At({"bl"}) /\ code[address].to \in 0..(Len(code) + 1) /\ address \in 1..Len(code)
    BY <1>2, <1>5, <1>10 DEF HandleCall, Replays, At
  <2>2. stack' \in Seq(1..(Len(code) + 1))
    BY <1>2, <1>4, <1>10, <2>1, AppendProperties DEF HandleCall, PushReturn
  <2> QED
    BY <1>1, <1>3, <1>5, <1>10, <2>1, <2>2 DEF HandleCall, TypeOK
<1>11. CASE HandleCset
  <2> DEFINE f == AfterCset(code[address].arg, flags)
  <2>1. f[1] \in {"eq", "e", "lg"} /\ f[2] \in BOOLEAN /\ f[3] \in BOOLEAN
    BY <1>3 DEF AfterCset, TypeOK
  <2> HIDE DEF f
  <2>2. last_flag' = f[1] /\ last_ne_flag' = f[2] /\ last_lt_flag' = f[3]
    BY <1>11 DEF HandleCset, f
  <2> QED
    BY <1>1, <1>3, <1>5, <1>11, <2>1, <2>2 DEF HandleCset, Replays, TypeOK
<1>12. CASE HandleBranch
  <2>1. At({"b"}) /\ code[address].to \in 0..(Len(code) + 1)
    BY <1>2, <1>5, <1>12 DEF HandleBranch, Replays, At
  <2> QED
    BY <1>1, <1>3, <1>5, <1>12, <2>1 DEF HandleBranch, TypeOK
<1>13. CASE HandleCondBranch
  <2>1. /\ At(CbOps \cup {"b."}) /\ code[address].op \in CbOps \cup {"b."}
        /\ TargetOf(code[address]) \in 0..(Len(code) + 1)
        /\ address + 1 \in 0..(Len(code) + 1)
    BY <1>2, <1>5, <1>13 DEF HandleCondBranch, Replays, At, TargetOf, BelowBinary, CbOps
  <2>2. idx' \in 1..(Len(trace) + 1)
    <3>1. ~Exhausted
      <4>1. code[address].op # "ret" BY <2>1 DEF CbOps
      <4>2. ~RunsOut(code[address]) BY <1>13 DEF HandleCondBranch
      <4> QED BY <4>1, <4>2 DEF RunsOut
    <3> QED
      BY <3>1, <1>4, <1>13 DEF HandleCondBranch, AdvanceIdx, Exhausted
  <2>3. CASE Taken(code[address])
    BY <1>1, <1>3, <1>5, <1>13, <2>1, <2>2, <2>3 DEF HandleCondBranch, TypeOK
  <2>4. CASE ~Taken(code[address])
    BY <1>1, <1>3, <1>5, <1>13, <2>1, <2>2, <2>4 DEF HandleCondBranch, TypeOK
  <2> QED
    BY <2>3, <2>4
<1>14. CASE HandleRet
  <2>1. At({"ret"}) /\ code[address].op = "ret" /\ stack # <<>>
    BY <1>14 DEF HandleRet, Replays, At, RunsOut
  <2>2. stack[Len(stack)] \in 0..(Len(code) + 1) /\ stack' \in Seq(1..(Len(code) + 1))
    BY <1>2, <1>4, <1>14, <2>1, FrontOf DEF HandleRet
  <2> QED
    BY <1>1, <1>3, <1>5, <1>14, <2>1, <2>2 DEF HandleRet, TypeOK
<1>15. CASE Crash \/ TextEnd
  BY <1>1, <1>3, <1>15 DEF Crash, TextEnd, TypeOK
<1> QED
  BY <1>6, <1>7, <1>8, <1>9, <1>10, <1>11, <1>12, <1>13, <1>14, <1>15 DEF Replay

LEMMA NextTyped == TypedInv /\ [VerifyNext]_vars => TypedInv'
<1> SUFFICES ASSUME TypedInv, [VerifyNext]_vars PROVE TypedInv'
  OBVIOUS
<1>1. CASE Run /\ UNCHANGED engineVars
  <2>1. code' = code
    BY <1>1, RunKeepsCode
  <2> QED
    BY <1>1, <2>1, RunTyped DEF TypedInv, TypeOK, engineVars, flags
<1>2. CASE Replay /\ UNCHANGED programVars
  <2>1. ProgramTyped'
    BY <1>2 DEF TypedInv, ProgramTyped, programVars
  <2>2. phase' # "waiting"
    BY <1>2 DEF Replay, ReadTrace, Skip, AttestationStart, AttestationEnd, HandleCall,
                HandleCset, HandleBranch, HandleCondBranch, HandleRet, Crash, TextEnd,
                Replays, At, Continue, Follow
  <2> QED
    BY <1>2, <2>1, <2>2, ReplayTyped DEF TypedInv
<1>3. CASE UNCHANGED vars
  BY <1>3 DEF TypedInv, ProgramTyped, TypeOK, vars, programVars, engineVars, flags
<1> QED
  BY <1>1, <1>2, <1>3 DEF VerifyNext

(***************************************************************************)
(* Whatever program was compiled, and wherever it was killed, the engine   *)
(* keeps its types: what it takes for an address is one of the binary, or  *)
(* the number of a bit, and it never looks further than one symbol behind  *)
(* the trace (verify_engine:158-165, 307).                                 *)
(***************************************************************************)
THEOREM VerifyTypeCorrect == Verification => []TypeOK
<1>1. TypedInv => TypeOK
  BY DEF TypedInv
<1> QED
  BY <1>1, VerifyInitTyped, NextTyped, PTL DEF Verification

-----------------------------------------------------------------------------
(* What the path and the hints of an operation have to do with each other. *)
(* stacks, used and printed are its history: the return addresses and the  *)
(* number of the next symbol in front of each edge, and all the symbols,   *)
(* whatever of them is left of a program that was killed.                  *)

Runs(x, y) == x <= y /\ \A a \in x..(y - 1) : code[a].op \in Straight

\* Where control is after the edges in front of edge k.
From(plan, k) == IF k = 1 THEN plan.start + 1 ELSE path[k - 1][2]

Sym(c) == IF c THEN "y" ELSE "n"

\* Edge e, with stack s and symbol n in front of it, and t and m behind it.
Edge(e, s, t, n, m, printed) ==
  LET i == code[e[1]] IN
  \/ i.op = "bl" /\ e[2] = i.to /\ t = Append(s, e[1] + 1) /\ m = n
  \/ i.op = "b" /\ e[2] = i.to /\ t = s /\ m = n
  \/ i.op = "ret" /\ s # <<>> /\ e[2] = s[Len(s)] /\ t = SubSeq(s, 1, Len(s) - 1) /\ m = n
  \/ i.op = "blr" /\ e[2] = i.to /\ t = Append(s, e[1] + 1) /\ m = n + 1
     /\ n \in DOMAIN printed /\ printed[n] \notin {"y", "n"}
  \/ i.op = "br" /\ e[2] = i.to /\ t = s /\ m = n + 1
     /\ n \in DOMAIN printed /\ printed[n] \notin {"y", "n"}
  \/ i.op \in CondOps /\ t = s /\ m = n + 1 /\ n \in DOMAIN printed
     /\ \E c \in BOOLEAN : /\ printed[n] = Sym(c)
                           /\ e[2] = IF c = i.onTrue THEN i.to ELSE e[1] + 1

Recorded(plan, stacks, used, printed) ==
  /\ Len(stacks) = Len(path) + 1 /\ stacks[1] = <<>>
  /\ Len(used) = Len(path) + 1 /\ used[1] = 1
  /\ \A k \in DOMAIN path :
       /\ Runs(From(plan, k), path[k][1])
       /\ Edge(path[k], stacks[k], stacks[k + 1], used[k], used[k + 1], printed)
  /\ Len(hints) <= Len(printed)
  /\ \A i \in DOMAIN hints : hints[i] = printed[i]

\* Address a, with return addresses s, is in the operation.
Inside(plan, a, s, calls) ==
  /\ IF s = <<>> THEN a \in plan.body ELSE a \in plan.helpers
  /\ \A i \in DOMAIN s :
       /\ s[i] - 1 \in Operation(plan) /\ code[s[i] - 1].op \in calls
       /\ IF i = 1 THEN s[i] \in plan.body ELSE s[i] \in plan.helpers

Measured(plan, stacks, used, printed) ==
  LET last == Len(path) + 1
      s    == stacks[last]
      n    == used[last]
  IN  /\ printed = hints
      /\ Runs(From(plan, last), pc)
      /\ Inside(plan, pc, s, {"bl", "blr"})
      /\ Len(s) <= Len(frames)
      /\ \A i \in DOMAIN s : frames[Len(frames) - Len(s) + i] = s[i]
      /\ code[pc].op \in CondOps => hints[n] = Sym(cond)
      /\ code[pc].op \in {"blr", "br"} => hints[n] \notin {"y", "n"}
      /\ Len(hints) = IF code[pc].op \in Noted THEN n ELSE n - 1

Over(plan, stacks, used, printed) ==
  LET last == Len(path) + 1 IN
  /\ printed = hints /\ Len(hints) = used[last] - 1
  /\ \E q \in DOMAIN code : Runs(From(plan, last), q) /\ code[q].op = "quote"

History(plan, stacks, used, printed) ==
  /\ Recorded(plan, stacks, used, printed)
  /\ measuring => run = "running" /\ Measured(plan, stacks, used, printed)
  /\ ~measuring /\ run # "killed" /\ hints # <<>> => Over(plan, stacks, used, printed)

-----------------------------------------------------------------------------
(* The replay.                                                             *)

NoFlags == <<"eq", FALSE, FALSE>>

Searching(plan) ==
  /\ ~replay_start /\ ~replay_stop
  /\ address \in 1..plan.start /\ prev_address = address - 1
  /\ idx = 1 /\ stack = <<>> /\ flags = NoFlags /\ ofd = <<>>

Following(plan, stacks, used, printed) ==
  LET k == Len(ofd) + 1 IN
  /\ Len(ofd) <= Len(path)
  /\ \A i \in DOMAIN ofd : ofd[i] = path[i]
  /\ stack = stacks[k] /\ idx = used[k]
  /\ Runs(From(plan, k), address)
  /\ \A i \in 1..(idx - 1) : i \in DOMAIN printed /\ printed[i] \in {"y", "n"}

Astray ==
  /\ IsPrefix(Known, ofd)
  /\ \/ run = "killed"
     \/ Known # path /\ idx \in DOMAIN trace /\ trace[idx] \notin {"y", "n"}

Replaying(plan, stacks, used, printed) ==
  /\ replay_start /\ ~replay_stop
  /\ address # prev_address
  /\ Inside(plan, address, stack, {"bl"})
  /\ flags \in plan.flow[address]
  /\ Following(plan, stacks, used, printed) \/ Astray

Agrees ==
  \/ IsPrefix(ofd, Known)
  \/ IsPrefix(Known, ofd) /\ (run = "killed" \/ Known # path)

Complete ==
  /\ IsPrefix(Known, ofd)
  /\ Known = path => ofd = path /\ Exhausted

Settled == Agrees /\ (run = "ended" => Complete)

Stopped(plan) ==
  /\ ~replay_start /\ replay_stop
  /\ plan.start < address
  /\ Settled

Replayed(plan, stacks, used, printed) ==
  /\ phase = "waiting" => EngineInit
  /\ phase # "waiting" => run # "running"
  /\ phase = "replaying" =>
       /\ hints # <<>> /\ trace = FirstLine(hints)
       /\ Searching(plan) \/ Replaying(plan, stacks, used, printed) \/ Stopped(plan)
  /\ phase = "done" => Settled
  /\ phase = "crashed" => Agrees /\ (run = "killed" \/ hints = <<>>)

-----------------------------------------------------------------------------
(* Runs of instructions, and the operation.                                *)

LEMMA RunsFacts ==
  ASSUME NEW x \in Nat, NEW y \in Nat, NEW z \in Nat, Runs(x, y)
  PROVE  /\ Runs(x, x)
         /\ code[y].op \in Straight => Runs(x, y + 1)
         /\ Runs(x, z) /\ code[y].op \notin Straight /\ code[z].op \notin Straight
              => y = z
<1>1. Runs(x, x)
  BY DEF Runs
<1>2. ASSUME code[y].op \in Straight
      PROVE  Runs(x, y + 1)
  <2>1. \A a \in x..y : a \in x..(y - 1) \/ a = y
    OBVIOUS
  <2> QED
    BY <1>2, <2>1 DEF Runs
<1>3. ASSUME Runs(x, z), code[y].op \notin Straight, code[z].op \notin Straight
      PROVE  y = z
  <2>1. ~(y < z) /\ ~(z < y)
    BY <1>3 DEF Runs
  <2> QED
    BY <2>1
<1> QED
  BY <1>1, <1>2, <1>3

LEMMA PlanFacts ==
  ASSUME NEW plan, code \in Programs, Legible(code, plan)
  PROVE  /\ plan.start \in DOMAIN code /\ plan.start \in Nat
         /\ plan.start + 1 \in plan.body /\ plan.start + 1 \in Operation(plan)
         /\ plan.start \notin Operation(plan)
         /\ \A a \in Operation(plan) : a \in DOMAIN code /\ a \in Nat \ {0}
         /\ code[plan.start].op = "init"
         /\ \A a \in DOMAIN code : code[a].op = "init" => a = plan.start
         /\ \A a \in DOMAIN code : code[a].op = "quote" => plan.start < a
         /\ \A a \in plan.body : code[a].op # "ret"
<1>1. OneOperation(code, plan)
  BY DEF Legible
<1>2. \A a \in DOMAIN code : a \in Nat \ {0}
  BY CodeFacts
<1>3. /\ code[plan.start].op = "init"
      /\ \A a \in DOMAIN code : code[a].op = "init" => a = plan.start
  BY <1>1 DEF OneOperation
<1> QED
  BY <1>1, <1>2, <1>3 DEF OneOperation, Operation

\* Where the instruction at an address of the operation leads.
LEMMA InsideGoes ==
  ASSUME code \in Programs, NEW plan, Legible(code, plan), NEW calls,
         NEW a, NEW s \in Seq(Nat), Inside(plan, a, s, calls)
  PROVE  /\ a \in Operation(plan) /\ a \in DOMAIN code /\ a \in Nat \ {0}
         /\ code[a].op # "init"
         /\ code[a].op = "ret" => s # <<>>
         /\ code[a].op \in Straight \cup CondOps => Inside(plan, a + 1, s, calls)
         /\ code[a].op \in CondOps \cup {"b", "br"} => Inside(plan, code[a].to, s, calls)
         /\ code[a].op \in {"blr", "br"} => Inside(plan, a + 1, s, calls)
         /\ code[a].op \in calls \cap {"bl", "blr"}
              => Inside(plan, code[a].to, Append(s, a + 1), calls)
         /\ code[a].op = "ret"
              => Inside(plan, s[Len(s)], SubSeq(s, 1, Len(s) - 1), calls)
<1> DEFINE part == IF s = <<>> THEN plan.body ELSE plan.helpers
<1>1. /\ a \in part
      /\ part \in {plan.body, plan.helpers}
      /\ \A i \in DOMAIN s :
           /\ s[i] - 1 \in Operation(plan) /\ code[s[i] - 1].op \in calls
           /\ IF i = 1 THEN s[i] \in plan.body ELSE s[i] \in plan.helpers
  BY DEF Inside
<1>2. a \in Operation(plan) /\ a \in DOMAIN code /\ a \in Nat \ {0}
  BY <1>1, PlanFacts DEF Operation
<1>3. code[a].op # "init" /\ (code[a].op = "ret" => s # <<>>)
  <2>1. a # plan.start
    BY <1>2, PlanFacts
  <2>2. code[a].op # "init"
    <3>1. \A b \in DOMAIN code : code[b].op = "init" => b = plan.start
      BY PlanFacts
    <3> HIDE DEF part
    <3> QED
      BY <1>2, <2>1, <3>1
  <2>3. ASSUME code[a].op = "ret", s = <<>>
        PROVE  FALSE
    <3>1. a \in plan.body
      BY <1>1, <2>3
    <3> QED
      BY <2>3, <3>1, PlanFacts
  <2> QED
    BY <2>2, <2>3
<1>4. /\ code[a].op \in Straight \cup Noted \cup {"bl"} => a + 1 \in part
      /\ code[a].op \in CondOps \cup {"b", "br"} => code[a].to \in part
      /\ code[a].op \in {"bl", "blr"} => code[a].to \in plan.helpers
  BY <1>1 DEF Legible, OneOperation
<1>5. \A b \in part : Inside(plan, b, s, calls)
  BY <1>1 DEF Inside
<1>6. ASSUME code[a].op \in calls \cap {"bl", "blr"}
      PROVE  Inside(plan, code[a].to, Append(s, a + 1), calls)
  <2> DEFINE t == Append(s, a + 1)
  <2>1. /\ t # <<>> /\ Len(s) \in Nat /\ DOMAIN s = 1..Len(s)
        /\ DOMAIN t = 1..(Len(s) + 1) /\ t[Len(s) + 1] = a + 1
        /\ \A i \in 1..Len(s) : t[i] = s[i]
        /\ (s = <<>> <=> Len(s) = 0)
    <3>1. a + 1 \in Nat
      BY <1>2
    <3> QED
      BY <3>1, Extended, EmptySeq
  <2>2. (a + 1) - 1 = a /\ a + 1 \in part
    <3>1. code[a].op \in {"bl", "blr"}
      BY <1>6
    <3>2. a + 1 \in part
      BY <1>4, <3>1 DEF Noted
    <3> QED
      BY <1>2, <3>2
  <2> HIDE DEF t
  <2>3. ASSUME NEW i \in DOMAIN t
        PROVE  /\ t[i] - 1 \in Operation(plan) /\ code[t[i] - 1].op \in calls
               /\ IF i = 1 THEN t[i] \in plan.body ELSE t[i] \in plan.helpers
    <3>1. CASE i = Len(s) + 1
      BY <1>2, <1>6, <2>1, <2>2, <3>1
    <3>2. CASE i \in 1..Len(s)
      BY <1>1, <2>1, <3>2
    <3> QED
      BY <2>1, <3>1, <3>2
  <2> QED
    BY <1>4, <1>6, <2>1, <2>3 DEF Inside, t
<1>7. ASSUME code[a].op = "ret"
      PROVE  Inside(plan, s[Len(s)], SubSeq(s, 1, Len(s) - 1), calls)
  <2> DEFINE t == SubSeq(s, 1, Len(s) - 1)
  <2>1. /\ Len(s) \in Nat \ {0} /\ DOMAIN s = 1..Len(s) /\ t \in Seq(Nat)
        /\ Len(t) = Len(s) - 1 /\ DOMAIN t = 1..(Len(s) - 1)
        /\ \A i \in 1..(Len(s) - 1) : t[i] = s[i]
    BY <1>3, <1>7, FrontOf
  <2>2. t = <<>> <=> Len(s) = 1
    <3> HIDE DEF t
    <3>1. t = <<>> <=> Len(t) = 0
      BY <2>1, EmptySeq
    <3> QED
      BY <2>1, <3>1
  <2> HIDE DEF t
  <2>3. IF t = <<>> THEN s[Len(s)] \in plan.body ELSE s[Len(s)] \in plan.helpers
    BY <1>1, <2>1, <2>2
  <2>4. ASSUME NEW i \in DOMAIN t
        PROVE  /\ t[i] - 1 \in Operation(plan) /\ code[t[i] - 1].op \in calls
               /\ IF i = 1 THEN t[i] \in plan.body ELSE t[i] \in plan.helpers
    <3>1. i \in DOMAIN s /\ t[i] = s[i]
      BY <2>1
    <3> QED
      BY <1>1, <3>1
  <2> QED
    BY <2>3, <2>4 DEF Inside, t
<1> QED
  BY <1>2, <1>3, <1>4, <1>5, <1>6, <1>7 DEF Noted

\* A transfer with a hook comes behind the hook.
LEMMA HookFacts ==
  ASSUME code \in Programs, NEW plan, Legible(code, plan), NEW a \in DOMAIN code
  PROVE  /\ a + 1 \in DOMAIN code /\ code[a].op # "hook" => code[a + 1].op \notin Hooked
         /\ code[a].op = "hook" =>
              code[a + 1].op \in Hooked /\ code[a].arg = HookFor(code[a + 1].op)
         /\ code[a].op \in Noted \cup {"bl", "b"} =>
              code[a].to # a /\ code[code[a].to].op \notin Hooked
<1>1. a \in Nat \ {0} /\ (a + 1) - 1 = a /\ (code[a].op = "hook" => a + 1 \in DOMAIN code)
  BY CodeFacts
<1>2. Instrumented(code)
  BY DEF Legible
<1> QED
  BY <1>1, <1>2 DEF Instrumented

-----------------------------------------------------------------------------
(* The history of an operation while the program runs.                     *)

Witnesses(stacks, used, printed) ==
  stacks \in Seq(Seq(Nat)) /\ used \in Seq(Nat \ {0}) /\ printed \in Seq(Symbols)

LEMMA WitnessFacts ==
  ASSUME ProgramTyped, NEW plan, NEW stacks, NEW used, NEW printed,
         Witnesses(stacks, used, printed), Recorded(plan, stacks, used, printed)
  PROVE  /\ Len(path) \in Nat /\ DOMAIN path = 1..Len(path)
         /\ Len(stacks) = Len(path) + 1 /\ DOMAIN stacks = 1..(Len(path) + 1)
         /\ Len(used) = Len(path) + 1 /\ DOMAIN used = 1..(Len(path) + 1)
         /\ \A k \in 1..(Len(path) + 1) : stacks[k] \in Seq(Nat) /\ used[k] \in Nat \ {0}
         /\ Len(printed) \in Nat /\ DOMAIN printed = 1..Len(printed)
         /\ Len(hints) \in Nat /\ DOMAIN hints = 1..Len(hints)
<1>1. /\ path \in Seq((DOMAIN code) \X (DOMAIN code)) /\ hints \in Seq(Symbols)
      /\ Len(stacks) = Len(path) + 1 /\ Len(used) = Len(path) + 1
  BY DEF ProgramTyped, Recorded
<1>2. Len(path) \in Nat /\ DOMAIN path = 1..Len(path)
  BY <1>1, LenProperties
<1>3. /\ Len(hints) \in Nat /\ DOMAIN hints = 1..Len(hints)
      /\ Len(printed) \in Nat /\ DOMAIN printed = 1..Len(printed)
  BY <1>1, LenProperties DEF Witnesses
<1>4. DOMAIN stacks = 1..(Len(path) + 1) /\ DOMAIN used = 1..(Len(path) + 1)
  BY <1>1, LenProperties DEF Witnesses
<1>5. \A k \in 1..(Len(path) + 1) : stacks[k] \in Seq(Nat) /\ used[k] \in Nat \ {0}
  BY <1>1, ElementOfSeq DEF Witnesses
<1> QED
  BY <1>1, <1>2, <1>3, <1>4, <1>5

\* The edges of a path are of the program, wherever they start.
LEMMA PathFacts ==
  ASSUME ProgramTyped, NEW k \in 1..Len(path)
  PROVE  /\ path[k] = <<path[k][1], path[k][2]>>
         /\ path[k][1] \in DOMAIN code /\ path[k][1] \in Nat \ {0}
         /\ path[k][2] \in DOMAIN code /\ path[k][2] \in Nat \ {0}
<1>1. path \in Seq((DOMAIN code) \X (DOMAIN code)) /\ code \in Programs
  BY DEF ProgramTyped
<1>2. path[k] \in (DOMAIN code) \X (DOMAIN code)
  BY <1>1, ElementOfSeq
<1> QED
  BY <1>1, <1>2, CodeFacts

LEMMA FromFacts ==
  ASSUME ProgramTyped, NEW plan, Legible(code, plan), NEW k \in 1..(Len(path) + 1)
  PROVE  From(plan, k) \in Nat
<1>1. code \in Programs /\ Len(path) \in Nat
  BY LenProperties DEF ProgramTyped
<1>2. CASE k = 1
  BY <1>1, <1>2, PlanFacts DEF From
<1>3. CASE k # 1
  BY <1>1, <1>3, PathFacts DEF From
<1> QED
  BY <1>2, <1>3

LEMMA InitHistory ==
  ASSUME Init, NEW plan
  PROVE  \E stacks, used, printed : /\ Witnesses(stacks, used, printed)
                                    /\ History(plan, stacks, used, printed)
<1> DEFINE stacks == << <<>> >>
           used == <<1>>
           printed == <<>>
<1>1. Witnesses(stacks, used, printed)
  BY EmptySeq DEF Witnesses
<1>2. /\ path = <<>> /\ hints = <<>> /\ measuring = FALSE /\ DOMAIN <<>> = {}
      /\ Len(path) = 0 /\ Len(hints) = 0 /\ Len(printed) = 0
      /\ Len(stacks) = 1 /\ stacks[1] = <<>> /\ Len(used) = 1 /\ used[1] = 1
  BY DEF Init
<1> HIDE DEF stacks, used, printed
<1>3. History(plan, stacks, used, printed)
  BY <1>2 DEF History, Recorded
<1> QED
  BY <1>1, <1>3

\* What is recorded stays recorded while the path does not change, and the hints
\* are still what was printed, or less.
LEMMA RecordedKept ==
  ASSUME NEW plan, NEW stacks, NEW used, NEW printed,
         Recorded(plan, stacks, used, printed), code' = code, path' = path,
         NEW more, \A i \in DOMAIN printed : i \in DOMAIN more /\ more[i] = printed[i],
         Len(hints') <= Len(more), \A i \in DOMAIN hints' : hints'[i] = more[i]
  PROVE  Recorded(plan, stacks, used, more)'
<1>1. ASSUME NEW k \in DOMAIN path
      PROVE  /\ Runs(From(plan, k), path[k][1])'
             /\ Edge(path[k], stacks[k], stacks[k + 1], used[k], used[k + 1], more)'
  <2>1. /\ Runs(From(plan, k), path[k][1])
        /\ Edge(path[k], stacks[k], stacks[k + 1], used[k], used[k + 1], printed)
    BY DEF Recorded
  <2>2. Runs(From(plan, k), path[k][1])'
    BY <2>1 DEF Runs, From
  <2>3. Edge(path[k], stacks[k], stacks[k + 1], used[k], used[k + 1], more)'
    BY <2>1 DEF Edge
  <2> QED
    BY <2>2, <2>3
<1>2. /\ Len(stacks) = Len(path) + 1 /\ stacks[1] = <<>>
      /\ Len(used) = Len(path) + 1 /\ used[1] = 1
  BY DEF Recorded
<1> QED
  BY <1>1, <1>2 DEF Recorded

\* Outside an operation nothing is added.
LEMMA HistoryKept ==
  ASSUME NEW plan, NEW stacks, NEW used, NEW printed,
         History(plan, stacks, used, printed),
         code' = code, path' = path, hints' = hints, ~measuring, ~measuring',
         run # "killed"
  PROVE  History(plan, stacks, used, printed)'
<1>1. Recorded(plan, stacks, used, printed)'
  <2>1. Recorded(plan, stacks, used, printed)
    BY DEF History
  <2>2. /\ Len(hints') <= Len(printed)
        /\ \A i \in DOMAIN hints' : hints'[i] = printed[i]
    BY <2>1 DEF Recorded
  <2> QED
    BY <2>1, <2>2, RecordedKept
<1>2. ASSUME hints' # <<>>
      PROVE  Over(plan, stacks, used, printed)'
  BY <1>2 DEF History, Over, Runs, From
<1> QED
  BY <1>1, <1>2 DEF History

\* What a killed program leaves of the hints is what they began with.
LEMMA KillHistory ==
  ASSUME ProgramTyped, NEW plan, NEW stacks, NEW used, NEW printed,
         Witnesses(stacks, used, printed),
         History(plan, stacks, used, printed), Kill
  PROVE  History(plan, stacks, used, printed)'
<1>1. /\ code' = code /\ path' = path /\ run' = "killed" /\ measuring' = FALSE
      /\ Recorded(plan, stacks, used, printed)
  BY DEF Kill, Gone, History
<1>2. PICK n \in 0..Len(hints) : hints' = SubSeq(hints, 1, n)
  BY DEF Kill
<1>3. /\ Len(hints) \in Nat /\ DOMAIN hints = 1..Len(hints) /\ Len(printed) \in Nat
      /\ hints \in Seq(Symbols)
  BY <1>1, WitnessFacts DEF ProgramTyped
<1>4. \A i \in 1..n : hints[i] \in Symbols
  BY <1>3, ElementOfSeq
<1>5. /\ Len(hints') = n /\ DOMAIN hints' = 1..n
      /\ \A i \in 1..n : hints'[i] = hints[i]
  BY <1>2, <1>3, <1>4, SubSeqProperties, LenProperties
<1>6. /\ Len(hints') <= Len(printed)
      /\ \A i \in DOMAIN hints' : hints'[i] = printed[i]
  BY <1>1, <1>3, <1>5 DEF Recorded
<1>7. Recorded(plan, stacks, used, printed)'
  BY <1>1, <1>6, RecordedKept
<1> QED
  BY <1>1, <1>7 DEF History

LEMMA CfvInitHistory ==
  ASSUME ProgramTyped, NEW plan, Legible(code, plan), CfvInit
  PROVE  \E stacks, used, printed : /\ Witnesses(stacks, used, printed)
                                    /\ History(plan, stacks, used, printed)'
<1> DEFINE stacks == << <<>> >>
           used == <<1>>
           printed == <<>>
<1> USE DEF Executes, Next1, Falls
<1>1. Witnesses(stacks, used, printed)
  BY EmptySeq DEF Witnesses
<1>2. /\ Len(<<>>) = 0 /\ DOMAIN <<>> = {} /\ <<>> \in Seq(Nat)
      /\ Len(stacks) = 1 /\ stacks[1] = <<>> /\ Len(used) = 1 /\ used[1] = 1
      /\ printed = <<>>
  BY EmptySeq
<1> HIDE DEF stacks, used, printed
<1>3. /\ code \in Programs /\ code' = code /\ pc \in DOMAIN code /\ pc \in Nat
      /\ code[pc].op = "init" /\ pc' = pc + 1 /\ path' = <<>> /\ hints' = <<>>
      /\ measuring' = TRUE /\ run' = "running" /\ frames' = frames
  BY CodeFacts DEF CfvInit, ProgramTyped
<1>4. pc = plan.start /\ pc + 1 \in plan.body /\ pc + 1 \in DOMAIN code
  BY <1>3, PlanFacts
<1>5. code[pc + 1].op \notin Hooked
  BY <1>3, <1>4, HookFacts
<1>6. Recorded(plan, stacks, used, printed)'
  BY <1>2, <1>3 DEF Recorded
<1>7. Len(frames) \in Nat
  BY LenProperties DEF ProgramTyped
<1>8. Runs(From(plan, 1), pc)'
  BY <1>3, <1>4 DEF Runs, From
<1>9. Inside(plan, pc, <<>>, {"bl", "blr"})'
  BY <1>2, <1>3, <1>4 DEF Inside
<1>10. code'[pc'].op \notin Noted /\ code'[pc'].op \notin CondOps
  BY <1>3, <1>5 DEF Hooked, Noted
<1>11. Measured(plan, stacks, used, printed)'
  <2>1. Len(path') + 1 = 1
    BY <1>2, <1>3
  <2> QED
    BY <1>2, <1>3, <1>7, <1>8, <1>9, <1>10, <2>1 DEF Measured, Noted
<1>12. History(plan, stacks, used, printed)'
  BY <1>3, <1>6, <1>11 DEF History
<1> QED
  BY <1>1, <1>12

\* Facts of a measured operation that the steps below start from.
LEMMA MeasuredFacts ==
  ASSUME ProgramTyped, NEW plan, Legible(code, plan),
         NEW stacks, NEW used, NEW printed, Witnesses(stacks, used, printed),
         History(plan, stacks, used, printed), measuring
  PROVE  LET s == stacks[Len(path) + 1]
             n == used[Len(path) + 1]
         IN
         /\ code \in Programs /\ pc \in DOMAIN code /\ pc \in Nat \ {0}
         /\ hints \in Seq(Symbols) /\ frames \in Seq(DOMAIN code)
         /\ Recorded(plan, stacks, used, hints) /\ Witnesses(stacks, used, hints)
         /\ s \in Seq(Nat) /\ n \in Nat \ {0} /\ run = "running"
         /\ From(plan, Len(path) + 1) \in Nat
         /\ Runs(From(plan, Len(path) + 1), pc)
         /\ Inside(plan, pc, s, {"bl", "blr"})
         /\ Len(s) \in Nat /\ Len(frames) \in Nat /\ Len(s) <= Len(frames)
         /\ DOMAIN s = 1..Len(s)
         /\ \A i \in 1..Len(s) : frames[Len(frames) - Len(s) + i] = s[i]
         /\ code[pc].op \in CondOps => hints[n] = Sym(cond)
         /\ code[pc].op \in {"blr", "br"} => hints[n] \notin {"y", "n"}
         /\ Len(hints) = IF code[pc].op \in Noted THEN n ELSE n - 1
         /\ Len(hints) \in Nat /\ DOMAIN hints = 1..Len(hints)
<1> DEFINE s == stacks[Len(path) + 1]
           n == used[Len(path) + 1]
<1>1. Recorded(plan, stacks, used, printed) /\ Measured(plan, stacks, used, printed)
      /\ run = "running"
  BY DEF History
<1>2. printed = hints
  BY <1>1 DEF Measured
<1>3. /\ code \in Programs /\ pc \in DOMAIN code /\ pc \in Nat \ {0}
      /\ hints \in Seq(Symbols) /\ frames \in Seq(DOMAIN code)
  BY CodeFacts DEF ProgramTyped
<1>4. Len(frames) \in Nat
  BY <1>3, LenProperties
<1>5. /\ s \in Seq(Nat) /\ n \in Nat \ {0} /\ Len(path) + 1 \in 1..(Len(path) + 1)
      /\ Len(hints) \in Nat /\ DOMAIN hints = 1..Len(hints)
  BY <1>1, WitnessFacts
<1>6. Len(s) \in Nat /\ DOMAIN s = 1..Len(s)
  BY <1>5, LenProperties
<1>7. From(plan, Len(path) + 1) \in Nat
  BY <1>5, FromFacts
<1> QED
  BY <1>1, <1>2, <1>3, <1>4, <1>5, <1>6, <1>7 DEF Measured

\* An instruction that only the next one follows: the library call, a comparison
\* or a hook.
LEMMA StraightHistory ==
  ASSUME ProgramTyped, NEW plan, Legible(code, plan),
         NEW stacks, NEW used, NEW printed, Witnesses(stacks, used, printed),
         History(plan, stacks, used, printed), measuring, Library \/ Compare \/ CallHook,
         NEW now, now = hints'
  PROVE  /\ Witnesses(stacks, used, now)
         /\ History(plan, stacks, used, now)'
<1> DEFINE last == Len(path) + 1
           s == stacks[last]
           n == used[last]
           i == code[pc + 1]
<1> USE DEF Executes, Next1, Falls
<1>1. /\ code \in Programs /\ pc \in DOMAIN code /\ pc \in Nat \ {0}
      /\ hints \in Seq(Symbols) /\ Recorded(plan, stacks, used, hints)
      /\ Witnesses(stacks, used, hints) /\ s \in Seq(Nat) /\ n \in Nat /\ run = "running"
      /\ From(plan, last) \in Nat /\ Runs(From(plan, last), pc)
      /\ Inside(plan, pc, s, {"bl", "blr"})
      /\ Len(s) \in Nat /\ Len(frames) \in Nat /\ Len(s) <= Len(frames)
      /\ DOMAIN s = 1..Len(s)
      /\ \A j \in 1..Len(s) : frames[Len(frames) - Len(s) + j] = s[j]
      /\ Len(hints) = IF code[pc].op \in Noted THEN n ELSE n - 1
      /\ Len(hints) \in Nat /\ DOMAIN hints = 1..Len(hints)
  BY MeasuredFacts
<1> HIDE DEF s, n
<1>2. /\ code' = code /\ pc' = pc + 1 /\ path' = path /\ frames' = frames
      /\ measuring' = measuring /\ run' = run /\ code[pc].op \in Straight
  BY DEF Library, Compare, CallHook, Straight
<1>3. Len(hints) = n - 1
  BY <1>1, <1>2 DEF Straight, Noted, CondOps, CbOps
<1>4. Inside(plan, pc + 1, s, {"bl", "blr"}) /\ pc + 1 \in DOMAIN code
  <2>1. Inside(plan, pc + 1, s, {"bl", "blr"})
    BY <1>1, <1>2, InsideGoes
  <2> QED
    BY <1>1, <2>1, InsideGoes
<1>5. Runs(From(plan, last), pc + 1)
  BY <1>1, <1>2, RunsFacts
<1>6. /\ hints' \in Seq(Symbols) /\ Len(hints') \in Nat /\ DOMAIN hints' = 1..Len(hints')
      /\ Len(hints) <= Len(hints') /\ \A j \in DOMAIN hints : hints'[j] = hints[j]
      /\ Len(hints') = IF i.op \in Noted THEN n ELSE n - 1
      /\ i.op \in CondOps => hints'[n] = Sym(cond')
      /\ i.op \in {"blr", "br"} => hints'[n] \notin {"y", "n"}
  <2> DEFINE Said(x) == hints \o <<x>>
  <2>1. ASSUME NEW x \in Symbols, hints' = Said(x)
        PROVE  /\ hints' \in Seq(Symbols) /\ Len(hints') = n
               /\ DOMAIN hints' = 1..n /\ hints'[n] = x
               /\ \A j \in DOMAIN hints : hints'[j] = hints[j]
    <3>1. Said(x) = Append(hints, x)
      BY <1>1, <2>1, AppendIsConcat
    <3>2. Len(hints) + 1 = n
      BY <1>1, <1>3
    <3>3. /\ Append(hints, x) \in Seq(Symbols) /\ Len(Append(hints, x)) = n
          /\ DOMAIN Append(hints, x) = 1..n /\ Append(hints, x)[n] = x
          /\ \A j \in DOMAIN hints : Append(hints, x)[j] = hints[j]
      BY <1>1, <2>1, <3>2, Extended
    <3> QED
      BY <2>1, <3>1, <3>3
  <2>2. CASE code[pc].op # "hook"
    <3>1. hints' = hints /\ i.op \notin Hooked
      BY <1>1, <1>2, <1>4, <2>2, HookFacts DEF Library, Compare, CallHook
    <3> QED
      BY <1>1, <1>3, <3>1 DEF Hooked, Noted
  <2>3. CASE code[pc].op = "hook"
    <3>1. /\ i.op \in Hooked /\ code[pc].arg = HookFor(i.op)
          /\ hints' = hints \o Printed(code[pc].arg) /\ cond' = cond
      BY <1>1, <1>2, <2>3, HookFacts DEF Library, Compare, CallHook
    <3>2. CASE i.op \in CondOps
      <4>1. hints' = Said(Sym(cond)) /\ Sym(cond) \in Symbols
        BY <3>1, <3>2 DEF HookFor, Printed, Sym, Symbols
      <4>2. i.op \in Noted /\ i.op \notin {"blr", "br"}
        BY <3>2 DEF Noted, CondOps, CbOps
      <4> HIDE DEF Said
      <4> QED
        BY <1>1, <1>3, <2>1, <3>1, <4>1, <4>2
    <3>3. CASE i.op \in {"blr", "br"}
      <4>1. /\ HookFor(i.op) \in {"icall", "ijmp"}
            /\ Printed(HookFor(i.op)) = <<HookFor(i.op)>>
        BY <3>3 DEF HookFor, Printed, CondOps, CbOps, HookOf
      <4> DEFINE x == HookFor(i.op)
      <4>3. hints' = Said(x)
        BY <3>1, <4>1
      <4>2. i.op \in Noted /\ i.op \notin CondOps /\ x \in Symbols
        BY <3>3, <4>1 DEF Noted, CondOps, CbOps, Symbols
      <4> HIDE DEF Said, x
      <4>4. x \notin {"y", "n"}
        BY <4>1 DEF x
      <4> QED
        BY <1>1, <1>3, <2>1, <4>2, <4>3, <4>4
    <3>4. CASE i.op = "ret"
      <4>1. hints' = hints \o <<>>
        BY <3>1, <3>4 DEF HookFor, Printed, CondOps, CbOps, HookOf
      <4>2. hints' = hints /\ i.op \notin Noted
        BY <1>1, <3>4, <4>1, ConcatEmptySeq DEF Noted, CondOps, CbOps
      <4> QED
        BY <1>1, <1>3, <3>4, <4>2 DEF Noted
    <3> QED
      BY <3>1, <3>2, <3>3, <3>4 DEF Hooked, Noted
  <2> QED
    BY <2>2, <2>3
<1>7. Witnesses(stacks, used, now)
  BY <1>1, <1>6 DEF Witnesses
<1>8. Recorded(plan, stacks, used, now)'
  <2>1. \A j \in DOMAIN hints : j \in DOMAIN now /\ now[j] = hints[j]
    BY <1>1, <1>6
  <2>2. Len(hints') <= Len(now) /\ \A j \in DOMAIN hints' : hints'[j] = now[j]
    BY <1>6
  <2> QED
    BY <1>1, <1>2, <2>1, <2>2, RecordedKept
<1>9. Measured(plan, stacks, used, now)'
  <2>1. Runs(From(plan, Len(path) + 1), pc)'
    BY <1>2, <1>5 DEF Runs, From
  <2>2. Inside(plan, pc, s, {"bl", "blr"})'
    <3>1. s' = s
      BY <1>2 DEF s
    <3> QED
      BY <1>2, <1>4, <3>1 DEF Inside
  <2>3. code'[pc'] = i
    BY <1>2
  <2> HIDE DEF i
  <2> QED
    BY <1>1, <1>2, <1>6, <2>1, <2>2, <2>3 DEF Measured, s, n, last
<1> QED
  BY <1>1, <1>2, <1>7, <1>8, <1>9 DEF History

\* cfv_quote() ends the operation.
LEMMA CfvQuoteHistory ==
  ASSUME ProgramTyped, NEW plan, Legible(code, plan),
         NEW stacks, NEW used, NEW printed, Witnesses(stacks, used, printed),
         History(plan, stacks, used, printed), measuring, CfvQuote
  PROVE  History(plan, stacks, used, printed)'
<1> USE DEF Executes, Falls
<1>1. /\ code' = code /\ path' = path /\ hints' = hints /\ measuring' = FALSE
      /\ run' = "running" /\ code[pc].op = "quote" /\ pc \in DOMAIN code
  BY DEF CfvQuote, ProgramTyped
<1>2. /\ Recorded(plan, stacks, used, printed) /\ Measured(plan, stacks, used, printed)
      /\ printed = hints
  BY DEF History, Measured
<1>3. /\ Runs(From(plan, Len(path) + 1), pc)
      /\ Len(hints) = used[Len(path) + 1] - 1
  BY <1>1, <1>2 DEF Measured, Noted, CondOps, CbOps
<1>4. Recorded(plan, stacks, used, printed)'
  <2>1. /\ Len(hints') <= Len(printed)
        /\ \A i \in DOMAIN hints' : hints'[i] = printed[i]
    BY <1>1, <1>2 DEF Recorded
  <2> QED
    BY <1>1, <1>2, <2>1, RecordedKept
<1>5. Over(plan, stacks, used, printed)'
  <2>1. Runs(From(plan, Len(path) + 1), pc)' <=> Runs(From(plan, Len(path) + 1), pc')
    BY <1>1 DEF Runs, From
  <2>2. \A q : Runs(From(plan, Len(path) + 1), q) => (Runs(From(plan, Len(path) + 1), q))'
    BY <1>1 DEF Runs, From
  <2> QED
    BY <1>1, <1>2, <1>3, <2>2 DEF Over
<1> QED
  BY <1>1, <1>4, <1>5 DEF History

\* A transfer adds an edge.
LEMMA GoesHistory ==
  ASSUME ProgramTyped, NEW plan, Legible(code, plan),
         NEW stacks, NEW used, NEW printed, Witnesses(stacks, used, printed),
         History(plan, stacks, used, printed), measuring,
         NEW to \in DOMAIN code, Goes(to), code[to].op \notin Hooked,
         NEW t \in Seq(Nat), NEW m \in Nat \ {0}, Len(hints) = m - 1,
         Edge(<<pc, to>>, stacks[Len(path) + 1], t, used[Len(path) + 1], m, hints),
         Inside(plan, to, t, {"bl", "blr"}),
         Len(t) <= Len(frames'),
         \A i \in DOMAIN t : frames'[Len(frames') - Len(t) + i] = t[i]
  PROVE  \E stacks2, used2, printed2 :
           Witnesses(stacks2, used2, printed2) /\ History(plan, stacks2, used2, printed2)'
<1> DEFINE stacks2 == Append(stacks, t)
           used2 == Append(used, m)
<1>1. /\ code \in Programs /\ pc \in DOMAIN code /\ pc \in Nat \ {0}
      /\ hints \in Seq(Symbols) /\ Recorded(plan, stacks, used, hints)
      /\ Witnesses(stacks, used, hints) /\ run = "running"
      /\ From(plan, Len(path) + 1) \in Nat /\ Runs(From(plan, Len(path) + 1), pc)
  BY MeasuredFacts
<1>12. printed = hints
  BY DEF History, Measured
<1>2. /\ code' = code /\ pc' = to /\ path' = Append(path, <<pc, to>>)
      /\ measuring' = measuring /\ run' = run /\ hints' = hints
  BY DEF Goes
<1>13. PICK n \in Nat : n = Len(path)
  BY LenProperties DEF ProgramTyped
<1>3. /\ DOMAIN path = 1..n
      /\ DOMAIN path' = 1..(n + 1) /\ Len(path') = n + 1
      /\ path'[n + 1] = <<pc, to>>
      /\ \A k \in 1..n : path'[k] = path[k]
  <2>1. /\ path \in Seq((DOMAIN code) \X (DOMAIN code))
        /\ <<pc, to>> \in (DOMAIN code) \X (DOMAIN code)
    BY <1>1 DEF ProgramTyped
  <2> QED
    BY <1>2, <1>13, <2>1, Extended
<1>4. /\ stacks2 \in Seq(Seq(Nat)) /\ Len(stacks2) = n + 2
      /\ stacks2[n + 2] = t
      /\ \A k \in 1..(n + 1) : stacks2[k] = stacks[k]
  <2>1. stacks \in Seq(Seq(Nat)) /\ Len(stacks) = n + 1
    BY <1>1, <1>13 DEF Witnesses, Recorded
  <2>2. Len(stacks) + 1 = n + 2
    BY <1>13, <2>1
  <2> QED
    BY <2>1, <2>2, Extended
<1>5. /\ used2 \in Seq(Nat \ {0}) /\ Len(used2) = n + 2
      /\ used2[n + 2] = m
      /\ \A k \in 1..(n + 1) : used2[k] = used[k]
  <2>1. used \in Seq(Nat \ {0}) /\ Len(used) = n + 1
    BY <1>1, <1>13 DEF Witnesses, Recorded
  <2>2. Len(used) + 1 = n + 2
    BY <1>13, <2>1
  <2> QED
    BY <2>1, <2>2, Extended
<1> HIDE DEF stacks2, used2
<1>6. ASSUME NEW k \in 1..(n + 1)
      PROVE  From(plan, k)' = From(plan, k)
  <2>1. k # 1 => k - 1 \in 1..n
    BY <1>13
  <2> QED
    BY <1>3, <2>1 DEF From
<1>7. From(plan, n + 2)' = to
  <2>1. n + 2 # 1 /\ (n + 2) - 1 = n + 1
    BY <1>13
  <2> QED
    BY <1>3, <2>1 DEF From
<1>8. Recorded(plan, stacks2, used2, printed)'
  <2>1. ASSUME NEW k \in 1..(n + 1)
        PROVE  /\ Runs(From(plan, k), path[k][1])'
               /\ Edge(path[k], stacks2[k], stacks2[k + 1], used2[k], used2[k + 1], printed)'
    <3>1. CASE k = n + 1
      <4>1. k + 1 = n + 2 /\ k \in 1..(n + 1)
        BY <3>1
      <4>2. /\ path'[k] = <<pc, to>> /\ stacks2[k] = stacks[n + 1] /\ stacks2[k + 1] = t
            /\ used2[k] = used[n + 1] /\ used2[k + 1] = m
        BY <1>3, <1>4, <1>5, <3>1, <4>1
      <4>3. Runs(From(plan, k), path[k][1])'
        <5>1. Runs(From(plan, n + 1), pc) /\ path'[k][1] = pc
          BY <1>1, <1>13, <4>2
        <5>2. From(plan, n + 1)' = From(plan, n + 1)
          BY <1>6, <3>1
        <5> QED
          BY <1>2, <3>1, <5>1, <5>2 DEF Runs
      <4>4. Edge(path[k], stacks2[k], stacks2[k + 1], used2[k], used2[k + 1], printed)'
        BY <1>2, <1>12, <1>13, <4>2 DEF Edge
      <4> QED
        BY <4>3, <4>4
    <3>2. CASE k \in 1..n
      <4>1. k + 1 \in 1..(n + 1) /\ k \in 1..(n + 1)
        BY <1>13, <3>2
      <4>2. /\ path'[k] = path[k] /\ stacks2[k] = stacks[k] /\ stacks2[k + 1] = stacks[k + 1]
            /\ used2[k] = used[k] /\ used2[k + 1] = used[k + 1]
        BY <1>3, <1>4, <1>5, <3>2, <4>1
      <4>3. /\ Runs(From(plan, k), path[k][1])
            /\ Edge(path[k], stacks[k], stacks[k + 1], used[k], used[k + 1], printed)
        BY <1>1, <1>3, <1>12, <3>2 DEF Recorded
      <4>4. Runs(From(plan, k), path[k][1])'
        BY <1>2, <1>6, <4>2, <4>3 DEF Runs
      <4>5. Edge(path[k], stacks2[k], stacks2[k + 1], used2[k], used2[k + 1], printed)'
        BY <1>2, <4>2, <4>3 DEF Edge
      <4> QED
        BY <4>4, <4>5
    <3> QED
      BY <1>13, <3>1, <3>2
  <2>2. stacks2[1] = <<>> /\ used2[1] = 1
    <3>1. 1 \in 1..(n + 1)
      BY <1>13
    <3> QED
      BY <1>1, <1>4, <1>5, <3>1 DEF Recorded
  <2>3. /\ Len(hints') <= Len(printed)
        /\ \A i \in DOMAIN hints' : hints'[i] = printed[i]
    BY <1>1, <1>2, <1>12 DEF Recorded
  <2>4. Len(stacks2) = Len(path') + 1 /\ Len(used2) = Len(path') + 1
    BY <1>3, <1>4, <1>5, <1>13
  <2>5. \A k \in DOMAIN path' :
          /\ Runs(From(plan, k), path[k][1])'
          /\ Edge(path[k], stacks2[k], stacks2[k + 1], used2[k], used2[k + 1], printed)'
    BY <1>3, <2>1
  <2> QED
    BY <2>2, <2>3, <2>4, <2>5 DEF Recorded
<1>9. Measured(plan, stacks2, used2, printed)'
  <2>1. Len(path') + 1 = n + 2
    BY <1>3, <1>13
  <2>2. Runs(From(plan, n + 2), pc)'
    <3>1. to \in Nat
      BY <1>1, CodeFacts
    <3> QED
      BY <1>2, <1>7, <3>1 DEF Runs
  <2>3. Inside(plan, pc, t, {"bl", "blr"})'
    BY <1>2 DEF Inside
  <2>4. /\ code'[pc'].op \notin CondOps /\ code'[pc'].op \notin {"blr", "br"}
        /\ code'[pc'].op \notin Noted
    BY <1>2 DEF Hooked, Noted
  <2> HIDE DEF Runs, Inside, Noted, CondOps
  <2>5. printed = hints' /\ Len(hints') = m - 1
    BY <1>2, <1>12
  <2> QED
    BY <1>4, <1>5, <2>1, <2>2, <2>3, <2>4, <2>5 DEF Measured
<1>10. History(plan, stacks2, used2, printed)'
  BY <1>1, <1>2, <1>8, <1>9 DEF History
<1>11. Witnesses(stacks2, used2, printed)
  BY <1>1, <1>4, <1>5, <1>12 DEF Witnesses
<1> QED
  BY <1>10, <1>11

LEMMA TransferHistory ==
  ASSUME ProgramTyped, NEW plan, Legible(code, plan),
         NEW stacks, NEW used, NEW printed, Witnesses(stacks, used, printed),
         History(plan, stacks, used, printed), measuring,
         Branch \/ Jump \/ Call \/ Return
  PROVE  \E stacks2, used2, printed2 :
           Witnesses(stacks2, used2, printed2) /\ History(plan, stacks2, used2, printed2)'
<1> DEFINE s == stacks[Len(path) + 1]
           n == used[Len(path) + 1]
           calls == {"bl", "blr"}
           i == code[pc]
<1> USE DEF Executes, Next1
<1>1. /\ code \in Programs /\ pc \in DOMAIN code /\ pc \in Nat \ {0}
      /\ hints \in Seq(Symbols) /\ frames \in Seq(DOMAIN code)
      /\ s \in Seq(Nat) /\ n \in Nat \ {0}
      /\ Inside(plan, pc, s, calls)
      /\ Len(s) \in Nat /\ Len(frames) \in Nat /\ Len(s) <= Len(frames)
      /\ DOMAIN s = 1..Len(s)
      /\ \A k \in 1..Len(s) : frames[Len(frames) - Len(s) + k] = s[k]
      /\ i.op \in CondOps => hints[n] = Sym(cond)
      /\ i.op \in {"blr", "br"} => hints[n] \notin {"y", "n"}
      /\ Len(hints) = IF i.op \in Noted THEN n ELSE n - 1
      /\ Len(hints) \in Nat /\ DOMAIN hints = 1..Len(hints)
  BY MeasuredFacts
<1> HIDE DEF s, n
<1>2. /\ i.op \in Noted => /\ n \in DOMAIN hints /\ Len(hints) = (n + 1) - 1
      /\ i.op \notin Noted => Len(hints) = n - 1
      /\ n + 1 \in Nat \ {0}
  BY <1>1
<1>3. ASSUME NEW to, NEW t \in Seq(Nat), NEW m \in Nat \ {0}, Goes(to),
             code[to].op \notin Hooked, Len(hints) = m - 1,
             Edge(<<pc, to>>, s, t, n, m, hints), Inside(plan, to, t, calls),
             Len(t) <= Len(frames'),
             \A k \in DOMAIN t : frames'[Len(frames') - Len(t) + k] = t[k]
      PROVE  \E stacks2, used2, printed2 :
               Witnesses(stacks2, used2, printed2) /\ History(plan, stacks2, used2, printed2)'
  <2>1. to \in DOMAIN code
    BY <1>1, <1>3, InsideGoes
  <2> QED
    BY <1>3, <2>1, GoesHistory DEF s, n
<1>4. CASE Branch
  <2> DEFINE to == IF cond = i.onTrue THEN i.to ELSE pc + 1
  <2>1. i.op \in CondOps /\ i.op \in Noted /\ Goes(to) /\ frames' = frames
    BY <1>4 DEF Branch, CondOps, Noted
  <2>2. i.op # "hook" /\ cond \in BOOLEAN
    BY <2>1 DEF CondOps, CbOps, ProgramTyped
  <2>3. Inside(plan, pc + 1, s, calls) /\ Inside(plan, i.to, s, calls)
    BY <1>1, <2>1, InsideGoes
  <2>4. pc + 1 \in DOMAIN code
    BY <1>1, <2>3, InsideGoes
  <2>5. code[pc + 1].op \notin Hooked /\ code[i.to].op \notin Hooked
    BY <1>1, <2>1, <2>2, <2>4, HookFacts
  <2>6. Edge(<<pc, to>>, s, s, n, n + 1, hints)
    BY <1>1, <1>2, <2>1, <2>2 DEF Edge
  <2>7. Inside(plan, to, s, calls) /\ code[to].op \notin Hooked
    BY <2>3, <2>5
  <2> HIDE DEF to
  <2> QED
    BY <1>1, <1>2, <1>3, <2>1, <2>6, <2>7
<1>5. CASE Jump
  <2> DEFINE m == IF i.op = "b" THEN n ELSE n + 1
  <2>1. i.op \in {"b", "br"} /\ Goes(i.to) /\ frames' = frames
    BY <1>5 DEF Jump
  <2>2. Inside(plan, i.to, s, calls)
    BY <1>1, <2>1, InsideGoes
  <2>3. code[i.to].op \notin Hooked
    BY <1>1, <2>1, HookFacts DEF Noted
  <2>4. i.op \in Noted <=> i.op = "br"
    BY <2>1 DEF Noted, CondOps, CbOps
  <2>5. Edge(<<pc, i.to>>, s, s, n, m, hints)
    BY <1>1, <1>2, <2>1, <2>4 DEF Edge
  <2>6. m \in Nat \ {0} /\ Len(hints) = m - 1
    BY <1>1, <1>2, <2>1, <2>4
  <2> HIDE DEF m
  <2> QED
    BY <1>1, <1>3, <2>1, <2>2, <2>3, <2>5, <2>6
<1>6. CASE Call
  <2> DEFINE m == IF i.op = "bl" THEN n ELSE n + 1
             t == Append(s, pc + 1)
  <2>1. i.op \in {"bl", "blr"} /\ Goes(i.to) /\ frames' = Append(frames, pc + 1)
    BY <1>6 DEF Call
  <2>2. Inside(plan, i.to, t, calls)
    BY <1>1, <2>1, InsideGoes
  <2>3. code[i.to].op \notin Hooked /\ pc + 1 \in DOMAIN code
    BY <1>1, <2>1, HookFacts, CodeFacts DEF Noted
  <2>4. i.op \in Noted <=> i.op = "blr"
    BY <2>1 DEF Noted, CondOps, CbOps
  <2>5. Edge(<<pc, i.to>>, s, t, n, m, hints)
    BY <1>1, <1>2, <2>1, <2>4 DEF Edge
  <2>6. m \in Nat \ {0} /\ Len(hints) = m - 1
    BY <1>1, <1>2, <2>1, <2>4
  <2>7. /\ t \in Seq(Nat) /\ Len(t) = Len(s) + 1 /\ DOMAIN t = 1..(Len(s) + 1)
        /\ t[Len(s) + 1] = pc + 1 /\ \A k \in 1..Len(s) : t[k] = s[k]
    BY <1>1, Extended
  <2>8. /\ Len(frames') = Len(frames) + 1 /\ frames'[Len(frames) + 1] = pc + 1
        /\ \A k \in 1..Len(frames) : frames'[k] = frames[k]
    BY <1>1, <2>1, <2>3, Extended
  <2> HIDE DEF m, t
  <2>9. Len(t) <= Len(frames')
    BY <1>1, <2>7, <2>8
  <2>10. ASSUME NEW k \in DOMAIN t
         PROVE  frames'[Len(frames') - Len(t) + k] = t[k]
    <3>1. Len(frames') - Len(t) + k = Len(frames) - Len(s) + k
      BY <1>1, <2>7, <2>8
    <3>2. CASE k = Len(s) + 1
      BY <1>1, <2>7, <2>8, <3>1, <3>2
    <3>3. CASE k \in 1..Len(s)
      <4>1. Len(frames) - Len(s) + k \in 1..Len(frames)
        BY <1>1, <3>3
      <4> QED
        BY <1>1, <2>7, <2>8, <3>1, <3>3, <4>1
    <3> QED
      BY <1>1, <2>7, <3>2, <3>3
  <2> QED
    BY <1>3, <2>1, <2>2, <2>3, <2>5, <2>6, <2>7, <2>9, <2>10
<1>7. CASE Return
  <2> DEFINE t == SubSeq(s, 1, Len(s) - 1)
             to == s[Len(s)]
  <2>1. /\ i.op = "ret" /\ frames # <<>> /\ Goes(frames[Len(frames)])
        /\ frames' = SubSeq(frames, 1, Len(frames) - 1)
    BY <1>7 DEF Return
  <2>2. Inside(plan, to, t, calls) /\ s # <<>>
    <3>3. /\ code \in Programs /\ s \in Seq(Nat) /\ Inside(plan, pc, s, calls)
          /\ code[pc].op = "ret"
      BY <1>1, <2>1
    <3>1. s # <<>>
      BY <3>3, InsideGoes
    <3>2. Inside(plan, to, t, calls)
      BY <1>1, <2>1, InsideGoes
    <3> QED
      BY <3>1, <3>2
  <2>3. /\ Len(s) \in Nat \ {0} /\ t \in Seq(Nat) /\ Len(t) = Len(s) - 1
        /\ DOMAIN t = 1..(Len(s) - 1) /\ \A k \in 1..(Len(s) - 1) : t[k] = s[k]
    BY <1>1, <2>2, FrontOf
  <2>4. /\ Len(frames') = Len(frames) - 1
        /\ \A k \in 1..(Len(frames) - 1) : frames'[k] = frames[k]
    BY <1>1, <2>1, FrontOf
  <2>5. frames[Len(frames)] = to
    BY <1>1, <2>3
  <2>6. to - 1 \in DOMAIN code /\ code[to - 1].op \in calls /\ to \in Nat \ {0}
    <3>1. Len(s) \in DOMAIN s
      BY <1>1, <2>3
    <3>2. to - 1 \in Operation(plan) /\ code[to - 1].op \in calls /\ to \in Nat
      BY <1>1, <3>1, ElementOfSeq DEF Inside
    <3>3. to - 1 \in DOMAIN code /\ to - 1 \in Nat \ {0}
      BY <1>1, <3>2, PlanFacts
    <3> QED
      BY <3>2, <3>3
  <2>7. code[to].op \notin Hooked
    <3> HIDE DEF to, t
    <3>1. (to - 1) + 1 = to
      BY <2>6
    <3>2. code \in Programs /\ Inside(plan, to, t, calls) /\ t \in Seq(Nat)
      BY <1>1, <2>2, <2>3
    <3>3. to \in DOMAIN code
      BY <3>2, InsideGoes
    <3> QED
      BY <1>1, <2>6, <3>1, <3>3, HookFacts
  <2>8. Edge(<<pc, to>>, s, t, n, n, hints)
    BY <2>1, <2>2 DEF Edge
  <2>9. Len(hints) = n - 1
    BY <1>1, <2>1 DEF Noted, CondOps, CbOps
  <2> HIDE DEF t
  <2>10. Len(t) <= Len(frames')
    BY <1>1, <2>3, <2>4
  <2>11. ASSUME NEW k \in DOMAIN t
         PROVE  frames'[Len(frames') - Len(t) + k] = t[k]
    <3> HIDE DEF to
    <3>1. k \in 1..(Len(s) - 1) /\ k \in 1..Len(s)
      BY <1>1, <2>3
    <3>2. Len(frames) - Len(s) + k \in 1..(Len(frames) - 1)
      <4>1. /\ Len(frames) \in Nat /\ Len(s) \in Nat /\ Len(s) <= Len(frames)
        BY <1>1
      <4> QED
        BY <3>1, <4>1
    <3>4. Len(frames') - Len(t) + k = Len(frames) - Len(s) + k
      <4>1. /\ Len(frames) \in Nat /\ Len(s) \in Nat /\ k \in Nat
            /\ Len(t) = Len(s) - 1 /\ Len(frames') = Len(frames) - 1
        BY <1>1, <2>3, <2>4, <3>1
      <4> QED
        BY <4>1
    <3> QED
      BY <1>1, <2>3, <2>4, <3>1, <3>2, <3>4
  <2> HIDE DEF to
  <2> QED
    BY <1>1, <1>3, <2>1, <2>2, <2>3, <2>5, <2>7, <2>8, <2>9, <2>10, <2>11
<1> QED
  BY <1>4, <1>5, <1>6, <1>7

\* Every program step keeps the history of what is measured.
LEMMA RunHistory ==
  ASSUME ProgramTyped, NEW plan, Legible(code, plan),
         NEW stacks, NEW used, NEW printed, Witnesses(stacks, used, printed),
         History(plan, stacks, used, printed), Run
  PROVE  \E stacks2, used2, printed2 :
           Witnesses(stacks2, used2, printed2) /\ History(plan, stacks2, used2, printed2)'
<1>1. CASE CfvInit
  BY <1>1, CfvInitHistory
<1>2. CASE Kill
  BY <1>2, KillHistory
<1>3. CASE ~measuring /\ ~CfvInit /\ ~Kill
  <2>1. /\ code' = code /\ path' = path /\ hints' = hints /\ ~measuring'
        /\ run # "killed"
    BY <1>3 DEF Run, Library, CfvQuote, Compare, CallHook, Branch, Jump, Call, Return,
                End, Executes, Falls, Goes, Gone
  <2> QED
    BY <1>3, <2>1, HistoryKept
<1>4. CASE measuring /\ (Library \/ Compare \/ CallHook)
  BY <1>4, StraightHistory
<1>5. CASE measuring /\ CfvQuote
  BY <1>5, CfvQuoteHistory
<1>6. CASE measuring /\ (Branch \/ Jump \/ Call \/ Return)
  BY <1>6, TransferHistory
<1>7. ASSUME measuring, End
      PROVE  FALSE
  <2> DEFINE s == stacks[Len(path) + 1]
  <2>1. /\ code \in Programs /\ s \in Seq(Nat) /\ Inside(plan, pc, s, {"bl", "blr"})
        /\ Len(s) \in Nat /\ Len(s) <= Len(frames)
    BY <1>7, MeasuredFacts
  <2> HIDE DEF s
  <2>2. code[pc].op = "ret" /\ Len(frames) = 0
    BY <1>7 DEF End, Executes
  <2>3. s # <<>>
    BY <2>1, <2>2, InsideGoes
  <2>4. Len(s) # 0
    BY <2>1, <2>3, EmptySeq
  <2> QED
    BY <2>1, <2>2, <2>4
<1> QED
  BY <1>1, <1>2, <1>3, <1>4, <1>5, <1>6, <1>7 DEF Run

-----------------------------------------------------------------------------
(* What is known of the path.                                              *)

LEMMA PrefixOf ==
  ASSUME NEW S, NEW s \in Seq(S), NEW t \in Seq(S)
  PROVE  IsPrefix(s, t) <=> /\ Len(s) <= Len(t)
                            /\ \A i \in 1..Len(s) : s[i] = t[i]
<1>1. Len(s) \in Nat /\ Len(t) \in Nat
  BY LenProperties
<1>2. /\ \A i \in 1..Len(s) : s[i] \in S
      /\ \A i \in 1..Len(t) : t[i] \in S
  BY ElementOfSeq
<1>3. /\ SubSeq(s, 1, Len(s)) \in Seq(S) /\ Len(SubSeq(s, 1, Len(s))) = Len(s)
      /\ \A i \in 1..Len(s) : SubSeq(s, 1, Len(s))[i] = s[i]
  BY <1>1, <1>2, SubSeqProperties
<1>4. ASSUME Len(s) <= Len(t)
      PROVE  /\ SubSeq(t, 1, Len(s)) \in Seq(S) /\ Len(SubSeq(t, 1, Len(s))) = Len(s)
             /\ \A i \in 1..Len(s) : SubSeq(t, 1, Len(s))[i] = t[i]
  <2>1. \A i \in 1..Len(s) : t[i] \in S
    BY <1>1, <1>2, <1>4
  <2> QED
    BY <1>1, <1>4, <2>1, SubSeqProperties
<1>5. ASSUME Len(s) <= Len(t), \A i \in 1..Len(s) : s[i] = t[i]
      PROVE  SubSeq(s, 1, Len(s)) = SubSeq(t, 1, Len(s))
  <2>1. \A i \in 1..Len(s) : SubSeq(s, 1, Len(s))[i] = SubSeq(t, 1, Len(s))[i]
    BY <1>3, <1>4, <1>5
  <2> QED
    BY <1>3, <1>4, <1>5, <2>1, SeqEqual
<1>6. ASSUME Len(s) <= Len(t), SubSeq(s, 1, Len(s)) = SubSeq(t, 1, Len(s))
      PROVE  \A i \in 1..Len(s) : s[i] = t[i]
  BY <1>3, <1>4, <1>6
<1>7. IsPrefix(s, t) <=> /\ Len(s) <= Len(t)
                         /\ SubSeq(s, 1, Len(s)) = SubSeq(t, 1, Len(s))
  BY DEF IsPrefix
<1> QED
  BY <1>5, <1>6, <1>7

Edges == Nat \X Nat

LEMMA KnownFacts ==
  ASSUME ProgramTyped
  PROVE  /\ path \in Seq(Edges) /\ Known \in Seq(Edges)
         /\ Len(path) \in Nat /\ Len(Known) \in Nat /\ Len(Known) <= Len(path)
         /\ \A i \in 1..Len(Known) : Known[i] = path[i]
         /\ \A k \in 1..Len(path) : Unfollowed(path[k]) => Len(Known) < k
         /\ Known = path <=> Len(Known) = Len(path)
<1> DEFINE unknown == {n \in DOMAIN path : Unfollowed(path[n])}
<1>1. /\ path \in Seq(Edges) /\ Len(path) \in Nat /\ DOMAIN path = 1..Len(path)
      /\ \A i \in 1..Len(path) : path[i] \in Edges
  <2>1. path \in Seq((DOMAIN code) \X (DOMAIN code)) /\ code \in Programs
    BY DEF ProgramTyped
  <2>2. Len(path) \in Nat /\ DOMAIN path = 1..Len(path)
    BY <2>1, LenProperties
  <2>3. \A i \in 1..Len(path) : path[i] \in (DOMAIN code) \X (DOMAIN code)
    BY <2>1, ElementOfSeq
  <2>4. (DOMAIN code) \X (DOMAIN code) \subseteq Edges
    BY <2>1, CodeFacts DEF Edges
  <2>5. \A i \in 1..Len(path) : path[i] \in Edges
    BY <2>3, <2>4
  <2> QED
    BY <2>1, <2>2, <2>5, SeqDef
<1>2. CASE unknown = {}
  BY <1>1, <1>2 DEF Known
<1>3. CASE unknown # {}
  <2> DEFINE m == Min(unknown)
  <2>1. m \in 1..Len(path) /\ \A k \in unknown : m <= k
    <3>1. unknown \in SUBSET Nat /\ unknown \subseteq 1..Len(path)
      BY <1>1
    <3>2. m \in unknown /\ \A k \in unknown : m <= k
      BY <1>3, <3>1, MinOf
    <3> QED
      BY <3>1, <3>2
  <2>2. Known = SubSeq(path, 1, m - 1)
    BY <1>3 DEF Known
  <2> HIDE DEF m
  <2>3. \A i \in 1..(m - 1) : path[i] \in Edges
    BY <1>1, <2>1
  <2>4. /\ Known \in Seq(Edges) /\ Len(Known) = m - 1
        /\ \A i \in 1..(m - 1) : Known[i] = path[i]
    BY <1>1, <2>1, <2>2, <2>3, SubSeqProperties
  <2>5. \A k \in 1..Len(path) : Unfollowed(path[k]) => Len(Known) < k
    BY <1>1, <2>1, <2>4
  <2> QED
    BY <1>1, <2>1, <2>4, <2>5
<1> QED
  BY <1>2, <1>3

-----------------------------------------------------------------------------
(* The replay, as far as it follows the path.                              *)

Told(plan, stacks, used, printed) ==
  /\ TypedInv
  /\ Legible(code, plan)
  /\ Witnesses(stacks, used, printed)
  /\ History(plan, stacks, used, printed)

LEMMA ToldFacts ==
  ASSUME NEW plan, NEW stacks, NEW used, NEW printed, Told(plan, stacks, used, printed)
  PROVE  /\ ProgramTyped /\ code \in Programs /\ Legible(code, plan)
         /\ Witnesses(stacks, used, printed) /\ Recorded(plan, stacks, used, printed)
         /\ ofd \in Seq(Edges) /\ Len(ofd) \in Nat /\ DOMAIN ofd = 1..Len(ofd)
         /\ stack \in Seq(Nat) /\ Len(stack) \in Nat
         /\ idx \in Nat \ {0} /\ address \in Nat /\ prev_address \in Nat
         /\ trace \in Seq(Symbols) /\ Len(trace) \in Nat /\ DOMAIN trace = 1..Len(trace)
         /\ hints \in Seq(Symbols) /\ Len(hints) \in Nat /\ DOMAIN hints = 1..Len(hints)
         /\ run \in {"running", "ended", "killed"}
<1>1. /\ ProgramTyped /\ code \in Programs /\ Legible(code, plan)
      /\ Witnesses(stacks, used, printed) /\ Recorded(plan, stacks, used, printed)
      /\ TypeOK /\ run \in {"running", "ended", "killed"} /\ hints \in Seq(Symbols)
  BY DEF Told, TypedInv, ProgramTyped, History
<1>2. Len(code) \in Nat
  BY <1>1, CodeFacts
<1>3. /\ ofd \in Seq((1..Len(code)) \X (0..(Len(code) + 1)))
      /\ stack \in Seq(1..(Len(code) + 1)) /\ trace \in Seq(Symbols)
      /\ idx \in 1..(Len(trace) + 1) /\ address \in 0..(Len(code) + 1)
      /\ prev_address \in 0..Len(code)
  BY <1>1 DEF TypeOK, Symbols
<1>4. ofd \in Seq(Edges)
  <2>1. (1..Len(code)) \X (0..(Len(code) + 1)) \subseteq Edges
    BY <1>2 DEF Edges
  <2> QED
    BY <1>3, <2>1, SeqMonotonic
<1>5. stack \in Seq(Nat)
  <2>1. 1..(Len(code) + 1) \subseteq Nat
    BY <1>2
  <2> QED
    BY <1>3, <2>1, SeqMonotonic
<1>6. /\ Len(ofd) \in Nat /\ DOMAIN ofd = 1..Len(ofd) /\ Len(stack) \in Nat
      /\ Len(trace) \in Nat /\ DOMAIN trace = 1..Len(trace)
      /\ Len(hints) \in Nat /\ DOMAIN hints = 1..Len(hints)
  BY <1>1, <1>3, <1>4, <1>5, LenProperties
<1>7. idx \in Nat \ {0} /\ address \in Nat /\ prev_address \in Nat
  BY <1>2, <1>3, <1>6
<1> QED
  BY <1>1, <1>3, <1>4, <1>5, <1>6, <1>7

\* A program that came to its end has measured its operation.
LEMMA EndedFacts ==
  ASSUME NEW plan, NEW stacks, NEW used, NEW printed, Told(plan, stacks, used, printed),
         run = "ended", hints # <<>>
  PROVE  /\ printed = hints /\ Len(hints) = used[Len(path) + 1] - 1
         /\ \E q \in DOMAIN code : /\ Runs(From(plan, Len(path) + 1), q)
                                   /\ code[q].op = "quote"
<1>1. Over(plan, stacks, used, printed)
  BY DEF Told, History
<1> QED
  BY <1>1 DEF Over

\* The symbols that are read are those that were printed, and of a program that
\* came to its end every one is, up to the first that is not a condition's.
LEMMA TraceFacts ==
  ASSUME NEW plan, NEW stacks, NEW used, NEW printed, Told(plan, stacks, used, printed),
         trace = FirstLine(hints)
  PROVE  /\ \A i \in DOMAIN trace : i \in DOMAIN printed /\ trace[i] = printed[i]
         /\ run = "ended" /\ hints # <<>> =>
              \A n \in DOMAIN printed :
                (\A i \in 1..(n - 1) : printed[i] \in {"y", "n"}) => n \in DOMAIN trace
<1>1. /\ Recorded(plan, stacks, used, printed) /\ hints \in Seq(Symbols)
      /\ DOMAIN trace = 1..Len(trace) /\ Len(trace) \in Nat
      /\ DOMAIN hints = 1..Len(hints) /\ Len(hints) \in Nat
  BY ToldFacts
<1>2. Len(printed) \in Nat /\ DOMAIN printed = 1..Len(printed)
  BY LenProperties DEF Told, Witnesses
<1>3. /\ Len(trace) <= Len(hints) /\ \A i \in 1..Len(trace) : trace[i] = hints[i]
      /\ \A n \in DOMAIN hints : (\A i \in 1..(n - 1) : hints[i] \in {"y", "n"})
                                 => n \in DOMAIN trace
  BY <1>1, FirstLineOf
<1>4. /\ Len(hints) <= Len(printed) /\ \A i \in DOMAIN hints : hints[i] = printed[i]
  BY <1>1 DEF Recorded
<1>5. \A i \in DOMAIN trace : i \in DOMAIN printed /\ trace[i] = printed[i]
  BY <1>1, <1>2, <1>3, <1>4
<1>6. run = "ended" /\ hints # <<>> => printed = hints
  BY EndedFacts
<1> QED
  BY <1>3, <1>5, <1>6

\* What comes next, when the replay has followed the path so far.
LEMMA Meets ==
  ASSUME NEW plan, NEW stacks, NEW used, NEW printed, Told(plan, stacks, used, printed),
         run # "running", hints # <<>>, Following(plan, stacks, used, printed),
         address \in DOMAIN code, code[address].op \notin Straight,
         NEW k, k = Len(ofd) + 1
  PROVE  \/ /\ k \in 1..Len(path) /\ path[k] = <<address, path[k][2]>>
            /\ Edge(path[k], stack, stacks[k + 1], idx, used[k + 1], printed)
         \/ k = Len(path) + 1 /\ run = "killed"
         \/ /\ k = Len(path) + 1 /\ run = "ended" /\ code[address].op = "quote"
            /\ idx = Len(hints) + 1
<1>1. /\ ProgramTyped /\ code \in Programs /\ Legible(code, plan)
      /\ Recorded(plan, stacks, used, printed) /\ Len(ofd) \in Nat /\ address \in Nat
      /\ Witnesses(stacks, used, printed) /\ run \in {"ended", "killed"}
      /\ Len(hints) \in Nat
  BY ToldFacts
<1>2. /\ Len(ofd) <= Len(path) /\ Len(path) \in Nat /\ DOMAIN path = 1..Len(path)
      /\ stack = stacks[k] /\ idx = used[k] /\ Runs(From(plan, k), address)
      /\ k \in 1..(Len(path) + 1)
  <2>1. Len(path) \in Nat /\ DOMAIN path = 1..Len(path)
    BY <1>1, WitnessFacts
  <2>2. /\ Len(ofd) <= Len(path) /\ stack = stacks[k] /\ idx = used[k]
        /\ Runs(From(plan, k), address)
    BY DEF Following
  <2> QED
    BY <1>1, <2>1, <2>2
<1>3. From(plan, k) \in Nat
  BY <1>1, <1>2, FromFacts
<1>4. CASE k \in 1..Len(path)
  <2>1. /\ Runs(From(plan, k), path[k][1])
        /\ Edge(path[k], stack, stacks[k + 1], idx, used[k + 1], printed)
    BY <1>1, <1>2, <1>4 DEF Recorded
  <2>2. path[k] = <<path[k][1], path[k][2]>> /\ path[k][1] \in Nat
    BY <1>1, <1>4, PathFacts
  <2>3. code[path[k][1]].op \notin Straight
    BY <2>1 DEF Edge, Straight, CondOps, CbOps
  <2>4. path[k][1] = address
    BY <1>1, <1>2, <1>3, <2>1, <2>2, <2>3, RunsFacts
  <2> QED
    BY <1>4, <2>1, <2>2, <2>4
<1>5. CASE k = Len(path) + 1 /\ run = "ended"
  <2>1. PICK q \in DOMAIN code : Runs(From(plan, k), q) /\ code[q].op = "quote"
    BY <1>5, EndedFacts
  <2>2. q \in Nat /\ code[q].op \notin Straight
    BY <1>1, <2>1, CodeFacts DEF Straight
  <2>3. q = address
    BY <1>1, <1>2, <1>3, <2>1, <2>2, RunsFacts
  <2>4. Len(hints) = idx - 1 /\ idx \in Nat
    BY <1>2, <1>5, EndedFacts, ToldFacts
  <2>5. idx = Len(hints) + 1
    BY <1>1, <2>4
  <2> QED
    BY <1>5, <2>1, <2>3, <2>5
<1> QED
  BY <1>1, <1>2, <1>4, <1>5

\* Following the path is agreeing with it.
LEMMA FollowingAgrees ==
  ASSUME NEW plan, NEW stacks, NEW used, NEW printed, Told(plan, stacks, used, printed),
         Following(plan, stacks, used, printed)
  PROVE  /\ Agrees
         /\ Len(Known) <= Len(ofd) => IsPrefix(Known, ofd)
         /\ Len(ofd) = Len(path) => ofd = path /\ IsPrefix(Known, ofd)
<1>1. /\ ofd \in Seq(Edges) /\ Len(ofd) \in Nat /\ DOMAIN ofd = 1..Len(ofd)
      /\ Len(ofd) <= Len(path) /\ \A i \in 1..Len(ofd) : ofd[i] = path[i]
  BY ToldFacts DEF Following
<1>2. /\ path \in Seq(Edges) /\ Known \in Seq(Edges)
      /\ Len(path) \in Nat /\ Len(Known) \in Nat /\ Len(Known) <= Len(path)
      /\ \A i \in 1..Len(Known) : Known[i] = path[i]
      /\ Known = path <=> Len(Known) = Len(path)
  BY ToldFacts, KnownFacts
<1>3. ASSUME Len(Known) <= Len(ofd)
      PROVE  IsPrefix(Known, ofd)
  <2>1. \A i \in 1..Len(Known) : Known[i] = ofd[i]
    BY <1>1, <1>2, <1>3
  <2> QED
    BY <1>1, <1>2, <1>3, <2>1, PrefixOf
<1>4. ASSUME Len(ofd) <= Len(Known)
      PROVE  IsPrefix(ofd, Known)
  <2>1. \A i \in 1..Len(ofd) : ofd[i] = Known[i]
    BY <1>1, <1>2, <1>4
  <2> QED
    BY <1>1, <1>2, <1>4, <2>1, PrefixOf
<1>5. ASSUME Len(Known) < Len(ofd)
      PROVE  Known # path
  BY <1>1, <1>2, <1>5
<1>6. Len(ofd) = Len(path) => ofd = path
  BY <1>1, <1>2, SeqEqual
<1>7. Len(ofd) <= Len(Known) \/ Len(Known) < Len(ofd)
  BY <1>1, <1>2
<1>8. Len(Known) < Len(ofd) => Len(Known) <= Len(ofd)
  BY <1>1, <1>2
<1>9. Agrees
  BY <1>3, <1>4, <1>5, <1>7, <1>8 DEF Agrees
<1>10. Len(ofd) = Len(path) => Len(Known) <= Len(ofd)
  BY <1>1, <1>2
<1> QED
  BY <1>3, <1>6, <1>9, <1>10

LEMMA KnownSame ==
  ASSUME UNCHANGED programVars
  PROVE  Known' = Known
<1>1. code' = code /\ path' = path
  BY DEF programVars
<1>2. \A e : (Unfollowed(e))' <=> Unfollowed(e)
  BY <1>1 DEF Unfollowed
<1>3. {n \in DOMAIN path : Unfollowed(path[n])}' = {n \in DOMAIN path : Unfollowed(path[n])}
  BY <1>1, <1>2 DEF Unfollowed
<1> QED
  BY <1>1, <1>3 DEF Known

\* What is known stays in front of whatever is written.
LEMMA StillKnown ==
  ASSUME NEW plan, NEW stacks, NEW used, NEW printed, Told(plan, stacks, used, printed),
         UNCHANGED programVars, IsPrefix(Known, ofd),
         ofd' = ofd \/ \E e \in Edges : ofd' = Append(ofd, e)
  PROVE  IsPrefix(Known, ofd)' /\ Known' = Known /\ run' = run /\ path' = path
<1>1. ofd \in Seq(Edges) /\ Len(ofd) \in Nat /\ ProgramTyped
  BY ToldFacts
<1>2. Known \in Seq(Edges) /\ Len(Known) \in Nat
  BY <1>1, KnownFacts
<1>3. Known' = Known /\ run' = run /\ path' = path
  BY KnownSame DEF programVars
<1>4. Len(Known) <= Len(ofd) /\ \A i \in 1..Len(Known) : Known[i] = ofd[i]
  BY <1>1, <1>2, PrefixOf
<1>5. IsPrefix(Known, ofd')
  <2>1. CASE \E e \in Edges : ofd' = Append(ofd, e)
    <3>1. PICK e \in Edges : ofd' = Append(ofd, e)
      BY <2>1
    <3>2. /\ ofd' \in Seq(Edges) /\ Len(ofd') = Len(ofd) + 1
          /\ \A i \in 1..Len(ofd) : ofd'[i] = ofd[i]
      BY <1>1, <3>1, Extended
    <3>3. /\ Len(Known) <= Len(ofd')
          /\ \A i \in 1..Len(Known) : Known[i] = ofd'[i]
      BY <1>1, <1>2, <1>4, <3>2
    <3> QED
      BY <1>2, <3>2, <3>3, PrefixOf
  <2> QED
    BY <2>1
<1> QED
  BY <1>3, <1>5

LEMMA AstrayKept ==
  ASSUME NEW plan, NEW stacks, NEW used, NEW printed, Told(plan, stacks, used, printed),
         UNCHANGED programVars, trace' = trace, IsPrefix(Known, ofd),
         ofd' = ofd \/ \E e \in Edges : ofd' = Append(ofd, e),
         \/ run = "killed"
         \/ /\ idx' = idx /\ Known # path /\ idx \in DOMAIN trace
            /\ trace[idx] \notin {"y", "n"}
  PROVE  Astray'
<1>1. IsPrefix(Known, ofd)' /\ Known' = Known /\ run' = run /\ path' = path
  BY StillKnown
<1> QED
  BY <1>1 DEF Astray

\* An edge that is written as it was taken, or one that is off the path already.
LEMMA Onward ==
  ASSUME NEW plan, NEW stacks, NEW used, NEW printed, Told(plan, stacks, used, printed),
         run # "running", hints # <<>>,
         Following(plan, stacks, used, printed) \/ Astray,
         address \in DOMAIN code, code[address].op \notin Straight \cup {"quote"},
         UNCHANGED programVars, trace' = trace,
         NEW to \in Nat, address' = to, ofd' = Append(ofd, <<address, to>>),
         \A next, t, m :
           Edge(<<address, next>>, stack, t, idx, m, printed) =>
             /\ to = next /\ stack' = t /\ idx' = m
             /\ \/ m = idx
                \/ m = idx + 1 /\ idx \in DOMAIN printed /\ printed[idx] \in {"y", "n"},
         Astray => run = "killed" \/ idx' = idx
  PROVE  (Following(plan, stacks, used, printed) \/ Astray)'
<1>1. /\ ofd \in Seq(Edges) /\ Len(ofd) \in Nat /\ DOMAIN ofd = 1..Len(ofd)
      /\ ProgramTyped /\ address \in Nat /\ idx \in Nat \ {0}
  BY ToldFacts
<1>2. code' = code /\ path' = path /\ run' = run
  BY DEF programVars
<1>3. <<address, to>> \in Edges
  BY <1>1 DEF Edges
<1>4. /\ ofd' \in Seq(Edges) /\ Len(ofd') = Len(ofd) + 1 /\ DOMAIN ofd' = 1..(Len(ofd) + 1)
      /\ ofd'[Len(ofd) + 1] = <<address, to>>
      /\ \A i \in 1..Len(ofd) : ofd'[i] = ofd[i]
  BY <1>1, <1>3, Extended
<1>5. CASE Following(plan, stacks, used, printed)
  <2>1. PICK k \in Nat : k = Len(ofd) + 1
    BY <1>1
  <2>2. Len(path) \in Nat
    BY <1>1, KnownFacts
  <2>3. /\ Len(ofd) <= Len(path) /\ \A i \in 1..Len(ofd) : ofd[i] = path[i]
        /\ \A i \in 1..(idx - 1) : i \in DOMAIN printed /\ printed[i] \in {"y", "n"}
    BY <1>1, <1>5 DEF Following
  <2>4. CASE /\ k \in 1..Len(path) /\ path[k] = <<address, path[k][2]>>
             /\ Edge(path[k], stack, stacks[k + 1], idx, used[k + 1], printed)
    <3>1. Edge(<<address, path[k][2]>>, stack, stacks[k + 1], idx, used[k + 1], printed)
      BY <2>4
    <3>2. /\ to = path[k][2] /\ stack' = stacks[k + 1] /\ idx' = used[k + 1]
          /\ \/ idx' = idx
             \/ idx' = idx + 1 /\ idx \in DOMAIN printed /\ printed[idx] \in {"y", "n"}
      BY <3>1
    <3>3. \A i \in DOMAIN ofd' : ofd'[i] = path'[i]
      <4>1. ofd'[k] = path[k]
        BY <1>4, <2>1, <2>4, <3>2
      <4>2. \A i \in 1..(Len(ofd) + 1) : i \in 1..Len(ofd) \/ i = k
        BY <1>1, <2>1
      <4> QED
        BY <1>2, <1>4, <2>3, <4>1, <4>2
    <3>4. \A i \in 1..(idx' - 1) : i \in DOMAIN printed /\ printed[i] \in {"y", "n"}
      <4>1. \A i \in 1..(idx' - 1) : i \in 1..(idx - 1) \/ (i = idx /\ idx' = idx + 1)
        BY <1>1, <3>2
      <4> QED
        BY <1>1, <2>3, <3>2, <4>1
    <3>5. From(plan, k + 1)' = to
      <4>1. k + 1 # 1 /\ (k + 1) - 1 = k
        BY <2>4
      <4> QED
        BY <1>2, <3>2, <4>1 DEF From
    <3>6. Runs(From(plan, k + 1), address)'
      BY <3>5 DEF Runs
    <3>7. Len(ofd') + 1 = k + 1 /\ Len(ofd') <= Len(path')
      BY <1>1, <1>2, <1>4, <2>1, <2>2, <2>4
    <3>8. Following(plan, stacks, used, printed)'
      BY <3>2, <3>3, <3>4, <3>6, <3>7 DEF Following
    <3> QED
      BY <3>8
  <2>5. CASE k = Len(path) + 1 /\ run = "killed"
    <3>1. Len(ofd) = Len(path)
      BY <1>1, <2>1, <2>2, <2>5
    <3>2. IsPrefix(Known, ofd)
      BY <1>5, <3>1, FollowingAgrees
    <3> QED
      BY <1>3, <2>5, <3>2, AstrayKept
  <2> QED
    BY <1>5, <2>1, <2>4, <2>5, Meets
<1>6. CASE Astray
  <2>1. /\ IsPrefix(Known, ofd)
        /\ \/ run = "killed"
           \/ /\ idx' = idx /\ Known # path /\ idx \in DOMAIN trace
              /\ trace[idx] \notin {"y", "n"}
    BY <1>6 DEF Astray
  <2> QED
    BY <1>3, <2>1, AstrayKept
<1> QED
  BY <1>5, <1>6

\* The engine takes the next instruction for the one behind an indirect call or
\* jump, and leaves the path.
LEMMA Leaves ==
  ASSUME NEW plan, NEW stacks, NEW used, NEW printed, Told(plan, stacks, used, printed),
         run # "running", hints # <<>>, trace = FirstLine(hints),
         Following(plan, stacks, used, printed) \/ Astray,
         address \in DOMAIN code, code[address].op \in {"blr", "br"},
         UNCHANGED programVars, trace' = trace, idx' = idx, ofd' = ofd
  PROVE  Astray'
<1>1. /\ ofd \in Seq(Edges) /\ Len(ofd) \in Nat /\ ProgramTyped /\ idx \in Nat \ {0}
      /\ run \in {"ended", "killed"}
  BY ToldFacts
<1>2. CASE Following(plan, stacks, used, printed)
  <2>1. PICK k \in Nat : k = Len(ofd) + 1
    BY <1>1
  <2>2. Len(path) \in Nat /\ Len(Known) \in Nat /\ (Known = path => Len(Known) = Len(path))
    BY <1>1, KnownFacts
  <2>3. \A i \in 1..(idx - 1) : i \in DOMAIN printed /\ printed[i] \in {"y", "n"}
    BY <1>2 DEF Following
  <2>4. CASE /\ k \in 1..Len(path) /\ path[k] = <<address, path[k][2]>>
             /\ Edge(path[k], stack, stacks[k + 1], idx, used[k + 1], printed)
    <3>1. path[k][1] = address
      BY <2>4
    <3>2. Unfollowed(path[k])
      BY <3>1 DEF Unfollowed
    <3>3. Len(Known) < k
      BY <1>1, <2>4, <3>2, KnownFacts
    <3>4. IsPrefix(Known, ofd) /\ Known # path
      <4>1. Len(Known) <= Len(ofd)
        BY <1>1, <2>1, <2>2, <3>3
      <4> QED
        BY <1>2, <2>1, <2>2, <2>4, <3>3, <4>1, FollowingAgrees
    <3>5. idx \in DOMAIN printed /\ printed[idx] \notin {"y", "n"}
      BY <2>4, <3>1 DEF Edge, CondOps, CbOps
    <3>6. run = "ended" => idx \in DOMAIN trace /\ trace[idx] \notin {"y", "n"}
      BY <2>3, <3>5, TraceFacts
    <3> QED
      BY <1>1, <3>4, <3>6, AstrayKept
  <2>5. CASE k = Len(path) + 1 /\ run = "killed"
    <3>1. Len(ofd) = Len(path)
      BY <1>1, <2>1, <2>2, <2>5
    <3>2. IsPrefix(Known, ofd)
      BY <1>2, <3>1, FollowingAgrees
    <3> QED
      BY <2>5, <3>2, AstrayKept
  <2>6. code[address].op \notin Straight
    BY DEF Straight
  <2> QED
    BY <1>2, <2>1, <2>4, <2>5, <2>6, Meets
<1>3. CASE Astray
  BY <1>3, AstrayKept DEF Astray
<1> QED
  BY <1>2, <1>3

LEMMA FlowFacts ==
  ASSUME NEW plan, Legible(code, plan), NEW a \in Operation(plan), NEW f \in plan.flow[a]
  PROVE  /\ code[a].op = "cset" => AfterCset(code[a].arg, f) \in plan.flow[a + 1]
         /\ code[a].op \in {"plt", "hook"} \cup Noted => f \in plan.flow[a + 1]
         /\ code[a].op \in {"cbz", "cbnz", "b.", "b", "bl"} => f \in plan.flow[code[a].to]
         /\ code[a].op = "ret" =>
              \A b \in Operation(plan) : code[b].op = "bl" => f \in plan.flow[b + 1]
         /\ code[a].op \in CondOps => FlipsBy(code[a], f) = ~code[a].onTrue
BY DEF Legible, FlagsTell

LEMMA InsideSame ==
  ASSUME NEW plan, NEW calls, code' = code, Inside(plan, address', stack', calls)
  PROVE  Inside(plan, address, stack, calls)'
BY DEF Inside

LEMMA SettledKept ==
  ASSUME Settled, UNCHANGED programVars, trace' = trace, idx' = idx, ofd' = ofd
  PROVE  Settled'
<1>1. Known' = Known /\ path' = path /\ run' = run
  BY KnownSame DEF programVars
<1>2. Agrees'
  BY <1>1 DEF Settled, Agrees
<1>3. Complete => Complete'
  BY <1>1 DEF Complete, Exhausted
<1> QED
  BY <1>1, <1>2, <1>3 DEF Settled

LEMMA StraightOn ==
  ASSUME NEW plan, NEW stacks, NEW used, NEW printed, Told(plan, stacks, used, printed),
         Following(plan, stacks, used, printed) \/ Astray,
         address \in DOMAIN code, code[address].op \in Straight,
         UNCHANGED programVars, trace' = trace, idx' = idx, ofd' = ofd, stack' = stack,
         address' = address + 1
  PROVE  (Following(plan, stacks, used, printed) \/ Astray)'
<1>1. /\ ProgramTyped /\ address \in Nat /\ Len(ofd) \in Nat /\ Legible(code, plan)
      /\ code' = code /\ path' = path
  BY ToldFacts DEF programVars
<1>2. CASE Following(plan, stacks, used, printed)
  <2>1. PICK k \in Nat : k = Len(ofd) + 1
    BY <1>1
  <2>2. Runs(From(plan, k), address) /\ Len(ofd) <= Len(path) /\ Len(path) \in Nat
    BY <1>1, <1>2, <2>1, KnownFacts DEF Following
  <2>3. From(plan, k) \in Nat
    BY <1>1, <2>1, <2>2, FromFacts
  <2>4. Runs(From(plan, k), address + 1)
    BY <1>1, <2>2, <2>3, RunsFacts
  <2>5. Runs(From(plan, k), address)'
    BY <1>1, <2>4 DEF Runs, From
  <2>6. Following(plan, stacks, used, printed)'
    BY <1>1, <1>2, <2>1, <2>5 DEF Following
  <2> QED
    BY <2>6
<1>3. CASE Astray
  BY <1>3, AstrayKept DEF Astray
<1> QED
  BY <1>2, <1>3

\* Where the replay is inside the operation.
LEMMA ReplayingFacts ==
  ASSUME NEW plan, NEW stacks, NEW used, NEW printed, Told(plan, stacks, used, printed),
         Replaying(plan, stacks, used, printed)
  PROVE  /\ code \in Programs /\ stack \in Seq(Nat)
         /\ replay_start = TRUE /\ replay_stop = FALSE /\ Fresh
         /\ Inside(plan, address, stack, {"bl"})
         /\ Following(plan, stacks, used, printed) \/ Astray
         /\ address \in Operation(plan) /\ address \in DOMAIN code
         /\ address \in Nat \ {0} /\ flags \in plan.flow[address]
         /\ code[address].op # "init"
         /\ code[address].op = "ret" => stack # <<>>
<1>1. /\ code \in Programs /\ stack \in Seq(Nat) /\ Legible(code, plan)
      /\ replay_start \in BOOLEAN /\ replay_stop \in BOOLEAN
  BY ToldFacts DEF Told, TypedInv, TypeOK
<1>2. /\ replay_start /\ ~replay_stop /\ Fresh
      /\ Inside(plan, address, stack, {"bl"})
      /\ Following(plan, stacks, used, printed) \/ Astray
      /\ flags \in plan.flow[address]
  BY DEF Replaying, Fresh
<1> QED
  BY <1>1, <1>2, InsideGoes

\* What is left to show when the engine goes on inside the operation.
LEMMA ReplayingKept ==
  ASSUME NEW plan, NEW stacks, NEW used, NEW printed,
         UNCHANGED programVars, UNCHANGED <<replay_start, replay_stop>>,
         replay_start = TRUE, replay_stop = FALSE,
         address' # address, prev_address' = address,
         Inside(plan, address', stack', {"bl"}), flags' \in plan.flow[address'],
         (Following(plan, stacks, used, printed) \/ Astray)'
  PROVE  Replaying(plan, stacks, used, printed)'
<1>1. Inside(plan, address, stack, {"bl"})'
  BY InsideSame DEF programVars
<1> QED
  BY <1>1 DEF Replaying

\* Each of the steps below begins inside the operation.
Underway(plan, stacks, used, printed) ==
  /\ Told(plan, stacks, used, printed)
  /\ Replaying(plan, stacks, used, printed)
  /\ run # "running" /\ hints # <<>> /\ trace = FirstLine(hints)

LEMMA SkipKeeps ==
  ASSUME NEW plan, NEW stacks, NEW used, NEW printed,
         Underway(plan, stacks, used, printed), UNCHANGED programVars, Skip
  PROVE  Replaying(plan, stacks, used, printed)'
<1>1. /\ Told(plan, stacks, used, printed) /\ run # "running" /\ hints # <<>>
      /\ trace = FirstLine(hints) /\ Replaying(plan, stacks, used, printed)
      /\ Legible(code, plan)
  BY DEF Underway, Told
<1>2. /\ code \in Programs /\ stack \in Seq(Nat)
      /\ replay_start = TRUE /\ replay_stop = FALSE /\ Fresh
      /\ Inside(plan, address, stack, {"bl"})
      /\ Following(plan, stacks, used, printed) \/ Astray
      /\ address \in Operation(plan) /\ address \in DOMAIN code
      /\ address \in Nat \ {0} /\ flags \in plan.flow[address]
  BY <1>1, ReplayingFacts
<1>3. /\ address' = address + 1 /\ prev_address' = address
      /\ trace' = trace /\ idx' = idx /\ stack' = stack /\ flags' = flags /\ ofd' = ofd
      /\ UNCHANGED <<replay_start, replay_stop>>
      /\ code[address].op \in Skipped
  BY DEF Skip, At, Continue, Handled
<1>4. code[address].op \in {"plt", "hook", "blr", "br"}
  BY <1>2, <1>3 DEF Skipped
<1>5. Inside(plan, address', stack', {"bl"})
  BY <1>1, <1>2, <1>3, <1>4, InsideGoes DEF Straight
<1>6. flags' \in plan.flow[address']
  <2>1. code[address].op \in {"plt", "hook"} \cup Noted
    BY <1>4 DEF Noted
  <2>2. flags \in plan.flow[address + 1]
    BY <1>1, <1>2, <2>1, FlowFacts
  <2> QED
    BY <1>3, <2>2
<1>7. (Following(plan, stacks, used, printed) \/ Astray)'
  <2>1. CASE code[address].op \in Straight
    BY <1>1, <1>2, <1>3, <2>1, StraightOn
  <2>2. CASE code[address].op \in {"blr", "br"}
    BY <1>1, <1>2, <1>3, <2>2, Leaves
  <2> QED
    BY <1>4, <2>1, <2>2 DEF Straight
<1>8. address' # address
  BY <1>2, <1>3
<1> QED
  BY <1>2, <1>3, <1>5, <1>6, <1>7, <1>8, ReplayingKept

LEMMA CsetKeeps ==
  ASSUME NEW plan, NEW stacks, NEW used, NEW printed,
         Underway(plan, stacks, used, printed), UNCHANGED programVars, HandleCset
  PROVE  Replaying(plan, stacks, used, printed)'
<1>1. /\ Told(plan, stacks, used, printed) /\ Legible(code, plan)
      /\ Replaying(plan, stacks, used, printed)
  BY DEF Underway, Told
<1>2. /\ code \in Programs /\ stack \in Seq(Nat)
      /\ replay_start = TRUE /\ replay_stop = FALSE /\ Fresh
      /\ Inside(plan, address, stack, {"bl"})
      /\ Following(plan, stacks, used, printed) \/ Astray
      /\ address \in Operation(plan) /\ address \in DOMAIN code
      /\ address \in Nat \ {0} /\ flags \in plan.flow[address]
  BY <1>1, ReplayingFacts
<1>3. /\ address' = address + 1 /\ prev_address' = address
      /\ trace' = trace /\ idx' = idx /\ stack' = stack /\ ofd' = ofd
      /\ UNCHANGED <<replay_start, replay_stop>>
      /\ code[address].op = "cset"
  BY DEF HandleCset, Replays, At, Continue, Handled
<1>4. flags' = AfterCset(code[address].arg, flags)
  <2> DEFINE f == AfterCset(code[address].arg, flags)
  <2>1. f = <<f[1], f[2], f[3]>>
    BY DEF AfterCset
  <2>2. last_flag' = f[1] /\ last_ne_flag' = f[2] /\ last_lt_flag' = f[3]
    BY DEF HandleCset
  <2> HIDE DEF f
  <2>3. flags' = <<f[1], f[2], f[3]>>
    BY <2>2 DEF flags
  <2>4. flags' = f
    BY <2>1, <2>3
  <2> QED
    BY <2>4 DEF f
<1>5. flags' \in plan.flow[address']
  BY <1>1, <1>2, <1>3, <1>4, FlowFacts
<1>6. code[address].op \in Straight
  BY <1>3 DEF Straight
<1>7. Inside(plan, address', stack', {"bl"})
  BY <1>1, <1>2, <1>3, <1>6, InsideGoes
<1>8. (Following(plan, stacks, used, printed) \/ Astray)'
  BY <1>1, <1>2, <1>3, <1>6, StraightOn
<1>9. address' # address
  BY <1>2, <1>3
<1> QED
  BY <1>2, <1>3, <1>5, <1>7, <1>8, <1>9, ReplayingKept

LEMMA CallKeeps ==
  ASSUME NEW plan, NEW stacks, NEW used, NEW printed,
         Underway(plan, stacks, used, printed), UNCHANGED programVars,
         HandleCall \/ HandleBranch
  PROVE  phase' = phase /\ Replaying(plan, stacks, used, printed)'
<1> DEFINE to == code[address].to
           op == code[address].op
<1>1. /\ Told(plan, stacks, used, printed) /\ Legible(code, plan)
      /\ run # "running" /\ hints # <<>> /\ Replaying(plan, stacks, used, printed)
  BY DEF Underway, Told
<1>2. /\ code \in Programs /\ stack \in Seq(Nat)
      /\ replay_start = TRUE /\ replay_stop = FALSE
      /\ Inside(plan, address, stack, {"bl"})
      /\ Following(plan, stacks, used, printed) \/ Astray
      /\ address \in Operation(plan) /\ address \in DOMAIN code
      /\ address \in Nat \ {0} /\ flags \in plan.flow[address]
  BY <1>1, ReplayingFacts
<1>3. /\ op \in {"bl", "b"} /\ address' = to /\ prev_address' = address
      /\ ofd' = Append(ofd, <<address, to>>) /\ trace' = trace /\ idx' = idx
      /\ stack' = IF op = "bl" THEN Append(stack, address + 1) ELSE stack
      /\ flags' = flags /\ UNCHANGED <<replay_start, replay_stop>>
      /\ phase' = IF replay_stop \/ to = BelowBinary THEN "done" ELSE phase
  BY DEF HandleCall, HandleBranch, Replays, At, Follow, Handled, Writes, PushReturn
<1>4. to # address /\ code[to].op \notin Hooked
  BY <1>1, <1>2, <1>3, HookFacts
<1>5. to \in DOMAIN code /\ to \in Nat \ {0}
  BY <1>2, <1>3, CodeFacts
<1>6. phase' = phase
  BY <1>2, <1>3, <1>5 DEF BelowBinary
<1>7. Inside(plan, address', stack', {"bl"})
  <2>1. CASE op = "bl"
    BY <1>1, <1>2, <1>3, <2>1, InsideGoes
  <2>2. CASE op = "b"
    BY <1>1, <1>2, <1>3, <2>2, InsideGoes
  <2> QED
    BY <1>3, <2>1, <2>2
<1>8. flags' \in plan.flow[address']
  BY <1>1, <1>2, <1>3, FlowFacts
<1>9. ASSUME NEW next, NEW t, NEW m,
             Edge(<<address, next>>, stack, t, idx, m, printed)
      PROVE  to = next /\ stack' = t /\ idx' = m /\ m = idx
  BY <1>3, <1>9 DEF Edge, CondOps, CbOps
<1>10. op \notin Straight \cup {"quote"}
  BY <1>3 DEF Straight
<1>11. (Following(plan, stacks, used, printed) \/ Astray)'
  BY <1>1, <1>2, <1>3, <1>5, <1>9, <1>10, Onward
<1>12. address' # address
  BY <1>3, <1>4
<1> QED
  BY <1>2, <1>3, <1>6, <1>7, <1>8, <1>11, <1>12, ReplayingKept

LEMMA RetKeeps ==
  ASSUME NEW plan, NEW stacks, NEW used, NEW printed,
         Underway(plan, stacks, used, printed), UNCHANGED programVars, HandleRet
  PROVE  phase' = phase /\ Replaying(plan, stacks, used, printed)'
<1> DEFINE to == stack[Len(stack)]
           rest == SubSeq(stack, 1, Len(stack) - 1)
<1>1. /\ Told(plan, stacks, used, printed) /\ Legible(code, plan)
      /\ run # "running" /\ hints # <<>> /\ Replaying(plan, stacks, used, printed)
  BY DEF Underway, Told
<1>2. /\ code \in Programs /\ stack \in Seq(Nat)
      /\ replay_start = TRUE /\ replay_stop = FALSE
      /\ Inside(plan, address, stack, {"bl"})
      /\ Following(plan, stacks, used, printed) \/ Astray
      /\ address \in Operation(plan) /\ address \in DOMAIN code
      /\ address \in Nat \ {0} /\ flags \in plan.flow[address]
      /\ code[address].op = "ret" => stack # <<>>
  BY <1>1, ReplayingFacts
<1>3. /\ code[address].op = "ret" /\ address' = to /\ prev_address' = address
      /\ ofd' = Append(ofd, <<address, to>>) /\ trace' = trace /\ idx' = idx
      /\ stack' = rest
      /\ flags' = flags /\ UNCHANGED <<replay_start, replay_stop>>
      /\ phase' = IF replay_stop \/ to = BelowBinary THEN "done" ELSE phase
  BY DEF HandleRet, Replays, At, Follow, Handled, Writes
<1>4. Inside(plan, to, rest, {"bl"}) /\ rest \in Seq(Nat) /\ Len(stack) \in DOMAIN stack
  <2>1. Inside(plan, to, rest, {"bl"})
    BY <1>1, <1>2, <1>3, InsideGoes
  <2>2. stack # <<>>
    BY <1>2, <1>3
  <2>3. rest \in Seq(Nat) /\ Len(stack) \in DOMAIN stack
    BY <1>2, <2>2, FrontOf
  <2> QED
    BY <2>1, <2>3
<1>5. to - 1 \in Operation(plan) /\ code[to - 1].op = "bl"
  BY <1>2, <1>4 DEF Inside
<1> HIDE DEF to, rest
<1>6. to \in DOMAIN code /\ to \in Nat \ {0}
  BY <1>1, <1>2, <1>4, InsideGoes
<1>7. (to - 1) + 1 = to
  BY <1>6
<1>8. to # address
  <2>1. code[address - 1].op = "hook"
    BY <1>1, <1>2, <1>3 DEF Legible, Instrumented, Hooked
  <2> QED
    BY <1>5, <2>1
<1>9. flags' \in plan.flow[address']
  <2>1. flags \in plan.flow[(to - 1) + 1]
    BY <1>1, <1>2, <1>3, <1>5, FlowFacts
  <2> QED
    BY <1>3, <1>7, <2>1
<1>10. phase' = phase
  BY <1>2, <1>3, <1>6 DEF BelowBinary
<1>11. ASSUME NEW next, NEW t, NEW m,
              Edge(<<address, next>>, stack, t, idx, m, printed)
       PROVE  to = next /\ stack' = t /\ idx' = m /\ m = idx
  BY <1>3, <1>11 DEF Edge, CondOps, CbOps, to, rest
<1>12. code[address].op \notin Straight \cup {"quote"}
  BY <1>3 DEF Straight
<1>13. (Following(plan, stacks, used, printed) \/ Astray)'
  BY <1>1, <1>2, <1>3, <1>6, <1>11, <1>12, Onward
<1>14. Inside(plan, address', stack', {"bl"}) /\ address' # address
  BY <1>3, <1>4, <1>8
<1> QED
  BY <1>2, <1>3, <1>9, <1>10, <1>13, <1>14, ReplayingKept

\* What the symbol says of a conditional branch.
LEMMA CondFacts ==
  ASSUME NEW plan, NEW stacks, NEW used, NEW printed,
         Underway(plan, stacks, used, printed),
         code[address].op \in CondOps, ~Exhausted
  PROVE  /\ idx \in DOMAIN trace /\ idx \in DOMAIN printed /\ trace[idx] = printed[idx]
         /\ Taken(code[address]) <=> trace[idx] = Sym(code[address].onTrue)
         /\ \A next, t, m :
              Edge(<<address, next>>, stack, t, idx, m, printed) =>
                /\ t = stack /\ m = idx + 1 /\ trace[idx] \in {"y", "n"}
                /\ next = IF Taken(code[address]) THEN code[address].to ELSE address + 1
<1> DEFINE i == code[address]
<1>1. /\ Told(plan, stacks, used, printed) /\ Legible(code, plan)
      /\ trace = FirstLine(hints) /\ Replaying(plan, stacks, used, printed)
  BY DEF Underway, Told
<1>2. /\ code \in Programs /\ address \in Operation(plan) /\ address \in DOMAIN code
      /\ flags \in plan.flow[address]
  BY <1>1, ReplayingFacts
<1>3. idx \in DOMAIN trace /\ idx \in DOMAIN printed /\ trace[idx] = printed[idx]
  <2>1. idx \in Nat \ {0} /\ Len(trace) \in Nat /\ DOMAIN trace = 1..Len(trace)
    BY <1>1, ToldFacts
  <2>2. idx \in DOMAIN trace
    BY <2>1 DEF Exhausted
  <2> QED
    BY <1>1, <2>2, TraceFacts
<1>4. Flips(i) = ~i.onTrue /\ i.onTrue \in BOOLEAN
  BY <1>1, <1>2, FlowFacts, CodeFacts DEF Flips
<1>5. Taken(i) <=> trace[idx] = Sym(i.onTrue)
  BY <1>4 DEF Taken, Sym
<1>6. ASSUME NEW next, NEW t, NEW m,
             Edge(<<address, next>>, stack, t, idx, m, printed)
      PROVE  /\ t = stack /\ m = idx + 1 /\ trace[idx] \in {"y", "n"}
             /\ next = IF Taken(i) THEN i.to ELSE address + 1
  <2>1. /\ t = stack /\ m = idx + 1
        /\ \E c \in BOOLEAN : /\ printed[idx] = Sym(c)
                              /\ next = IF c = i.onTrue THEN i.to ELSE address + 1
    BY <1>6 DEF Edge, CondOps, CbOps
  <2>2. PICK c \in BOOLEAN : /\ printed[idx] = Sym(c)
                             /\ next = IF c = i.onTrue THEN i.to ELSE address + 1
    BY <2>1
  <2>3. Taken(i) <=> c = i.onTrue
    BY <1>3, <1>4, <1>5, <2>2 DEF Sym
  <2>4. trace[idx] \in {"y", "n"}
    BY <1>3, <2>2 DEF Sym
  <2> QED
    BY <2>1, <2>2, <2>3, <2>4
<1> QED
  BY <1>3, <1>5, <1>6

LEMMA CondKeeps ==
  ASSUME NEW plan, NEW stacks, NEW used, NEW printed,
         Underway(plan, stacks, used, printed), UNCHANGED programVars, HandleCondBranch
  PROVE  \/ phase' = phase /\ Replaying(plan, stacks, used, printed)'
         \/ phase' = "done" /\ Settled'
<1> DEFINE i == code[address]
           to == IF Taken(i) THEN TargetOf(i) ELSE address + 1
<1>1. /\ Told(plan, stacks, used, printed) /\ Legible(code, plan)
      /\ run # "running" /\ hints # <<>> /\ Replaying(plan, stacks, used, printed)
  BY DEF Underway, Told
<1>2. /\ code \in Programs /\ stack \in Seq(Nat)
      /\ replay_start = TRUE /\ replay_stop = FALSE
      /\ Inside(plan, address, stack, {"bl"})
      /\ Following(plan, stacks, used, printed) \/ Astray
      /\ address \in Operation(plan) /\ address \in DOMAIN code
      /\ address \in Nat \ {0} /\ flags \in plan.flow[address]
  BY <1>1, ReplayingFacts
<1>3. /\ i.op \in CondOps /\ ~Exhausted /\ address' = to /\ prev_address' = address
      /\ ofd' = Append(ofd, <<address, to>>) /\ trace' = trace /\ stack' = stack
      /\ flags' = flags /\ UNCHANGED <<replay_start, replay_stop>>
      /\ idx' = IF trace[idx] \in {"y", "n"} THEN idx + 1 ELSE idx
      /\ phase' = IF Taken(i) /\ TargetOf(i) = BelowBinary THEN "done" ELSE phase
  <2>1. i.op \in CondOps /\ ~Exhausted
    BY DEF HandleCondBranch, Replays, At, RunsOut, CondOps, CbOps
  <2>2. /\ trace' = trace /\ stack' = stack /\ flags' = flags
        /\ UNCHANGED <<replay_start, replay_stop>>
        /\ idx' = IF trace[idx] \in {"y", "n"} THEN idx + 1 ELSE idx
    BY DEF HandleCondBranch, AdvanceIdx
  <2>3. CASE Taken(i)
    BY <1>2, <2>1, <2>2, <2>3 DEF HandleCondBranch, Follow, Handled, Writes
  <2>4. CASE ~Taken(i)
    BY <2>1, <2>2, <2>4 DEF HandleCondBranch, Continue, Handled, Writes
  <2> QED
    BY <2>3, <2>4
<1>4. /\ Taken(i) <=> trace[idx] = Sym(i.onTrue)
      /\ \A next, t, m :
           Edge(<<address, next>>, stack, t, idx, m, printed) =>
             /\ t = stack /\ m = idx + 1 /\ trace[idx] \in {"y", "n"}
             /\ next = IF Taken(i) THEN i.to ELSE address + 1
      /\ idx \in DOMAIN trace /\ idx \in DOMAIN printed /\ trace[idx] = printed[idx]
  BY <1>3, CondFacts
<1>5. i.to # address /\ i.to \in DOMAIN code /\ i.to \in Nat \ {0}
  BY <1>1, <1>2, <1>3, HookFacts, CodeFacts DEF Noted, CondOps
<1>6. i.op \notin Straight \cup {"quote"} /\ i.op \in Noted
  BY <1>3 DEF Straight, Noted, CondOps, CbOps
<1>7. CASE Taken(i) /\ i.op \in {"tbz", "tbnz"}
  <2>1. to = 0 /\ phase' = "done"
    BY <1>3, <1>7 DEF TargetOf, BelowBinary
  <2>2. /\ IsPrefix(Known, ofd)
        /\ run = "killed" \/ Known # path
    <3>1. CASE Following(plan, stacks, used, printed)
      <4>1. /\ Len(ofd) \in Nat /\ ProgramTyped /\ run \in {"ended", "killed"}
        BY <1>1, ToldFacts
      <4>2. PICK k \in Nat : k = Len(ofd) + 1
        BY <4>1
      <4>3. Len(path) \in Nat /\ Len(Known) \in Nat /\ (Known = path => Len(Known) = Len(path))
        BY <4>1, KnownFacts
      <4>4. CASE /\ k \in 1..Len(path) /\ path[k] = <<address, path[k][2]>>
                 /\ Edge(path[k], stack, stacks[k + 1], idx, used[k + 1], printed)
        <5>1. Edge(<<address, path[k][2]>>, stack, stacks[k + 1], idx, used[k + 1], printed)
          BY <4>4
        <5>2. path[k][2] = i.to /\ path[k][1] = address
          BY <1>4, <1>7, <4>4, <5>1
        <5>3. Unfollowed(path[k])
          BY <1>7, <5>2 DEF Unfollowed
        <5>4. Len(Known) < k
          BY <4>1, <4>4, <5>3, KnownFacts
        <5>5. Len(Known) <= Len(ofd) /\ Known # path
          BY <4>1, <4>2, <4>3, <4>4, <5>4
        <5> QED
          BY <1>1, <3>1, <5>5, FollowingAgrees
      <4>5. CASE k = Len(path) + 1 /\ run = "killed"
        <5>1. Len(ofd) = Len(path)
          BY <4>1, <4>2, <4>3, <4>5
        <5> QED
          BY <1>1, <3>1, <4>5, <5>1, FollowingAgrees
      <4> QED
        BY <1>1, <1>2, <1>6, <3>1, <4>2, <4>4, <4>5, Meets
    <3>2. CASE Astray
      BY <3>2 DEF Astray
    <3> QED
      BY <1>2, <3>1, <3>2
  <2>3. <<address, to>> \in Edges
    BY <1>2, <2>1 DEF Edges
  <2>4. IsPrefix(Known, ofd)' /\ Known' = Known /\ run' = run /\ path' = path
    BY <1>1, <1>3, <2>2, <2>3, StillKnown
  <2>5. Agrees'
    BY <2>2, <2>4 DEF Agrees
  <2>6. run' = "ended" => Complete'
    BY <2>2, <2>4 DEF Complete
  <2> QED
    BY <2>1, <2>5, <2>6 DEF Settled
<1>8. CASE ~(Taken(i) /\ i.op \in {"tbz", "tbnz"})
  <2>1. to = IF Taken(i) THEN i.to ELSE address + 1
    BY <1>8 DEF TargetOf
  <2>2. to \in Nat \ {0} /\ to # address
    BY <1>2, <1>5, <2>1
  <2>3. phase' = phase
    BY <1>3, <2>1, <2>2 DEF BelowBinary
  <2>4. Inside(plan, to, stack, {"bl"})
    <3>1. Inside(plan, address + 1, stack, {"bl"}) /\ Inside(plan, i.to, stack, {"bl"})
      BY <1>1, <1>2, <1>3, InsideGoes
    <3> QED
      BY <2>1, <3>1
  <2>5. flags \in plan.flow[to]
    <3>1. flags \in plan.flow[address + 1]
      BY <1>1, <1>2, <1>6, FlowFacts
    <3>2. Taken(i) => flags \in plan.flow[i.to]
      BY <1>1, <1>2, <1>3, <1>8, FlowFacts DEF CondOps, CbOps
    <3> QED
      BY <2>1, <3>1, <3>2
  <2> HIDE DEF to
  <2>6. ASSUME NEW next, NEW t, NEW m,
               Edge(<<address, next>>, stack, t, idx, m, printed)
        PROVE  /\ to = next /\ stack' = t /\ idx' = m
               /\ m = idx + 1 /\ idx \in DOMAIN printed /\ printed[idx] \in {"y", "n"}
    BY <1>3, <1>4, <2>1, <2>6
  <2>7. Astray => run = "killed" \/ idx' = idx
    BY <1>3 DEF Astray
  <2>8. (Following(plan, stacks, used, printed) \/ Astray)'
    BY <1>1, <1>2, <1>3, <1>6, <2>2, <2>6, <2>7, Onward
  <2>9. Inside(plan, address', stack', {"bl"}) /\ flags' \in plan.flow[address']
        /\ address' # address
    BY <1>3, <2>2, <2>4, <2>5
  <2> QED
    BY <1>2, <1>3, <2>3, <2>8, <2>9, ReplayingKept
<1> QED
  BY <1>7, <1>8

\* cfv_quote() is met when all the edges are written.
LEMMA QuoteSettles ==
  ASSUME NEW plan, NEW stacks, NEW used, NEW printed,
         Underway(plan, stacks, used, printed), UNCHANGED programVars, AttestationEnd
  PROVE  phase' = phase /\ Stopped(plan)'
<1>1. /\ Told(plan, stacks, used, printed) /\ Legible(code, plan)
      /\ run # "running" /\ hints # <<>> /\ Replaying(plan, stacks, used, printed)
      /\ trace = FirstLine(hints)
  BY DEF Underway, Told
<1>2. /\ code \in Programs /\ address \in DOMAIN code /\ address \in Nat \ {0}
      /\ Following(plan, stacks, used, printed) \/ Astray
  BY <1>1, ReplayingFacts
<1>3. /\ code[address].op = "quote" /\ address' = address + 1 /\ phase' = phase
      /\ trace' = trace /\ idx' = idx /\ ofd' = ofd
      /\ replay_start' = FALSE /\ replay_stop' = TRUE
  BY DEF AttestationEnd, At, Continue
<1>4. plan.start \in Nat /\ plan.start < address
  BY <1>1, <1>2, <1>3, PlanFacts
<1>5. Settled
  <2>1. CASE Following(plan, stacks, used, printed)
    <3>1. /\ Len(ofd) \in Nat /\ ProgramTyped /\ run \in {"ended", "killed"}
          /\ hints \in Seq(Symbols) /\ Len(hints) \in Nat
      BY <1>1, ToldFacts
    <3>2. PICK k \in Nat : k = Len(ofd) + 1
      BY <3>1
    <3>3. Len(path) \in Nat
      BY <3>1, KnownFacts
    <3>4. code[address].op \notin Straight
      BY <1>3 DEF Straight
    <3>5. Agrees
      BY <1>1, <2>1, FollowingAgrees
    <3>6. CASE /\ k \in 1..Len(path) /\ path[k] = <<address, path[k][2]>>
               /\ Edge(path[k], stack, stacks[k + 1], idx, used[k + 1], printed)
      <4>1. path[k][1] = address
        BY <3>6
      <4>2. FALSE
        BY <1>3, <3>6, <4>1 DEF Edge, CondOps, CbOps
      <4> QED
        BY <4>2
    <3>7. CASE run = "killed"
      BY <3>5, <3>7 DEF Settled
    <3>8. CASE k = Len(path) + 1 /\ run = "ended" /\ idx = Len(hints) + 1
      <4>1. Len(ofd) = Len(path)
        BY <3>1, <3>2, <3>3, <3>8
      <4>2. ofd = path /\ IsPrefix(Known, ofd)
        BY <1>1, <2>1, <4>1, FollowingAgrees
      <4>3. Len(trace) \in Nat /\ Len(trace) <= Len(hints)
        BY <1>1, <3>1, FirstLineOf, ToldFacts
      <4>4. Exhausted
        BY <3>1, <3>8, <4>3 DEF Exhausted
      <4> QED
        BY <3>5, <4>2, <4>4 DEF Settled, Complete
    <3> QED
      BY <1>1, <1>2, <2>1, <3>2, <3>4, <3>6, <3>7, <3>8, Meets
  <2>2. CASE Astray
    BY <2>2 DEF Astray, Settled, Agrees, Complete
  <2> QED
    BY <1>2, <2>1, <2>2
<1>6. Settled'
  BY <1>3, <1>5, SettledKept
<1>7. plan.start < address'
  BY <1>2, <1>3, <1>4
<1> QED
  BY <1>3, <1>6, <1>7 DEF Stopped

\* Only the trace of a program that was killed can be too short.
LEMMA CrashKilled ==
  ASSUME NEW plan, NEW stacks, NEW used, NEW printed,
         Underway(plan, stacks, used, printed), Crash
  PROVE  Agrees /\ run = "killed"
<1>1. /\ Told(plan, stacks, used, printed) /\ run # "running" /\ hints # <<>>
      /\ trace = FirstLine(hints) /\ Replaying(plan, stacks, used, printed)
  BY DEF Underway
<1>2. /\ code \in Programs /\ address \in DOMAIN code
      /\ Following(plan, stacks, used, printed) \/ Astray
      /\ code[address].op = "ret" => stack # <<>>
  BY <1>1, ReplayingFacts
<1>3. code[address].op \in CondOps /\ Exhausted
  BY <1>2 DEF Crash, Replays, At, RunsOut, CondOps, CbOps
<1>4. /\ idx \in Nat \ {0} /\ Len(trace) \in Nat /\ DOMAIN trace = 1..Len(trace)
      /\ Len(ofd) \in Nat /\ run \in {"ended", "killed"}
  BY <1>1, ToldFacts
<1>5. idx \notin DOMAIN trace
  BY <1>3, <1>4 DEF Exhausted
<1>6. CASE Following(plan, stacks, used, printed)
  <2>1. PICK k \in Nat : k = Len(ofd) + 1
    BY <1>4
  <2>2. code[address].op \notin Straight \cup {"quote"}
    BY <1>3 DEF Straight, CondOps, CbOps
  <2>3. \A n \in 1..(idx - 1) : n \in DOMAIN printed /\ printed[n] \in {"y", "n"}
    BY <1>6 DEF Following
  <2>4. ASSUME k \in 1..Len(path), path[k] = <<address, path[k][2]>>, run = "ended",
               Edge(path[k], stack, stacks[k + 1], idx, used[k + 1], printed)
        PROVE  FALSE
    <3>1. path[k][1] = address
      BY <2>4
    <3>2. idx \in DOMAIN printed
      BY <1>3, <2>4, <3>1 DEF Edge, CondOps, CbOps
    <3> QED
      BY <1>1, <1>5, <2>3, <2>4, <3>2, TraceFacts
  <2>5. run = "killed"
    BY <1>1, <1>2, <1>4, <1>6, <2>1, <2>2, <2>4, Meets
  <2> QED
    BY <1>1, <1>6, <2>5, FollowingAgrees
<1>7. CASE Astray
  BY <1>5, <1>7 DEF Astray, Agrees
<1> QED
  BY <1>2, <1>6, <1>7

-----------------------------------------------------------------------------
(* The invariant, and what it says.                                        *)

\* In front of the operation nothing but its beginning is looked at.
LEMMA SearchingNext ==
  ASSUME NEW plan, NEW stacks, NEW used, NEW printed, Told(plan, stacks, used, printed),
         Searching(plan), phase = "replaying", Replay, UNCHANGED programVars
  PROVE  /\ phase' = "replaying" /\ trace' = trace
         /\ Searching(plan)' \/ Replaying(plan, stacks, used, printed)'
<1>1. /\ code \in Programs /\ Legible(code, plan) /\ ProgramTyped
      /\ Recorded(plan, stacks, used, printed) /\ Witnesses(stacks, used, printed)
      /\ replay_start \in BOOLEAN /\ replay_stop \in BOOLEAN
  BY ToldFacts DEF Told, TypedInv, TypeOK
<1>2. /\ replay_start = FALSE /\ replay_stop = FALSE
      /\ address \in 1..plan.start /\ prev_address = address - 1
      /\ idx = 1 /\ stack = <<>> /\ flags = NoFlags /\ ofd = <<>>
  BY <1>1 DEF Searching
<1>3. /\ plan.start \in Nat /\ plan.start \in DOMAIN code
      /\ plan.start + 1 \in plan.body /\ plan.start + 1 \in Operation(plan)
      /\ code[plan.start].op = "init"
      /\ \A a \in DOMAIN code : code[a].op = "init" => a = plan.start
      /\ \A a \in DOMAIN code : code[a].op = "quote" => plan.start < a
  BY <1>1, PlanFacts
<1>4. address \in DOMAIN code /\ address \in Nat /\ Fresh
  <2>1. DOMAIN code = 1..Len(code) /\ Len(code) \in Nat
    BY <1>1, CodeFacts
  <2> QED
    BY <1>2, <1>3, <2>1 DEF Fresh
<1>5. code[address].op # "quote"
  BY <1>2, <1>3, <1>4
<1>6. CASE Skip
  <2>1. /\ address' = address + 1 /\ prev_address' = address /\ phase' = phase
        /\ trace' = trace /\ idx' = idx /\ stack' = stack /\ flags' = flags /\ ofd' = ofd
        /\ UNCHANGED <<replay_start, replay_stop>>
        /\ code[address].op \in Skipped
    BY <1>6 DEF Skip, At, Continue, Handled
  <2>2. code[address].op # "init"
    BY <1>2, <1>4, <2>1 DEF Skipped
  <2>3. address # plan.start
    BY <1>3, <2>2
  <2>4. address' \in 1..plan.start /\ prev_address' = address' - 1
    BY <1>2, <1>3, <1>4, <2>1, <2>3
  <2>5. Searching(plan)'
    BY <1>2, <2>1, <2>4 DEF Searching
  <2> QED
    BY <2>1, <2>5
<1>7. CASE AttestationStart
  <2>1. /\ address' = address + 1 /\ prev_address' = address /\ phase' = phase
        /\ trace' = trace /\ idx' = idx /\ stack' = stack /\ flags' = flags /\ ofd' = ofd
        /\ replay_start' = TRUE /\ replay_stop' = replay_stop
        /\ code[address].op = "init"
    BY <1>7 DEF AttestationStart, At, Continue, Handled
  <2>2. address = plan.start
    BY <1>3, <1>4, <2>1
  <2>3. Inside(plan, address, stack, {"bl"})'
    <3>1. DOMAIN <<>> = {}
      OBVIOUS
    <3> QED
      BY <1>2, <1>3, <2>1, <2>2, <3>1 DEF Inside, programVars
  <2>4. flags' \in plan.flow[address']
    BY <1>1, <1>2, <2>1, <2>2 DEF NoFlags, Legible, FlagsTell
  <2>5. Following(plan, stacks, used, printed)'
    <3>1. Len(<<>>) = 0 /\ DOMAIN <<>> = {}
      OBVIOUS
    <3>2. stacks[1] = <<>> /\ used[1] = 1 /\ Len(path) \in Nat
      BY <1>1, WitnessFacts DEF Recorded
    <3>3. ofd' = <<>> /\ stack' = <<>> /\ idx' = 1 /\ path' = path
      BY <1>2, <2>1 DEF programVars
    <3>4. Len(ofd') + 1 = 1 /\ Len(ofd') <= Len(path')
      BY <3>1, <3>2, <3>3
    <3>5. Runs(From(plan, 1), address)'
      BY <1>3, <2>1, <2>2 DEF From, Runs
    <3>6. 1..(idx' - 1) = {}
      BY <3>3
    <3> QED
      BY <3>1, <3>2, <3>3, <3>4, <3>5, <3>6 DEF Following
  <2>6. address' # prev_address'
    BY <1>4, <2>1
  <2>7. Replaying(plan, stacks, used, printed)'
    BY <1>2, <2>1, <2>3, <2>4, <2>5, <2>6 DEF Replaying
  <2> QED
    BY <2>1, <2>7
<1>8. CASE AttestationEnd
  BY <1>5, <1>8 DEF AttestationEnd, At
<1>9. CASE ReadTrace
  BY <1>9 DEF ReadTrace
<1>10. CASE TextEnd
  BY <1>4, <1>10 DEF TextEnd
<1>11. CASE HandleCall \/ HandleCset \/ HandleBranch \/ HandleCondBranch \/ HandleRet \/ Crash
  BY <1>2, <1>11 DEF HandleCall, HandleCset, HandleBranch, HandleCondBranch, HandleRet,
                     Crash, Replays
<1> QED
  BY <1>6, <1>7, <1>8, <1>9, <1>10, <1>11 DEF Replay

\* Behind it nothing is written.
LEMMA StoppedNext ==
  ASSUME NEW plan, NEW stacks, NEW used, NEW printed, Told(plan, stacks, used, printed),
         Stopped(plan), phase = "replaying", Replay, UNCHANGED programVars
  PROVE  /\ trace' = trace
         /\ \/ phase' = "replaying" /\ Stopped(plan)'
            \/ phase' = "done" /\ Settled'
<1>1. code \in Programs /\ Legible(code, plan) /\ address \in Nat
  BY ToldFacts
<1>2. /\ plan.start \in Nat
      /\ \A a \in DOMAIN code : code[a].op = "init" => a = plan.start
  BY <1>1, PlanFacts
<1>3. /\ replay_start = FALSE /\ replay_stop = TRUE
      /\ plan.start < address /\ Settled
  BY DEF Stopped, Told, TypedInv, TypeOK
<1>4. ASSUME trace' = trace, idx' = idx, ofd' = ofd
      PROVE  Settled'
  BY <1>3, <1>4, SettledKept
<1>5. CASE Skip \/ AttestationEnd
  <2>1. /\ address' = address + 1 /\ phase' = phase /\ trace' = trace /\ idx' = idx
        /\ ofd' = ofd /\ replay_start' = FALSE /\ replay_stop' = TRUE
    BY <1>3, <1>5 DEF Skip, AttestationEnd, Continue
  <2>2. plan.start < address'
    BY <1>1, <1>2, <1>3, <2>1
  <2> QED
    BY <1>4, <2>1, <2>2 DEF Stopped
<1>6. CASE TextEnd
  <2>1. phase' = "done" /\ trace' = trace /\ idx' = idx /\ ofd' = ofd
    BY <1>6 DEF TextEnd
  <2> QED
    BY <1>4, <2>1
<1>7. CASE AttestationStart
  <2>1. address \in DOMAIN code /\ code[address].op = "init"
    BY <1>7 DEF AttestationStart, At
  <2> QED
    BY <1>1, <1>2, <1>3, <2>1
<1>8. CASE ReadTrace
  BY <1>8 DEF ReadTrace
<1>9. CASE HandleCall \/ HandleCset \/ HandleBranch \/ HandleCondBranch \/ HandleRet \/ Crash
  BY <1>3, <1>9 DEF HandleCall, HandleCset, HandleBranch, HandleCondBranch, HandleRet,
                    Crash, Replays
<1> QED
  BY <1>5, <1>6, <1>7, <1>8, <1>9 DEF Replay

LEMMA ReplayingNext ==
  ASSUME NEW plan, NEW stacks, NEW used, NEW printed,
         Underway(plan, stacks, used, printed), phase = "replaying", Replay,
         UNCHANGED programVars
  PROVE  /\ trace' = trace
         /\ \/ /\ phase' = "replaying"
               /\ Replaying(plan, stacks, used, printed)' \/ Stopped(plan)'
            \/ phase' = "done" /\ Settled'
            \/ phase' = "crashed" /\ Agrees' /\ run' = "killed"
<1>1. /\ address \in DOMAIN code /\ code[address].op # "init"
  BY ReplayingFacts DEF Underway
<1>2. CASE Skip
  BY <1>2, SkipKeeps DEF Skip, Continue
<1>3. CASE HandleCset
  BY <1>3, CsetKeeps DEF HandleCset, Continue
<1>4. CASE HandleCall \/ HandleBranch
  BY <1>4, CallKeeps DEF HandleCall, HandleBranch
<1>5. CASE HandleRet
  BY <1>5, RetKeeps DEF HandleRet
<1>6. CASE HandleCondBranch
  BY <1>6, CondKeeps DEF HandleCondBranch
<1>7. CASE AttestationEnd
  BY <1>7, QuoteSettles DEF AttestationEnd
<1>8. CASE Crash
  <2>1. Agrees /\ run = "killed"
    BY <1>8, CrashKilled
  <2>2. phase' = "crashed" /\ trace' = trace /\ ofd' = ofd
    BY <1>8 DEF Crash
  <2>3. Known' = Known /\ path' = path /\ run' = run
    BY KnownSame DEF programVars
  <2> QED
    BY <2>1, <2>2, <2>3 DEF Agrees
<1>9. CASE AttestationStart
  BY <1>1, <1>9 DEF AttestationStart, At
<1>10. CASE ReadTrace
  BY <1>10 DEF ReadTrace
<1>11. CASE TextEnd
  BY <1>1, <1>11 DEF TextEnd
<1> QED
  BY <1>2, <1>3, <1>4, <1>5, <1>6, <1>7, <1>8, <1>9, <1>10, <1>11 DEF Replay

LEMMA ReplayKeeps ==
  ASSUME NEW plan, NEW stacks, NEW used, NEW printed, Told(plan, stacks, used, printed),
         Replayed(plan, stacks, used, printed), Replay, UNCHANGED programVars
  PROVE  Replayed(plan, stacks, used, printed)'
<1>1. run' = run /\ hints' = hints /\ code' = code /\ path' = path
  BY DEF programVars
<1>2. CASE phase = "waiting"
  <2>1. ReadTrace
    BY <1>2 DEF Replay, Skip, AttestationStart, AttestationEnd, HandleCall, HandleCset,
                HandleBranch, HandleCondBranch, HandleRet, Crash, TextEnd, Replays, At
  <2>2. /\ run # "running" /\ trace' = FirstLine(hints) /\ EngineInit
        /\ phase' = IF hints = <<>> THEN "crashed" ELSE "replaying"
        /\ UNCHANGED <<idx, address, prev_address, replay_start, replay_stop, stack, ofd>>
        /\ flags' = flags
    BY <1>2, <2>1 DEF ReadTrace, Replayed
  <2>3. Agrees'
    <3>1. ProgramTyped /\ Known' = Known /\ ofd' = <<>> /\ Len(<<>>) = 0
      BY <2>2, ToldFacts, KnownSame DEF EngineInit
    <3>2. Known \in Seq(Edges) /\ <<>> \in Seq(Edges) /\ Len(Known) \in Nat
      BY <3>1, KnownFacts, EmptySeq
    <3>3. Len(<<>>) <= Len(Known) /\ \A i \in 1..Len(<<>>) : <<>>[i] = Known[i]
      BY <3>1, <3>2
    <3>4. IsPrefix(<<>>, Known)
      BY <3>2, <3>3, PrefixOf
    <3>5. IsPrefix(ofd', Known')
      BY <3>1, <3>4
    <3> QED
      BY <3>5 DEF Agrees
  <2>4. Searching(plan)'
    <3>1. 1 \in 1..plan.start
      <4>1. plan.start \in DOMAIN code /\ DOMAIN code = 1..Len(code) /\ Len(code) \in Nat
        BY ToldFacts, PlanFacts, CodeFacts
      <4> QED
        BY <4>1
    <3>2. flags = NoFlags
      BY <2>2 DEF EngineInit, flags, NoFlags
    <3> QED
      BY <2>2, <3>1, <3>2 DEF EngineInit, Searching
  <2> QED
    BY <1>1, <2>2, <2>3, <2>4 DEF Replayed
<1>3. CASE phase = "replaying"
  <2>1. /\ run # "running" /\ hints # <<>> /\ trace = FirstLine(hints)
        /\ \/ Searching(plan)
           \/ Replaying(plan, stacks, used, printed)
           \/ Stopped(plan)
    BY <1>3 DEF Replayed
  <2>2. /\ trace' = trace
        /\ \/ /\ phase' = "replaying"
              /\ \/ Searching(plan)'
                 \/ Replaying(plan, stacks, used, printed)'
                 \/ Stopped(plan)'
           \/ phase' = "done" /\ Settled'
           \/ phase' = "crashed" /\ Agrees' /\ run' = "killed"
    <3>1. CASE Searching(plan)
      BY <1>3, <3>1, SearchingNext
    <3>2. CASE Replaying(plan, stacks, used, printed)
      <4>1. Underway(plan, stacks, used, printed)
        BY <2>1, <3>2 DEF Underway
      <4> QED
        BY <1>3, <4>1, ReplayingNext
    <3>3. CASE Stopped(plan)
      BY <1>3, <3>3, StoppedNext
    <3> QED
      BY <2>1, <3>1, <3>2, <3>3
  <2> QED
    BY <1>1, <2>1, <2>2 DEF Replayed
<1>4. phase \in {"waiting", "replaying"}
  BY DEF Replay, ReadTrace, Skip, AttestationStart, AttestationEnd, HandleCall, HandleCset,
         HandleBranch, HandleCondBranch, HandleRet, Crash, TextEnd, Replays, At
<1> QED
  BY <1>2, <1>3, <1>4

\* Every step keeps some plan, and some history, that account for it.
ReplayInv ==
  /\ TypedInv
  /\ \E plan, stacks, used, printed : /\ Told(plan, stacks, used, printed)
                                      /\ Replayed(plan, stacks, used, printed)

LegiblePrograms == \A p \in Programs : \E plan : Legible(p, plan)

LEMMA InitReplay == LegiblePrograms /\ VerifyInit => ReplayInv
<1> SUFFICES ASSUME LegiblePrograms, VerifyInit PROVE ReplayInv
  OBVIOUS
<1>1. TypedInv /\ code \in Programs
  BY VerifyInitTyped DEF TypedInv, ProgramTyped
<1>2. PICK plan : Legible(code, plan)
  BY <1>1 DEF LegiblePrograms
<1>3. PICK stacks, used, printed : /\ Witnesses(stacks, used, printed)
                                   /\ History(plan, stacks, used, printed)
  BY InitHistory DEF VerifyInit
<1>4. Told(plan, stacks, used, printed)
  BY <1>1, <1>2, <1>3 DEF Told
<1>5. Replayed(plan, stacks, used, printed)
  <2>1. phase = "waiting" /\ EngineInit
    BY DEF VerifyInit, EngineInit
  <2> QED
    BY <2>1 DEF Replayed
<1> QED
  BY <1>1, <1>4, <1>5 DEF ReplayInv

LEMMA NextReplay == ReplayInv /\ [VerifyNext]_vars => ReplayInv'
<1> SUFFICES ASSUME ReplayInv, [VerifyNext]_vars PROVE ReplayInv'
  OBVIOUS
<1>1. TypedInv'
  BY NextTyped DEF ReplayInv
<1>2. PICK plan, stacks, used, printed : /\ Told(plan, stacks, used, printed)
                                         /\ Replayed(plan, stacks, used, printed)
  BY DEF ReplayInv
<1>3. /\ Legible(code, plan) /\ Witnesses(stacks, used, printed) /\ ProgramTyped
      /\ History(plan, stacks, used, printed)
  BY <1>2 DEF Told, TypedInv
<1>4. CASE Run /\ UNCHANGED engineVars
  <2>1. PICK stacks2, used2, printed2 : /\ Witnesses(stacks2, used2, printed2)
                                        /\ History(plan, stacks2, used2, printed2)'
    BY <1>3, <1>4, RunHistory
  <2>2. code' = code
    BY <1>4, RunKeepsCode
  <2>3. Told(plan, stacks2, used2, printed2)'
    BY <1>1, <1>3, <2>1, <2>2 DEF Told, Witnesses
  <2>4. run = "running"
    BY <1>4 DEF Run, Library, CfvInit, CfvQuote, Compare, CallHook, Branch, Jump, Call,
                Return, End, Kill, Executes
  <2>5. phase = "waiting" /\ EngineInit
    BY <1>2, <2>4 DEF Replayed
  <2>6. (phase = "waiting" /\ EngineInit)'
    BY <1>4, <2>5 DEF engineVars, flags, EngineInit
  <2>7. Replayed(plan, stacks2, used2, printed2)'
    BY <2>6 DEF Replayed
  <2> QED
    BY <1>1, <2>3, <2>7 DEF ReplayInv
<1>5. ASSUME UNCHANGED programVars
      PROVE  Told(plan, stacks, used, printed)'
  <2>1. code' = code /\ path' = path /\ hints' = hints /\ run' = run
        /\ measuring' = measuring /\ pc' = pc /\ frames' = frames /\ cond' = cond
    BY <1>5 DEF programVars
  <2>2. Recorded(plan, stacks, used, printed)'
    <3>1. /\ Recorded(plan, stacks, used, printed)
          /\ Len(hints') <= Len(printed)
          /\ \A i \in DOMAIN hints' : hints'[i] = printed[i]
      BY <1>3, <2>1 DEF History, Recorded
    <3> QED
      BY <2>1, <3>1, RecordedKept
  <2>3. Measured(plan, stacks, used, printed) => Measured(plan, stacks, used, printed)'
    BY <2>1 DEF Measured, Runs, From, Inside
  <2>4. Over(plan, stacks, used, printed) => Over(plan, stacks, used, printed)'
    BY <2>1 DEF Over, Runs, From
  <2>5. History(plan, stacks, used, printed)'
    BY <1>3, <2>1, <2>2, <2>3, <2>4 DEF History
  <2> QED
    BY <1>1, <1>3, <2>1, <2>5 DEF Told, Witnesses
<1>6. CASE Replay /\ UNCHANGED programVars
  <2>1. Replayed(plan, stacks, used, printed)'
    BY <1>2, <1>6, ReplayKeeps
  <2> QED
    BY <1>1, <1>5, <1>6, <2>1 DEF ReplayInv
<1>7. CASE UNCHANGED vars
  <2>1. UNCHANGED programVars /\ UNCHANGED engineVars
    BY <1>7 DEF vars
  <2>2. /\ phase' = phase /\ trace' = trace /\ idx' = idx /\ address' = address
        /\ prev_address' = prev_address /\ replay_start' = replay_start
        /\ replay_stop' = replay_stop /\ stack' = stack /\ flags' = flags /\ ofd' = ofd
        /\ last_flag' = last_flag /\ last_ne_flag' = last_ne_flag
        /\ last_lt_flag' = last_lt_flag
    BY <2>1 DEF engineVars, flags
  <2>3. code' = code /\ path' = path /\ hints' = hints /\ run' = run /\ Known' = Known
    BY <2>1, KnownSame DEF programVars
  <2>4. EngineInit => EngineInit'
    BY <2>2 DEF EngineInit
  <2>5. Searching(plan) => Searching(plan)'
    BY <2>2 DEF Searching
  <2>6. Settled => Settled'
    BY <2>1, <2>2, SettledKept
  <2>7. Stopped(plan) => Stopped(plan)'
    BY <2>2, <2>6 DEF Stopped
  <2>8. Agrees => Agrees'
    BY <2>2, <2>3 DEF Agrees
  <2>9. Replaying(plan, stacks, used, printed) => Replaying(plan, stacks, used, printed)'
    <3>1. Following(plan, stacks, used, printed) => Following(plan, stacks, used, printed)'
      BY <2>2, <2>3 DEF Following, Runs, From
    <3>2. Astray => Astray'
      BY <2>2, <2>3 DEF Astray
    <3>3. Inside(plan, address, stack, {"bl"}) => Inside(plan, address, stack, {"bl"})'
      BY <2>2, <2>3 DEF Inside
    <3> QED
      BY <2>2, <3>1, <3>2, <3>3 DEF Replaying
  <2>10. Replayed(plan, stacks, used, printed)'
    BY <1>2, <2>2, <2>3, <2>4, <2>5, <2>6, <2>7, <2>8, <2>9 DEF Replayed
  <2> QED
    BY <1>1, <1>5, <2>1, <2>10 DEF ReplayInv
<1> QED
  BY <1>4, <1>6, <1>7 DEF VerifyNext

LEMMA ReplayedFollows == ReplayInv => ReplayFollows
<1> SUFFICES ASSUME ReplayInv, phase # "waiting"
             PROVE  /\ Agrees
                    /\ run = "ended" /\ phase = "done" => Complete
  BY DEF ReplayFollows, Agrees, Complete
<1>1. PICK plan, stacks, used, printed : /\ Told(plan, stacks, used, printed)
                                         /\ Replayed(plan, stacks, used, printed)
  BY DEF ReplayInv
<1>2. phase \in {"waiting", "replaying", "done", "crashed"}
  BY DEF ReplayInv, TypedInv, TypeOK
<1>3. CASE phase = "replaying"
  <2>1. CASE Searching(plan)
    <3>1. ProgramTyped /\ ofd = <<>> /\ Len(<<>>) = 0
      BY <1>1, <2>1, ToldFacts DEF Searching
    <3>2. Known \in Seq(Edges) /\ <<>> \in Seq(Edges) /\ Len(Known) \in Nat
      BY <3>1, KnownFacts, EmptySeq
    <3>3. Len(<<>>) <= Len(Known) /\ \A i \in 1..Len(<<>>) : <<>>[i] = Known[i]
      BY <3>1, <3>2
    <3>4. IsPrefix(ofd, Known)
      BY <3>1, <3>2, <3>3, PrefixOf
    <3> QED
      BY <1>3, <3>4 DEF Agrees
  <2>2. CASE Replaying(plan, stacks, used, printed)
    <3>1. CASE Following(plan, stacks, used, printed)
      BY <1>1, <1>3, <3>1, FollowingAgrees
    <3>2. CASE Astray
      BY <1>3, <3>2 DEF Astray, Agrees
    <3> QED
      BY <2>2, <3>1, <3>2 DEF Replaying
  <2>3. CASE Stopped(plan)
    BY <1>3, <2>3 DEF Stopped, Settled
  <2> QED
    BY <1>1, <1>3, <2>1, <2>2, <2>3 DEF Replayed
<1>4. CASE phase = "done"
  BY <1>1, <1>4 DEF Replayed, Settled
<1>5. CASE phase = "crashed"
  BY <1>1, <1>5 DEF Replayed
<1> QED
  BY <1>2, <1>3, <1>4, <1>5

(***************************************************************************)
(* Of every program that can be replayed, wherever it was killed and       *)
(* whatever of its hints reached the file, the engine writes the edges     *)
(* that were taken, up to the first that it cannot follow, and all of them *)
(* when the program came to its end (verify_engine:207-413).               *)
(***************************************************************************)
THEOREM ReplayCorrect == LegiblePrograms => (Verification => []ReplayFollows)
<1> SUFFICES ASSUME LegiblePrograms PROVE Verification => []ReplayFollows
  OBVIOUS
<1>1. VerifyInit => ReplayInv
  BY InitReplay
<1> QED
  BY <1>1, NextReplay, ReplayedFollows, PTL DEF Verification

\* The program has printed something when it ends.
Noticed == run = "ended" => hints # <<>>

(***************************************************************************)
(* No trace but that of a program that was killed is too short, as long as *)
(* it is not empty: get_trace() asserts that there is a line               *)
(* (verify_engine:158-165, 307).                                           *)
(***************************************************************************)
THEOREM CrashCorrect == LegiblePrograms => (Verification /\ []Noticed => []CrashMeansKilled)
<1> SUFFICES ASSUME LegiblePrograms PROVE Verification /\ []Noticed => []CrashMeansKilled
  OBVIOUS
<1>1. VerifyInit => ReplayInv
  BY InitReplay
<1>2. ReplayInv /\ Noticed => CrashMeansKilled
  BY ToldFacts DEF ReplayInv, Replayed, CrashMeansKilled, Noticed
<1> QED
  BY <1>1, <1>2, NextReplay, PTL DEF Verification

=============================================================================
