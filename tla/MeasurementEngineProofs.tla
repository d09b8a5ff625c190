---------------------- MODULE MeasurementEngineProofs ----------------------
(***************************************************************************)
(* Theorems about the measurement engine, for every set of sessions, every *)
(* set of events and every capacity, cost and heap size: its safety, and   *)
(* that each session of disciplined clients implements OperationLog, on    *)
(* storage that may fail and on storage that may not.                      *)
(***************************************************************************)
EXTENDS MeasurementEngineLog, SequenceTheorems, WellFoundedInduction, TLAPS

\* The actions of one session, as Next quantifies over them.
Step(s) ==
  \/ CloseSession(s)
  \/ InvokeDead(s)
  \/ \E types \in ClientTypes :
       \/ OpenSession(s, types)
       \/ \E expected \in {InitTypes, VerifyTypes, QuoteTypes} :
            InvokeBad(s, types, expected)
       \/ IncValue(s, types)
       \/ CfaInit(s, types)
       \/ CfaQuote(s, types)
       \/ \E e \in Events : \/ ControlEvent(s, types, e)
                            \/ AddressEvent(s, types, e)
                            \/ CondEvent(s, types, e)
                            \/ DefEvent(s, types, e)
                            \/ UseEvent(s, types, e)
                            \/ UnknownEvent(s, types, e)

-----------------------------------------------------------------------------
(* Contexts.                                                               *)

\* Sequences over a set whose form the provers need not see.
LEMMA AppendType ==
  ASSUME NEW V, NEW q \in Seq(V), NEW v \in V
  PROVE  Append(q, v) \in Seq(V) /\ <<v>> \in Seq(V)
OBVIOUS

\* A new instance has a well-typed context.
LEMMA FreshContextType == FreshContext \in Contexts
BY HashmapSizeAssumption, ConstantsAssumption
DEF FreshContext, Contexts, HashStates, RawHash, EmptyMap, Slots

\* cfa_init() leaves a well-typed context, whatever the heap had left.
LEMMA InitialisedType ==
  ASSUME NEW c \in Contexts
  PROVE  Initialised(c) \in Contexts
<1>1. Take(c.heap, BufCost["cond"]) \in 0..HeapSize
  BY ConstantsAssumption DEF Contexts, Take, Fits, Chan
<1>2. Take(Take(c.heap, BufCost["cond"]), BufCost["addr"]) \in 0..HeapSize
  BY <1>1, ConstantsAssumption DEF Take, Fits, Chan
<1>3. NewHash \in HashStates
  BY DEF NewHash, HashStates
<1>4. EmptyMap \in [Slots -> Seq([key : Word, value : Word])]
  BY DEF EmptyMap
<1>5. [ch \in Chan |-> <<>>] \in [Chan -> Seq(Word \cup {0, 1})]
  OBVIOUS
<1>6. [ch \in Chan |-> IF ch = "cond"
                       THEN Fits(c.heap, BufCost["cond"])
                       ELSE Fits(Take(c.heap, BufCost["cond"]), BufCost["addr"])]
        \in [Chan -> BOOLEAN]
  <2>1. Fits(c.heap, BufCost["cond"]) \in BOOLEAN
    BY DEF Fits
  <2>2. Fits(Take(c.heap, BufCost["cond"]), BufCost["addr"]) \in BOOLEAN
    BY DEF Fits
  <2> QED
    BY <2>1, <2>2, Zenon
<1> QED
  BY <1>2, <1>3, <1>4, <1>5, <1>6 DEF Initialised, Contexts


-----------------------------------------------------------------------------
(* The inductive invariant.  What the safety properties need of a context  *)
(* beyond its type: buffers within their allocation, a hash map no node    *)
(* was ever linked into, and a reason for every buffer that is missing.    *)

ContextOK(c) ==
  /\ c \in Contexts
  /\ \A ch \in Chan : /\ Len(c.buf[ch]) <= Capacity[ch]
                      /\ c.buf[ch] # <<>> => c.alloc[ch]
  /\ c.map = EmptyMap
  /\ c.p # 0 => \A ch \in Chan : c.alloc[ch] \/ ~Fits(c.heap, BufCost[ch])

EnvironmentOK ==
  /\ session \in [Session -> {"closed", "open", "dead"}]
  /\ result \in Result
  /\ DOMAIN blob = Blob
  /\ \A ch \in Chan : blob[ch] \in Objects(Word \cup {0, 1})
  /\ blob["rethash"] \in Objects(HashStates)
  /\ mayFail \in StorageModes
  /\ commands \in 0..MaxCommands
  /\ defined \in [Session -> [Word -> Word \cup {NoValue}]]

ChecksOK ==
  /\ check \in [Session -> [matched : BOOLEAN, reported : BOOLEAN]]
  /\ NoSilentAccept

ContextsOK ==
  /\ DOMAIN ctx = Session
  /\ ctx = [s \in Session |-> ctx[s]]
  /\ \A s \in Session : ContextOK(ctx[s])

IInv == EnvironmentOK /\ ChecksOK /\ ContextsOK

\* A new instance satisfies the context invariant: its buffers are empty.
LEMMA FreshContextOK == ContextOK(FreshContext)
<1>1. FreshContext \in Contexts
  BY FreshContextType
<1> QED
  BY <1>1, ConstantsAssumption DEF ContextOK, FreshContext

\* Hashing a control event touches neither the buffers nor the map.
LEMMA AbsorbOK ==
  ASSUME NEW c, ContextOK(c), NEW p \in Word \X Word
  PROVE  ContextOK([c EXCEPT !.S.fed = Append(@, p)])
<1> DEFINE d == [c EXCEPT !.S.fed = Append(@, p)]
<1>1. c \in Contexts
  BY DEF ContextOK
<1>2. [c.S EXCEPT !.fed = Append(@, p)] \in HashStates
  <2>1. c.S \in HashStates
    BY <1>1 DEF Contexts
  <2>2. c.S.fed \in Seq(Word \X Word)
    BY <2>1 DEF HashStates
  <2>3. Append(c.S.fed, p) \in Seq(Word \X Word)
    BY <2>2, AppendType
  <2> QED
    BY <2>1, <2>3 DEF HashStates
<1>3. d \in Contexts
  BY <1>1, <1>2 DEF Contexts
<1>4. d.buf = c.buf /\ d.alloc = c.alloc /\ d.map = c.map /\ d.p = c.p
        /\ d.heap = c.heap
  BY <1>1 DEF Contexts
<1> QED
  BY <1>3, <1>4 DEF ContextOK

\* A flush starts the buffer again, an entry that fits is appended to it.
LEMMA BufferedOK ==
  ASSUME NEW c, ContextOK(c), NEW ch \in Chan, NEW v \in Word \cup {0, 1},
         c.alloc[ch],
         NEW b \in {<<v>>, Append(c.buf[ch], v)},
         b = <<v>> \/ ~Full(c, ch)
  PROVE  ContextOK([c EXCEPT !.buf[ch] = b])
<1> DEFINE d == [c EXCEPT !.buf[ch] = b]
<1>1. c \in Contexts
  BY DEF ContextOK
<1>2. c.buf \in [Chan -> Seq(Word \cup {0, 1})]
  BY <1>1 DEF Contexts
<1>3. b \in Seq(Word \cup {0, 1})
  <2>1. c.buf[ch] \in Seq(Word \cup {0, 1})
    BY <1>2
  <2> QED
    BY <2>1, AppendType
<1>4. Len(b) <= Capacity[ch]
  <2>1. Len(c.buf[ch]) \in Nat /\ Capacity[ch] \in Nat \ {0}
    BY <1>2, ConstantsAssumption
  <2>2. CASE b = <<v>>
    BY <2>1, <2>2
  <2>3. CASE b # <<v>>
    <3>1. Len(b) = Len(c.buf[ch]) + 1
      BY <2>3, <1>2
    <3>2. Len(c.buf[ch]) <= Capacity[ch] /\ Len(c.buf[ch]) # Capacity[ch]
      BY <2>3 DEF ContextOK, Full
    <3> QED
      BY <2>1, <3>1, <3>2
  <2> QED
    BY <2>2, <2>3
<1>5. d \in Contexts
  BY <1>1, <1>3 DEF Contexts
<1>6. /\ d.buf = [c.buf EXCEPT ![ch] = b]
      /\ d.alloc = c.alloc /\ d.map = c.map /\ d.p = c.p /\ d.heap = c.heap
  BY <1>1 DEF Contexts
<1>7. \A k \in Chan : /\ Len(d.buf[k]) <= Capacity[k]
                      /\ d.buf[k] # <<>> => d.alloc[k]
  BY <1>2, <1>4, <1>6 DEF ContextOK
<1> QED
  BY <1>5, <1>6, <1>7 DEF ContextOK

\* A lookup in the empty map finds no node: no USE is ever accepted silently.
LEMMA NothingFound ==
  ASSUME NEW key \in Word
  PROVE  ~Found(EmptyMap, key) /\ (key % HashmapSize \in Slots)
<1>1. key % HashmapSize \in Slots
  BY HashmapSizeAssumption, ConstantsAssumption DEF Slots
<1>2. EmptyMap[key % HashmapSize] = <<>>
  BY <1>1 DEF EmptyMap
<1> QED
  BY <1>1, <1>2 DEF Found, Hits

\* A node is allocated and lost: only the heap changes.
LEMMA LeakOK ==
  ASSUME NEW c, ContextOK(c), NEW key \in Word, NEW v \in Word,
         Fits(c.heap, NodeCost)
  PROVE  ContextOK([c EXCEPT
            !.map  = Update(c.map, key, v),
            !.heap = IF Allocates(c.map, key) THEN @ + NodeCost ELSE @])
<1>1. c \in Contexts /\ c.map = EmptyMap
  BY DEF ContextOK
<1>2. Update(c.map, key, v) = c.map /\ Allocates(c.map, key)
  BY <1>1, NothingFound DEF Update, Allocates
<1> DEFINE d == [c EXCEPT !.map = c.map, !.heap = @ + NodeCost]
<1>3. c.heap + NodeCost \in 0..HeapSize
  BY <1>1, ConstantsAssumption DEF Fits, Contexts
<1>4. d \in Contexts
  BY <1>1, <1>3 DEF Contexts
<1>5. /\ d.buf = c.buf /\ d.alloc = c.alloc /\ d.map = c.map /\ d.p = c.p
      /\ d.heap = c.heap + NodeCost
  BY <1>1 DEF Contexts
<1>6. \A ch \in Chan : ~Fits(c.heap, BufCost[ch]) => ~Fits(d.heap, BufCost[ch])
  BY <1>1, <1>5, ConstantsAssumption DEF Fits, Contexts
<1>7. ContextOK(d)
  BY <1>4, <1>5, <1>6 DEF ContextOK
<1> QED
  BY <1>2, <1>7

\* A quote finishes the hash and clears initialized; the buffers keep their length.
LEMMA QuotedOK ==
  ASSUME NEW c, ContextOK(c)
  PROVE  /\ DigestOf(c.S, c.digest) \in HashStates
         /\ ContextOK([c EXCEPT !.S = Final(@),
                                !.digest = DigestOf(c.S, c.digest),
                                !.initialized = FALSE])
<1> DEFINE d == [c EXCEPT !.S = Final(@), !.digest = DigestOf(c.S, c.digest),
                          !.initialized = FALSE]
<1>1. c \in Contexts
  BY DEF ContextOK
<1>2. Final(c.S) \in HashStates
  BY <1>1 DEF Contexts, HashStates, Final
<1>3. DigestOf(c.S, c.digest) \in HashStates
  BY <1>1, <1>2 DEF DigestOf, Contexts
<1>4. d \in Contexts
  BY <1>1, <1>2, <1>3 DEF Contexts
<1>5. d.buf = c.buf /\ d.alloc = c.alloc /\ d.map = c.map /\ d.p = c.p
        /\ d.heap = c.heap
  BY <1>1 DEF Contexts
<1> QED
  BY <1>3, <1>4, <1>5 DEF ContextOK

\* cfa_init() empties the buffers, allocated or not, and the map.
LEMMA InitialisedOK ==
  ASSUME NEW c \in Contexts
  PROVE  ContextOK(Initialised(c))
<1>1. Initialised(c) \in Contexts
  BY InitialisedType
<1> DEFINE d == Initialised(c)
           afterCond == Take(c.heap, BufCost["cond"])
<1>2. /\ d.buf = [ch \in Chan |-> <<>>]
      /\ d.map = EmptyMap
      /\ d.heap = Take(afterCond, BufCost["addr"])
      /\ d.alloc["cond"] = Fits(c.heap, BufCost["cond"])
      /\ d.alloc["addr"] = Fits(afterCond, BufCost["addr"])
  BY DEF Initialised, Contexts, Chan
<1>3. \A ch \in Chan : Len(d.buf[ch]) <= Capacity[ch] /\ d.buf[ch] = <<>>
  BY <1>2, ConstantsAssumption
<1>4. c.heap \in Nat /\ BufCost["cond"] \in Nat /\ BufCost["addr"] \in Nat
  BY ConstantsAssumption DEF Contexts, Chan
<1>5. d.alloc["cond"] \/ ~Fits(d.heap, BufCost["cond"])
  <2>1. CASE Fits(c.heap, BufCost["cond"])
    BY <2>1, <1>2
  <2>2. CASE ~Fits(c.heap, BufCost["cond"])
    <3>1. afterCond = c.heap
      BY <2>2 DEF Take
    <3>2. d.heap \in Nat /\ d.heap >= c.heap
      BY <3>1, <1>2, <1>4 DEF Take
    <3> QED
      BY <3>2, <2>2, <1>4, ConstantsAssumption DEF Fits
  <2> QED
    BY <2>1, <2>2
<1>6. d.alloc["addr"] \/ ~Fits(d.heap, BufCost["addr"])
  BY <1>2, <1>4, ConstantsAssumption DEF Take, Fits
<1> QED
  BY <1>1, <1>2, <1>3, <1>5, <1>6 DEF ContextOK, Chan

-----------------------------------------------------------------------------
(* Objects.                                                                *)

\* Saved entries carry their session and keep their values.
LEMMA EntriesType ==
  ASSUME NEW V, NEW s \in Session, NEW q \in Seq(V)
  PROVE  Entries(s, q) \in Seq([owner : Session, val : V])
<1>1. \A i \in 1..Len(q) : [owner |-> s, val |-> q[i]] \in [owner : Session, val : V]
  OBVIOUS
<1>2. Entries(s, q) = [i \in 1..Len(q) |-> [owner |-> s, val |-> q[i]]]
  BY DEF Entries
<1>3. Len(q) \in Nat
  OBVIOUS
<1> QED
  BY <1>1, <1>2, <1>3

\* Whatever save_data() leaves behind is a well-typed object.
LEMMA SavedType ==
  ASSUME NEW V, NEW obj \in Objects(V), NEW fails,
         NEW chunk \in Seq([owner : Session, val : V]),
         NEW saved \in SaveOutcomes(obj, chunk, fails)
  PROVE  saved \in Objects(V)
<1> DEFINE E == [owner : Session, val : V]
<1>1. obj.data \in Seq(E) /\ chunk \in Seq(E)
  BY DEF Objects
<1>2. obj.data \o chunk \in Seq(E) /\ <<>> \in Seq(E)
  BY <1>1
<1>3. saved \in {obj, Holding(chunk), Holding(<<>>), Holding(obj.data \o chunk)}
  BY DEF SaveOutcomes, PrepareOutcomes, AppendOutcomes
<1>4. \A q \in Seq(E) : Holding(q) \in Objects(V)
  <2> SUFFICES ASSUME NEW q \in Seq(E) PROVE Holding(q) \in Objects(V)
    OBVIOUS
  <2> HIDE DEF E
  <2>1. [exists |-> TRUE, data |-> q] \in [exists : BOOLEAN, data : Seq(E)]
    OBVIOUS
  <2> QED
    BY <2>1 DEF Holding, Objects, E
<1> QED
  BY <1>1, <1>2, <1>3, <1>4

-----------------------------------------------------------------------------
(* Steps.                                                                  *)

\* A step that gives one session a correct context and keeps the rest.
LEMMA ContextStep ==
  ASSUME ContextsOK, NEW s \in Session, NEW d, ContextOK(d),
         ctx' = [ctx EXCEPT ![s] = d]
  PROVE  ContextsOK'
<1>1. DOMAIN ctx' = Session /\ ctx' = [x \in Session |-> ctx'[x]]
  BY DEF ContextsOK
<1>2. \A x \in Session : ctx'[x] = IF x = s THEN d ELSE ctx[x]
  BY DEF ContextsOK
<1>3. \A x \in Session : ContextOK(ctx'[x])
  BY <1>2 DEF ContextsOK
<1>4. (ContextsOK)' <=> /\ DOMAIN ctx' = Session
                        /\ ctx' = [x \in Session |-> ctx'[x]]
                        /\ \A x \in Session : ContextOK(ctx'[x])
  BY DEF ContextsOK, ContextOK
<1> QED
  BY <1>1, <1>3, <1>4

\* Calls that leave contexts, objects and histories alone.
LEMMA QuietStep ==
  ASSUME IInv, session' \in [Session -> {"closed", "open", "dead"}],
         result' \in Result, commands' \in 0..MaxCommands,
         UNCHANGED <<ctx, blob, mayFail, history>>
  PROVE  IInv'
<1>1. ContextsOK'
  BY DEF IInv, ContextsOK, ContextOK
<1>2. ChecksOK'
  BY DEF IInv, ChecksOK, NoSilentAccept, history
<1>3. EnvironmentOK'
  BY DEF IInv, EnvironmentOK, history
<1> QED
  BY <1>1, <1>2, <1>3 DEF IInv

\* An accepted command is counted within the bound.
LEMMA AcceptedStep ==
  ASSUME IInv, NEW s \in Session, NEW types, NEW expected,
         Accepted(s, types, expected)
  PROVE  commands' \in 0..MaxCommands /\ mayFail' \in StorageModes
           /\ session[s] = "open"
BY ConstantsAssumption DEF IInv, EnvironmentOK, Accepted

\* A panic replaces the context with that of no instance.
LEMMA PanicStep ==
  ASSUME IInv, NEW s \in Session, Panic(s),
         commands' \in 0..MaxCommands, mayFail' \in StorageModes
  PROVE  IInv'
<1>1. ContextsOK'
  BY FreshContextOK, ContextStep DEF IInv, Panic
<1>2. ChecksOK'
  BY DEF IInv, ChecksOK, NoSilentAccept, Panic
<1>3. EnvironmentOK'
  BY DEF IInv, EnvironmentOK, Panic, Returns, Result
<1> QED
  BY <1>1, <1>2, <1>3 DEF IInv

\* A trace event flushes or appends, or panics without a buffer.
LEMMA TraceStep ==
  ASSUME IInv, NEW s \in Session, NEW types, NEW ch \in Chan,
         NEW v \in Word \cup {0, 1}, TraceEvent(s, types, ch, v)
  PROVE  IInv'
<1>1. commands' \in 0..MaxCommands /\ mayFail' \in StorageModes
  BY AcceptedStep DEF TraceEvent, Verify
<1>2. CASE ~ctx[s].alloc[ch]
  BY <1>1, <1>2, PanicStep DEF TraceEvent
<1>3. CASE ctx[s].alloc[ch]
  <2> DEFINE c == ctx[s]
  <2>1. ContextOK(c) /\ c \in Contexts
    BY DEF IInv, ContextsOK, ContextOK
  <2>2. c.buf[ch] \in Seq(Word \cup {0, 1})
    BY <2>1 DEF Contexts
  <2>3. UNCHANGED <<session, history>> /\ result' = "SUCCESS"
    BY <1>3 DEF TraceEvent, Returns
  <2>4. ChecksOK'
    BY <2>3 DEF IInv, ChecksOK, NoSilentAccept, history
  <2>5. CASE Full(c, ch)
    <3>1. PICK object \in SaveOutcomes(blob[ch], Entries(s, c.buf[ch]), mayFail) :
            blob' = [blob EXCEPT ![ch] = object]
      BY <1>3, <2>5 DEF TraceEvent
    <3>2. ctx' = [ctx EXCEPT ![s].buf[ch] = <<v>>]
      BY <1>3, <2>5 DEF TraceEvent
    <3>3. ContextOK([c EXCEPT !.buf[ch] = <<v>>])
      BY <1>3, <2>1, BufferedOK
    <3>4. ContextsOK'
      BY <3>2, <3>3, ContextStep DEF IInv
    <3>5. object \in Objects(Word \cup {0, 1})
      BY <2>2, EntriesType, SavedType DEF IInv, EnvironmentOK
    <3>6. EnvironmentOK'
      BY <1>1, <2>3, <3>1, <3>5
      DEF IInv, EnvironmentOK, history, Result, Blob, Chan
    <3> QED
      BY <2>4, <3>4, <3>6 DEF IInv
  <2>6. CASE ~Full(c, ch)
    <3>1. ctx' = [ctx EXCEPT ![s].buf[ch] = Append(@, v)] /\ UNCHANGED blob
      BY <1>3, <2>6 DEF TraceEvent
    <3>2. ContextOK([c EXCEPT !.buf[ch] = Append(c.buf[ch], v)])
      BY <1>3, <2>1, <2>6, BufferedOK
    <3>3. ctx' = [ctx EXCEPT ![s] = [c EXCEPT !.buf[ch] = Append(c.buf[ch], v)]]
      BY <3>1
    <3>4. ContextsOK'
      BY <3>2, <3>3, ContextStep DEF IInv
    <3>5. EnvironmentOK'
      BY <1>1, <2>3, <3>1 DEF IInv, EnvironmentOK, history, Result
    <3> QED
      BY <2>4, <3>4, <3>5 DEF IInv
  <2> QED
    BY <2>5, <2>6
<1> QED
  BY <1>2, <1>3

\* Opening, closing and refused calls.
LEMMA SessionStep ==
  ASSUME IInv, NEW s \in Session,
         \/ CloseSession(s)
         \/ InvokeDead(s)
         \/ \E types \in ClientTypes :
              \/ OpenSession(s, types)
              \/ \E expected \in {InitTypes, VerifyTypes, QuoteTypes} :
                   InvokeBad(s, types, expected)
              \/ IncValue(s, types)
  PROVE  IInv'
<1>1. CASE CloseSession(s)
  <2>1. ContextsOK'
    BY <1>1, FreshContextOK, ContextStep DEF IInv, CloseSession
  <2>2. ChecksOK'
    BY <1>1 DEF IInv, ChecksOK, NoSilentAccept, CloseSession
  <2>3. EnvironmentOK'
    BY <1>1 DEF IInv, EnvironmentOK, CloseSession, Returns, Result
  <2> QED
    BY <2>1, <2>2, <2>3 DEF IInv
<1>2. CASE InvokeDead(s)
  BY <1>2, QuietStep
  DEF InvokeDead, Returns, Result, IInv, EnvironmentOK, history
<1>3. CASE \E types \in ClientTypes : OpenSession(s, types)
  <2>1. PICK types \in ClientTypes : OpenSession(s, types)
    BY <1>3
  <2>2. /\ session' \in [Session -> {"closed", "open", "dead"}]
        /\ result' \in Result
    BY <2>1 DEF OpenSession, Returns, Result, IInv, EnvironmentOK
  <2> QED
    BY <2>1, <2>2, QuietStep DEF OpenSession, IInv, EnvironmentOK, history
<1>4. CASE \E types \in ClientTypes :
             \E expected \in {InitTypes, VerifyTypes, QuoteTypes} :
               InvokeBad(s, types, expected)
  BY <1>4, QuietStep
  DEF InvokeBad, Returns, Result, IInv, EnvironmentOK, history
<1>5. CASE \E types \in ClientTypes : IncValue(s, types)
  BY <1>5, QuietStep
  DEF IncValue, Returns, Result, IInv, EnvironmentOK, history
<1> QED
  BY <1>1, <1>2, <1>3, <1>4, <1>5

\* CMD_CFA_INIT.
LEMMA InitStep ==
  ASSUME IInv, NEW s \in Session, NEW types, CfaInit(s, types)
  PROVE  IInv'
<1>1. commands' \in 0..MaxCommands /\ mayFail' \in StorageModes
  BY AcceptedStep DEF CfaInit
<1>2. ctx[s] \in Contexts
  BY DEF IInv, ContextsOK, ContextOK
<1>3. ctx' = [ctx EXCEPT ![s] = Initialised(ctx[s])]
  BY DEF CfaInit
<1>4. ContextsOK'
  BY <1>2, <1>3, InitialisedOK, ContextStep DEF IInv
<1>5. ChecksOK'
  BY DEF IInv, ChecksOK, NoSilentAccept, CfaInit
<1>6. EnvironmentOK'
  BY <1>1 DEF IInv, EnvironmentOK, CfaInit, Returns, Result
<1> QED
  BY <1>4, <1>5, <1>6 DEF IInv

\* A control event.
LEMMA ControlStep ==
  ASSUME IInv, NEW s \in Session, NEW types, NEW e \in Events,
         ControlEvent(s, types, e)
  PROVE  IInv'
<1>1. commands' \in 0..MaxCommands /\ mayFail' \in StorageModes
  BY AcceptedStep DEF ControlEvent, Verify
<1>2. <<e.a, e.b>> \in Word \X Word
  BY ConstantsAssumption
<1>3. ContextOK(ctx[s])
  BY DEF IInv, ContextsOK
<1>4. ContextOK([ctx[s] EXCEPT !.S.fed = Append(@, <<e.a, e.b>>)])
  BY <1>2, <1>3, AbsorbOK
<1>5. ctx' = [ctx EXCEPT ![s] =
                [ctx[s] EXCEPT !.S.fed = Append(@, <<e.a, e.b>>)]]
  BY DEF ControlEvent
<1>6. ContextsOK'
  BY <1>4, <1>5, ContextStep DEF IInv
<1>7. ChecksOK'
  BY DEF IInv, ChecksOK, NoSilentAccept, ControlEvent, history
<1>8. EnvironmentOK'
  BY <1>1 DEF IInv, EnvironmentOK, ControlEvent, Returns, Result, history
<1> QED
  BY <1>6, <1>7, <1>8 DEF IInv

\* A DEF, or a reported USE, leaks one node or panics.
LEMMA StoresStep ==
  ASSUME IInv, NEW s \in Session, NEW e \in Events,
         NEW matched \in BOOLEAN, NEW reported \in BOOLEAN,
         ~matched => reported,
         commands' \in 0..MaxCommands, mayFail' \in StorageModes,
         Stores(s, e, matched, reported)
  PROVE  IInv'
<1> DEFINE c == ctx[s]
<1>1. e.a \in Word /\ e.b \in Word
  BY ConstantsAssumption
<1>2. ContextOK(c) /\ c.map = EmptyMap
  BY DEF IInv, ContextsOK, ContextOK
<1>3. Allocates(c.map, e.a)
  BY <1>1, <1>2, NothingFound DEF Allocates
<1>4. CASE ~Fits(c.heap, NodeCost)
  BY <1>3, <1>4, PanicStep DEF Stores
<1>5. CASE Fits(c.heap, NodeCost)
  <2> DEFINE d == [c EXCEPT
                    !.map  = Update(c.map, e.a, e.b),
                    !.heap = IF Allocates(c.map, e.a) THEN @ + NodeCost ELSE @]
  <2>1. ctx' = [ctx EXCEPT ![s] = d]
    BY <1>5 DEF Stores
  <2>2. ContextOK(d)
    BY <1>1, <1>2, <1>5, LeakOK
  <2>3. ContextsOK'
    BY <2>1, <2>2, ContextStep DEF IInv
  <2>4. check' = [check EXCEPT ![s] = [matched |-> matched,
                                       reported |-> reported]]
    BY <1>5 DEF Stores
  <2>5. ChecksOK'
    BY <2>4, Zenon DEF IInv, ChecksOK, NoSilentAccept
  <2>6. defined' = [defined EXCEPT ![s][e.a] = e.b]
          /\ result' = "SUCCESS" /\ UNCHANGED <<session, blob>>
    BY <1>5 DEF Stores, Returns
  <2>7. EnvironmentOK'
    BY <1>1, <2>6 DEF IInv, EnvironmentOK, Result
  <2> QED
    BY <2>3, <2>5, <2>7 DEF IInv
<1> QED
  BY <1>4, <1>5

\* Data events: the lookup finds nothing, so every USE is reported.
LEMMA DataStep ==
  ASSUME IInv, NEW s \in Session, NEW types, NEW e \in Events,
         DefEvent(s, types, e) \/ UseEvent(s, types, e)
  PROVE  IInv'
<1>1. commands' \in 0..MaxCommands /\ mayFail' \in StorageModes
  BY AcceptedStep DEF DefEvent, UseEvent, Verify
<1>2. ~Agrees(ctx[s], e)
  <2>1. ctx[s].map = EmptyMap /\ e.a \in Word
    BY ConstantsAssumption DEF IInv, ContextsOK, ContextOK
  <2> QED
    BY <2>1, NothingFound DEF Agrees
<1>3. CASE Panic(s)
  BY <1>1, <1>3, PanicStep
<1>4. CASE Stores(s, e, TRUE, FALSE)
  BY <1>1, <1>4, StoresStep
<1>5. CASE Stores(s, e, defined[s][e.a] = e.b, TRUE)
  <2>1. (defined[s][e.a] = e.b) \in BOOLEAN
    OBVIOUS
  <2> QED
    BY <1>1, <1>5, <2>1, StoresStep
<1> QED
  BY <1>2, <1>3, <1>4, <1>5 DEF DefEvent, UseEvent

\* CMD_CFA_QUOTE.
LEMMA QuoteStep ==
  ASSUME IInv, NEW s \in Session, NEW types, CfaQuote(s, types)
  PROVE  IInv'
<1> DEFINE c == ctx[s]
           digest == DigestOf(c.S, c.digest)
           d == [c EXCEPT !.S = Final(@), !.digest = digest,
                          !.initialized = FALSE]
<1>1. commands' \in 0..MaxCommands /\ mayFail' \in StorageModes
  BY AcceptedStep DEF CfaQuote
<1>2. ContextOK(c) /\ c \in Contexts
  BY DEF IInv, ContextsOK, ContextOK
<1>3. ContextOK(d) /\ digest \in HashStates
  BY <1>2, QuotedOK
<1>4. ctx' = [ctx EXCEPT ![s] = d]
  BY DEF CfaQuote
<1>5. ContextsOK'
  BY <1>3, <1>4, ContextStep DEF IInv
<1>6. UNCHANGED <<session, defined, check>> /\ result' = "SUCCESS"
  BY DEF CfaQuote, Returns
<1>7. ChecksOK'
  BY <1>6 DEF IInv, ChecksOK, NoSilentAccept
<1>8. PICK addr \in SaveOutcomes(blob["addr"], Entries(s, c.buf["addr"]), mayFail),
           cond \in SaveOutcomes(blob["cond"], Entries(s, c.buf["cond"]), mayFail),
           hash \in SaveOutcomes(blob["rethash"], Entries(s, <<digest>>), mayFail) :
        blob' = [b \in Blob |-> CASE b = "addr" -> addr
                                  [] b = "cond" -> cond
                                  [] OTHER      -> hash]
  BY DEF CfaQuote
<1>9. addr \in Objects(Word \cup {0, 1}) /\ cond \in Objects(Word \cup {0, 1})
  <2>1. /\ c.buf["addr"] \in Seq(Word \cup {0, 1})
        /\ c.buf["cond"] \in Seq(Word \cup {0, 1})
        /\ blob["addr"] \in Objects(Word \cup {0, 1})
        /\ blob["cond"] \in Objects(Word \cup {0, 1})
    BY <1>2 DEF Contexts, Chan, IInv, EnvironmentOK
  <2> QED
    BY <2>1, EntriesType, SavedType
<1>10. hash \in Objects(HashStates)
  <2>1. <<digest>> \in Seq(HashStates)
    BY <1>3
  <2>2. Entries(s, <<digest>>) \in Seq([owner : Session, val : HashStates])
    BY <2>1, EntriesType
  <2>3. blob["rethash"] \in Objects(HashStates)
    BY DEF IInv, EnvironmentOK
  <2> QED
    BY <2>2, <2>3, SavedType
<1>11. DOMAIN blob' = Blob
  BY <1>8
<1>12. blob'["addr"] = addr /\ blob'["cond"] = cond /\ blob'["rethash"] = hash
  BY <1>8 DEF Blob, Chan
<1>13. EnvironmentOK'
  BY <1>1, <1>6, <1>9, <1>10, <1>11, <1>12
  DEF IInv, EnvironmentOK, Result, Chan
<1> QED
  BY <1>5, <1>7, <1>13 DEF IInv

\* Any event.
LEMMA EventStep ==
  ASSUME IInv, NEW s \in Session, NEW types, NEW e \in Events,
         \/ AddressEvent(s, types, e)
         \/ CondEvent(s, types, e)
         \/ UnknownEvent(s, types, e)
  PROVE  IInv'
<1>1. e.a \in Word /\ e.b \in Word
  BY ConstantsAssumption
<1>2. CASE AddressEvent(s, types, e)
  BY <1>1, <1>2, TraceStep DEF AddressEvent, Chan
<1>3. CASE CondEvent(s, types, e)
  BY <1>3, TraceStep DEF CondEvent, CondByte, Chan
<1>4. CASE UnknownEvent(s, types, e)
  <2>1. commands' \in 0..MaxCommands
    BY <1>4, AcceptedStep DEF UnknownEvent, Verify
  <2>2. result' \in Result /\ UNCHANGED <<session, ctx, blob, mayFail, history>>
    BY <1>4 DEF UnknownEvent, Verify, Accepted, Returns, Result
  <2>3. session' \in [Session -> {"closed", "open", "dead"}]
    BY <2>2 DEF IInv, EnvironmentOK
  <2> QED
    BY <2>1, <2>2, <2>3, QuietStep
<1> QED
  BY <1>2, <1>3, <1>4

-----------------------------------------------------------------------------
(* The invariant is inductive.                                             *)

\* The initial states satisfy the inductive invariant.
LEMMA InitIInv == Init => IInv
<1> SUFFICES ASSUME Init PROVE IInv
  OBVIOUS
<1>1. ContextsOK
  BY FreshContextOK DEF Init, ContextsOK
<1>2. ChecksOK
  BY DEF Init, ChecksOK, NoSilentAccept
<1>3. EnvironmentOK
  <2>1. \A V : Absent \in Objects(V)
    BY DEF Absent, Objects
  <2> QED
    BY <2>1, ConstantsAssumption DEF Init, EnvironmentOK, Blob, Chan, Result
<1> QED
  BY <1>1, <1>2, <1>3 DEF IInv

\* Every step keeps the inductive invariant.
LEMMA NextIInv == IInv /\ [Next]_vars => IInv'
<1> SUFFICES ASSUME IInv, [Next]_vars PROVE IInv'
  OBVIOUS
<1>1. CASE UNCHANGED vars
  BY <1>1, QuietStep DEF vars, IInv, EnvironmentOK, history
<1>2. CASE Next
  <2>1. PICK s \in Session : Step(s)
    BY <1>2 DEF Next, Step
  <2>2. CASE \/ CloseSession(s)
             \/ InvokeDead(s)
             \/ \E types \in ClientTypes :
                  \/ OpenSession(s, types)
                  \/ \E expected \in {InitTypes, VerifyTypes, QuoteTypes} :
                       InvokeBad(s, types, expected)
                  \/ IncValue(s, types)
    BY <2>2, SessionStep
  <2>3. CASE \E types \in ClientTypes : CfaInit(s, types)
    BY <2>3, InitStep
  <2>4. CASE \E types \in ClientTypes : CfaQuote(s, types)
    BY <2>4, QuoteStep
  <2>5. CASE \E types \in ClientTypes, e \in Events : ControlEvent(s, types, e)
    BY <2>5, ControlStep
  <2>6. CASE \E types \in ClientTypes, e \in Events :
               DefEvent(s, types, e) \/ UseEvent(s, types, e)
    BY <2>6, DataStep
  <2>7. CASE \E types \in ClientTypes, e \in Events :
               \/ AddressEvent(s, types, e)
               \/ CondEvent(s, types, e)
               \/ UnknownEvent(s, types, e)
    BY <2>7, EventStep
  <2> QED
    BY <2>1, <2>2, <2>3, <2>4, <2>5, <2>6, <2>7 DEF Step
<1> QED
  BY <1>1, <1>2

\* The inductive invariant holds of every behaviour.
LEMMA Invariance == Spec => []IInv
BY InitIInv, NextIInv, PTL DEF Spec

-----------------------------------------------------------------------------
(* What follows from it.                                                   *)

(***************************************************************************)
(* The state of the engine is always well typed: in particular its heap    *)
(* never grows past HeapSize, whatever the clients send (cfa.h:40-63).     *)
(***************************************************************************)
THEOREM TypeCorrect == Spec => []TypeOK
<1>1. IInv => TypeOK
  BY DEF IInv, EnvironmentOK, ChecksOK, ContextsOK, ContextOK, TypeOK
<1> QED
  BY <1>1, Invariance, PTL

(***************************************************************************)
(* For all capacities, no sequence of events, inits and quotes makes the   *)
(* code index a trace buffer past its end or through a NULL pointer        *)
(* (hello_world_ta.c:279-298).                                             *)
(***************************************************************************)
THEOREM BuffersStayInBounds == Spec => []BufferInBounds
<1>1. IInv => BufferInBounds
  BY DEF IInv, ContextsOK, ContextOK, BufferInBounds
<1> QED
  BY <1>1, Invariance, PTL

(***************************************************************************)
(* A USE that does not match the value last defined is always reported.    *)
(* The proof goes through the map being empty in every reachable state:    *)
(* no USE is ever accepted silently, matching or not (cfa.c:67-86).        *)
(***************************************************************************)
THEOREM MismatchesAreReported == Spec => []NoSilentAccept
<1>1. IInv => NoSilentAccept
  BY DEF IInv, ChecksOK
<1> QED
  BY <1>1, Invariance, PTL

\* A session that dies in a step had one of the three reasons before it.
LEMMA PanicReason ==
  ASSUME IInv, NEW s \in Session, Step(s), NEW x \in Session,
         session[x] = "open", session'[x] = "dead"
  PROVE  /\ x = s
         /\ \/ ctx[s].p = 0
            \/ ~Fits(ctx[s].heap, NodeCost)
            \/ \E ch \in Chan : ~Fits(ctx[s].heap, BufCost[ch])
<1> DEFINE c == ctx[s]
           Reason == \/ c.p = 0
                     \/ ~Fits(c.heap, NodeCost)
                     \/ \E ch \in Chan : ~Fits(c.heap, BufCost[ch])
<1>1. session \in [Session -> {"closed", "open", "dead"}] /\ ContextOK(c)
  BY DEF IInv, EnvironmentOK, ContextsOK
<1>2. ASSUME NEW types, NEW ch \in Chan, NEW v, TraceEvent(s, types, ch, v)
      PROVE  x = s /\ Reason
  <2>1. ~c.alloc[ch] /\ Panic(s)
    BY <1>1, <1>2 DEF TraceEvent
  <2> QED
    BY <1>1, <2>1 DEF Panic, ContextOK
<1>3. ASSUME NEW e \in Events, NEW m, NEW r, Stores(s, e, m, r)
      PROVE  x = s /\ Reason
  <2>1. ~Fits(c.heap, NodeCost) /\ Panic(s)
    BY <1>1, <1>3 DEF Stores
  <2> QED
    BY <1>1, <2>1 DEF Panic
<1>4. ASSUME WildLookup(c), Panic(s) PROVE x = s /\ Reason
  BY <1>1, <1>4 DEF WildLookup, Panic
<1>5. CASE \E types \in ClientTypes, e \in Events :
             \/ AddressEvent(s, types, e)
             \/ CondEvent(s, types, e)
             \/ DefEvent(s, types, e)
             \/ UseEvent(s, types, e)
  BY <1>1, <1>2, <1>3, <1>4, <1>5
  DEF AddressEvent, CondEvent, DefEvent, UseEvent, Chan
<1>6. CASE CloseSession(s) \/ InvokeDead(s)
  BY <1>1, <1>6 DEF CloseSession, InvokeDead
<1>7. CASE \E types \in ClientTypes :
             \/ OpenSession(s, types)
             \/ \E expected \in {InitTypes, VerifyTypes, QuoteTypes} :
                  InvokeBad(s, types, expected)
             \/ IncValue(s, types)
             \/ CfaInit(s, types)
             \/ CfaQuote(s, types)
  BY <1>1, <1>7 DEF OpenSession, InvokeBad, IncValue, CfaInit, CfaQuote
<1>8. CASE \E types \in ClientTypes, e \in Events :
             ControlEvent(s, types, e) \/ UnknownEvent(s, types, e)
  BY <1>1, <1>8 DEF ControlEvent, UnknownEvent
<1> QED
  BY <1>5, <1>6, <1>7, <1>8 DEF Step

(***************************************************************************)
(* An instance dies only uninitialised or out of heap, for every heap size *)
(* and every cost of a buffer or node (cfa.c:26-32, 76).                   *)
(***************************************************************************)
THEOREM PanicsAreExplained == Spec => PanicExplained
<1>1. IInv /\ [Next]_vars => [PanicHasReason]_vars
  <2> SUFFICES ASSUME IInv, Next PROVE PanicHasReason
    BY DEF vars, PanicHasReason
  <2>1. PICK s \in Session : Step(s)
    BY DEF Next, Step
  <2> QED
    BY <2>1, PanicReason DEF PanicHasReason
<1> QED
  BY <1>1, Invariance, PTL DEF Spec, PanicExplained

-----------------------------------------------------------------------------
(* Induction over the naturals, stated for sets.                           *)

LEMMA Induction ==
  ASSUME NEW S, 0 \in S, \A n \in Nat : n \in S => n + 1 \in S
  PROVE  Nat \subseteq S
<1> DEFINE T    == {n \in Nat : n \notin S}
           Less == {p \in Nat \X Nat : p[1] < p[2]}
<1> SUFFICES ASSUME T # {} PROVE FALSE
  OBVIOUS
<1>1. IsWellFoundedOn(Less, Nat)
  BY NatLessThanWellFounded, Zenon DEF OpToRel
<1>2. PICK x \in T : \A y \in T : <<y, x>> \notin Less
  <2>1. T \subseteq Nat
    OBVIOUS
  <2> HIDE DEF T, Less
  <2> QED
    BY <1>1, <2>1, WFMin
<1>3. x \in Nat /\ x # 0 /\ x - 1 \in Nat /\ x - 1 < x
  OBVIOUS
<1>4. x - 1 \in T
  BY <1>3
<1>5. <<x - 1, x>> \in Less
  BY <1>3
<1> QED
  BY <1>2, <1>4, <1>5

-----------------------------------------------------------------------------
(* What a session owns of an object.                                       *)

\* One more entry of the object: appended when it is the session's.
OwnStep(before, entry, s) ==
  IF entry.owner = s THEN Append(before, entry.val) ELSE before

\* table[i] is what s owns of the first i entries.
Owns(table, data, s) ==
  table = [i \in 0..Len(data) |->
             IF i = 0 THEN <<>>
             ELSE IF data[i].owner = s
                  THEN Append(table[i - 1], data[i].val)
                  ELSE table[i - 1]]

\* The recursion of Own() has a solution.
LEMMA OwnsExists ==
  ASSUME NEW data, NEW s, Len(data) \in Nat
  PROVE  \E table : Owns(table, data, s)
<1> DEFINE Upto(t, n) ==
             /\ DOMAIN t = 0..n
             /\ t[0] = <<>>
             /\ \A i \in 1..n : t[i] = OwnStep(t[i - 1], data[i], s)
           S == {n \in Nat : \E t : Upto(t, n)}
<1>1. 0 \in S
  <2> DEFINE t == [i \in 0..0 |-> <<>>]
  <2>1. Upto(t, 0)
    OBVIOUS
  <2> HIDE DEF t, Upto
  <2> QED
    BY <2>1
<1>2. ASSUME NEW n \in Nat, n \in S PROVE n + 1 \in S
  <2>1. PICK t : Upto(t, n)
    BY <1>2
  <2> DEFINE u == [i \in 0..(n + 1) |->
                     IF i = n + 1 THEN OwnStep(t[n], data[n + 1], s) ELSE t[i]]
  <2>2. \A i \in 0..n : u[i] = t[i]
    OBVIOUS
  <2>3. u[n + 1] = OwnStep(u[n], data[n + 1], s)
    BY <2>2
  <2>4. \A i \in 1..n : u[i] = OwnStep(u[i - 1], data[i], s)
    BY <2>1, <2>2
  <2>5. Upto(u, n + 1)
    <3>1. DOMAIN u = 0..(n + 1) /\ u[0] = <<>>
      BY <2>1, <2>2
    <3> HIDE DEF u
    <3> QED
      BY <2>3, <2>4, <3>1, SMTT(30)
  <2> HIDE DEF u, Upto
  <2> QED
    BY <2>5
<1>3. Len(data) \in S
  <2> HIDE DEF S
  <2> QED
    BY <1>1, <1>2, Induction
<1>4. PICK t : Upto(t, Len(data))
  BY <1>3
<1> QED
  <2> DEFINE u == [i \in 0..Len(data) |-> t[i]]
             Line(i) == IF i = 0 THEN <<>>
                        ELSE IF data[i].owner = s
                             THEN Append(u[i - 1], data[i].val)
                             ELSE u[i - 1]
  <2>1. u = [i \in 0..Len(data) |-> Line(i)]
    <3>1. \A i \in 0..Len(data) : u[i] = t[i]
      OBVIOUS
    <3>2. \A i \in 1..Len(data) : t[i] = OwnStep(u[i - 1], data[i], s)
      BY <1>4, <3>1
    <3>3. \A i \in 0..Len(data) : t[i] = Line(i)
      <4> HIDE DEF u
      <4>1. t[0] = Line(0)
        BY <1>4
      <4>2. \A i \in 1..Len(data) : t[i] = Line(i)
        BY <3>2 DEF OwnStep
      <4>3. \A i \in 0..Len(data) : i = 0 \/ i \in 1..Len(data)
        OBVIOUS
      <4> QED
        BY <4>1, <4>2, <4>3
    <3> QED
      BY <3>3
  <2> QED
    BY <2>1, Zenon DEF Owns

\* Own() is the last line of the table.
LEMMA OwnTable ==
  ASSUME NEW object, NEW s, Len(object.data) \in Nat
  PROVE  \E table : /\ Owns(table, object.data, s)
                    /\ Own(object, s) = table[Len(object.data)]
<1> DEFINE table == CHOOSE t : Owns(t, object.data, s)
<1>1. Owns(table, object.data, s)
  <2>1. \E t : Owns(t, object.data, s)
    BY OwnsExists
  <2> QED
    BY <2>1, Zenon
<1>2. Own(object, s) = table[Len(object.data)]
  BY Zenon DEF Own, Owns
<1> QED
  BY <1>1, <1>2

\* The lines of a table, one after the other.
LEMMA OwnsLines ==
  ASSUME NEW table, NEW data, NEW s, Len(data) \in Nat, Owns(table, data, s)
  PROVE  /\ table[0] = <<>>
         /\ \A i \in 1..Len(data) :
              table[i] = OwnStep(table[i - 1], data[i], s)
<1> DEFINE Line(i) == IF i = 0 THEN <<>>
                      ELSE IF data[i].owner = s
                           THEN Append(table[i - 1], data[i].val)
                           ELSE table[i - 1]
<1>1. table = [i \in 0..Len(data) |-> Line(i)]
  BY Zenon DEF Owns
<1>2. \A i \in 0..Len(data) : table[i] = Line(i)
  <2> HIDE DEF Line
  <2> QED
    BY <1>1
<1>3. \A i \in 1..Len(data) : table[i] = Line(i) /\ i # 0
  BY <1>2
<1> QED
  BY <1>2, <1>3 DEF OwnStep

\* What is owned are values of the entries.
LEMMA OwnsType ==
  ASSUME NEW O, NEW V, NEW data \in Seq([owner : O, val : V]), NEW s,
         NEW table, Owns(table, data, s)
  PROVE  \A i \in 0..Len(data) : table[i] \in Seq(V)
<1> DEFINE S == {n \in Nat : n <= Len(data) => table[n] \in Seq(V)}
<1>1. /\ Len(data) \in Nat
      /\ table[0] = <<>>
      /\ \A i \in 1..Len(data) : table[i] = OwnStep(table[i - 1], data[i], s)
  BY OwnsLines
<1>2. 0 \in S
  <2>1. table[0] \in Seq(V)
    BY <1>1, EmptySeq
  <2> QED
    BY <2>1
<1>3. ASSUME NEW n \in Nat, n \in S PROVE n + 1 \in S
  <2> SUFFICES ASSUME n + 1 <= Len(data) PROVE table[n + 1] \in Seq(V)
    OBVIOUS
  <2>1. table[n] \in Seq(V)
    BY <1>1, <1>3
  <2>2. n + 1 \in 1..Len(data)
    BY <1>1
  <2>3. data[n + 1].val \in V
    <3>1. data[n + 1] \in [owner : O, val : V]
      BY <2>2, ElementOfSeq
    <3> QED
      BY <3>1
  <2>4. table[n + 1] = OwnStep(table[n], data[n + 1], s)
    BY <1>1, <2>2
  <2>5. Append(table[n], data[n + 1].val) \in Seq(V)
    BY <2>1, <2>3
  <2> QED
    BY <2>1, <2>4, <2>5 DEF OwnStep
<1>4. Nat \subseteq S
  <2> HIDE DEF S
  <2> QED
    BY <1>2, <1>3, Induction
<1> QED
  BY <1>1, <1>4

\* Writing more changes nothing of what the first entries were.
LEMMA OwnsPrefix ==
  ASSUME NEW data, NEW longer, NEW s, NEW t, NEW u,
         Len(data) \in Nat, Len(longer) \in Nat, Len(data) <= Len(longer),
         \A i \in 1..Len(data) : longer[i] = data[i],
         Owns(t, data, s), Owns(u, longer, s)
  PROVE  \A i \in 0..Len(data) : u[i] = t[i]
<1> DEFINE S == {n \in Nat : n <= Len(data) => u[n] = t[n]}
<1>1. /\ t[0] = <<>>
      /\ \A i \in 1..Len(data) : t[i] = OwnStep(t[i - 1], data[i], s)
  BY OwnsLines
<1>2. /\ u[0] = <<>>
      /\ \A i \in 1..Len(longer) : u[i] = OwnStep(u[i - 1], longer[i], s)
  BY OwnsLines
<1>3. 0 \in S
  BY <1>1, <1>2
<1>4. ASSUME NEW n \in Nat, n \in S PROVE n + 1 \in S
  <2> SUFFICES ASSUME n + 1 <= Len(data) PROVE u[n + 1] = t[n + 1]
    OBVIOUS
  <2>1. u[n] = t[n]
    BY <1>4
  <2>2. n + 1 \in 1..Len(data) /\ n + 1 \in 1..Len(longer) /\ (n + 1) - 1 = n
    OBVIOUS
  <2> QED
    BY <1>1, <1>2, <2>1, <2>2
<1>5. Nat \subseteq S
  <2> HIDE DEF S
  <2> QED
    BY <1>3, <1>4, Induction
<1> QED
  BY <1>5

\* Own() returns values of the entries, and nothing of an empty object.
LEMMA OwnType ==
  ASSUME NEW O, NEW V, NEW object, object.data \in Seq([owner : O, val : V]),
         NEW s
  PROVE  /\ Own(object, s) \in Seq(V)
         /\ object.data = <<>> => Own(object, s) = <<>>
<1>1. Len(object.data) \in Nat
  BY LenProperties
<1>2. PICK t : /\ Owns(t, object.data, s)
               /\ Own(object, s) = t[Len(object.data)]
  BY <1>1, OwnTable
<1>3. \A i \in 0..Len(object.data) : t[i] \in Seq(V)
  BY <1>2, OwnsType
<1>4. object.data = <<>> => Len(object.data) = 0 /\ t[0] = <<>>
  BY <1>1, <1>2, OwnsLines, EmptySeq
<1> QED
  BY <1>1, <1>2, <1>3, <1>4

\* One more element of a sequence.
LEMMA LongerByOne ==
  ASSUME NEW V, NEW p \in Seq(V), NEW q \in Seq(V), NEW n \in Nat,
         n + 1 <= Len(q)
  PROVE  p \o SubSeq(q, 1, n + 1) = Append(p \o SubSeq(q, 1, n), q[n + 1])
<1>1. SubSeq(q, 1, n + 1) \in Seq(V) /\ SubSeq(q, 1, n) \in Seq(V)
  OBVIOUS
<1>2. SubSeq(q, 1, n + 1) = SubSeq(q, 1, n) \o <<q[n + 1]>>
  <2>1. SubSeq(q, 1, n + 1) = SubSeq(q, 1, (n + 1) - 1) \o <<q[n + 1]>>
    BY SubSeqRecursiveSecond
  <2> QED
    BY <2>1
<1>3. q[n + 1] \in V /\ <<q[n + 1]>> \in Seq(V)
  OBVIOUS
<1>4. p \o SubSeq(q, 1, n + 1) = (p \o SubSeq(q, 1, n)) \o <<q[n + 1]>>
  BY <1>1, <1>2, <1>3, ConcatAssociative
<1>5. p \o SubSeq(q, 1, n) \in Seq(V)
  BY <1>1, ConcatProperties
<1> QED
  BY <1>3, <1>4, <1>5, AppendIsConcat

\* e is d followed by the values vals, all of them written by w.
Followed(e, d, w, vals) ==
  /\ Len(d) \in Nat
  /\ Len(e) = Len(d) + Len(vals)
  /\ \A i \in 1..Len(d) : e[i] = d[i]
  /\ \A i \in 1..Len(vals) : /\ e[Len(d) + i].owner = w
                              /\ e[Len(d) + i].val = vals[i]

\* What s owns after w wrote vals.
Grown(own, vals, w, s) == IF s = w THEN own \o vals ELSE own

\* A table over more entries, all of one writer, goes on where the first ended.
LEMMA OwnsMore ==
  ASSUME NEW V, NEW w, NEW s, NEW vals \in Seq(V), NEW d, NEW e,
         Followed(e, d, w, vals), NEW t, Owns(t, d, s), t[Len(d)] \in Seq(V),
         NEW u, Owns(u, e, s)
  PROVE  u[Len(e)] = Grown(t[Len(d)], vals, w, s)
<1> DEFINE old == t[Len(d)]
           More(n) == IF s = w THEN old \o SubSeq(vals, 1, n) ELSE old
           S == {n \in Nat : n <= Len(vals) => u[Len(d) + n] = More(n)}
<1> HIDE DEF S, More, old
<1>1. /\ Len(vals) \in Nat /\ Len(d) \in Nat /\ Len(e) \in Nat
      /\ Len(d) <= Len(e) /\ Len(e) = Len(d) + Len(vals)
  BY LenProperties DEF Followed
<1>2. u[Len(d)] = old
  <2>1. \A i \in 0..Len(d) : u[i] = t[i]
    BY <1>1, OwnsPrefix, SMTT(30) DEF Followed
  <2> QED
    BY <2>1 DEF old
<1>3. /\ u[0] = <<>>
      /\ \A i \in 1..Len(e) : u[i] = OwnStep(u[i - 1], e[i], s)
  <2>1. Len(e) \in Nat /\ Owns(u, e, s)
    BY <1>1
  <2> QED
    BY ONLY <2>1, OwnsLines, Zenon
<1>4. 0 \in S
  <2>1. SubSeq(vals, 1, 0) = <<>>
    BY SubSeqEmpty
  <2>2. old \o <<>> = old
    BY ConcatEmptySeq DEF old
  <2>3. More(0) = old
    BY <2>1, <2>2 DEF More
  <2>4. Len(d) + 0 = Len(d)
    BY <1>1
  <2> QED
    BY <1>2, <2>3, <2>4 DEF S
<1>5. ASSUME NEW n \in Nat, n \in S PROVE n + 1 \in S
  <2> SUFFICES ASSUME n + 1 <= Len(vals)
               PROVE  u[Len(d) + (n + 1)] = More(n + 1)
    BY DEF S
  <2>1. /\ Len(d) + (n + 1) \in 1..Len(e)
        /\ (Len(d) + (n + 1)) - 1 = Len(d) + n
        /\ n + 1 \in 1..Len(vals)
    BY <1>1
  <2>2. u[Len(d) + (n + 1)] = OwnStep(u[Len(d) + n], e[Len(d) + (n + 1)], s)
    BY <1>3, <2>1
  <2>3. u[Len(d) + n] = More(n)
    BY <1>1, <1>5 DEF S
  <2>4. s = w => More(n + 1) = Append(More(n), vals[n + 1])
    BY LongerByOne DEF More, old
  <2>5. s # w => More(n + 1) = More(n)
    BY DEF More
  <2>6. e[Len(d) + (n + 1)].owner = w /\ e[Len(d) + (n + 1)].val = vals[n + 1]
    BY <2>1 DEF Followed
  <2> QED
    BY <2>2, <2>3, <2>4, <2>5, <2>6 DEF OwnStep
<1>6. Len(vals) \in S
  BY <1>1, <1>4, <1>5, Induction
<1>7. u[Len(e)] = More(Len(vals))
  BY <1>1, <1>6 DEF S
<1>8. SubSeq(vals, 1, Len(vals)) = vals
  BY SubSeqFull
<1> QED
  BY <1>7, <1>8 DEF More, old, Grown

\* The entries of an object with values in V.
Rows(V) == [owner : Session, val : V]

\* new holds what old did and, behind it, what w saved.
Added(new, old, w, vals) == new.data = old.data \o Entries(w, vals)

\* What a session saves is added to what it owns, and to no other session's.
LEMMA OwnSaved ==
  ASSUME NEW V, NEW old, old.data \in Seq(Rows(V)),
         NEW w \in Session, NEW vals \in Seq(V),
         NEW new, Added(new, old, w, vals), NEW s
  PROVE  Own(new, s) = Grown(Own(old, s), vals, w, s)
<1>1. PICK d, c : d = old.data /\ c = Entries(w, vals)
  OBVIOUS
<1>2. /\ c \in Seq(Rows(V))
      /\ Len(c) = Len(vals)
      /\ \A i \in 1..Len(vals) : c[i].owner = w /\ c[i].val = vals[i]
  <2>1. c \in Seq(Rows(V))
    BY <1>1, EntriesType DEF Rows
  <2>2. Len(vals) \in Nat /\ DOMAIN vals = 1..Len(vals)
    BY LenProperties
  <2>3. c = [i \in 1..Len(vals) |-> [owner |-> w, val |-> vals[i]]]
    BY <1>1, <2>2 DEF Entries
  <2>4. Len(c) = Len(vals)
    BY <2>2, <2>3
  <2>5. \A i \in 1..Len(vals) : c[i].owner = w /\ c[i].val = vals[i]
    BY <2>3
  <2> QED
    BY <2>1, <2>4, <2>5
<1>3. Len(d) \in Nat /\ Len(vals) \in Nat /\ d \in Seq(Rows(V))
  BY <1>1, LenProperties
<1>4. PICK e : e = new.data
  OBVIOUS
<1>5. /\ Len(e) = Len(d) + Len(vals)
      /\ \A i \in 1..Len(d) : e[i] = d[i]
      /\ \A i \in 1..Len(vals) : e[Len(d) + i] = c[i]
  <2>1. e = d \o c /\ d \in Seq(Rows(V)) /\ c \in Seq(Rows(V)) /\ Len(c) = Len(vals)
    BY <1>1, <1>2, <1>3, <1>4 DEF Added
  <2>2. Len(e) = Len(d) + Len(vals)
    <3>1. Len(d \o c) = Len(d) + Len(c)
      BY ONLY <2>1, ConcatProperties, Zenon
    <3> QED
      BY ONLY <2>1, <3>1
  <2>3. \A i \in 1..Len(d) : e[i] = d[i]
    BY ONLY <2>1
  <2>4. \A i \in 1..Len(vals) : e[Len(d) + i] = c[i]
    BY ONLY <2>1
  <2> QED
    BY <2>2, <2>3, <2>4
<1>6. Followed(e, d, w, vals)
  BY <1>2, <1>3, <1>5 DEF Followed
<1>7. PICK t : Owns(t, d, s) /\ Own(old, s) = t[Len(d)]
  BY <1>1, <1>3, OwnTable
<1>8. PICK u : Owns(u, e, s) /\ Own(new, s) = u[Len(e)]
  <2>1. Len(new.data) \in Nat
    BY <1>3, <1>4, <1>5
  <2> QED
    BY <1>4, <2>1, OwnTable
<1>9. t[Len(d)] \in Seq(V)
  BY <1>1, <1>7, OwnType, Zenon DEF Rows
<1>10. u[Len(e)] = Grown(t[Len(d)], vals, w, s)
  <2>1. vals \in Seq(V) /\ Owns(t, d, s) /\ Owns(u, e, s)
    BY <1>7, <1>8
  <2> QED
    BY ONLY <1>6, <1>9, <2>1, OwnsMore
<1> QED
  BY <1>7, <1>8, <1>10

-----------------------------------------------------------------------------
(* What a save can leave of what a session owns.                           *)

\* The segments of the abstract log.
Pieces(seq) ==
  {SubSeq(seq, m, n) : m \in 1..(Len(seq) + 1), n \in 0..Len(seq)}

LEMMA PieceIs ==
  ASSUME NEW seq, NEW m \in 1..(Len(seq) + 1), NEW n \in 0..Len(seq)
  PROVE  SubSeq(seq, m, n) \in Pieces(seq)
BY DEF Pieces

\* The front and the back of a sequence, and its two trivial segments.
LEMMA PiecesOf ==
  ASSUME NEW V, NEW q \in Seq(V), NEW r \in Seq(V)
  PROVE  /\ q \in Pieces(q) /\ <<>> \in Pieces(q)
         /\ q \in Pieces(q \o r) /\ r \in Pieces(q \o r)
         /\ SubSeq(q \o r, 1, Len(q)) = q
<1>1. Len(q) \in Nat /\ Len(r) \in Nat
  BY LenProperties
<1>2. q \o r \in Seq(V) /\ Len(q \o r) = Len(q) + Len(r)
  BY ConcatProperties
<1>3. q \in Pieces(q)
  <2>1. SubSeq(q, 1, Len(q)) = q
    BY SubSeqFull
  <2>2. 1 \in 1..(Len(q) + 1) /\ Len(q) \in 0..Len(q)
    BY <1>1
  <2> QED
    BY <2>1, <2>2 DEF Pieces
<1>4. <<>> \in Pieces(q)
  <2>1. SubSeq(q, 1, 0) = <<>>
    BY SubSeqEmpty
  <2>2. 1 \in 1..(Len(q) + 1) /\ 0 \in 0..Len(q)
    BY <1>1
  <2> QED
    BY <2>1, <2>2 DEF Pieces
<1>5. SubSeq(q \o r, 1, Len(q)) = q
  <2>1. /\ SubSeq(q \o r, 1, Len(q)) \in Seq(V)
        /\ Len(SubSeq(q \o r, 1, Len(q))) = Len(q)
        /\ \A i \in 1..Len(q) : SubSeq(q \o r, 1, Len(q))[i] = q[i]
    BY <1>1, <1>2
  <2> QED
    BY <2>1, SeqEqual
<1>6. SubSeq(q \o r, Len(q) + 1, Len(q) + Len(r)) = r
  <2> DEFINE back == SubSeq(q \o r, Len(q) + 1, Len(q) + Len(r))
  <2>1. /\ back \in Seq(V)
        /\ Len(back) = Len(r)
        /\ \A i \in 1..Len(r) : back[i] = r[i]
    BY <1>1, <1>2
  <2> QED
    BY <2>1, SeqEqual
<1>7. q \in Pieces(q \o r)
  <2>1. 1 \in 1..(Len(q \o r) + 1) /\ Len(q) \in 0..Len(q \o r)
    BY <1>1, <1>2
  <2> QED
    BY <1>5, <2>1 DEF Pieces
<1>8. r \in Pieces(q \o r)
  <2>1. PICK m, n : m = Len(q) + 1 /\ n = Len(q) + Len(r)
    OBVIOUS
  <2>2. SubSeq(q \o r, m, n) = r
    BY <1>6, <2>1
  <2>3. m \in 1..(Len(q \o r) + 1) /\ n \in 0..Len(q \o r)
    BY <1>1, <1>2, <2>1
  <2> QED
    BY ONLY <2>2, <2>3, PieceIs
<1> QED
  BY <1>3, <1>4, <1>5, <1>7, <1>8

\* What s may own once w saved vals: see SaveOutcomes().
Leftovers(own, vals, w, s, fails) ==
  IF fails THEN {own, <<>>, Grown(<<>>, vals, w, s), Grown(own, vals, w, s)}
           ELSE {Grown(own, vals, w, s)}

\* Storage that works adds what was saved; storage that may not can also leave
\* the object alone, empty it, or leave nothing but what was saved.
LEMMA OwnOutcomes ==
  ASSUME NEW V, NEW obj, obj.data \in Seq(Rows(V)),
         ~obj.exists => obj.data = <<>>,
         NEW w \in Session, NEW vals \in Seq(V), NEW fails \in BOOLEAN,
         NEW saved \in SaveOutcomes(obj, Entries(w, vals), fails), NEW s
  PROVE  Own(saved, s) \in Leftovers(Own(obj, s), vals, w, s, fails)
<1> DEFINE chunk == Entries(w, vals)
           empty == Holding(<<>>)
<1>1. chunk \in Seq(Rows(V))
  BY EntriesType DEF Rows
<1>2. /\ Holding(obj.data \o chunk).data = obj.data \o chunk
      /\ Holding(chunk).data = <<>> \o chunk
      /\ empty.data = <<>>
      /\ \A q : Holding(q).exists
  BY <1>1, ConcatEmptySeq DEF Holding
<1>3. Own(Holding(obj.data \o chunk), s) = Grown(Own(obj, s), vals, w, s)
  <2>1. PICK new : new = Holding(obj.data \o chunk)
    OBVIOUS
  <2>2. /\ obj.data \in Seq(Rows(V))
        /\ w \in Session /\ vals \in Seq(V)
        /\ Added(new, obj, w, vals)
    BY <1>2, <2>1 DEF Added
  <2>3. Own(new, s) = Grown(Own(obj, s), vals, w, s)
    BY ONLY <2>2, OwnSaved
  <2> QED
    BY <2>1, <2>3
<1>4. Own(empty, s) = <<>>
  BY <1>2, EmptySeq, OwnType DEF Rows
<1>5. Own(Holding(chunk), s) = Grown(<<>>, vals, w, s)
  <2>1. PICK old, new : old = empty /\ new = Holding(chunk)
    OBVIOUS
  <2>2. /\ old.data \in Seq(Rows(V))
        /\ w \in Session /\ vals \in Seq(V)
        /\ Added(new, old, w, vals)
    BY <1>2, <2>1, EmptySeq DEF Added
  <2>3. Own(new, s) = Grown(Own(old, s), vals, w, s)
    BY ONLY <2>2, OwnSaved
  <2> QED
    BY <1>4, <2>1, <2>3
<1>6. CASE fails = TRUE
  <2>1. saved \in {obj, Holding(obj.data \o chunk), Holding(chunk), empty}
    BY DEF SaveOutcomes, PrepareOutcomes, AppendOutcomes
  <2> HIDE DEF chunk, empty
  <2> QED
    BY <1>2, <1>3, <1>4, <1>5, <1>6, <2>1 DEF empty, Leftovers
<1>7. CASE fails = FALSE
  <2>1. saved = IF obj.exists THEN Holding(obj.data \o chunk) ELSE Holding(chunk)
    BY <1>7 DEF SaveOutcomes, PrepareOutcomes, AppendOutcomes
  <2>2. ~obj.exists => Own(obj, s) = <<>>
    BY OwnType DEF Rows
  <2> HIDE DEF chunk, empty
  <2> QED
    BY <1>2, <1>3, <1>5, <1>7, <2>1, <2>2 DEF Leftovers
<1> QED
  BY <1>6, <1>7

\* An object that was saved exists.
LEMMA SavedExists ==
  ASSUME NEW obj, ~obj.exists => obj.data = <<>>, NEW chunk, NEW fails \in BOOLEAN,
         NEW saved \in SaveOutcomes(obj, chunk, fails)
  PROVE  ~saved.exists => saved.data = <<>>
<1>1. saved \in {obj, Holding(obj.data \o chunk), Holding(chunk), Holding(<<>>)}
  BY DEF SaveOutcomes, PrepareOutcomes, AppendOutcomes
<1>2. \A q : Holding(q).exists
  BY DEF Holding
<1> QED
  BY <1>1, <1>2

-----------------------------------------------------------------------------
(* The inductive invariant of the refinement.                              *)

Val(b) == IF b = "rethash" THEN HashStates ELSE Word \cup {0, 1}

\* What Recorded() adds to the object, and what the log calls ctrl.
Buffered(s, ch) == IF Running(s) THEN ctx[s].buf[ch] ELSE <<>>
Ctrl(s)         == IF Running(s) THEN ctx[s].S.fed ELSE <<>>

\* An initialised instance is open, has a modulus and an unfinished hash.
ProtocolOK ==
  \A s \in Session : /\ session[s] # "open" => ~ctx[s].initialized
                     /\ ctx[s].initialized => ctx[s].p # 0 /\ ~ctx[s].S.last

\* An object that does not exist holds nothing.
ObjectsOK == \A b \in Blob : ~blob[b].exists => blob[b].data = <<>>

\* Storage that does not fail keeps what quotes committed.
CommittedOK ==
  /\ committed \in [Session -> [Chan -> Nat]]
  /\ ~mayFail => \A s \in Session, ch \in Chan :
                   committed[s][ch] <= Len(Own(blob[ch], s))

LogInv == IInv /\ ProtocolOK /\ ObjectsOK /\ CommittedOK

\* What IInv says of one object, of one session and of a channel.
LEMMA LogTypes ==
  ASSUME IInv, NEW b \in Blob, NEW s \in Session, NEW ch \in Chan
  PROVE  /\ blob[b].data \in Seq(Rows(Val(b)))
         /\ Own(blob[b], s) \in Seq(Val(b))
         /\ Own(blob[ch], s) \in Seq(Word \cup {0, 1})
         /\ ctx[s].buf[ch] \in Seq(Word \cup {0, 1})
         /\ Buffered(s, ch) \in Seq(Word \cup {0, 1})
         /\ ctx[s].S \in HashStates
         /\ mayFail \in BOOLEAN
<1>1. \A x \in Blob : blob[x].data \in Seq(Rows(Val(x)))
  <2> SUFFICES ASSUME NEW x \in Blob PROVE blob[x].data \in Seq(Rows(Val(x)))
    OBVIOUS
  <2>1. blob[x] \in Objects(Val(x))
    BY DEF IInv, EnvironmentOK, Val, Blob, Chan
  <2> HIDE DEF Val
  <2> QED
    BY <2>1 DEF Objects, Rows
<1>2. \A x \in Blob : Own(blob[x], s) \in Seq(Val(x))
  BY <1>1, OwnType DEF Rows
<1>3. ch \in Blob /\ Val(ch) = Word \cup {0, 1}
  BY DEF Blob, Chan, Val
<1>4. Own(blob[ch], s) \in Seq(Word \cup {0, 1})
  BY <1>2, <1>3
<1>5. ctx[s] \in Contexts
  BY DEF IInv, ContextsOK, ContextOK
<1>6. ctx[s].buf[ch] \in Seq(Word \cup {0, 1}) /\ ctx[s].S \in HashStates
  BY <1>5 DEF Contexts
<1>7. Buffered(s, ch) \in Seq(Word \cup {0, 1})
  BY <1>6, EmptySeq DEF Buffered
<1>8. mayFail \in BOOLEAN
  BY ConstantsAssumption DEF IInv, EnvironmentOK
<1> QED
  BY <1>1, <1>2, <1>4, <1>6, <1>7, <1>8

\* The same of the next state, for a channel's object.
LEMMA LogTypesNext ==
  ASSUME IInv', NEW s \in Session, NEW ch \in Chan
  PROVE  Own(blob[ch], s)' \in Seq(Word \cup {0, 1})
<1>1. blob'[ch] \in Objects(Word \cup {0, 1})
  BY DEF IInv, EnvironmentOK
<1>2. PICK object : object = blob'[ch]
  OBVIOUS
<1>3. object.data \in Seq([owner : Session, val : Word \cup {0, 1}])
  BY <1>1, <1>2 DEF Objects
<1>4. Own(object, s) \in Seq(Word \cup {0, 1})
  BY <1>3, OwnType
<1> QED
  BY <1>2, <1>4

\* What may be left of a sequence, as the abstract log has it.
Left(seq) == IF mayFail THEN Pieces(seq) ELSE {seq}

LEMMA LeftIsKept ==
  ASSUME NEW s, NEW seq PROVE LogOf(s)!Kept(seq) = Left(seq)
BY DEF LogOf!Kept, LogOf!Segments, Left, Pieces

\* One object after session s saved vals to it.
LEMMA Saved ==
  ASSUME IInv, ObjectsOK, NEW b \in Blob, NEW s \in Session,
         NEW vals \in Seq(Val(b)),
         NEW saved \in SaveOutcomes(blob[b], Entries(s, vals), mayFail),
         NEW x \in Session
  PROVE  /\ ~saved.exists => saved.data = <<>>
         /\ Own(saved, s) \in Left(Own(blob[b], s) \o vals)
         /\ x # s => \/ Own(saved, x) = Own(blob[b], x)
                     \/ mayFail /\ Own(saved, x) = <<>>
<1>1. /\ blob[b].data \in Seq(Rows(Val(b)))
      /\ ~blob[b].exists => blob[b].data = <<>>
  BY LogTypes DEF ObjectsOK, Chan
<1>3. Own(blob[b], s) \in Seq(Val(b)) /\ mayFail \in BOOLEAN
  BY LogTypes DEF Chan
<1>2. \A y : Own(saved, y) \in Leftovers(Own(blob[b], y), vals, s, y, mayFail)
  <2>1. s \in Session /\ vals \in Seq(Val(b))
          /\ saved \in SaveOutcomes(blob[b], Entries(s, vals), mayFail)
    OBVIOUS
  <2> QED
    BY ONLY <1>1, <1>3, <2>1, OwnOutcomes
<1>4. Own(saved, s) \in Left(Own(blob[b], s) \o vals)
  <2> DEFINE q == Own(blob[b], s)
  <2>1. q \o vals \in Seq(Val(b)) /\ <<>> \o vals = vals
    BY <1>3, ConcatProperties, ConcatEmptySeq
  <2>2. /\ q \o vals \in Pieces(q \o vals) /\ <<>> \in Pieces(q \o vals)
        /\ q \in Pieces(q \o vals) /\ vals \in Pieces(q \o vals)
    BY <1>3, <2>1, PiecesOf
  <2> HIDE DEF q
  <2>3. Own(saved, s) \in {q, <<>>, vals, q \o vals}
    BY <1>2, <2>1 DEF Grown, Leftovers, q
  <2>4. ~mayFail => Own(saved, s) = q \o vals
    BY <1>2, <1>3 DEF Grown, Leftovers, q
  <2> QED
    BY <2>2, <2>3, <2>4 DEF Left, q
<1>5. x # s => \/ Own(saved, x) = Own(blob[b], x)
               \/ mayFail /\ Own(saved, x) = <<>>
  BY <1>2, <1>3 DEF Grown, Leftovers
<1>6. ~saved.exists => saved.data = <<>>
  BY <1>1, <1>3, SavedExists
<1> QED
  BY <1>4, <1>5, <1>6

-----------------------------------------------------------------------------
(* Digests: what they cover.                                               *)

Fed(own) == [i \in DOMAIN own |-> own[i].fed]
Bytes    == Seq(Word \X Word)

LEMMA CoveredIs == ASSUME NEW s PROVE Covered(s) = Fed(Own(blob["rethash"], s))
BY DEF Covered, Fed

\* One value per digest.
LEMMA FedType ==
  ASSUME NEW q \in Seq(HashStates)
  PROVE  /\ Fed(q) \in Seq(Bytes)
         /\ Len(Fed(q)) = Len(q)
         /\ \A i \in 1..Len(q) : Fed(q)[i] = q[i].fed
<1>1. Len(q) \in Nat /\ DOMAIN q = 1..Len(q)
  BY LenProperties
<1>2. \A i \in 1..Len(q) : q[i].fed \in Bytes
  <2> SUFFICES ASSUME NEW i \in 1..Len(q) PROVE q[i].fed \in Bytes
    OBVIOUS
  <2>1. q[i] \in HashStates
    BY ElementOfSeq
  <2> QED
    BY <2>1 DEF HashStates, Bytes
<1>3. Fed(q) = [i \in 1..Len(q) |-> q[i].fed]
  BY <1>1 DEF Fed
<1> QED
  BY <1>1, <1>2, <1>3

\* One more for one more digest.
LEMMA FedAppend ==
  ASSUME NEW own \in Seq(HashStates), NEW d \in HashStates
  PROVE  Fed(own \o <<d>>) = Append(Fed(own), d.fed) /\ d.fed \in Bytes
<1>2. d.fed \in Bytes
  BY DEF HashStates, Bytes
<1>3. Fed(own \o <<d>>) = Append(Fed(own), d.fed)
  <2>1. /\ own \o <<d>> \in Seq(HashStates)
        /\ Len(own \o <<d>>) = Len(own) + 1
        /\ \A i \in 1..Len(own) : (own \o <<d>>)[i] = own[i]
        /\ (own \o <<d>>)[Len(own) + 1] = d
        /\ Len(own) \in Nat
    OBVIOUS
  <2>2. PICK longer : longer = own \o <<d>>
    OBVIOUS
  <2>3. /\ Fed(longer) \in Seq(Bytes)
        /\ Len(Fed(longer)) = Len(own) + 1
        /\ \A i \in 1..(Len(own) + 1) : Fed(longer)[i] = longer[i].fed
    BY FedType, <2>1, <2>2
  <2>4. \A i \in 1..Len(own) : longer[i] = own[i]
    BY <2>1, <2>2
  <2>5. longer[Len(own) + 1] = d
    BY <2>1, <2>2
  <2>6. /\ Append(Fed(own), d.fed) \in Seq(Bytes)
        /\ Len(Append(Fed(own), d.fed)) = Len(own) + 1
        /\ \A i \in 1..Len(own) : Append(Fed(own), d.fed)[i] = own[i].fed
        /\ Append(Fed(own), d.fed)[Len(own) + 1] = d.fed
    <3> HIDE DEF Bytes
    <3>1. Fed(own) \in Seq(Bytes) /\ Len(Fed(own)) = Len(own)
            /\ \A i \in 1..Len(own) : Fed(own)[i] = own[i].fed
      BY FedType
    <3> QED
      BY ONLY <1>2, <2>1, <3>1
  <2>7. \A i \in 1..(Len(own) + 1) :
          Fed(longer)[i] = Append(Fed(own), d.fed)[i]
    <3>1. \A i \in 1..(Len(own) + 1) : i \in 1..Len(own) \/ i = Len(own) + 1
      BY <2>1
    <3> QED
      BY <2>3, <2>4, <2>5, <2>6, <3>1
  <2>8. Fed(longer) = Append(Fed(own), d.fed)
    <3>1. PICK p, r : p = Fed(longer) /\ r = Append(Fed(own), d.fed)
      OBVIOUS
    <3>2. /\ p \in Seq(Bytes) /\ r \in Seq(Bytes) /\ Len(p) = Len(r)
          /\ \A i \in 1..Len(p) : p[i] = r[i]
      BY <2>3, <2>6, <2>7, <3>1
    <3>3. p = r
      BY ONLY <3>2, SeqEqual
    <3> QED
      BY <3>1, <3>3
  <2> QED
    BY <2>2, <2>8
<1> QED
  BY <1>2, <1>3

\* A segment of the digests covers a segment of what they cover.
LEMMA FedLeft ==
  ASSUME NEW own \in Seq(HashStates), NEW p \in Left(own)
  PROVE  Fed(p) \in Left(Fed(own))
<1>1. CASE mayFail
  <2>1. PICK m \in 1..(Len(own) + 1), n \in 0..Len(own) : p = SubSeq(own, m, n)
    BY <1>1 DEF Left, Pieces
  <2>2. Len(own) \in Nat
    BY LenProperties
  <2>3. Fed(own) \in Seq(Bytes) /\ Len(Fed(own)) = Len(own)
          /\ \A i \in 1..Len(own) : Fed(own)[i] = own[i].fed
    BY FedType
  <2>4. Fed(p) = SubSeq(Fed(own), m, n)
    <3> DEFINE k == IF m <= n THEN n - m + 1 ELSE 0
    <3>1. k \in Nat /\ \A i \in 1..k : i \in 1..(n - m + 1) /\ m + i - 1 \in 1..Len(own)
      BY <2>2
    <3>2. /\ p \in Seq(HashStates) /\ Len(p) = k
          /\ \A i \in 1..k : p[i] = own[m + i - 1]
      BY <2>1, <2>2, <3>1
    <3>3. /\ Fed(p) \in Seq(Bytes) /\ Len(Fed(p)) = k
          /\ \A i \in 1..k : Fed(p)[i] = own[m + i - 1].fed
      <4>1. /\ Fed(p) \in Seq(Bytes) /\ Len(Fed(p)) = Len(p)
            /\ \A i \in 1..Len(p) : Fed(p)[i] = p[i].fed
        BY <3>2, FedType, Zenon
      <4> QED
        BY <3>2, <4>1, Zenon
    <3>4. PICK f, g : f = Fed(own) /\ g = SubSeq(f, m, n)
      OBVIOUS
    <3>5. g \in Seq(Bytes) /\ Len(g) = k /\ \A i \in 1..k : g[i] = f[m + i - 1]
      <4>1. f \in Seq(Bytes) /\ Len(f) = Len(own)
        BY <2>3, <3>4
      <4> HIDE DEF Bytes
      <4> QED
        BY ONLY <2>2, <3>1, <3>4, <4>1, SMTT(30)
    <3>6. \A i \in 1..k : g[i] = Fed(p)[i]
      BY <2>3, <3>1, <3>3, <3>4, <3>5
    <3>7. PICK h : h = Fed(p)
      OBVIOUS
    <3>8. /\ g \in Seq(Bytes) /\ h \in Seq(Bytes) /\ Len(g) = Len(h)
          /\ \A i \in 1..Len(g) : g[i] = h[i]
      BY <3>3, <3>5, <3>6, <3>7
    <3>9. g = h
      BY ONLY <3>8, SeqEqual
    <3> QED
      BY <3>4, <3>7, <3>9
  <2>5. m \in 1..(Len(Fed(own)) + 1) /\ n \in 0..Len(Fed(own))
    BY <2>3
  <2> QED
    BY <1>1, <2>4, <2>5, PieceIs DEF Left
<1>2. CASE ~mayFail
  BY <1>2 DEF Left
<1> QED
  BY <1>1, <1>2

-----------------------------------------------------------------------------
(* The actions of the abstract log, in terms of the mapping.               *)

LEMMA RecordedIs ==
  ASSUME NEW s
  PROVE  /\ DOMAIN Recorded(s) = Chan
         /\ Recorded(s) = [ch \in Chan |-> Recorded(s)[ch]]
         /\ \A ch \in Chan : Recorded(s)[ch] = Own(blob[ch], s) \o Buffered(s, ch)
BY DEF Recorded, Buffered

LEMMA StutterIs ==
  ASSUME NEW s,
         UNCHANGED <<Running(s), Recorded(s), committed[s], Ctrl(s), Covered(s),
                     mayFail>>
  PROVE  [LogOf(s)!Next]_(LogOf(s)!vars)
BY DEF LogOf!vars, Ctrl

LEMMA LoseIs ==
  ASSUME NEW s, mayFail = TRUE,
         UNCHANGED <<Running(s), committed[s], Ctrl(s), mayFail>>,
         \A ch \in Chan : Recorded(s)'[ch] \in Left(Recorded(s)[ch]),
         Covered(s)' \in Left(Covered(s))
  PROVE  [LogOf(s)!Next]_(LogOf(s)!vars)
<1>1. DOMAIN Recorded(s)' = Chan
  BY DEF Recorded
<1>2. LogOf(s)!Lose
  BY <1>1, LeftIsKept DEF LogOf!Lose, Ctrl
<1> QED
  BY <1>2 DEF LogOf!Next

LEMMA BeginIs ==
  ASSUME NEW s, ~Running(s), Running(s)',
         UNCHANGED <<Recorded(s), committed[s], Ctrl(s), Covered(s), mayFail>>
  PROVE  [LogOf(s)!Next]_(LogOf(s)!vars)
<1>1. LogOf(s)!Begin
  BY DEF LogOf!Begin, Ctrl, Running
<1> QED
  BY <1>1 DEF LogOf!Next

LEMMA RecordIs ==
  ASSUME NEW s, Running(s), Running(s)', NEW ch \in Chan,
         NEW e \in Word \cup {0, 1}, NEW kept \in Left(Recorded(s)[ch]),
         Recorded(s)' = [Recorded(s) EXCEPT ![ch] = Append(kept, e)],
         UNCHANGED <<committed[s], Ctrl(s), Covered(s), mayFail>>
  PROVE  [LogOf(s)!Next]_(LogOf(s)!vars)
<1>1. LogOf(s)!Record(ch, e)
  <2>1. kept \in LogOf(s)!Kept(Recorded(s)[ch])
    BY LeftIsKept
  <2>2. Running(s)' = Running(s)
    BY DEF Running
  <2> QED
    BY <2>1, <2>2 DEF LogOf!Record, Ctrl
<1> QED
  BY <1>1 DEF LogOf!Next

LEMMA AbsorbIs ==
  ASSUME NEW s, Running(s), Running(s)', NEW p \in Word \X Word,
         Ctrl(s)' = Append(Ctrl(s), p),
         UNCHANGED <<Recorded(s), committed[s], Covered(s), mayFail>>
  PROVE  [LogOf(s)!Next]_(LogOf(s)!vars)
<1>1. LogOf(s)!Absorb(p)
  BY DEF LogOf!Absorb, Ctrl, Running
<1> QED
  BY <1>1 DEF LogOf!Next

LEMMA CommitIs ==
  ASSUME NEW s, Running(s), ~Running(s)', UNCHANGED mayFail,
         \A ch \in Chan : Recorded(s)'[ch] \in Left(Recorded(s)[ch]),
         Covered(s)' \in Left(Append(Covered(s), Ctrl(s))),
         committed'[s] = [ch \in Chan |-> Len(Recorded(s)'[ch])]
  PROVE  [LogOf(s)!Next]_(LogOf(s)!vars)
<1>1. DOMAIN Recorded(s)' = Chan
  BY DEF Recorded
<1>2. LogOf(s)!Commit
  BY <1>1, LeftIsKept DEF LogOf!Commit, Ctrl, Running
<1> QED
  BY <1>2 DEF LogOf!Next

LEMMA AbandonIs ==
  ASSUME NEW s, Running(s), ~Running(s)',
         \A ch \in Chan :
           \E n \in (IF mayFail THEN 0 ELSE committed[s][ch])..Len(Recorded(s)[ch]) :
             Recorded(s)'[ch] = SubSeq(Recorded(s)[ch], 1, n),
         UNCHANGED <<committed[s], Covered(s), mayFail>>
  PROVE  [LogOf(s)!Next]_(LogOf(s)!vars)
<1>1. DOMAIN Recorded(s)' = Chan
  BY DEF Recorded
<1>2. LogOf(s)!Abandon
  BY <1>1 DEF LogOf!Abandon, Ctrl, Running
<1> QED
  BY <1>2 DEF LogOf!Next

-----------------------------------------------------------------------------
(* What a step is for one session.                                         *)

\* A session whose operation, buffers and share of the objects stay the same.
LEMMA Untouched ==
  ASSUME NEW x \in Session,
         UNCHANGED <<Running(x), Ctrl(x), committed[x], mayFail>>,
         \A ch \in Chan : Buffered(x, ch)' = Buffered(x, ch),
         \A b \in Blob : Own(blob'[b], x) = Own(blob[b], x)
  PROVE  [LogOf(x)!Next]_(LogOf(x)!vars)
<1>1. Recorded(x)' = Recorded(x)
  <2>1. \A ch \in Chan : Own(blob'[ch], x) = Own(blob[ch], x)
    BY DEF Blob
  <2>2. Recorded(x)' = [ch \in Chan |-> Own(blob'[ch], x) \o Buffered(x, ch)']
    BY DEF Recorded, Buffered
  <2>3. Recorded(x) = [ch \in Chan |-> Own(blob[ch], x) \o Buffered(x, ch)]
    BY DEF Recorded, Buffered
  <2> HIDE DEF Recorded, Buffered
  <2> QED
    BY <2>1, <2>2, <2>3, Zenon
<1>2. Covered(x)' = Covered(x)
  <2>1. Own(blob'["rethash"], x) = Own(blob["rethash"], x)
    BY DEF Blob
  <2> QED
    BY <2>1, Zenon DEF Covered
<1> QED
  BY <1>1, <1>2, StutterIs

\* Another session's step: on failing storage it may empty a shared object.
LEMMA Observer ==
  ASSUME IInv, NEW x \in Session,
         UNCHANGED <<session[x], ctx[x], committed[x], mayFail>>,
         \A b \in Blob : \/ Own(blob'[b], x) = Own(blob[b], x)
                         \/ mayFail /\ Own(blob'[b], x) = <<>>
  PROVE  [LogOf(x)!Next]_(LogOf(x)!vars)
<1>1. UNCHANGED <<Running(x), Ctrl(x), committed[x], mayFail>>
  BY DEF Running, Ctrl
<1>2. \A ch \in Chan : Buffered(x, ch)' = Buffered(x, ch)
  BY DEF Running, Buffered
<1>3. CASE mayFail = TRUE
  <2>1. ASSUME NEW ch \in Chan
        PROVE  Recorded(x)'[ch] \in Left(Recorded(x)[ch])
    <3> DEFINE q == Own(blob[ch], x)
               r == Buffered(x, ch)
    <3>1. q \in Seq(Word \cup {0, 1}) /\ r \in Seq(Word \cup {0, 1})
      BY LogTypes DEF Blob
    <3>2. Recorded(x)[ch] = q \o r
      BY RecordedIs
    <3>3. Recorded(x)'[ch] = Own(blob'[ch], x) \o r
      BY <1>2 DEF Recorded, Buffered
    <3>4. Own(blob'[ch], x) = q \/ Own(blob'[ch], x) = <<>>
      BY DEF Blob
    <3>5. q \o r \in Seq(Word \cup {0, 1}) /\ <<>> \o r = r
      BY <3>1, ConcatProperties, ConcatEmptySeq
    <3>6. q \o r \in Pieces(q \o r) /\ r \in Pieces(q \o r)
      BY <3>1, <3>5, PiecesOf
    <3> HIDE DEF q, r
    <3> QED
      BY <1>3, <3>2, <3>3, <3>4, <3>5, <3>6 DEF Left
  <2>2. Covered(x)' \in Left(Covered(x))
    <3> DEFINE own == Own(blob["rethash"], x)
    <3>1. Covered(x) = Fed(own) /\ Covered(x)' = Fed(Own(blob'["rethash"], x))
      BY DEF Covered, Fed
    <3>2. own \in Seq(HashStates)
      <4>1. "rethash" \in Blob /\ Val("rethash") = HashStates
        BY DEF Blob, Val
      <4> QED
        BY <4>1, LogTypes DEF Chan
    <3>3. own \in Left(own) /\ <<>> \in Left(own)
      BY <1>3, <3>2, PiecesOf DEF Left
    <3>4. Own(blob'["rethash"], x) \in {own, <<>>}
      BY DEF Blob
    <3> HIDE DEF own
    <3> QED
      BY <3>1, <3>2, <3>3, <3>4, FedLeft
  <2> QED
    BY <1>1, <1>3, <2>1, <2>2, LoseIs
<1>4. CASE mayFail # TRUE
  <2>1. \A b \in Blob : Own(blob'[b], x) = Own(blob[b], x)
    BY <1>4
  <2> QED
    BY <1>1, <1>2, <2>1, Untouched
<1> QED
  BY <1>3, <1>4

\* The instance goes: what it had buffered is lost, what it had stored stays.
LEMMA CutShort ==
  ASSUME IInv, CommittedOK, NEW x \in Session, ~Running(x)',
         UNCHANGED <<blob, committed[x], mayFail>>
  PROVE  [LogOf(x)!Next]_(LogOf(x)!vars)
<1>1. Covered(x)' = Covered(x)
  BY DEF Covered
<1>2. CASE Running(x)
  <2> SUFFICES ASSUME NEW ch \in Chan
               PROVE  \E n \in (IF mayFail THEN 0 ELSE committed[x][ch])
                                 ..Len(Recorded(x)[ch]) :
                        Recorded(x)'[ch] = SubSeq(Recorded(x)[ch], 1, n)
    BY <1>1, <1>2, AbandonIs
  <2> DEFINE q == Own(blob[ch], x)
             r == Buffered(x, ch)
  <2>1. q \in Seq(Word \cup {0, 1}) /\ r \in Seq(Word \cup {0, 1})
    BY LogTypes DEF Blob
  <2>2. Recorded(x)[ch] = q \o r
    BY RecordedIs
  <2>3. Recorded(x)'[ch] = q
    <3>1. Recorded(x)'[ch] = q \o <<>>
      BY DEF Recorded, Running
    <3> QED
      BY <2>1, <3>1, ConcatEmptySeq
  <2>4. SubSeq(q \o r, 1, Len(q)) = q
    BY <2>1, PiecesOf
  <2>5. Len(q) \in (IF mayFail THEN 0 ELSE committed[x][ch])..Len(q \o r)
    <3>1. Len(q \o r) = Len(q) + Len(r) /\ Len(q) \in Nat /\ Len(r) \in Nat
      BY <2>1, ConcatProperties, LenProperties
    <3>2. committed[x][ch] \in Nat
      BY DEF CommittedOK
    <3>3. ~mayFail => committed[x][ch] <= Len(q)
      BY DEF CommittedOK
    <3> HIDE DEF q, r
    <3> QED
      BY <3>1, <3>2, <3>3
  <2> HIDE DEF q, r
  <2> QED
    BY <2>2, <2>3, <2>4, <2>5
<1>3. CASE ~Running(x)
  BY <1>3, Untouched DEF Running, Ctrl, Buffered
<1> QED
  BY <1>2, <1>3

-----------------------------------------------------------------------------
(* What a step of s does to the other sessions, and to the invariant.      *)

\* The objects changed only through what s saved to them.
Stored(s) ==
  /\ \A b \in Blob : ~blob'[b].exists => blob'[b].data = <<>>
  /\ \A b \in Blob, x \in Session :
       x # s => \/ Own(blob'[b], x) = Own(blob[b], x)
                \/ mayFail /\ Own(blob'[b], x) = <<>>
  /\ ~mayFail => \A ch \in Chan :
                   Len(Own(blob[ch], s)) <= Len(Own(blob'[ch], s))

\* What every step of s has in common.
Local(s) ==
  /\ Stored(s)
  /\ UNCHANGED mayFail
  /\ \A x \in Session : x # s => UNCHANGED <<session[x], ctx[x], committed[x]>>
  /\ \/ committed' = committed
     \/ committed' = [committed EXCEPT
                        ![s] = [ch \in Chan |-> Len(Own(blob'[ch], s))]]
  /\ session'[s] # "open" => ~ctx'[s].initialized
  /\ ctx'[s].initialized => ctx'[s].p # 0 /\ ~ctx'[s].S.last

LEMMA StoredIs ==
  ASSUME IInv, ObjectsOK, NEW s \in Session,
         \A b \in Blob :
           \/ blob'[b] = blob[b]
           \/ \E vals \in Seq(Val(b)) :
                blob'[b] \in SaveOutcomes(blob[b], Entries(s, vals), mayFail)
  PROVE  Stored(s)
<1>1. ASSUME NEW b \in Blob, NEW x \in Session
      PROVE  /\ ~blob'[b].exists => blob'[b].data = <<>>
             /\ x # s => \/ Own(blob'[b], x) = Own(blob[b], x)
                         \/ mayFail /\ Own(blob'[b], x) = <<>>
             /\ ~mayFail => Len(Own(blob[b], s)) <= Len(Own(blob'[b], s))
  <2>1. Own(blob[b], s) \in Seq(Val(b))
    BY LogTypes DEF Chan
  <2>2. CASE blob'[b] = blob[b]
    <3>1. ~blob[b].exists => blob[b].data = <<>>
      BY DEF ObjectsOK
    <3>2. Len(Own(blob[b], s)) \in Nat
      BY <2>1, LenProperties
    <3> QED
      BY <2>2, <3>1, <3>2
  <2>3. CASE blob'[b] # blob[b]
    <3>1. PICK vals \in Seq(Val(b)) :
            blob'[b] \in SaveOutcomes(blob[b], Entries(s, vals), mayFail)
      BY <2>3
    <3>2. PICK saved : saved = blob'[b]
      OBVIOUS
    <3>3. saved \in SaveOutcomes(blob[b], Entries(s, vals), mayFail)
      BY <3>1, <3>2
    <3>4. /\ ~saved.exists => saved.data = <<>>
          /\ Own(saved, s) \in Left(Own(blob[b], s) \o vals)
          /\ x # s => \/ Own(saved, x) = Own(blob[b], x)
                      \/ mayFail /\ Own(saved, x) = <<>>
      BY <3>3, Saved
    <3>5. ~mayFail => Len(Own(blob[b], s)) <= Len(Own(saved, s))
      <4> SUFFICES ASSUME ~mayFail
                   PROVE  Len(Own(blob[b], s)) <= Len(Own(saved, s))
        OBVIOUS
      <4>1. Own(saved, s) = Own(blob[b], s) \o vals
        BY <3>4 DEF Left
      <4>2. /\ Len(Own(blob[b], s) \o vals) = Len(Own(blob[b], s)) + Len(vals)
            /\ Len(Own(blob[b], s)) \in Nat /\ Len(vals) \in Nat
        BY <2>1, ConcatProperties, LenProperties
      <4> QED
        BY <4>1, <4>2
    <3> QED
      BY <3>2, <3>4, <3>5
  <2> QED
    BY <2>2, <2>3
<1> QED
  BY <1>1 DEF Stored, Blob

LEMMA LocalStep ==
  ASSUME LogInv, IInv', NEW s \in Session, Local(s)
  PROVE  /\ LogInv'
         /\ \A x \in Session : x # s => [LogOf(x)!Next]_(LogOf(x)!vars)
<1>1. IInv /\ ProtocolOK /\ ObjectsOK /\ CommittedOK /\ Stored(s)
  BY DEF LogInv, Local
<1>2. mayFail' = mayFail
  BY DEF Local
<1>3. ProtocolOK'
  <2>1. \A x \in Session : x # s => session'[x] = session[x] /\ ctx'[x] = ctx[x]
    BY DEF Local
  <2>2. \A x \in Session :
          /\ session'[x] # "open" => ~ctx'[x].initialized
          /\ ctx'[x].initialized => ctx'[x].p # 0 /\ ~ctx'[x].S.last
    BY <1>1, <2>1 DEF ProtocolOK, Local
  <2> QED
    BY <2>2 DEF ProtocolOK
<1>4. ObjectsOK'
  BY <1>1 DEF Stored, ObjectsOK
<1>5. \A x \in Session, ch \in Chan : Len(Own(blob'[ch], x)) \in Nat
  <2>1. \A x \in Session, ch \in Chan :
          Own(blob[ch], x)' \in Seq(Word \cup {0, 1})
    BY <1>1, LogTypesNext
  <2> QED
    BY <2>1, LenProperties
<1>6. committed' \in [Session -> [Chan -> Nat]]
  <2>1. committed \in [Session -> [Chan -> Nat]]
    BY <1>1 DEF CommittedOK
  <2>2. [ch \in Chan |-> Len(Own(blob'[ch], s))] \in [Chan -> Nat]
    BY <1>5
  <2>3. PICK n : n = [ch \in Chan |-> Len(Own(blob'[ch], s))]
    OBVIOUS
  <2>4. committed' = committed \/ committed' = [committed EXCEPT ![s] = n]
    BY <2>3 DEF Local
  <2> QED
    BY <2>1, <2>2, <2>3, <2>4
<1>7. ASSUME ~mayFail, NEW x \in Session, NEW ch \in Chan
      PROVE  committed'[x][ch] <= Len(Own(blob'[ch], x))
  <2>1. /\ committed[x][ch] <= Len(Own(blob[ch], x))
        /\ committed[x][ch] \in Nat
        /\ Len(Own(blob[ch], x)) \in Nat
        /\ Len(Own(blob'[ch], x)) \in Nat
    <3>1. Own(blob[ch], x) \in Seq(Word \cup {0, 1})
      BY <1>1, LogTypes DEF Blob
    <3> QED
      BY <1>1, <1>5, <1>7, <3>1, LenProperties DEF CommittedOK
  <2>2. Len(Own(blob[ch], x)) <= Len(Own(blob'[ch], x))
    <3>1. x # s => Own(blob'[ch], x) = Own(blob[ch], x)
      BY <1>1, <1>7 DEF Stored, Blob
    <3>2. x = s => Len(Own(blob[ch], x)) <= Len(Own(blob'[ch], x))
      BY <1>1, <1>7 DEF Stored
    <3> QED
      BY <2>1, <3>1, <3>2
  <2>3. \/ committed'[x][ch] = committed[x][ch]
        \/ committed'[x][ch] = Len(Own(blob'[ch], x))
    <3>1. committed \in [Session -> [Chan -> Nat]]
      BY <1>1 DEF CommittedOK
    <3> QED
      BY <3>1 DEF Local
  <2> QED
    BY <2>1, <2>2, <2>3
<1>8. CommittedOK'
  BY <1>2, <1>6, <1>7 DEF CommittedOK
<1>9. ASSUME NEW x \in Session, x # s
      PROVE  [LogOf(x)!Next]_(LogOf(x)!vars)
  <2>1. UNCHANGED <<session[x], ctx[x], committed[x], mayFail>>
    BY <1>9 DEF Local
  <2>2. \A b \in Blob : \/ Own(blob'[b], x) = Own(blob[b], x)
                        \/ mayFail /\ Own(blob'[b], x) = <<>>
    BY <1>1, <1>9 DEF Stored
  <2> QED
    BY <1>1, <2>1, <2>2, Observer
<1> QED
  BY <1>3, <1>4, <1>8, <1>9 DEF LogInv

-----------------------------------------------------------------------------
(* The steps of a session.                                                 *)

\* Steps that leave the objects and what was committed alone.
LEMMA LocalQuiet ==
  ASSUME LogInv, NEW s \in Session, UNCHANGED <<blob, committed, mayFail>>,
         \A x \in Session : x # s => UNCHANGED <<session[x], ctx[x]>>,
         session'[s] # "open" => ~ctx'[s].initialized,
         ctx'[s].initialized => ctx'[s].p # 0 /\ ~ctx'[s].S.last
  PROVE  Local(s)
<1>1. \A b \in Blob : blob'[b] = blob[b]
  OBVIOUS
<1>2. Stored(s)
  BY <1>1, StoredIs DEF LogInv
<1> QED
  BY <1>2 DEF Local

\* A command only reaches an open session, and only one that called cfa_init()
\* when the clients are disciplined.
LEMMA VerifyRuns ==
  ASSUME LogInv, Disciplined = TRUE, NEW s \in Session, NEW types,
         Verify(s, types)
  PROVE  Running(s) /\ session[s] = "open" /\ ctx[s].initialized
           /\ UNCHANGED mayFail
BY DEF Verify, Accepted, Running

\* The domains of what is kept per session.
LEMMA Domains ==
  ASSUME LogInv
  PROVE  /\ session \in [Session -> {"closed", "open", "dead"}]
         /\ DOMAIN ctx = Session
         /\ \A s \in Session : ctx[s] \in Contexts
         /\ committed \in [Session -> [Chan -> Nat]]
         /\ DOMAIN blob = Blob
BY DEF LogInv, IInv, EnvironmentOK, ContextsOK, ContextOK, CommittedOK

\* Calls that are answered without a change of the instance.
LEMMA IdleLog ==
  ASSUME LogInv, NEW s \in Session,
         UNCHANGED <<ctx[s].initialized, ctx[s].p, ctx[s].S, ctx[s].buf>>,
         UNCHANGED <<session, blob, committed, mayFail>>,
         \A x \in Session : x # s => UNCHANGED ctx[x]
  PROVE  Local(s) /\ [LogOf(s)!Next]_(LogOf(s)!vars)
<1>1. Local(s)
  <2>1. /\ session'[s] # "open" => ~ctx'[s].initialized
        /\ ctx'[s].initialized => ctx'[s].p # 0 /\ ~ctx'[s].S.last
    BY DEF LogInv, ProtocolOK
  <2> QED
    BY <2>1, LocalQuiet
<1>2. UNCHANGED <<Running(s), Ctrl(s), committed[s], mayFail>>
  BY DEF Running, Ctrl
<1>3. \A ch \in Chan : Buffered(s, ch)' = Buffered(s, ch)
  BY DEF Running, Buffered
<1>4. \A b \in Blob : Own(blob'[b], s) = Own(blob[b], s)
  OBVIOUS
<1> QED
  BY <1>1, <1>2, <1>3, <1>4, Untouched

\* The instance of s goes away and leaves a context that is not initialised.
LEMMA EndLog ==
  ASSUME LogInv, NEW s \in Session,
         ctx' = [ctx EXCEPT ![s] = FreshContext],
         NEW to, to # "open", session' = [session EXCEPT ![s] = to],
         UNCHANGED <<blob, committed, mayFail>>
  PROVE  Local(s) /\ [LogOf(s)!Next]_(LogOf(s)!vars)
<1>1. ~ctx'[s].initialized /\ session'[s] # "open"
  BY Domains DEF FreshContext
<1>2. \A x \in Session : x # s => UNCHANGED <<session[x], ctx[x]>>
  BY Domains
<1>3. Local(s)
  BY <1>1, <1>2, LocalQuiet
<1>4. ~Running(s)'
  BY <1>1 DEF Running
<1> QED
  BY <1>3, <1>4, CutShort DEF LogInv

LEMMA PanicLog ==
  ASSUME LogInv, NEW s \in Session, Panic(s), UNCHANGED mayFail
  PROVE  Local(s) /\ [LogOf(s)!Next]_(LogOf(s)!vars)
BY EndLog DEF Panic

\* Opening, closing, and calls that are refused.
LEMMA SessionLog ==
  ASSUME LogInv, NEW s \in Session, NEW types, NEW expected,
         \/ CloseSession(s)
         \/ InvokeDead(s)
         \/ OpenSession(s, types)
         \/ InvokeBad(s, types, expected)
         \/ IncValue(s, types)
  PROVE  Local(s) /\ [LogOf(s)!Next]_(LogOf(s)!vars)
<1>1. CASE CloseSession(s)
  BY <1>1, EndLog DEF CloseSession
<1>2. CASE InvokeDead(s) \/ InvokeBad(s, types, expected) \/ IncValue(s, types)
  <2>1. UNCHANGED <<session, ctx, blob, mayFail, committed>>
    BY <1>2 DEF InvokeDead, InvokeBad, IncValue, history
  <2> QED
    BY <2>1, IdleLog
<1>3. CASE OpenSession(s, types)
  <2>1. /\ UNCHANGED <<ctx, blob, mayFail, committed>>
        /\ ~ctx[s].initialized
        /\ \A x \in Session : x # s => UNCHANGED session[x]
    BY <1>3, Domains DEF OpenSession, history, LogInv, ProtocolOK
  <2>2. Local(s)
    BY <2>1, LocalQuiet
  <2>3. ~Running(s) /\ ~Running(s)'
    BY <2>1 DEF Running
  <2>4. UNCHANGED <<Running(s), Ctrl(s), committed[s], mayFail>>
    BY <2>1, <2>3 DEF Running, Ctrl
  <2>5. \A ch \in Chan : Buffered(s, ch)' = Buffered(s, ch)
    BY <2>3 DEF Buffered, Running
  <2>6. \A b \in Blob : Own(blob'[b], s) = Own(blob[b], s)
    BY <2>1
  <2> QED
    BY <2>2, <2>4, <2>5, <2>6, Untouched
<1> QED
  BY <1>1, <1>2, <1>3

\* cfa_init() starts an operation: the log keeps what it has.
LEMMA InitLog ==
  ASSUME LogInv, Disciplined = TRUE, NEW s \in Session, NEW types,
         CfaInit(s, types)
  PROVE  Local(s) /\ [LogOf(s)!Next]_(LogOf(s)!vars)
<1>1. /\ session[s] = "open" /\ ctx[s].p = 0 /\ ctx[s] \in Contexts
      /\ ctx' = [ctx EXCEPT ![s] = Initialised(ctx[s])]
      /\ UNCHANGED <<session, blob, committed, mayFail>>
  BY Domains DEF CfaInit, Accepted
<1>2. /\ ctx'[s].initialized = TRUE
      /\ ctx'[s].p = HashmapSize
      /\ ctx'[s].S = NewHash
      /\ ctx'[s].buf = [ch \in Chan |-> <<>>]
  <2>1. ctx'[s] = Initialised(ctx[s])
    BY <1>1, Domains
  <2>2. PICK c \in Contexts : c = ctx[s]
    BY <1>1
  <2>3. /\ Initialised(c).initialized = TRUE
        /\ Initialised(c).p = HashmapSize
        /\ Initialised(c).S = NewHash
        /\ Initialised(c).buf = [ch \in Chan |-> <<>>]
    BY DEF Initialised, Contexts
  <2> QED
    BY <2>1, <2>2, <2>3
<1>3. ~Running(s) /\ Running(s)'
  BY <1>1, <1>2 DEF LogInv, ProtocolOK, Running
<1>4. Local(s)
  <2>1. \A x \in Session : x # s => UNCHANGED <<session[x], ctx[x]>>
    BY <1>1, Domains
  <2>2. ctx'[s].p # 0 /\ ctx'[s].S.last = FALSE /\ session'[s] = "open"
    BY <1>1, <1>2, HashmapSizeAssumption DEF NewHash
  <2> QED
    BY <1>1, <2>1, <2>2, LocalQuiet
<1>5. Recorded(s)' = Recorded(s)
  <2>1. \A ch \in Chan : Buffered(s, ch)' = <<>> /\ Buffered(s, ch) = <<>>
    BY <1>2, <1>3 DEF Running, Buffered
  <2>2. \A ch \in Chan :
          Own(blob'[ch], s) \o Buffered(s, ch)' = Own(blob[ch], s) \o Buffered(s, ch)
    BY <1>1, <2>1
  <2>3. Recorded(s)' = [ch \in Chan |-> Own(blob'[ch], s) \o Buffered(s, ch)']
    BY DEF Recorded, Buffered
  <2>4. Recorded(s) = [ch \in Chan |-> Own(blob[ch], s) \o Buffered(s, ch)]
    BY DEF Recorded, Buffered
  <2> HIDE DEF Recorded, Buffered
  <2> QED
    BY <2>2, <2>3, <2>4, Zenon
<1>6. UNCHANGED <<committed[s], Ctrl(s), Covered(s), mayFail>>
  <2>1. Ctrl(s) = <<>> /\ Ctrl(s)' = <<>>
    BY <1>2, <1>3 DEF Ctrl, Running, NewHash
  <2>2. Covered(s)' = Covered(s)
    BY <1>1 DEF Covered
  <2> QED
    BY <1>1, <2>1, <2>2
<1> QED
  BY <1>3, <1>4, <1>5, <1>6, BeginIs

\* A control event is absorbed by the running operation.
LEMMA ControlLog ==
  ASSUME LogInv, Disciplined = TRUE, NEW s \in Session, NEW types,
         NEW e \in Events, ControlEvent(s, types, e)
  PROVE  Local(s) /\ [LogOf(s)!Next]_(LogOf(s)!vars)
<1>1. /\ Running(s) /\ session[s] = "open" /\ ctx[s].initialized
      /\ UNCHANGED <<session, blob, committed, mayFail>>
  BY VerifyRuns DEF ControlEvent, history
<1>2. ctx[s] \in Contexts /\ ctx[s].S \in HashStates /\ DOMAIN ctx = Session
  BY Domains DEF Contexts
<1>3. <<e.a, e.b>> \in Word \X Word
  BY ConstantsAssumption
<1>4. /\ ctx'[s].initialized = ctx[s].initialized
      /\ ctx'[s].p = ctx[s].p
      /\ ctx'[s].S.last = ctx[s].S.last
      /\ ctx'[s].S.fed = Append(ctx[s].S.fed, <<e.a, e.b>>)
      /\ ctx'[s].buf = ctx[s].buf
      /\ \A x \in Session : x # s => ctx'[x] = ctx[x]
  BY <1>2 DEF ControlEvent, Contexts, HashStates
<1>5. Local(s)
  <2>1. ctx[s].p # 0 /\ ~ctx[s].S.last
    BY <1>1 DEF LogInv, ProtocolOK
  <2> QED
    BY <1>1, <1>4, <2>1, LocalQuiet
<1>6. Running(s)'
  BY <1>1, <1>4 DEF Running
<1>7. Ctrl(s)' = Append(Ctrl(s), <<e.a, e.b>>)
  BY <1>1, <1>4, <1>6 DEF Ctrl, Running
<1>8. UNCHANGED <<Recorded(s), committed[s], Covered(s), mayFail>>
  <2>1. \A ch \in Chan : Own(blob'[ch], s) \o Buffered(s, ch)'
                           = Own(blob[ch], s) \o Buffered(s, ch)
    BY <1>1, <1>4, <1>6 DEF Buffered, Running
  <2>2. Recorded(s)' = [ch \in Chan |-> Own(blob'[ch], s) \o Buffered(s, ch)']
    BY DEF Recorded, Buffered
  <2>3. Recorded(s) = [ch \in Chan |-> Own(blob[ch], s) \o Buffered(s, ch)]
    BY DEF Recorded, Buffered
  <2>4. Recorded(s)' = Recorded(s)
    <3> HIDE DEF Recorded, Buffered
    <3> QED
      BY <2>1, <2>2, <2>3, Zenon
  <2>5. Covered(s)' = Covered(s)
    BY <1>1 DEF Covered
  <2> QED
    BY <1>1, <2>4, <2>5
<1>9. [LogOf(s)!Next]_(LogOf(s)!vars)
  <2>1. PICK p \in Word \X Word : p = <<e.a, e.b>>
    BY <1>3
  <2>2. Ctrl(s)' = Append(Ctrl(s), p)
    BY <1>7, <2>1
  <2> QED
    BY <1>1, <1>6, <1>8, <2>2, AbsorbIs
<1> QED
  BY <1>5, <1>9

\* Appending to the back of a concatenation.
LEMMA AppendBehind ==
  ASSUME NEW V, NEW q \in Seq(V), NEW r \in Seq(V), NEW v \in V
  PROVE  q \o Append(r, v) = Append(q \o r, v)
<1>1. Append(r, v) = r \o <<v>> /\ <<v>> \in Seq(V)
  BY AppendIsConcat
<1>2. q \o r \in Seq(V)
  BY ConcatProperties
<1>3. Append(q \o r, v) = (q \o r) \o <<v>>
  BY <1>2, AppendIsConcat
<1> QED
  BY <1>1, <1>3, ConcatAssociative

\* The step appends v to what is left of what s recorded of a channel.
Adds(s, ch, v) ==
  \E kept \in Left(Recorded(s)[ch]) :
    Recorded(s)' = [Recorded(s) EXCEPT ![ch] = Append(kept, v)]

\* A trace event is recorded, behind what a full buffer left in the object.
LEMMA TraceRecorded ==
  ASSUME LogInv, Disciplined = TRUE, NEW s \in Session, NEW types,
         NEW ch \in Chan, NEW v \in Word \cup {0, 1},
         TraceEvent(s, types, ch, v), ctx[s].alloc[ch]
  PROVE  /\ Local(s)
         /\ Running(s)' /\ Ctrl(s)' = Ctrl(s) /\ UNCHANGED committed
         /\ blob'["rethash"] = blob["rethash"]
         /\ Adds(s, ch, v)
<1> DEFINE q == Own(blob[ch], s)
           r == ctx[s].buf[ch]
<1>1. /\ Running(s) /\ session[s] = "open" /\ ctx[s].initialized
      /\ UNCHANGED mayFail
  BY VerifyRuns DEF TraceEvent
<1>2. ctx[s] \in Contexts /\ DOMAIN ctx = Session /\ DOMAIN blob = Blob
  BY Domains
<1>3. ctx[s].p # 0 /\ ~ctx[s].S.last
  BY <1>1 DEF LogInv, ProtocolOK
<1>4. /\ q \in Seq(Word \cup {0, 1}) /\ r \in Seq(Word \cup {0, 1})
      /\ ch \in Blob /\ Val(ch) = Word \cup {0, 1} /\ ch # "rethash"
      /\ mayFail \in BOOLEAN
  BY LogTypes DEF LogInv, Blob, Chan, Val
<1>6. ASSUME NEW b, ctx' = [ctx EXCEPT ![s].buf[ch] = b]
      PROVE  /\ ctx'[s].initialized = ctx[s].initialized
             /\ ctx'[s].p = ctx[s].p
             /\ ctx'[s].S = ctx[s].S
             /\ ctx'[s].buf = [ctx[s].buf EXCEPT ![ch] = b]
             /\ \A x \in Session : x # s => ctx'[x] = ctx[x]
  BY <1>2, <1>6 DEF Contexts
<1>7. ASSUME NEW b, ctx' = [ctx EXCEPT ![s].buf[ch] = b], UNCHANGED session
      PROVE  /\ Running(s)' /\ Ctrl(s)' = Ctrl(s)
             /\ Buffered(s, ch)' = b
             /\ \A k \in Chan : k # ch => Buffered(s, k)' = Buffered(s, k)
  <2>1. DOMAIN ctx[s].buf = Chan
    BY <1>2 DEF Contexts
  <2>2. Running(s)'
    BY <1>1, <1>6, <1>7 DEF Running
  <2>3. Ctrl(s)' = Ctrl(s)
    BY <1>1, <1>6, <1>7, <2>2 DEF Ctrl, Running
  <2>4. \A k \in Chan : Buffered(s, k)' = ctx'[s].buf[k]
                        /\ Buffered(s, k) = ctx[s].buf[k]
    BY <1>1, <2>2 DEF Buffered, Running
  <2>5. ctx'[s].buf = [ctx[s].buf EXCEPT ![ch] = b]
    BY <1>6, <1>7
  <2> QED
    BY <2>1, <2>2, <2>3, <2>4, <2>5
<1>8. ASSUME NEW b, NEW kept \in Left(q \o r),
             ctx' = [ctx EXCEPT ![s].buf[ch] = b],
             UNCHANGED session,
             Own(blob'[ch], s) \o b = Append(kept, v),
             \A k \in Blob : k # ch => blob'[k] = blob[k]
      PROVE  Adds(s, ch, v)
  <2>1. /\ Buffered(s, ch)' = b
        /\ \A k \in Chan : k # ch => Buffered(s, k)' = Buffered(s, k)
    BY <1>7, <1>8
  <2>2. Recorded(s)[ch] = q \o r
    BY <1>1 DEF Recorded
  <2>3. Recorded(s)' = [Recorded(s) EXCEPT ![ch] = Append(kept, v)]
    <3>1. Recorded(s)' = [k \in Chan |-> Own(blob'[k], s) \o Buffered(s, k)']
      BY DEF Recorded, Buffered
    <3>2. Recorded(s) = [k \in Chan |-> Own(blob[k], s) \o Buffered(s, k)]
      BY DEF Recorded, Buffered
    <3>3. \A k \in Chan : k # ch => Own(blob'[k], s) = Own(blob[k], s)
      BY <1>8 DEF Blob
    <3>4. Own(blob'[ch], s) \o Buffered(s, ch)' = Append(kept, v)
      BY <1>8, <2>1
    <3> DEFINE New(k) == Own(blob'[k], s) \o Buffered(s, k)'
               Old(k) == Own(blob[k], s) \o Buffered(s, k)
    <3>5. \A k \in Chan : k # ch => New(k) = Old(k)
      BY <2>1, <3>3
    <3>6. New(ch) = Append(kept, v)
      BY <3>4
    <3>7. PICK f, g, w : f = Recorded(s)' /\ g = Recorded(s) /\ w = Append(kept, v)
      OBVIOUS
    <3>8. f = [k \in Chan |-> New(k)] /\ g = [k \in Chan |-> Old(k)]
      BY <3>1, <3>2, <3>7
    <3> HIDE DEF New, Old
    <3>9. f = [g EXCEPT ![ch] = w]
      BY <3>5, <3>6, <3>7, <3>8
    <3> QED
      BY <3>7, <3>9
  <2> HIDE DEF q, r
  <2>4. kept \in Left(Recorded(s)[ch])
    BY <1>8, <2>2
  <2> QED
    BY <2>3, <2>4 DEF Adds
<1>9. CASE ~Full(ctx[s], ch)
  <2>1. /\ ctx' = [ctx EXCEPT ![s].buf[ch] = Append(r, v)]
        /\ UNCHANGED <<session, blob, committed>>
    BY <1>9 DEF TraceEvent, history
  <2>2. Local(s)
    <3>1. /\ ctx'[s].p # 0 /\ ~ctx'[s].S.last /\ session'[s] = "open"
          /\ \A x \in Session : x # s => ctx'[x] = ctx[x]
      BY <1>1, <1>3, <1>6, <2>1
    <3> QED
      BY <1>1, <2>1, <3>1, LocalQuiet
  <2>3. q \o Append(r, v) = Append(q \o r, v)
    <3>1. PICK V : V = Word \cup {0, 1}
      OBVIOUS
    <3>2. q \in Seq(V) /\ r \in Seq(V) /\ v \in V
      BY <1>4, <3>1
    <3> HIDE DEF q, r
    <3> QED
      BY ONLY <3>2, AppendBehind
  <2>4. q \o r \in Left(q \o r)
    <3>1. q \o r \in Pieces(q \o r)
      BY <1>4, ConcatProperties, PiecesOf
    <3> QED
      BY <3>1 DEF Left
  <2>5. Own(blob'[ch], s) = q /\ \A k \in Blob : k # ch => blob'[k] = blob[k]
    BY <2>1
  <2>6. Running(s)' /\ Ctrl(s)' = Ctrl(s)
    BY <1>7, <2>1
  <2> HIDE DEF q
  <2>7. Adds(s, ch, v)
    BY <1>8, <2>1, <2>3, <2>4, <2>5
  <2> QED
    BY <2>1, <2>2, <2>6, <2>7
<1>10. CASE Full(ctx[s], ch)
  <2>1. /\ ctx' = [ctx EXCEPT ![s].buf[ch] = <<v>>]
        /\ UNCHANGED <<session, committed>>
    BY <1>10 DEF TraceEvent, history
  <2>2. PICK object \in SaveOutcomes(blob[ch], Entries(s, r), mayFail) :
          blob' = [blob EXCEPT ![ch] = object]
    BY <1>10 DEF TraceEvent
  <2>3. blob'[ch] = object /\ \A k \in Blob : k # ch => blob'[k] = blob[k]
    BY <1>2, <1>4, <2>2
  <2>4. Local(s)
    <3>1. /\ ctx'[s].p # 0 /\ ~ctx'[s].S.last /\ session'[s] = "open"
          /\ \A x \in Session : x # s => ctx'[x] = ctx[x]
      BY <1>1, <1>3, <1>6, <2>1
    <3>2. \A b \in Blob :
            \/ blob'[b] = blob[b]
            \/ \E vals \in Seq(Val(b)) :
                 blob'[b] \in SaveOutcomes(blob[b], Entries(s, vals), mayFail)
      BY <1>4, <2>2, <2>3
    <3>3. Stored(s)
      BY <3>2, StoredIs DEF LogInv
    <3> QED
      BY <1>1, <2>1, <3>1, <3>3 DEF Local
  <2>5. Own(object, s) \in Left(q \o r)
    BY <1>4, Saved DEF LogInv
  <2>6. Own(object, s) \in Seq(Word \cup {0, 1})
    <3>1. IInv'
      BY TraceStep DEF LogInv
    <3>2. Own(blob[ch], s)' \in Seq(Word \cup {0, 1})
      BY <3>1, LogTypesNext
    <3> QED
      BY <2>3, <3>2
  <2>7. Own(blob'[ch], s) \o <<v>> = Append(Own(object, s), v)
    BY <2>3, <2>6, AppendIsConcat
  <2>8. Running(s)' /\ Ctrl(s)' = Ctrl(s)
    BY <1>7, <2>1
  <2>9. blob'["rethash"] = blob["rethash"]
    BY <1>4, <2>3 DEF Blob
  <2> HIDE DEF q, r
  <2>10. Adds(s, ch, v)
    BY <1>8, <2>1, <2>3, <2>5, <2>7
  <2> QED
    BY <2>1, <2>4, <2>8, <2>9, <2>10
<1> QED
  BY <1>9, <1>10

LEMMA TraceLog ==
  ASSUME LogInv, Disciplined = TRUE, NEW s \in Session, NEW types,
         NEW ch \in Chan, NEW v \in Word \cup {0, 1},
         TraceEvent(s, types, ch, v)
  PROVE  Local(s) /\ [LogOf(s)!Next]_(LogOf(s)!vars)
<1>1. /\ Running(s) /\ session[s] = "open" /\ ctx[s].initialized
      /\ UNCHANGED mayFail
  BY VerifyRuns DEF TraceEvent
<1>2. CASE ~ctx[s].alloc[ch]
  BY <1>1, <1>2, PanicLog DEF TraceEvent
<1>3. CASE ctx[s].alloc[ch]
  <2>1. /\ Local(s)
        /\ Running(s)' /\ Ctrl(s)' = Ctrl(s) /\ UNCHANGED committed
        /\ blob'["rethash"] = blob["rethash"]
        /\ Adds(s, ch, v)
    BY <1>3, TraceRecorded
  <2>2. UNCHANGED <<committed[s], Ctrl(s), Covered(s), mayFail>>
    BY <1>1, <2>1 DEF Covered
  <2> QED
    BY <1>1, <2>1, <2>2, RecordIs DEF Adds
<1> QED
  BY <1>2, <1>3

\* When storage works, nothing of what was recorded before is lost by it.
LEMMA TraceAppends ==
  ASSUME LogInv, Disciplined = TRUE, ~mayFail, NEW s \in Session, NEW types,
         NEW ch \in Chan, NEW v \in Word \cup {0, 1},
         TraceEvent(s, types, ch, v), session'[s] = "open"
  PROVE  /\ Recorded(s)'[ch] = Append(Recorded(s)[ch], v)
         /\ \A k \in Chan : k # ch => Recorded(s)'[k] = Recorded(s)[k]
<1>1. ctx[s].alloc[ch]
  <2>1. session \in [Session -> {"closed", "open", "dead"}]
    BY Domains
  <2> QED
    BY <2>1 DEF TraceEvent, Panic
<1>2. Recorded(s)' = [Recorded(s) EXCEPT ![ch] = Append(Recorded(s)[ch], v)]
  <2>1. Adds(s, ch, v)
    BY <1>1, TraceRecorded
  <2> QED
    BY <2>1 DEF Adds, Left
<1>3. DOMAIN Recorded(s) = Chan
  BY RecordedIs
<1> QED
  BY <1>2, <1>3

\* Data events and unknown ones are no part of the log.
LEMMA DataLog ==
  ASSUME LogInv, Disciplined = TRUE, NEW s \in Session, NEW types,
         NEW e \in Events,
         \/ DefEvent(s, types, e)
         \/ UseEvent(s, types, e)
         \/ UnknownEvent(s, types, e)
  PROVE  Local(s) /\ [LogOf(s)!Next]_(LogOf(s)!vars)
<1>1. UNCHANGED mayFail
  BY VerifyRuns DEF DefEvent, UseEvent, UnknownEvent
<1>2. ctx[s] \in Contexts /\ DOMAIN ctx = Session
  BY Domains
<1>3. CASE Panic(s)
  BY <1>1, <1>3, PanicLog
<1>4. ASSUME NEW m, NEW rep, Stores(s, e, m, rep)
      PROVE  Local(s) /\ [LogOf(s)!Next]_(LogOf(s)!vars)
  <2>1. CASE Panic(s)
    BY <1>3, <2>1
  <2>2. CASE ~Panic(s)
    <3>1. PICK map, heap :
            ctx' = [ctx EXCEPT ![s].map = map, ![s].heap = heap]
      <4>1. PICK map, heap :
              /\ map = Update(ctx[s].map, e.a, e.b)
              /\ heap = IF Allocates(ctx[s].map, e.a)
                        THEN ctx[s].heap + NodeCost ELSE ctx[s].heap
        OBVIOUS
      <4>2. ctx' = [ctx EXCEPT ![s].map = map, ![s].heap = heap]
        BY <1>4, <2>2, <4>1, Zenon DEF Stores
      <4> QED
        BY <4>2
    <3>2. /\ ctx'[s].initialized = ctx[s].initialized /\ ctx'[s].p = ctx[s].p
          /\ ctx'[s].S = ctx[s].S /\ ctx'[s].buf = ctx[s].buf
          /\ \A x \in Session : x # s => ctx'[x] = ctx[x]
      BY <1>2, <3>1 DEF Contexts
    <3>3. UNCHANGED <<session, blob, committed>>
      BY <1>4, <2>2 DEF Stores
    <3> QED
      BY <1>1, <3>2, <3>3, IdleLog
  <2> QED
    BY <2>1, <2>2
<1>5. CASE UNCHANGED <<session, ctx, blob, committed>>
  BY <1>1, <1>5, IdleLog
<1> QED
  BY <1>3, <1>4, <1>5 DEF DefEvent, UseEvent, UnknownEvent, history

\* cfa_quote() commits the log, and a digest of the operation's control events.
LEMMA QuoteLog ==
  ASSUME LogInv, Disciplined = TRUE, NEW s \in Session, NEW types,
         CfaQuote(s, types)
  PROVE  Local(s) /\ [LogOf(s)!Next]_(LogOf(s)!vars)
<1> DEFINE c == ctx[s]
           own == Own(blob["rethash"], s)
           digest == DigestOf(c.S, c.digest)
<1>1. /\ session[s] = "open" /\ c.initialized /\ Running(s)
      /\ UNCHANGED <<session, mayFail>>
  BY DEF CfaQuote, Accepted, Running
<1>2. c \in Contexts /\ DOMAIN ctx = Session /\ DOMAIN blob = Blob
        /\ committed \in [Session -> [Chan -> Nat]]
  BY Domains
<1>3. digest = Final(c.S) /\ digest \in HashStates /\ digest.fed = c.S.fed
  <2>1. ~c.S.last
    BY <1>1 DEF LogInv, ProtocolOK
  <2>2. c.S \in HashStates
    BY <1>2 DEF Contexts
  <2> QED
    BY <2>1, <2>2 DEF DigestOf, Final, HashStates
<1>4. ctx'[s].initialized = FALSE /\ \A x \in Session : x # s => ctx'[x] = ctx[x]
  BY <1>2 DEF CfaQuote, Contexts
<1>5. ~Running(s)'
  BY <1>4 DEF Running
<1>6. PICK addr \in SaveOutcomes(blob["addr"], Entries(s, c.buf["addr"]), mayFail),
           cond \in SaveOutcomes(blob["cond"], Entries(s, c.buf["cond"]), mayFail),
           hash \in SaveOutcomes(blob["rethash"], Entries(s, <<digest>>), mayFail) :
        blob' = [b \in Blob |-> CASE b = "addr" -> addr
                                  [] b = "cond" -> cond
                                  [] OTHER      -> hash]
  BY DEF CfaQuote
<1>7. blob'["addr"] = addr /\ blob'["cond"] = cond /\ blob'["rethash"] = hash
  BY <1>6 DEF Blob, Chan
<1>8. /\ \A ch \in Chan : c.buf[ch] \in Seq(Val(ch)) /\ ch \in Blob
      /\ <<digest>> \in Seq(Val("rethash")) /\ "rethash" \in Blob
      /\ own \in Seq(HashStates)
  <2>1. \A ch \in Chan : c.buf[ch] \in Seq(Word \cup {0, 1})
    BY <1>2 DEF Contexts
  <2>2. \A ch \in Chan : Val(ch) = Word \cup {0, 1} /\ ch \in Blob
    BY DEF Val, Chan, Blob
  <2>3. Val("rethash") = HashStates /\ "rethash" \in Blob
    BY DEF Val, Blob
  <2>4. own \in Seq(Val("rethash"))
    BY <2>3, LogTypes DEF LogInv, Chan
  <2> QED
    BY <1>3, <2>1, <2>2, <2>3, <2>4
<1>9. \A ch \in Chan :
        blob'[ch] \in SaveOutcomes(blob[ch], Entries(s, c.buf[ch]), mayFail)
  BY <1>6, <1>7 DEF Chan
<1>10. hash \in SaveOutcomes(blob["rethash"], Entries(s, <<digest>>), mayFail)
  BY <1>6
<1>11. committed' = [committed EXCEPT
                       ![s] = [ch \in Chan |-> Len(Own(blob'[ch], s))]]
  BY DEF CfaQuote
<1> HIDE DEF c, digest
<1>12. Local(s)
  <2>1. \A b \in Blob :
          \/ blob'[b] = blob[b]
          \/ \E vals \in Seq(Val(b)) :
               blob'[b] \in SaveOutcomes(blob[b], Entries(s, vals), mayFail)
    <3>1. \A b \in Blob : b \in Chan \/ b = "rethash"
      BY DEF Blob
    <3> QED
      BY <1>7, <1>8, <1>9, <1>10, <3>1
  <2>2. Stored(s)
    BY <2>1, StoredIs DEF LogInv
  <2>3. \A x \in Session : x # s => committed'[x] = committed[x]
    BY <1>2, <1>11
  <2> QED
    BY <1>1, <1>4, <1>11, <2>2, <2>3 DEF Local
<1>13. ASSUME NEW ch \in Chan
       PROVE  /\ Recorded(s)'[ch] = Own(blob'[ch], s)
              /\ Recorded(s)'[ch] \in Left(Recorded(s)[ch])
  <2>1. Own(blob'[ch], s) \in Seq(Word \cup {0, 1})
    <3>1. IInv'
      BY QuoteStep DEF LogInv
    <3>2. Own(blob[ch], s)' \in Seq(Word \cup {0, 1})
      BY <3>1, LogTypesNext
    <3> QED
      BY <3>2
  <2>2. Recorded(s)'[ch] = Own(blob'[ch], s) \o <<>>
    BY <1>5 DEF Recorded
  <2>3. Recorded(s)'[ch] = Own(blob'[ch], s)
    BY <2>1, <2>2, ConcatEmptySeq
  <2>4. Recorded(s)[ch] = Own(blob[ch], s) \o c.buf[ch]
    BY <1>1 DEF Recorded, c
  <2>5. PICK saved : saved = blob'[ch]
    OBVIOUS
  <2>6. Own(saved, s) \in Left(Own(blob[ch], s) \o c.buf[ch])
    <3>1. /\ ch \in Blob /\ c.buf[ch] \in Seq(Val(ch))
          /\ saved \in SaveOutcomes(blob[ch], Entries(s, c.buf[ch]), mayFail)
      BY <1>8, <1>9, <2>5
    <3> QED
      BY <3>1, Saved DEF LogInv
  <2> QED
    BY <2>3, <2>4, <2>5, <2>6
<1>14. Covered(s)' \in Left(Append(Covered(s), Ctrl(s)))
  <2>1. Covered(s) = Fed(own) /\ Covered(s)' = Fed(Own(hash, s))
    BY <1>7 DEF Covered, Fed
  <2>2. Own(hash, s) \in Left(own \o <<digest>>)
    BY <1>8, <1>10, Saved DEF LogInv
  <2>3. Ctrl(s) = digest.fed
    BY <1>1, <1>3 DEF Ctrl, c
  <2> HIDE DEF own
  <2>4. own \o <<digest>> \in Seq(HashStates)
    BY <1>3, <1>8
  <2>5. Fed(Own(hash, s)) \in Left(Fed(own \o <<digest>>))
    <3>1. PICK all, p : all = own \o <<digest>> /\ p = Own(hash, s)
      OBVIOUS
    <3>2. all \in Seq(HashStates) /\ p \in Left(all)
      BY <2>2, <2>4, <3>1
    <3>3. Fed(p) \in Left(Fed(all))
      BY <3>2, FedLeft
    <3> QED
      BY <3>1, <3>3
  <2>6. Fed(own \o <<digest>>) = Append(Fed(own), digest.fed)
    BY <1>3, <1>8, FedAppend
  <2> QED
    BY <2>1, <2>3, <2>5, <2>6
<1>15. committed'[s] = [ch \in Chan |-> Len(Recorded(s)'[ch])]
  <2>1. committed'[s] = [ch \in Chan |-> Len(Own(blob'[ch], s))]
    BY <1>2, <1>11
  <2> QED
    BY <1>13, <2>1
<1>16. [LogOf(s)!Next]_(LogOf(s)!vars)
  BY <1>1, <1>5, <1>13, <1>14, <1>15, CommitIs
<1> QED
  BY <1>12, <1>16

-----------------------------------------------------------------------------
(* The invariant is inductive, and every step is a step of the log.        *)

\* No object exists at first, and nothing is committed.
LEMMA InitLogInv == Init => LogInv
<1> SUFFICES ASSUME Init PROVE LogInv
  OBVIOUS
<1>1. IInv
  BY InitIInv
<1>2. ProtocolOK
  BY DEF Init, ProtocolOK, FreshContext
<1>3. ObjectsOK
  BY DEF Init, ObjectsOK, Absent
<1>4. CommittedOK
  <2>1. committed \in [Session -> [Chan -> Nat]]
    BY DEF Init, CommittedOK
  <2>2. ASSUME NEW s \in Session, NEW ch \in Chan
        PROVE  committed[s][ch] <= Len(Own(blob[ch], s))
    <3>1. committed[s][ch] = 0
      BY DEF Init
    <3>2. Own(blob[ch], s) \in Seq(Word \cup {0, 1})
      BY <1>1, LogTypes DEF Blob
    <3>3. Len(Own(blob[ch], s)) \in Nat
      BY <3>2, LenProperties
    <3> QED
      BY <3>1, <3>3
  <2> QED
    BY <2>1, <2>2 DEF CommittedOK
<1> QED
  BY <1>1, <1>2, <1>3, <1>4 DEF LogInv

\* An initial state of the engine is one of every session's log.
LEMMA InitImplements ==
  ASSUME Init, NEW s \in Session
  PROVE  LogOf(s)!Init
<1>1. IInv
  BY InitIInv
<1>2. \A b \in Blob : Own(blob[b], s) = <<>>
  <2> SUFFICES ASSUME NEW b \in Blob PROVE Own(blob[b], s) = <<>>
    OBVIOUS
  <2>1. blob[b].data = <<>>
    BY DEF Init, Absent
  <2>2. blob[b].data \in Seq(Rows(Val(b)))
    BY <1>1, LogTypes DEF Chan
  <2> QED
    BY <2>1, <2>2, OwnType DEF Rows
<1>3. Running(s) = FALSE
  BY DEF Init, Running
<1>4. Recorded(s) = [ch \in Chan |-> <<>>]
  <2>1. \A ch \in Chan : Own(blob[ch], s) \o <<>> = <<>>
    <3>1. \A ch \in Chan : Own(blob[ch], s) = <<>>
      BY <1>2 DEF Blob
    <3>2. <<>> \o <<>> = <<>>
      BY ConcatEmptySeq, EmptySeq
    <3> QED
      BY <3>1, <3>2
  <2>2. Recorded(s) = [ch \in Chan |-> Own(blob[ch], s) \o <<>>]
    BY <1>3 DEF Recorded
  <2> QED
    BY <2>1, <2>2
<1>5. Covered(s) = <<>>
  <2>1. Own(blob["rethash"], s) = <<>>
    BY <1>2 DEF Blob
  <2>2. Covered(s) = Fed(<<>>)
    BY <2>1, CoveredIs
  <2>3. Fed(<<>>) = <<>>
    <3>1. <<>> \in Seq(HashStates) /\ Len(<<>>) = 0
      BY EmptySeq
    <3>2. Fed(<<>>) \in Seq(Bytes) /\ Len(Fed(<<>>)) = 0
      BY <3>1, FedType
    <3> QED
      BY <3>2, EmptySeq
  <2> QED
    BY <2>2, <2>3
<1>6. committed[s] = [ch \in Chan |-> 0] /\ mayFail \in BOOLEAN
  BY ConstantsAssumption DEF Init
<1>7. (IF Running(s) THEN ctx[s].S.fed ELSE <<>>) = <<>>
  BY <1>3
<1> QED
  BY <1>3, <1>4, <1>5, <1>6, <1>7 DEF LogOf!Init

\* A step of one session is a step of its own log, and of everybody else's.
LEMMA NextLog ==
  ASSUME Disciplined = TRUE, LogInv, [Next]_vars
  PROVE  LogInv' /\ \A x \in Session : [LogOf(x)!Next]_(LogOf(x)!vars)
<1>1. IInv'
  BY NextIInv DEF LogInv
<1>2. CASE UNCHANGED vars
  <2>1. UNCHANGED <<session, ctx, blob, committed, mayFail>>
    BY <1>2 DEF vars
  <2>2. ASSUME NEW s \in Session
        PROVE  LogInv' /\ [LogOf(s)!Next]_(LogOf(s)!vars)
    BY <1>1, <2>1, IdleLog, LocalStep
  <2>3. LogInv'
    <3>1. ProtocolOK' /\ ObjectsOK' /\ CommittedOK'
      BY <2>1 DEF LogInv, ProtocolOK, ObjectsOK, CommittedOK
    <3> QED
      BY <1>1, <3>1 DEF LogInv
  <2> QED
    BY <2>2, <2>3
<1>3. CASE Next
  <2>1. PICK s \in Session : Step(s)
    BY <1>3 DEF Next, Step
  <2>2. Local(s) /\ [LogOf(s)!Next]_(LogOf(s)!vars)
    <3>1. CASE CloseSession(s) \/ InvokeDead(s)
      BY <3>1, SessionLog
    <3>2. CASE \E types \in ClientTypes :
                 \/ OpenSession(s, types)
                 \/ \E expected \in {InitTypes, VerifyTypes, QuoteTypes} :
                      InvokeBad(s, types, expected)
                 \/ IncValue(s, types)
      BY <3>2, SessionLog
    <3>3. CASE \E types \in ClientTypes : CfaInit(s, types)
      BY <3>3, InitLog
    <3>4. CASE \E types \in ClientTypes : CfaQuote(s, types)
      BY <3>4, QuoteLog
    <3>5. CASE \E types \in ClientTypes, e \in Events : ControlEvent(s, types, e)
      BY <3>5, ControlLog
    <3>6. CASE \E types \in ClientTypes, e \in Events : AddressEvent(s, types, e)
      <4>1. PICK types \in ClientTypes, e \in Events : AddressEvent(s, types, e)
        BY <3>6
      <4>2. TraceEvent(s, types, "addr", e.b) /\ e.b \in Word \cup {0, 1}
        BY <4>1, ConstantsAssumption DEF AddressEvent
      <4> QED
        BY <4>2, TraceLog DEF Chan
    <3>7. CASE \E types \in ClientTypes, e \in Events : CondEvent(s, types, e)
      <4>1. PICK types \in ClientTypes, e \in Events : CondEvent(s, types, e)
        BY <3>7
      <4>2. TraceEvent(s, types, "cond", CondByte(e.a))
              /\ CondByte(e.a) \in Word \cup {0, 1}
        BY <4>1 DEF CondEvent, CondByte
      <4> QED
        BY <4>2, TraceLog DEF Chan
    <3>8. CASE \E types \in ClientTypes, e \in Events :
                 \/ DefEvent(s, types, e)
                 \/ UseEvent(s, types, e)
                 \/ UnknownEvent(s, types, e)
      BY <3>8, DataLog
    <3> QED
      BY <2>1, <3>1, <3>2, <3>3, <3>4, <3>5, <3>6, <3>7, <3>8 DEF Step
  <2>3. LogInv' /\ \A x \in Session : x # s => [LogOf(x)!Next]_(LogOf(x)!vars)
    BY <1>1, <2>2, LocalStep
  <2> QED
    BY <2>2, <2>3
<1> QED
  BY <1>2, <1>3

(***************************************************************************)
(* For disciplined clients, every session implements OperationLog, however *)
(* many of them share the objects and whether or not storage fails: a      *)
(* flush is invisible, a quote commits the whole trace and one digest of   *)
(* exactly the operation's control events, and no session ever sees its    *)
(* entries reordered, repeated or mixed up with another's                  *)
(* (hello_world_ta.c:279-364).                                             *)
(***************************************************************************)
THEOREM EngineImplementsLog == ASSUME Disciplined = TRUE PROVE Spec => ImplementsLog
<1>1. Init => LogInv
  BY InitLogInv
<1>2. LogInv /\ [Next]_vars => LogInv'
  BY NextLog
<1>3. Init => \A s \in Session : LogOf(s)!Init
  BY InitImplements
<1>4. LogInv /\ [Next]_vars
        => [\A s \in Session : [LogOf(s)!Next]_(LogOf(s)!vars)]_vars
  BY NextLog
<1> QED
  BY <1>1, <1>2, <1>3, <1>4, PTL DEF Spec, ImplementsLog

=============================================================================
