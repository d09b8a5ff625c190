------------------------- MODULE MeasurementEngine -------------------------
(***************************************************************************)
(* The measurement engine: the trusted application (TA) that receives the  *)
(* control-flow, trace and def/use events of an instrumented program,      *)
(* hashes the control events, buffers the trace, checks the critical data  *)
(* and, when quoted, stores what it measured as secure objects             *)
(* (ta/hello_world_ta.c and ta/cfa.c).                                     *)
(*                                                                         *)
(* Every session has a TA instance of its own (the TA is not flagged as a  *)
(* single instance); the persistent objects are shared by all of them.     *)
(* One action is one invocation of a TA entry point.  The clients are the  *)
(* most general ones, or, when Disciplined, those that follow the order of *)
(* calls of the trampoline library.                                        *)
(***************************************************************************)
EXTENDS Naturals, Sequences, SecureObjects, DefUseMap

CONSTANTS Session,       \* client sessions
          Word,          \* values of the 64-bit fields a and b of an event
          Events,        \* events the clients send
          ClientTypes,   \* parameter types the clients pass
          Capacity,      \* entries a trace buffer holds, per channel
          BufCost,       \* heap cfa_init() takes for a buffer, per channel
          NodeCost,      \* heap one node of the hash map takes
          HeapSize,      \* heap of an instance
          StorageModes,  \* subset of BOOLEAN: may the storage fail?
          Disciplined,   \* do clients follow the trampoline's protocol?
          MaxCommands,   \* bound on the invocations that change an instance
          NoValue        \* "nothing defined yet", in the history of DEFs

\* cond_buf and iaddr_buf, and the objects they are flushed to.
Chan == {"cond", "addr"}
Blob == Chan \cup {"rethash"}

Etype  == {"CTRL", "DATA_DEF", "DATA_USE", "CONDBR", "ICALL", "IBR", "UNKNOWN"}
Result == {"SUCCESS", "BAD_PARAMETERS", "TARGET_DEAD"}

\* The parameter types each command insists on.
OpenTypes == <<"NONE", "NONE", "NONE", "NONE">>
InitTypes == <<"VALUE_INOUT", "NONE", "NONE", "NONE">>
VerifyTypes ==
  <<"MEMREF_INOUT", "VALUE_INOUT", "VALUE_INOUT", "VALUE_INOUT">>
QuoteTypes == <<"NONE", "NONE", "NONE", "NONE">>
IncTypes   == <<"VALUE_INOUT", "NONE", "NONE", "NONE">>

ASSUME ConstantsAssumption ==
  /\ Word \subseteq Nat
  /\ Events \subseteq [etype : Etype, a : Word, b : Word]
  /\ Capacity \in [Chan -> Nat \ {0}]
  /\ BufCost \in [Chan -> Nat \ {0}]
  /\ NodeCost \in Nat \ {0}
  /\ HeapSize \in Nat
  /\ StorageModes \subseteq BOOLEAN
  /\ Disciplined \in BOOLEAN
  /\ MaxCommands \in Nat
  /\ NoValue \notin Word

VARIABLES
  session,    \* [Session -> {"closed", "open", "dead"}]; dead: the TA panicked
  ctx,        \* [Session -> Context]: cfa_ctx of the session's instance
  result,     \* what the last call of an entry point returned
  blob,       \* the persistent objects of the TA
  mayFail,    \* whether storage calls may fail; fixed
  commands,   \* invocations so far; only bounds the model
  defined,    \* history: value the last DEF, or failed USE, gave an address
  check,      \* the last USE: was it reported, did it match the history
  committed   \* history: how much of each object the last quote left behind

vars == <<session, ctx, result, blob, mayFail, commands, defined, check,
          committed>>

-----------------------------------------------------------------------------
(* The context of an instance.                                             *)

\* blake2s_state, for what a digest depends on: whether blake2s_init() ran,
\* the bytes absorbed, and the last-block flag blake2s_final() sets.
RawHash == [keyed |-> FALSE, fed |-> <<>>, last |-> FALSE]
NewHash == [keyed |-> TRUE,  fed |-> <<>>, last |-> FALSE]

\* blake2s_final(): fails when the last block was already processed, and then
\* leaves the caller's digest as it was.  A digest is named by what it covers.
Final(S) == [S EXCEPT !.last = TRUE]
DigestOf(S, old) == IF S.last THEN old ELSE Final(S)

\* Statics of a new instance: everything is zero.
FreshContext ==
  [initialized |-> FALSE,
   p           |-> 0,
   S           |-> RawHash,
   digest      |-> RawHash,
   alloc       |-> [c \in Chan |-> FALSE],
   buf         |-> [c \in Chan |-> <<>>],
   map         |-> EmptyMap,
   heap        |-> 0]

Fits(used, n) == used + n <= HeapSize

Take(used, n) == IF Fits(used, n) THEN used + n ELSE used

\* cfa_init(): neither frees the buffers of an earlier initialisation nor looks
\* at what TEE_Malloc returned.
Initialised(c) ==
  LET afterCond == Take(c.heap, BufCost["cond"]) IN
  [c EXCEPT
     !.initialized = TRUE,
     !.p     = HashmapSize,
     !.S     = NewHash,
     !.map   = EmptyMap,
     !.alloc = [ch \in Chan |-> IF ch = "cond"
                                THEN Fits(c.heap, BufCost["cond"])
                                ELSE Fits(afterCond, BufCost["addr"])],
     !.buf   = [ch \in Chan |-> <<>>],
     !.heap  = Take(afterCond, BufCost["addr"])]

\* Mutant: the size passed to save_data() is one entry short.
EntriesShort(s, values) ==
  [i \in 1..(Len(values) - 1) |-> [owner |-> s, val |-> values[i]]]

\* The bytes do not say which session wrote them: owner is history.
Entries(s, values) == [i \in DOMAIN values |-> [owner |-> s, val |-> values[i]]]

\* The values session s wrote to an object, in the order they were written.
Own(object, s) ==
  LET own[i \in 0..Len(object.data)] ==
        IF i = 0 THEN <<>>
        ELSE IF object.data[i].owner = s
             THEN Append(own[i - 1], object.data[i].val)
             ELSE own[i - 1]
  IN  own[Len(object.data)]

-----------------------------------------------------------------------------
(* Sessions and dispatch.                                                  *)

Init ==
  /\ session   = [s \in Session |-> "closed"]
  /\ ctx       = [s \in Session |-> FreshContext]
  /\ result    = "SUCCESS"
  /\ blob      = [b \in Blob |-> Absent]
  /\ mayFail \in StorageModes
  /\ commands  = 0
  /\ defined   = [s \in Session |-> [w \in Word |-> NoValue]]
  /\ check     = [s \in Session |-> [matched |-> TRUE, reported |-> FALSE]]
  /\ committed = [s \in Session |-> [c \in Chan |-> 0]]

history == <<defined, check, committed>>

Returns(r) == result' = r

\* TA_OpenSessionEntryPoint(), in an instance created for the session.
OpenSession(s, types) ==
  /\ session[s] = "closed"
  /\ IF types = OpenTypes
     THEN /\ session' = [session EXCEPT ![s] = "open"]
          /\ Returns("SUCCESS")
     ELSE /\ Returns("BAD_PARAMETERS")
          /\ UNCHANGED session
  /\ UNCHANGED <<ctx, blob, mayFail, commands, history>>

\* TA_CloseSessionEntryPoint(), or the client's death: the instance goes, and
\* with it whatever it had not stored.
CloseSession(s) ==
  /\ session[s] # "closed"
  /\ session' = [session EXCEPT ![s] = "closed"]
  /\ ctx' = [ctx EXCEPT ![s] = FreshContext]
  /\ Returns("SUCCESS")
  /\ defined' = [defined EXCEPT ![s] = [w \in Word |-> NoValue]]
  /\ UNCHANGED <<blob, mayFail, commands, check, committed>>

\* An instance that panicked answers nothing any more.
InvokeDead(s) ==
  /\ session[s] = "dead"
  /\ Returns("TARGET_DEAD")
  /\ UNCHANGED <<session, ctx, blob, mayFail, commands, history>>

\* Every wrapper compares the parameter types before anything else; an unknown
\* command is rejected with the same code.
InvokeBad(s, types, expected) ==
  /\ session[s] = "open"
  /\ types # expected
  /\ Returns("BAD_PARAMETERS")
  /\ UNCHANGED <<session, ctx, blob, mayFail, commands, history>>

\* inc_value(): answers in the parameter, changes nothing of the instance.
IncValue(s, types) ==
  /\ session[s] = "open"
  /\ types = IncTypes
  /\ Returns("SUCCESS")
  /\ UNCHANGED <<session, ctx, blob, mayFail, commands, history>>

\* A command whose parameter types are accepted.
Accepted(s, types, expected) ==
  /\ session[s] = "open"
  /\ types = expected
  /\ commands < MaxCommands
  /\ commands' = commands + 1
  /\ UNCHANGED mayFail

\* The instance dereferenced NULL, or read beyond the buckets.
Panic(s) ==
  /\ session' = [session EXCEPT ![s] = "dead"]
  /\ ctx' = [ctx EXCEPT ![s] = FreshContext]
  /\ defined' = [defined EXCEPT ![s] = [w \in Word |-> NoValue]]
  /\ Returns("TARGET_DEAD")
  /\ UNCHANGED <<blob, check, committed>>

-----------------------------------------------------------------------------
(* CMD_CFA_INIT.                                                           *)

CfaInit(s, types) ==
  /\ Accepted(s, types, InitTypes)
  /\ Disciplined => ctx[s].p = 0
  /\ ctx' = [ctx EXCEPT ![s] = Initialised(@)]
  /\ Returns("SUCCESS")
  /\ defined' = [defined EXCEPT ![s] = [w \in Word |-> NoValue]]
  /\ UNCHANGED <<session, blob, check, committed>>

-----------------------------------------------------------------------------
(* CMD_VERIFY_EVENTS: handle_event() dispatches on the event's type.       *)

Verify(s, types) ==
  /\ Accepted(s, types, VerifyTypes)
  /\ Disciplined => ctx[s].initialized

\* control_event(): 16 bytes, a and b, go into the hash.
ControlEvent(s, types, e) ==
  /\ e.etype = "CTRL"
  /\ Verify(s, types)
  /\ ctx' = [ctx EXCEPT ![s].S.fed = Append(@, <<e.a, e.b>>)]
  /\ Returns("SUCCESS")
  /\ UNCHANGED <<session, blob, history>>

\* Mutant: the flush comes one entry late.
FullLate(c, ch) == Len(c.buf[ch]) > Capacity[ch]

\* The buffer is full when its index EQUALS the capacity.
Full(c, ch) == Len(c.buf[ch]) = Capacity[ch]

\* A full buffer is saved, whatever save_data() returned its index goes back
\* to zero, and the new entry becomes the first of the next chunk.
TraceEvent(s, types, ch, v) ==
  /\ Verify(s, types)
  /\ IF ~ctx[s].alloc[ch]
     THEN Panic(s)
     ELSE /\ IF Full(ctx[s], ch)
             THEN /\ \E object \in SaveOutcomes(blob[ch],
                                     Entries(s, ctx[s].buf[ch]), mayFail) :
                       blob' = [blob EXCEPT ![ch] = object]
                  /\ ctx' = [ctx EXCEPT ![s].buf[ch] = <<v>>]
             ELSE /\ ctx' = [ctx EXCEPT ![s].buf[ch] = Append(@, v)]
                  /\ UNCHANGED blob
          /\ Returns("SUCCESS")
          /\ UNCHANGED <<session, history>>

\* trace_addr_event() records the destination.
AddressEvent(s, types, e) ==
  /\ e.etype \in {"ICALL", "IBR"}
  /\ TraceEvent(s, types, "addr", e.b)

\* Mutant: with parentheses around the comparison, 'y' or 'n' is recorded.
CondLetter(a) == IF a = 1 THEN 121 ELSE 110

\* trace_cond_event() records 'y' ? evt->a == 1 : 'n', which is the number 1
\* or 0: the condition 'y' is never zero.
CondByte(a) == IF a = 1 THEN 1 ELSE 0

CondEvent(s, types, e) ==
  /\ e.etype = "CONDBR"
  /\ TraceEvent(s, types, "cond", CondByte(e.a))

\* Mutant: a quote tears the hash map down although the session goes on.
WildAfterQuote(c) == ~c.initialized

\* Before cfa_init() the modulus p is 0: key % p is undefined.  A build that
\* traps panics.  On AArch64 a division by 0 gives 0 and the index is the key:
\* within the buckets, which a new instance finds empty, it is the lookup in an
\* empty map, far behind them a fault.  What a lookup makes of other memory of
\* the TA is not modelled.
WildLookup(c) == c.p = 0

\* hashmap_update() inside data_event(), with the allocation it may make.
Stores(s, e, matched, reported) ==
  LET c == ctx[s] IN
  IF Allocates(c.map, e.a) /\ ~Fits(c.heap, NodeCost)
  THEN Panic(s)
  ELSE /\ ctx' = [ctx EXCEPT
            ![s].map  = Update(c.map, e.a, e.b),
            ![s].heap = IF Allocates(c.map, e.a) THEN @ + NodeCost ELSE @]
       /\ defined' = [defined EXCEPT ![s][e.a] = e.b]
       /\ check' = [check EXCEPT ![s] = [matched |-> matched,
                                         reported |-> reported]]
       /\ Returns("SUCCESS")
       /\ UNCHANGED <<session, blob, committed>>

DefEvent(s, types, e) ==
  /\ e.etype = "DATA_DEF"
  /\ Verify(s, types)
  /\ \/ Stores(s, e, TRUE, FALSE)
     \/ WildLookup(ctx[s]) /\ Panic(s)

\* Mutant: the test for a missing node is dropped from the condition.
AgreesOrUnknown(c, e) == Found(c.map, e.a) => Maps(c.map, e.a, e.b)

\* data_event() accepts a USE without a report only for a node that holds the
\* value; every other USE is reported, recorded and updated.
Agrees(c, e) == Found(c.map, e.a) /\ Maps(c.map, e.a, e.b)

UseEvent(s, types, e) ==
  /\ e.etype = "DATA_USE"
  /\ Verify(s, types)
  /\ LET matched == defined[s][e.a] = e.b IN
     \/ /\ Agrees(ctx[s], e)
        /\ check' = [check EXCEPT ![s] = [matched |-> matched,
                                          reported |-> FALSE]]
        /\ Returns("SUCCESS")
        /\ UNCHANGED <<session, ctx, blob, defined, committed>>
     \/ ~Agrees(ctx[s], e) /\ Stores(s, e, matched, TRUE)
     \/ WildLookup(ctx[s]) /\ Panic(s)

\* data_event() drops any other type, and the call still succeeds.
UnknownEvent(s, types, e) ==
  /\ e.etype = "UNKNOWN"
  /\ Verify(s, types)
  /\ Returns("SUCCESS")
  /\ UNCHANGED <<session, ctx, blob, history>>

-----------------------------------------------------------------------------
(* CMD_CFA_QUOTE.                                                          *)

\* Three objects are saved one after the other, each result ignored.  Neither
\* index goes back to zero, and initialized is cleared though nobody reads it.
CfaQuote(s, types) ==
  /\ Accepted(s, types, QuoteTypes)
  /\ Disciplined => ctx[s].initialized
  /\ LET c == ctx[s]
         digest == DigestOf(c.S, c.digest)
     IN  /\ ctx' = [ctx EXCEPT ![s].S = Final(@),
                               ![s].digest = digest,
                               ![s].initialized = FALSE]
         /\ \E addr \in SaveOutcomes(blob["addr"],
                                     Entries(s, c.buf["addr"]), mayFail),
               cond \in SaveOutcomes(blob["cond"],
                                     Entries(s, c.buf["cond"]), mayFail),
               hash \in SaveOutcomes(blob["rethash"],
                                     Entries(s, <<digest>>), mayFail) :
              blob' = [b \in Blob |-> CASE b = "addr" -> addr
                                        [] b = "cond" -> cond
                                        [] OTHER      -> hash]
  /\ committed' = [committed EXCEPT
                     ![s] = [ch \in Chan |-> Len(Own(blob'[ch], s))]]
  /\ Returns("SUCCESS")
  /\ UNCHANGED <<session, defined, check>>

-----------------------------------------------------------------------------

Next ==
  \E s \in Session :
    \/ CloseSession(s)
    \/ InvokeDead(s)
    \/ \E types \in ClientTypes :
         \/ OpenSession(s, types)
         \/ \E expected \in {InitTypes, VerifyTypes, QuoteTypes} :
              InvokeBad(s, types, expected)
         \/ IncValue(s, types)
         \/ CfaInit(s, types)
         \/ CfaQuote(s, types)
         \/ \E e \in Events : \/ ControlEvent(s, types, e)
                             \/ AddressEvent(s, types, e)
                             \/ CondEvent(s, types, e)
                             \/ DefEvent(s, types, e)
                             \/ UseEvent(s, types, e)
                             \/ UnknownEvent(s, types, e)

Spec == Init /\ [][Next]_vars

-----------------------------------------------------------------------------
(* Properties.                                                             *)

HashStates ==
  [keyed : BOOLEAN, fed : Seq(Word \X Word), last : BOOLEAN]

Contexts ==
  [initialized : BOOLEAN,
   p      : {0, HashmapSize},
   S      : HashStates,
   digest : HashStates,
   alloc  : [Chan -> BOOLEAN],
   buf    : [Chan -> Seq(Word \cup {0, 1})],
   map    : [Slots -> Seq([key : Word, value : Word])],
   heap   : 0..HeapSize]

Objects(Value) ==
  [exists : BOOLEAN, data : Seq([owner : Session, val : Value])]

\* Type invariant of the engine's state (struct cfa_ctx, cfa.h:40-63).
TypeOK ==
  /\ session \in [Session -> {"closed", "open", "dead"}]
  /\ ctx \in [Session -> Contexts]
  /\ result \in Result
  /\ DOMAIN blob = Blob
  /\ \A ch \in Chan : blob[ch] \in Objects(Word \cup {0, 1})
  /\ blob["rethash"] \in Objects(HashStates)
  /\ mayFail \in StorageModes
  /\ commands \in 0..MaxCommands
  /\ defined \in [Session -> [Word -> Word \cup {NoValue}]]
  /\ check \in [Session -> [matched : BOOLEAN, reported : BOOLEAN]]

(***************************************************************************)
(* Memory safety of the trace buffers: an index never runs past the        *)
(* allocation although the code tests it with == only, and nothing is ever *)
(* written through a buffer pointer that is NULL (hello_world_ta.c:279-298,*)
(* cfa.c:26-32).                                                           *)
(***************************************************************************)
BufferInBounds ==
  \A s \in Session, ch \in Chan :
    /\ Len(ctx[s].buf[ch]) <= Capacity[ch]
    /\ ctx[s].buf[ch] # <<>> => ctx[s].alloc[ch]

(***************************************************************************)
(* A USE of a critical variable whose value is not the one last defined is *)
(* never accepted silently, whatever happened to the hash map in between   *)
(* (data_event(), hello_world_ta.c:137-154).                               *)
(***************************************************************************)
NoSilentAccept ==
  \A s \in Session : ~check[s].matched => check[s].reported

(***************************************************************************)
(* An instance panics only when it is used before cfa_init(), or once its  *)
(* heap - which nothing ever gives back - cannot hold one more buffer or   *)
(* node: neither a full buffer nor a second quote nor an unknown event     *)
(* kills it (cfa.c:26-32, 76).                                             *)
(***************************************************************************)
PanicHasReason ==
  \A s \in Session :
    session[s] = "open" /\ session'[s] = "dead"
      => \/ ctx[s].p = 0
         \/ ~Fits(ctx[s].heap, NodeCost)
         \/ \E ch \in Chan : ~Fits(ctx[s].heap, BufCost[ch])

\* ... in every step of the engine (cfa.c:26-32, 76).
PanicExplained == [][PanicHasReason]_vars

(***************************************************************************)
(* A USE that matches the value last defined passes the check, as the      *)
(* comment on hashmap_update() - "insert/modify a data_def event in the    *)
(* current hashmap" - implies (cfa.h:74-78).  It does not.                 *)
(***************************************************************************)
NoFalseAlarm ==
  \A s \in Session : check[s].matched => ~check[s].reported

=============================================================================
