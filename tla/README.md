# OAT: models, checks and proofs

OAT attests the execution of one *operation* of an embedded program.  A compiler
instruments the program; at run time a small library forwards control-flow,
branch and data events to a measurement engine inside the TEE and prints branch
hints to a file; afterwards a verifier replays the binary along these hints.
This directory holds TLA+ models of that pipeline, the TLC configurations that
check them, and theorems checked by TLAPS.

Paths in this file are relative to `src/`.  `ta/` stands for
`oat-measurement-engine-ta/ta/`, `lib/` for `oat-trampoline-lib/`.

    tlc -workers 2 -config MeasurementEngine_any.cfg MCMeasurementEngine
    tlapm MeasurementEngineProofs.tla

## 1. The system

| Part | Source | State | Operations |
|---|---|---|---|
| Measurement engine (TA) | `ta/hello_world_ta.c`, `ta/cfa.c`, `ta/include/cfa.h` | per session: hash state, digest, a condition and an address buffer with their indices, def/use hash map, heap; shared: three persistent objects | open and close session, `INC_VALUE`, `CFA_INIT`, `VERIFY_EVENTS`, `CFA_QUOTE` |
| BLAKE2s | `ta/blake2s-ref.c` | chaining value, byte counter, last-block flag, block buffer | `init`, `init_key`, `update`, `final` |
| Trampoline library | `lib/cfv_bellman.c`, `lib/nova.c` | global `op`, `sess`, `cfv_start`, `hfp`, the hints file | `cfv_init`, `cfv_quote`, `handle_event`, the event functions, `test_world_switch` |
| Trampoline stubs | `lib/trampoline.S` | a stack frame per transfer | save registers around `cfv_icall`, `cfv_ijmp`, `cfv_ret` |
| Instrumentation | `oat-llvm40/lib/Transforms/CFVHints/`, `oat-llvm40/lib/Target/AArch64/AArch64ControlFlowVerification.cpp` | none at run time | calls inserted before branches, indirect calls, jumps and returns |
| Nova pass | `oat-llvm40/lib/Transforms/Nova/Nova.cpp` | compile time: points-to map, taint map, visited calls, sensitive values | follows pointers through the program, finds what aliases an annotated variable, inserts DEF and USE records |
| Verify engine | `oat-verify-engine/verify_engine` | trace cursor, condition flags, return stack, program counter, edges written | one handler per instruction kind |
| Host example | `oat-measurement-engine-ta/host/main.c` | none | one `INC_VALUE` |
| Evaluation programs | `oat-evaluation/*-cb` | their own | call the library |
| Microbenchmark, SoftBound runtime, `oat-test`, LLVM 4.0 | timing loop, third party, test inputs | | |

How they interact.  Instrumented code calls the library synchronously, in the
thread that executes it.  The library fills in one global `TEEC_Operation` and
invokes the engine; `check_res()` ends the process when that fails.  Every
session has an engine instance of its own (`user_ta_header_defines.h` sets
`TA_FLAG_MULTI_SESSION` without `TA_FLAG_SINGLE_INSTANCE`), but all instances
store into the same three objects.  The hints file is written in the normal
world beside all this, and is what the verify engine reads (`README.md:33`).

What is hard about it, and what makes each part correct:

* **Engine.**  Buffers are flushed when an index *equals* the capacity, results
  of storage calls and of `TEE_Malloc` are dropped, nothing tests
  `initialized`, nothing is ever freed, and two instances append to one object.
  It must not write out of bounds, not accept a wrong USE, and must record what
  a client sent in order, once, under a digest of that operation only.
* **BLAKE2s.**  The last block must be held back and flagged, the counter must
  carry; how a message is cut must not show in the digest.
* **Library.**  Unlocked globals, a session and a flag that together must hide
  from the engine whatever the program does outside an operation; two records
  of one run (trace and hints) that must agree.
* **Instrumented transfer.**  The target of a return or an indirect call is read
  twice, once for the report and once for the transfer, and the whole library
  runs in between.  Both must be the same, and the program must not lose a
  register.
* **Nova.**  One pass over the program, in one order, with one pass through each
  loop, must find every name of an annotated variable; and a definition that is
  not recorded turns every later use into a false alarm.  It must also end, for
  recursive programs too.
* **Verify engine.**  It recovers, from comparison flags it remembers, what a
  branch the compiler rewrote meant; one symbol read too many puts the rest out
  of step.  It must follow the executed path, and it must stop.

`PROJECT.json` lists the hazards line by line with the properties meant to
catch each of them.

## 2. The modules

| Module | Models | Composition |
|---|---|---|
| `SecureObjects` | `save_data()` as the set of its outcomes | used by the engine |
| `SaveData` | `save_data()` call by call, several instances on one object | shown to have the outcomes of `SecureObjects` |
| `DefUseMap` | the hash map of `cfa.c` | used by the engine |
| `MeasurementEngine` | the TA: one action per entry point, command and event type | |
| `OperationLog` | *abstract*: what the engine promises one client | |
| `MeasurementEngineLog` | refinement mapping of a session to `OperationLog` | extends the engine |
| `Blake2s` | the hash functions around a symbolic compression function | |
| `HashStream` | *abstract*: a streaming hash | `Blake2s` refines it |
| `HostProgram` | the threads of the instrumented program | used by the two below |
| `Trampoline` | the library: functions as paths of steps over the globals | |
| `ControlTransfer` | the code around an indirect transfer, and the stub, on the registers | |
| `Attestation` | program, stubs, library and engine together | `Trampoline` + `ControlTransfer` + `MeasurementEngineLog` |
| `InstrumentedProgram` | a processor running instrumented code; the hints it leaves | |
| `VerifyEngine` | the replay loop `hookit()` | extends `InstrumentedProgram` |
| `IRProgram` | LLVM's intermediate representation, as far as Nova looks at it | |
| `NovaPass` | the pass: traversal, points-to analysis, scan, instrumentation | extends `IRProgram` |
| `NovaRun` | the instrumented program, executed against the engine's data check | extends `NovaPass` |
| `MC*` | constants for TLC | |
| `*Proofs` | theorems | |

### Engine (`MeasurementEngine`)

`ctx[s]` is `cfa_ctx` of the instance of session `s`; `Initialised` is
`cfa_init()`, one allocation after the other.  `alloc[ch]` says whether a buffer
pointer is not NULL and `buf[ch]` holds the entries below the index.  `Verify`
is the wrapper, and `ControlEvent`, `AddressEvent`, `CondEvent`, `DefEvent`,
`UseEvent`, `UnknownEvent` what `handle_event()` does for each type, flush
included; `CfaQuote` makes its three saves in order.  `Panic` is a data abort:
the TEE kills the instance and answers `TARGET_DEAD` from then on.  `blob` holds
the persistent objects.  The histories `defined`, `check` and `committed`
remember what properties speak of; the code has no such state.

Choices that need a word:

* `handle_event()` and `verify()` do not compile as they stand in the
  repository (`else (cond)`, `evt-etype`, `params[0].a`).  The model is the
  dispatch they evidently write down.
* `key % hmap->p` with `p = 0` is undefined: before `cfa_init()` a data event
  may kill the instance or find an empty map, and the model allows both.  A
  division that traps is the one; on AArch64 it gives 0 and the index is the key,
  which leads to a bucket of the new instance, empty, or far behind the buckets,
  to a fault.  What a lookup would make of other memory of the TA is left out.
* A digest is named by the control events it covers, so two digests are equal
  exactly when the same events were hashed; what the hash does with them is the
  subject of `Blake2s`.
* `trace_cond_event()` stores the bytes 1 and 0 (`'y' ? evt->a == 1 : 'n'`),
  which is what `CondByte` says.
* `DATA_USE` fails the check for every address, because `hashmap_update()` never
  links the node it allocates.  That is modelled as it is; `LinkedUpdate` is
  what a corrected function would do.

### Hash (`Blake2s`, `HashStream`)

The state is that of `blake2s_state`; the chaining value is the sequence of the
blocks compressed so far, each with its counter and flag.  An update is three
kinds of step, as in the code: `Update` fills the buffer and compresses it,
`UpdateBlock` is a round of the loop, `UpdateTail` keeps the rest.  The history
`given` holds the bytes the callers passed since the last init, whole, when they
passed them.  `HashStream` is started with a digest length and a key, appends
each piece to its message as it is, and finishes with the one-shot digest of that
message; the refinement mapping takes `given` for the message, so the digest that
the blocks amount to must be that of the bytes passed.  An `outlen` above 32,
which `blake2s_final()` would copy out of a buffer of 32 bytes
(`blake2s-ref.c:260`), is left out: no caller passes one.

### Storage (`SecureObjects`, `SaveData`)

The engine treats `save_data()` as one step with a set of outcomes.  `SaveData`
takes it apart into the storage calls it makes, interleaves two instances and
shows (`MatchesOutcomes`) that a save no other overlaps ends in one of those
outcomes.  The TEE's storage is not in the repository: an object opened for
writing without a share flag is taken to refuse other handles, and the
`TEE_DATA_FLAG_OVERWRITE` that the code passes to open is taken to be accepted.
The races of overlapping saves are in `SaveData` only.

### Library (`Trampoline`) and system (`Attestation`)

A function is a path of steps, each touching one global, so threads interleave
between any two; `pc[t]` and `call[t]` say where a thread is.  `fopen()` may
fail, `fclose(NULL)` crashes, `exit()` ends all threads, and the program may be
killed and started again.  The five invocations of `test_world_switch()` are five
steps.  Fields are split in halves (`Half` is 2^32).  What the
TEE copies back into `op` is left out, since `op` is cleared before the next
use.  `Attestation` lets each call of the TEE be an entry point of
`MeasurementEngineLog`, and each control event be the call of a stub.

The parameter types of the two sides do not match for any command of the
protocol, so the repository's program ends in `cfv_init()`; the run
`attestation_types` shows it.  With `Aligned = TRUE` the types that the library
sets for a command stand for the ones the engine expects, which is the smallest
repair, and lets the rest of the protocol be examined.

### Transfers (`ControlTransfer`)

`cpu[t]` is what one thread has in its registers from a site to its transfer.
`Push`, `Pass`, `Pop` and `Transfer` are the instructions of
`handleControlTransfer()`; `Save` and `Restore` those of the stub, `StubSaved`
its list of registers; `EnterLibrary` and `LeaveLibrary` are the C function,
which may change whatever the procedure call standard lets it change
(`CallerSaved`, `Leftovers`).  Three copies of the stub differ in the function they call.
Registers are numbers, x0 to x30 and, from 32, v0 to v31.  The stub does not
store x16, x17, x18 or any vector register (`Unsaved`): a target in x16, and a
float that a function returns in v0 through `cfv_ret()`, survive only if the
library happens not to use them.  The properties say so by excepting them.
In `Attestation` a site is reached only by a thread that is not in the library,
and `Report` is the call of the library that the stub makes.

### Replay (`InstrumentedProgram`, `VerifyEngine`)

Code is a sequence of instructions.  `CondSite` is a condition as the hint pass
and the backend leave it: computed by a `cset`, handed to
`__collect_cond_branch_hints()`, and branched on in one of the *forms* the
backend chooses.  The forms in `MCVerifyEngine` are those found in the example
binary shipped with the engine.  The engine decides a `tbnz` with a flag that
only an inequality sets and follows none that is taken, so it comes after
inequalities only.  The program runs with
any outcome of its comparisons and ends or is killed; the engine then replays
it, one handler per step, in the order of the tests in `hookit()`.  Omitted
addresses, the decoding of branch offsets and a branch out of the text section
are left out.

### Nova (`IRProgram`, `NovaPass`, `NovaRun`)

A program is a sequence of instructions per function, in the order `Traversal()`
visits them.  `NovaPass` takes one step per instruction: `UpdateAlloca`,
`UpdateLoad` and so on are the pairs of points-to and taint handlers that
`DispatchClients()` calls, `EnterCall`, `SkipCall` and `LeaveFunction` are the
traversal of calls, and `stack` holds the traversals in progress.  Objects,
tuples and tuple sets are those of `Nova.h`; tuple sets are shared, as the
pointers to them are in the code, so that a change through one entry shows in
the others.  `Scan` looks at the entries of the map one at a time in any order,
since the code iterates over a map ordered by pointers.  Of the taint map only
what is read, whether a value has an entry, is modelled.

`NovaRun` then executes the instrumented program on a memory, with the
measurement engine's check at every instrumented load and its record at every
instrumented store.  The engine's map is the one `hashmap_update()` is meant to
maintain, not the one it leaves (finding 1): otherwise every check would fail.

The analysis is not sound for every program, and does not try to be.  `lost`
becomes true when an execution goes where it does not follow:

* backwards in a loop, since a loop is visited once (`MAX_RUNS`);
* into a function through an indirect call or from a second call site, or with
  a pointer that was not passed on: a parameter gets the pointees of one call
  only, and of no argument that has no taint entry, such as an alloca;
* out of a function that itself calls another, whose result is filed under the
  inner call;
* through a field behind the first of a struct, of which the analysis records
  no pointees.  `SkipStructType()` holds of every struct but `struct.IO_...`,
  the reverse of what its comment says (`Nova.cpp:376-378`), so no struct has
  its fields modelled.

Until then `PointsToSound`, `ScopeRaisesNoAlarm` and `ScopeReadsAreChecked`
must hold.  Outside the annotated variables (`scope`) a check may well fail
falsely: a value is sensitive when it *may* alias one, and what it then reads
may belong to a variable whose stores are not recorded.  An alarm over a value
that no store of the program wrote, an initial value or one written by a
library function, is not excluded either: neither is recorded.  Floats are never
instrumented (`Nova.cpp:5257`).  
The scan tests each value against the set that it extends itself, once, in the
order of addresses (`Nova.cpp:5079`, `5112-5116`, `5138-5142`).  It is not a
closure, and its result depends on that order: of `q = &p; p = &x` with `x`
annotated, `q` becomes sensitive only if `p` was looked at before, and what is
instrumented depends on where the compiler's allocator put the instructions.  So
the comment at `Nova.cpp:5077`, "scan over all vars, put those whose alias is in
the senVar set into senVar, too", is not kept in every order.  `ScanIsBounded` is
what holds in every one.

## 3. The runs

Seven runs pass; each of the other five finds the one property it names violated
and is a finding, listed below.  Sizes are distinct states.

| Run | States | Question |
|---|---|---|
| `engine_any` | 109,576 | May a client call the engine in any order? Buffers stay in bounds, no wrong USE passes, every panic has a reason |
| `engine_disciplined` | 115,464 | Do two clients that keep to the library's order each have a log of their own, on failing storage and a small heap? |
| `engine_def_use` | violated | Does a USE of the defined value pass? |
| `engine_lost_flush` | violated | Does "store it" store it? |
| `save_data` | 19,485 | Do two instances saving at once leak handles, lose or tear chunks? |
| `blake2s` | 191,711 | Do pieces hash like the whole, with carries and after the end? |
| `attestation` | 550,132 | Do the stubs and the library make of any one-threaded program a client that the engine can rely on, without disturbing it? |
| `attestation_types` | violated | The same with the parameter types of the repository |
| `attestation_threads` | violated | The same with a second thread |
| `replay` | 663,215 | Does the replay follow the executed path as far as it can, and stop? |
| `replay_mixed` | violated | The same with a signed less-than before an equality |
| `nova` | 41,883 | Does the pass end, find every name of an annotated variable, and raise no false alarm about it? |

### Bounds, and why they are enough

* `MeasurementEngine_*`: a condition buffer of one entry and an address buffer
  of two make every third event flush; the two costs and `HeapSize` make the
  heap run out during initialisation, between its allocations, at a re-init and
  at a node; a map of two slots collides.  `MaxCommands` (4 or 6) covers init,
  fill, flush, quote and one more command after it.  Two values of a field
  distinguish what an entry or a digest contains.  Two sessions are all that
  the shared objects can tell apart: an entry belongs to a session or it does
  not; they are symmetric.
* `SaveData`: two instances with two saves each, so that each save is a first
  one, an append, or overlaps the other's.
* `Blake2s`: blocks of 4 bytes and a counter word modulo 8, so that the carry
  happens after two blocks; pieces of 0, 1, 3, 4, 5 and 9 bytes lie on both
  sides of one and of two blocks; 18 bytes hold four blocks and a rest.
* `Attestation*`: halves of two values and events whose halves and fields
  differ; two sessions, so that one can be left behind; `MaxCommands` 4 bounds
  the commands engines accept, over all restarts.  Eight registers: x0, x1 and
  lr, which the inserted code uses, one in the middle and one at the end of the
  list that the stub stores, one that C preserves, x16 and v0.  Targets are in
  x0, x15, x16 and lr.
* `VerifyEngine*`: at most five conditions in an operation (`MaxHints`): enough
  to go twice around its loop, once through the function it calls.  The
  programs have a call, a branch and a loop within an operation that is itself
  in a loop, and every pair of forms, each before the other; others have an
  indirect call or jump between two conditions, or a `tbnz` after inequalities,
  or a `while` that a `b` closes around an indirect call or jump.  A replay that
  writes more than twelve edges (`MaxEdges`) stops there; only the endless ones
  that `ReplayEnds` excepts do, any other would violate it.
* `NovaRun`: 622 programs of one to four functions.  Each family has a
  statement of every kind in the positions that matter: aliases through casts,
  address computations, struct fields, loads and stores of pointers, arguments
  and results; two calls of one function, a call within a call, recursion, an
  indirect call, a branch and a loop.  Three activations (`MaxFrames`) let a
  function be entered twice; `MaxDepth` 5 holds no traversal back: one that it
  stopped would not end, and `PassEnds` says that all do.  Every
  order of the scan is explored; two pointers in a chain are among the programs.

`CHECK_DEADLOCK FALSE` is set where the system really stops: when the saves are
used up, when the replay is over, and where the behaviour of a program becomes
undefined.

### Fairness

`Verification` assumes weak fairness of the replay: the engine is a sequential
script that waits for nothing, so a step that can be taken is.  `NovaSpec`
assumes it of the compiler pass, for the same reason, and not of the program.
The program that is replayed need not ever end: `ReplayEnds` speaks of a replay
that began.  Everything else is safety, and the client, the threads and the
storage may stop anywhere.

### Properties

* `BufferInBounds`, `PanicExplained` (engine): the index test with `==`, and
  everything that is written through an unchecked pointer.
* `NoSilentAccept`: compares every USE with the history of definitions, whatever
  the map lost or collided.  As long as no node is ever linked (finding 1) all of
  them are reported, and the property is of use to whoever repairs that.
* `ImplementsLog`: every session refines `OperationLog` whatever other sessions
  flush in between.  A flush is a stutter; a quote commits the whole trace and a
  digest of its own control events; while storage fails, entries are lost but
  never repeated, reordered or invented.
* `NoLeakedHandle`, `NothingLostUnlessRefused`, `MatchesOutcomes` (storage).
  `NothingLostUnlessRefused` needs its two hypotheses: two first saves can both
  create the object, and a refused open makes `save_data()` create it anew; so it
  says nothing of either.
* `LastBlockHeld`, `CounterExact`, `ImplementsStream` (hash).
  `ImplementsStream` says that the digest is that of the bytes the callers passed,
  each once and in order, whatever the pieces.
* `EventsAsSent`: what is invoked is what was reported.  With one thread that is a
  matter of the halves and of clearing; the run with two threads meets the race.
  The other properties of the library are checked for one thread only.
* `HintsAreTheTrace`: between two calls, the hints file is a suffix of what the
  engine recorded.  It promises that much while storage works.
* `DisciplinedClients`: the engine in `Attestation` refines the engine with
  disciplined clients, which is the hypothesis of `ImplementsLog`.
* `ExitExplained`: `check_res()` never ends a program because of an event.
* `CrashExplained`: `hfp` is not reset when the file is closed; what keeps a
  program from printing to it or closing it again is `cfv_start` and the closed
  session.  The one crash left is `fclose(NULL)` after a failed `fopen()`.
* `RegistersKept`, `TransfersAttested`: the code around a transfer is transparent
  to the program, and when the transfer is made, the engine's last record of its
  kind is its target.
* `ReplayFollows`, `CrashMeansKilled`, `ReplayEnds` (verify engine): up to the
  first edge it cannot follow the replay is the path; behind it nothing is
  claimed but that it ends.  `ReplayEnds` has one exception: behind the text of an
  indirect transfer every condition is answered with an `e` that consumes nothing
  (`verify_engine:166-168`), no branch is taken any more, and a loop that an
  unconditional `b` closes is gone round for ever.
* `TraversalsNest`, `PassEnds`, `ScanIsBounded` (the pass),
  `PointsToSound`, `ScopeRaisesNoAlarm`, `ScopeReadsAreChecked` (what it makes of
  a program).

Each has a mutant in `PROJECT.json`: an edit of the model, such as a dropped
guard or a wrong order, under which the property fails.

### Findings

1. `engine_def_use`: `hashmap_update()` assigns the new node to a local pointer
   (`ta/cfa.c:80`); the map stays empty and every USE is reported.
2. `engine_lost_flush`: a failed flush drops the buffered events and returns
   `TEE_SUCCESS` (`ta/hello_world_ta.c:282`).
3. `attestation_types`: library and engine disagree on the parameter types of
   every command (`lib/cfv_bellman.c:113`).
4. `attestation_threads`: threads overwrite each other's global operation
   (`lib/cfv_bellman.c:184`); the light controller has such a thread.
5. `replay_mixed`: a `cset eq` does not change `last_flag`
   (`verify_engine:262`), so after a less-than an equality goes the wrong way.

Two more disagreements have no run of their own; the passing runs meet them and the
properties name them: the endless replay (`ReplayEnds`) and the scan that depends
on the order of addresses (`ScanIsBounded`).

## 4. The proofs

All are for every value of the constants that satisfies the `ASSUME` of the
module, which the runs evaluate too.

**`MeasurementEngineProofs`**: `TypeCorrect`, `BuffersStayInBounds`,
`MismatchesAreReported`, `PanicsAreExplained`.  From `ConstantsAssumption` and
`HashmapSizeAssumption` only: any sessions, events, capacities, costs and heap.
The invariant `IInv` is `EnvironmentOK /\ ChecksOK /\ ContextsOK`.
`BufferInBounds` alone is not inductive: that a buffer which is not allocated is
empty, and that a *missing* buffer has a reason (no `cfa_init()` yet, or a heap
that could not hold it then and, since nothing is freed, cannot now) must be
carried along, and the panic theorem rests on it.  `NoSilentAccept` rests on the
map being empty in every reachable state, which is the finding above seen from
the other side; it would need another argument for a corrected map.  One lemma
per kind of step, on one context, and one that lifts a step of a context to the
function of all sessions.

**`SaveDataProofs`**: `HandlesAreClosed`, `ChunksAreKept`, `SaveIsOneStep`, for
any number of instances and saves and whichever calls fail.  The invariant knows
besides the first two that, while nothing is refused, nobody is about to create
the object anew (`Intact`), and how far a save that no other overlaps has come
(`Undisturbed`, `Progress`).  `SaveIsOneStep` is what allows the engine to take
`save_data()` as one step.

**`Blake2sProofs`**: `HashTypeCorrect`, `LastBlockIsHeld`, `CounterIsExact`,
`HashIsStream`, for any block length, width, key and cut of a message.  The invariant adds to the first
two properties that the buffer is drained while the loop of `blake2s_update()`
runs.  `CounterIsExact` rests on `IncrementCounts`: two words with a carry found
by comparison count modulo the product of their widths, if the increment is less
than one of them, which `B < W` says.  `HashIsStream` is the refinement
`ImplementsStream`.  It adds to the invariant that, until the last block, every
block is unflagged and carries the number of bytes up to its end (`Tagged`), and
that what is in the blocks, in the buffer and in what is still to be read is, one
after the other, what the callers passed (`HoldsInput`).  An update appends its
piece to the message (`UpdateMessage`), the loop only moves bytes (`LoopMessage`),
both by `CompressedAppend`: a block more in the chain is
its bytes more in the message.  `FinalDigest` then compares the chain with the
one-shot digest block by block; that there are as many (`MessageBlocks`) is where
`LastBlockHeld` is needed.

**`TrampolineProofs`**: `TrampolineTypeCorrect`, for any number of threads, and
`OneThreadSendsEvents`, which says that `EventsAsSent` holds when `Thread` is
`{Main}`.  The invariant of the first must know that a thread on the path that
prints a hint has an event with a hint.  The second strengthens it by
`Filled`: how much of its event a thread has put into `op`, by the step it is
at.  It is there that a second thread breaks the proof, as it breaks the
program.  `HalvesJoin` is the arithmetic of splitting and joining a field.

**`ControlTransferProofs`**: `TransferTyped`, `ProgramKeepsItsRegisters`,
`TargetsAreReported`, for any threads, registers, contents and whatever a C
function leaves behind.  The invariant says, step by step, where the program's
x0 and lr are (`PushedOK`), what the frame holds (`FrameOK`) and which registers
are still or again their own (`KeptOK`); the lemma `Registers` is the one fact
about the list of the stub: with it, every register a C function may change is
stored by the stub, or by nobody.

**`NovaPassProofs`**: `PassTyped`, `NestedTraversals`, `BoundedScan`, for any
set of well-formed programs.  `IInv` adds to the types that the set of visited
calls is finite, without which its size says nothing.  `NestedTraversals` rests
on the mark that is set before a callee is entered.  `BoundedScan` has an
invariant of its own, `ScanInv`: what the scan has passed, and what is sensitive
to begin with, is in `senVarSet` already, whatever the order; what is still to come
is not in it; and what was found is `Founded`: any set of it has a member with an
alias outside.  The last is kept because a value that is added has one in what was
found before (`FoundedGrows`).  The instrumentation then follows from the
definitions.

`EngineImplementsLog`, in the second half of `MeasurementEngineProofs`, is for disciplined clients
(`Disciplined = TRUE`) and any sessions, events, capacities, costs, heap and
storage: the engine's `Spec` implies `ImplementsLog`, each session's steps being
steps or stutters of `OperationLog`.  The invariant `LogInv` adds to the engine's
`IInv` what the clients' discipline gives (`ProtocolOK`: a context is
initialised only in an open session, and its hash is not finished before the
quote), that an object which does not exist holds nothing (`ObjectsOK`), and
that, while storage does not fail, `committed` does not exceed what a session has
in its objects (`CommittedOK`).  The heart of it is `OwnOutcomes`: what one save, refused or
not, may leave of a session's own values in an object that all sessions share.
`Own` is a recursive function on the length of the object.  The library's
induction theorems cannot be instantiated, so the module states induction over
sets of numbers (`LEMMA Induction`: a set that holds 0 and, with a natural, its
successor, holds every natural), derived from the well-foundedness of `<`
(`NatLessThanWellFounded`, which takes no operator), and the lemmas `OwnsExists`, `OwnsType`, `OwnsPrefix` and `OwnsMore` say by it what `Own`
computes.

**`VerifyEngineProofs`**: `VerifyTypeCorrect`, `ReplayCorrect`, `CrashCorrect`.
The first is for every set of programs that the engine can be given.  The other
two are for every set of *legible* programs (`LegiblePrograms`), of any length,
with any calls and any number of executed steps.  `VerifyEngine.Legible` says
what the engine takes for granted and never tests: the passes have put a hook in
front of every transfer that is noted, and nothing jumps behind a hook; there is one operation, which `cfv_quote()` ends
and no return does; and the flags that the replay has in front of a conditional
branch tell how that branch was compiled.  The witness, a *plan*, gives the
operation's instructions and the flags possible at each.  TLC evaluates
`SafeProgramsAreLegible` in `MCVerifyEngine`: all programs of the run `replay`
are legible, so neither theorem is about an empty set.  The programs of
`replay_mixed` are the ones whose flags do not tell, and there the property
fails.  A branch to itself is excluded because the engine waits for an address
other than the last (`verify_engine:207-211`).  `CrashCorrect` has the
hypothesis `[]Noticed`, that a program which ended printed a line: without one,
`get_trace()` asserts, and the exception says nothing of the program.

The invariant `ReplayInv` is `TypedInv` with a plan and a *history*: at every
point of the path, the stack of return addresses, the number of symbols the
engine should have consumed and of those printed.  While the program runs,
`RunHistory` grows it step by step.  While the engine runs, the state is either
on the path (`Following`: address, stack, cursor and flags are those of the
history at the point reached) or past the first transfer that the hints do not
tell (`Astray`), where nothing more is promised.  The lemma `Meets` relates the
two sides, which move at different speeds: two straight runs from the same
address that end in a transfer each end in the same one, so the engine,
which goes instruction by instruction, arrives at the branch the program noted
next.  `FirstLineOf` says that the trace read back is what was printed up to the
first thing that is not a hint.  `ReplayFollows` and `CrashMeansKilled` then
follow from `ReplayInv` in each phase.

**`AttestationProofs`**: the system composed of program, stubs, library and
engine, for one thread (`Thread = {Main}`) and any sites, register contents,
leftovers, events and engine parameters that satisfy the assumptions of the
composed modules and `AttestationAssumption`, which are the engine's assumptions
read for the composition.  `SystemImplementsLibrary` shows that its steps are
steps of `Trampoline`, so that `EventsReachTheEngine` follows from the library's
own theorem.  `ProgramsAreDisciplined` is the refinement `DisciplinedClients`, and
with it the engine's refinement applies to the composition
(`ProgramsAreLogged`): the hypothesis `Disciplined = TRUE` of
`EngineImplementsLog` is discharged by the library that is linked to every
program.  `SystemKeepsRegisters`, `TransfersAreAttested`, `CrashesAreExplained` and
`HintsAreRecorded` are the safety properties of the run `attestation`;
`ExitsAreExplained` needs
`Aligned = TRUE` besides, since with the repository's parameter types it is false
(run `attestation_types`).

The inductive invariant `SystemInv` joins those of the parts (`IInv` and `Filled`
of the library, `CpuInv` of the stubs, `LogInv` of the engine inside `EngineInv`)
with what relates them:

* `SiteOK`: a site that is about to report has an event the program knows, and
  the library, when a stub called it, is reporting that very event;
* `LinkOK`: where the library is between `cfv_init()` and `cfv_quote()`, against
  the state of the session and its instance; it is what makes the program a
  disciplined client;
* `FileOK`: inside an operation, and while a hint is printed, the hints file is
  not one that was closed;
* `TypesOK`: from the step that sets them on, the parameter types in `op` are
  those of the function that runs, until it invoked the TA;
* `NotedOK`: inside an operation, once the engine has answered the event of a
  transfer, it is the last record of its kind, until the transfer is made.

`LinkOK`, `FileOK` and `NotedOK` are required while the program runs: an exit or
a crash leaves the globals as they are, and a restart clears them.

`HintsAreRecorded` has a stronger invariant, `TraceInv`, which is `SystemInv` and

* `HintsOK`: while storage works and an operation is open, between two calls what
  was printed to the file matches the trace (`Matches`); while a call reports an
  event it matches up to the invocation, and from there to the print it matches
  once the line of that event is appended, since the engine has recorded it
  already; between `fopen()` and the end of `cfv_init()` the file is empty;
* `HintKind`: an event that goes the path without a hint has none.

The trace in it is the abstract one, `recorded`: what the session has in the
object followed by what it holds in its buffer, so that a flush, of this session
or of another that shares the object, does not change it.  Only an event does
(`EventRecords`, `RecordedStays`).  `LinesOf`, which picks the lines of one kind out of a
hints file, is the same recursion as the engine's `Owned`, and `LinesTable`
relates it to the tables of `Owns`, for which `OwnsExists` was proved by induction
once.  The match of conditions needs the assumption that they are reported as 1
or 0, which is all that `nova.c:36-40` prints.

Only model-checked: the execution of what Nova instrumented (the three properties
of `NovaRun`).  Each relates a run of a program to what Nova's walk over its text
left in the alias map and in the instrumented code: a proof needs what that walk
computes for any program, which is an induction over data.  Liveness
(`ReplayEnds`, `PassEnds`) is out of the prover's reach and stays with TLC.

## 5. What is not modelled

* Of Nova: the contents of the taint sets, which nothing reads, and the bounds
  checks (`Nova.cpp:141-345`, `1625-5000`), whose calls in `runOnModule()` are
  commented out.
* Transfers without inserted code.  An indirect tail call is a pseudo
  instruction (`TCRETURNri`) when the backend pass runs, and is not instrumented.
* Timing printouts and the microbenchmark.
* The compression function of BLAKE2s, and its self test.
* The SoftBound runtime (its calls are disabled), the evaluation programs as
  such, the host example (both of its calls are actions of the engine).
* LLVM 4.0 and Clang, as vendored, are nearly all of the repository's lines, which
  is why the models stand for a tiny share of the tree.  What OAT adds to it
  (the passes of `CFVHints`, Nova and the backend pass) is modelled; the rest
  only where its meaning is needed: the instructions of `IRProgram` and `NovaRun`
  are mapped to `IRBuilder.h` and to LLVM's interpreter.
* Of the verify engine: operations with the branches of a `switch` (which the
  hint pass does not instrument), and binaries with two operations.  The handlers are in the model; the programs of the runs do not
  contain them, and the hazards in `PROJECT.json` say what each would do.
* The trace in the secure object is never read by anything in the repository.

## 6. Plan

Order of the work: engine, storage, hash, library, composition, replay, Nova,
transfers (done, with their theorems, Nova's execution excepted), then:

1. A proof of `NoSilentAccept` for an engine whose map is corrected.
2. `PointsToSound` for straight-line programs, from an invariant that relates the
   memory to the alias map.
3. A program like the light controller, whose callback thread takes a lock, as a
   client of `Trampoline`; two operations in one binary for the verify engine.
