---------------------------- MODULE OperationLog ----------------------------
(***************************************************************************)
(* What the measurement engine promises to ONE client: the entries it      *)
(* records during an operation are logged in order, once each, and a       *)
(* finished operation adds the digest of exactly its own control events.   *)
(*                                                                         *)
(* There are no buffers, flushes, sessions or objects here.  The module    *)
(* MeasurementEngineLog shows that the engine implements this log, for     *)
(* every session at once, when its clients follow the trampoline's         *)
(* protocol.  While the storage may fail a step may lose entries at either *)
(* end of a log, but none is ever reordered, repeated or invented.         *)
(***************************************************************************)
EXTENDS Naturals, Sequences

CONSTANTS Chan,      \* the trace channels
          Entry,     \* what a channel can record
          Payload    \* what a control event feeds into the hash

VARIABLES running,   \* an operation is being measured
          log,       \* per channel: everything recorded and not lost
          committed, \* per channel: how much of log finished operations own
          ctrl,      \* control events of the running operation
          digests,   \* one per finished operation
          mayFail    \* whether the storage may fail

vars == <<running, log, committed, ctrl, digests, mayFail>>

Init ==
  /\ running = FALSE
  /\ log = [c \in Chan |-> <<>>]
  /\ committed = [c \in Chan |-> 0]
  /\ ctrl = <<>>
  /\ digests = <<>>
  /\ mayFail \in BOOLEAN

\* The contiguous pieces of a sequence, the empty one and the whole included.
Segments(seq) ==
  {SubSeq(seq, m, n) : m \in 1..(Len(seq) + 1), n \in 0..Len(seq)}

\* What may be left of a sequence: all of it, unless the storage may fail.
Kept(seq) == IF mayFail THEN Segments(seq) ELSE {seq}

Begin ==
  /\ ~running
  /\ running' = TRUE
  /\ UNCHANGED <<log, committed, ctrl, digests, mayFail>>

Record(c, e) ==
  /\ running
  /\ \E kept \in Kept(log[c]) : log' = [log EXCEPT ![c] = Append(kept, e)]
  /\ UNCHANGED <<running, committed, ctrl, digests, mayFail>>

Absorb(p) ==
  /\ running
  /\ ctrl' = Append(ctrl, p)
  /\ UNCHANGED <<running, log, committed, digests, mayFail>>

Commit ==
  /\ running
  /\ running' = FALSE
  /\ \A c \in Chan : log'[c] \in Kept(log[c])
  /\ DOMAIN log' = Chan
  /\ digests' \in Kept(Append(digests, ctrl))
  /\ committed' = [c \in Chan |-> Len(log'[c])]
  /\ ctrl' = <<>>
  /\ UNCHANGED mayFail

\* The session ends or the instance dies before the operation is quoted: what
\* was still buffered is gone, what was committed stays.
Abandon ==
  /\ running
  /\ running' = FALSE
  /\ \A c \in Chan : \E n \in (IF mayFail THEN 0 ELSE committed[c])..Len(log[c]) :
       log'[c] = SubSeq(log[c], 1, n)
  /\ DOMAIN log' = Chan
  /\ ctrl' = <<>>
  /\ UNCHANGED <<committed, digests, mayFail>>

\* Another client's failing call may truncate an object both share.
Lose ==
  /\ mayFail
  /\ \A c \in Chan : log'[c] \in Kept(log[c])
  /\ DOMAIN log' = Chan
  /\ digests' \in Kept(digests)
  /\ UNCHANGED <<running, committed, ctrl, mayFail>>

Next ==
  \/ Begin
  \/ \E c \in Chan, e \in Entry : Record(c, e)
  \/ \E p \in Payload : Absorb(p)
  \/ Commit
  \/ Abandon
  \/ Lose

Spec == Init /\ [][Next]_vars

=============================================================================
