------------------------ MODULE MeasurementEngineLog ------------------------
(***************************************************************************)
(* The refinement mapping under which every session of the measurement     *)
(* engine implements OperationLog.                                         *)
(***************************************************************************)
EXTENDS MeasurementEngine

Running(s) == session[s] = "open" /\ ctx[s].initialized

\* What s has recorded: its entries in the object, then those still buffered.
Recorded(s) ==
  [ch \in Chan |-> Own(blob[ch], s) \o
                   (IF Running(s) THEN ctx[s].buf[ch] ELSE <<>>)]

\* A digest names the control events it covers.
Covered(s) ==
  LET own == Own(blob["rethash"], s) IN [i \in DOMAIN own |-> own[i].fed]

LogOf(s) ==
  INSTANCE OperationLog WITH
    Entry     <- Word \cup {0, 1},
    Payload   <- Word \X Word,
    running   <- Running(s),
    log       <- Recorded(s),
    committed <- committed[s],
    ctrl      <- IF Running(s) THEN ctx[s].S.fed ELSE <<>>,
    digests   <- Covered(s),
    mayFail   <- mayFail

(***************************************************************************)
(* Every session of a disciplined client implements the operation log,     *)
(* whatever the other sessions do to the objects they share: a flush is    *)
(* invisible, a quote commits the whole trace and one digest of exactly    *)
(* the control events since cfa_init(), and a session cut short loses at   *)
(* most what it had not committed (hello_world_ta.c:279-364).              *)
(***************************************************************************)
ImplementsLog ==
  /\ \A s \in Session : LogOf(s)!Init
  /\ [][\A s \in Session : [LogOf(s)!Next]_(LogOf(s)!vars)]_vars

(***************************************************************************)
(* "buffer full, store it." (hello_world_ta.c:281 and 291): what was       *)
(* recorded stays recorded while the operation goes on.  It does not when  *)
(* save_data() fails, because its result is dropped and the index reset.   *)
(***************************************************************************)
RecordedSurvives ==
  [][\A s \in Session, ch \in Chan :
       Running(s) /\ Running(s)' =>
         \E more \in 0..1 :
           /\ Len(Recorded(s)'[ch]) = Len(Recorded(s)[ch]) + more
           /\ SubSeq(Recorded(s)'[ch], 1, Len(Recorded(s)[ch])) = Recorded(s)[ch]]_vars

=============================================================================
