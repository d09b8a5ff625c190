------------------------ MODULE MCMeasurementEngine ------------------------
(***************************************************************************)
(* Instances of the measurement engine for TLC.  Capacities, costs and the *)
(* heap are small enough for flushes, exhausted heaps and collisions in    *)
(* the hash map to happen within MaxCommands commands.                     *)
(***************************************************************************)
EXTENDS MeasurementEngineLog, TLC

MCClientTypes == {OpenTypes, InitTypes, VerifyTypes}
MCCapacity    == [ch \in Chan |-> IF ch = "cond" THEN 1 ELSE 2]
MCBufCost     == [ch \in Chan |-> IF ch = "cond" THEN 2 ELSE 1]

Ev(t, x, y)   == [etype |-> t, a |-> x, b |-> y]
AllEvents     == [etype : Etype, a : Word, b : Word]

\* Enough to tell the entries of a channel, and of a digest, apart.
FewEvents     == { Ev("CTRL", 0, 1),
                   Ev("CONDBR", 0, 0), Ev("CONDBR", 1, 0),
                   Ev("ICALL", 0, 0), Ev("IBR", 0, 1),
                   Ev("DATA_DEF", 0, 1) }

Symmetry           == Permutations(Session)

=============================================================================
