--------------------------- MODULE MCAttestation ---------------------------
(***************************************************************************)
(* Attestation with fields of two halves of two values each, and events    *)
(* whose halves and whose two fields differ.                               *)
(* The registers are some of those that the inserted code, the stub, the   *)
(* library and nobody takes care of; each holds a number of its own, but   *)
(* for the target of a transfer.                                           *)
(***************************************************************************)
EXTENDS Attestation

MCCapacity == [ch \in {"cond", "addr"} |-> 1]
MCBufCost  == [ch \in {"cond", "addr"} |-> 1]

Ev(t, x, y) == [etype |-> t, a |-> x, b |-> y]
MCEvents    == { Ev("CTRL", 1, 2), Ev("CONDBR", 0, 0), Ev("CONDBR", 1, 0),
                 Ev("IBR", 2, 1), Ev("DATA_USE", 2, 3) }

TwoEvents   == { Ev("DATA_DEF", 1, 1), Ev("DATA_DEF", 2, 2) }

MCReg  == {0, 1, 2, 15, 16, 19, 30, 32}
MCWord == 0..99

Holds(reg, dest) == [r \in MCReg |-> IF r = reg THEN dest ELSE 10 + r]
MCSite == { [op |-> "ret", reg |-> 30, ret |-> 1] }
            \cup [op : {"br"}, reg : {0, 15, 16}, ret : {2}]
MCContents  == { Holds(30, 2) } \cup { Holds(r, 1) : r \in {0, 15, 16} }
MCLeftovers == { [r \in MCReg |-> 99] }

NoSites     == {}

=============================================================================
