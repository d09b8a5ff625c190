--------------------------- MODULE SecureObjects ---------------------------
(***************************************************************************)
(* Persistent objects of the TA's private storage (TEE_STORAGE_PRIVATE),   *)
(* seen from save_data(): every result one call can leave behind.          *)
(*                                                                         *)
(* An object is a record: whether it exists, and the data written to it.   *)
(* The module SaveData takes the same function apart into the storage      *)
(* calls it makes, and checks that the outcomes listed here are exactly    *)
(* the ones those calls produce.                                           *)
(***************************************************************************)
EXTENDS Sequences

Absent        == [exists |-> FALSE, data |-> <<>>]
Holding(data) == [exists |-> TRUE,  data |-> data]

\* prepare_file(): create with TEE_DATA_FLAG_OVERWRITE, then write.  A failed
\* create leaves the object alone; a failed write leaves it created and empty.
PrepareOutcomes(obj, chunk, mayFail) ==
  {Holding(chunk)} \cup (IF mayFail THEN {obj, Holding(<<>>)} ELSE {})

\* append_file(): open, seek to the end, write.  Any failure leaves it alone.
AppendOutcomes(obj, chunk, mayFail) ==
  {Holding(obj.data \o chunk)} \cup (IF mayFail THEN {obj} ELSE {})

\* save_data(): check_file_exists() answers FALSE for EVERY failure to open
\* the object, so an object that exists can still be "prepared" from scratch.
SaveOutcomes(obj, chunk, mayFail) ==
  UNION { IF found THEN AppendOutcomes(obj, chunk, mayFail)
                   ELSE PrepareOutcomes(obj, chunk, mayFail) :
          found \in {obj.exists} \cup (IF mayFail THEN {FALSE} ELSE {}) }

=============================================================================
