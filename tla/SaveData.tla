------------------------------ MODULE SaveData ------------------------------
(***************************************************************************)
(* save_data() taken apart into the storage calls it makes                 *)
(* (ta/hello_world_ta.c), run by several TA instances on one object.       *)
(*                                                                         *)
(* All handles are opened with TEE_DATA_FLAG_ACCESS_WRITE_META and without *)
(* a share flag, so the storage service grants one handle at a time and    *)
(* refuses the others.  One step is one call of the service, which is not  *)
(* part of the repository: Open, Create, Write and Close below say what    *)
(* the code in save_data() relies on.                                      *)
(***************************************************************************)
EXTENDS SecureObjects, Naturals

CONSTANTS Instance,   \* TA instances
          None,       \* no instance holds the object
          ChunkLen,   \* entries in the chunk an instance saves
          MaxSaves,   \* bound on the saves of an instance
          MayFail     \* may a call fail without a conflict?

ASSUME SaveDataAssumption ==
  /\ None \notin Instance
  /\ ChunkLen \in Nat
  /\ MaxSaves \in Nat
  /\ MayFail \in BOOLEAN

VARIABLES obj,      \* the persistent object
          holder,   \* the instance whose handle is open, or None
          pc,       \* the next storage call of each instance
          ok,       \* res of the save in progress is still TEE_SUCCESS
          saves,    \* saves begun
          stored,   \* history: chunks successfully saved, in order of writing
          refused,  \* history: some call was refused or failed
          before,   \* history: the object when the save began
          alone,    \* history: no other instance was saving meanwhile
          existed   \* whether the object was there from the start; fixed

vars == <<obj, holder, pc, ok, saves, stored, refused, before, alone, existed>>

Calls == {"idle", "check", "checked", "create", "open", "seek",
          "writeNew", "writeEnd", "close"}

Chunk(i) == [k \in 1..ChunkLen |-> <<i, saves[i], k>>]

Init ==
  /\ obj \in {Absent, Holding(<<>>)}
  /\ existed = obj.exists
  /\ holder = None
  /\ pc = [i \in Instance |-> "idle"]
  /\ ok = [i \in Instance |-> TRUE]
  /\ saves = [i \in Instance |-> 0]
  /\ stored = <<>>
  /\ refused = FALSE
  /\ before = [i \in Instance |-> Absent]
  /\ alone = [i \in Instance |-> TRUE]

Goto(i, call) == pc' = [pc EXCEPT ![i] = call]

\* A call of i returns an error, and i goes on at the label next.
Fails(i, next) ==
  /\ ok' = [ok EXCEPT ![i] = FALSE]
  /\ refused' = TRUE
  /\ Goto(i, next)
  /\ UNCHANGED <<obj, holder, stored>>

history == <<saves, before, alone, existed>>

-----------------------------------------------------------------------------

\* save_data() is entered.
Begin(i) ==
  /\ pc[i] = "idle"
  /\ saves[i] < MaxSaves
  /\ saves' = [saves EXCEPT ![i] = @ + 1]
  /\ ok' = [ok EXCEPT ![i] = TRUE]
  /\ before' = [before EXCEPT ![i] = obj]
  /\ alone' = [j \in Instance |->
                 IF j = i THEN \A k \in Instance \ {i} : pc[k] = "idle"
                          ELSE alone[j] /\ pc[j] = "idle"]
  /\ Goto(i, "check")
  /\ UNCHANGED <<obj, holder, stored, refused, existed>>

CanOpen == holder = None /\ obj.exists

\* check_file_exists(): TEE_OpenPersistentObject.  Every error means "absent".
CheckOpen(i) ==
  /\ pc[i] = "check"
  /\ \/ /\ CanOpen
        /\ holder' = i
        /\ Goto(i, "checked")
        /\ UNCHANGED <<obj, ok, stored, refused>>
     \/ /\ ~CanOpen \/ MayFail
        /\ refused' = (refused \/ obj.exists)
        /\ Goto(i, "create")
        /\ UNCHANGED <<obj, holder, ok, stored>>
  /\ UNCHANGED history

\* check_file_exists(): TEE_CloseObject before it answers TRUE.
CheckClose(i) ==
  /\ pc[i] = "checked"
  /\ holder' = None
  /\ Goto(i, "open")
  /\ UNCHANGED <<obj, ok, stored, refused, history>>

\* Mutant: the error of a refused create is not kept in res.
CreateIgnoresError(i) ==
  /\ pc[i] = "create"
  /\ \/ /\ holder = None
        /\ holder' = i
        /\ obj' = Holding(<<>>)
        /\ Goto(i, "writeNew")
        /\ UNCHANGED <<ok, stored, refused>>
     \/ /\ holder # None \/ MayFail
        /\ refused' = TRUE
        /\ Goto(i, "idle")
        /\ UNCHANGED <<obj, holder, ok, stored>>
  /\ UNCHANGED history

\* prepare_file(): TEE_CreatePersistentObject with TEE_DATA_FLAG_OVERWRITE.
Create(i) ==
  /\ pc[i] = "create"
  /\ \/ /\ holder = None
        /\ holder' = i
        /\ obj' = Holding(<<>>)
        /\ Goto(i, "writeNew")
        /\ UNCHANGED <<ok, stored, refused>>
     \/ (holder # None \/ MayFail) /\ Fails(i, "idle")
  /\ UNCHANGED history

\* append_file(): TEE_OpenPersistentObject again.
AppendOpen(i) ==
  /\ pc[i] = "open"
  /\ \/ /\ CanOpen
        /\ holder' = i
        /\ Goto(i, "seek")
        /\ UNCHANGED <<obj, ok, stored, refused>>
     \/ (~CanOpen \/ MayFail) /\ Fails(i, "idle")
  /\ UNCHANGED history

\* Mutant: a failed seek goes to exit, past the close.
SeekLeaksHandle(i) ==
  /\ pc[i] = "seek"
  /\ \/ /\ Goto(i, "writeEnd")
        /\ UNCHANGED <<obj, holder, ok, stored, refused>>
     \/ MayFail /\ Fails(i, "idle")
  /\ UNCHANGED history

\* append_file(): TEE_SeekObjectData to TEE_DATA_SEEK_END.
Seek(i) ==
  /\ pc[i] = "seek"
  /\ \/ /\ Goto(i, "writeEnd")
        /\ UNCHANGED <<obj, holder, ok, stored, refused>>
     \/ MayFail /\ Fails(i, "close")
  /\ UNCHANGED history

\* Mutant: without the seek the write lands at the start of the object.
WriteAtStart(i) ==
  /\ pc[i] \in {"writeNew", "writeEnd"}
  /\ \/ /\ obj' = Holding(Chunk(i))
        /\ stored' = stored \o Chunk(i)
        /\ Goto(i, "close")
        /\ UNCHANGED <<holder, ok, refused>>
     \/ MayFail /\ Fails(i, "close")
  /\ UNCHANGED history

\* TEE_WriteObjectData at the handle's position: the start of the object that
\* prepare_file() created empty, the end of the one append_file() opened.
Write(i) ==
  /\ pc[i] \in {"writeNew", "writeEnd"}
  /\ \/ /\ obj' = Holding(obj.data \o Chunk(i))
        /\ stored' = stored \o Chunk(i)
        /\ Goto(i, "close")
        /\ UNCHANGED <<holder, ok, refused>>
     \/ MayFail /\ Fails(i, "close")
  /\ UNCHANGED history

\* exit_close_object: both functions close the handle on every path.
Close(i) ==
  /\ pc[i] = "close"
  /\ holder' = None
  /\ Goto(i, "idle")
  /\ UNCHANGED <<obj, ok, stored, refused, history>>

Next ==
  \E i \in Instance :
    \/ Begin(i) \/ CheckOpen(i) \/ CheckClose(i) \/ Create(i)
    \/ AppendOpen(i) \/ Seek(i) \/ Write(i) \/ Close(i)

Spec == Init /\ [][Next]_vars

-----------------------------------------------------------------------------
(* Properties.                                                             *)

Open(i) == pc[i] \in {"checked", "seek", "writeNew", "writeEnd", "close"}

(***************************************************************************)
(* Whatever call fails, a save leaves no handle behind: the object is held *)
(* by exactly the instance that is between an open and its close           *)
(* (hello_world_ta.c:185-188, 218-221, 257-260).                           *)
(***************************************************************************)
NoLeakedHandle ==
  \A i \in Instance : Open(i) <=> holder = i

(***************************************************************************)
(* Once the object exists, and as long as no call is refused, it holds     *)
(* every chunk saved so far, once each and in the order of the writes,     *)
(* whichever instances wrote them.  Neither condition can go: two first    *)
(* saves can both find no object and the later create empties it, and a    *)
(* refused check makes save_data() create it anew                          *)
(* (hello_world_ta.c:265-277, 175-178).                                    *)
(***************************************************************************)
NothingLostUnlessRefused ==
  existed /\ ~refused => obj.data = stored

(***************************************************************************)
(* A save that no other instance overlaps ends with one of the results     *)
(* that SaveOutcomes lists, and with TEE_SUCCESS only if its chunk is the  *)
(* end of the object: the engine may take save_data() as one step          *)
(* (hello_world_ta.c:265-277).                                             *)
(***************************************************************************)
MatchesOutcomes ==
  [][\A i \in Instance :
       pc[i] # "idle" /\ pc'[i] = "idle" /\ alone[i] =>
         /\ obj' \in SaveOutcomes(before[i], Chunk(i), MayFail)
         /\ ok'[i] => \E earlier \in {<<>>, before[i].data} :
                        obj'.data = earlier \o Chunk(i)]_vars

=============================================================================
