----------------------------- MODULE HostProgram -----------------------------
(***************************************************************************)
(* The instrumented program, as the modules about it share it: cfv_init()  *)
(* and cfv_quote() are called by its main thread, events are reported by   *)
(* any (cfv_bellman.c:97, 137, 177).                                       *)
(***************************************************************************)

CONSTANTS Thread,  \* the program's threads
          Main     \* the one that calls cfv_init() and cfv_quote()

ASSUME MainAssumption == Main \in Thread

=============================================================================
