---------------------------- MODULE MediaActivity ----------------------------
(***************************************************************************)
(* Activity of src/app/app_update.py: the floppy drives that requests are  *)
(* using, which an update of the application must not interrupt.  The      *)
(* routes count themselves in and out; the updater only asks.              *)
(***************************************************************************)
CONSTANT Drives     \* floppy drives, at most one request using each

VARIABLE inUse      \* drives that a request is reading or writing

MediaBusy == inUse # {}
Enters(d) == inUse' = inUse \cup {d}
Leaves(d) == inUse' = inUse \ {d}
=============================================================================
