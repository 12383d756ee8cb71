-------------------------- MODULE MCCommandRoute --------------------------
(***************************************************************************)
(* Small instances of CommandRoute: every command, two tasks, streams of   *)
(* two events.  "canceled" stands for the states that are terminal and     *)
(* failures; the code treats the three of them alike.                      *)
(***************************************************************************)
EXTENDS CommandRoute

CONSTANTS t1, t2
=============================================================================
