---------------------------- MODULE MCEventQueue ----------------------------
(***************************************************************************)
(* Small instances of EventQueue for TLC: two queues, one of them with two *)
(* producer threads.                                                       *)
(***************************************************************************)
EXTENDS EventQueue

CONSTANTS log, admin1, admin2

MCThreads == {log, admin1, admin2}
MCQueues == {"log", "admin"}
MCQueueOf == [t \in MCThreads |-> IF t = log THEN "log" ELSE "admin"]
=============================================================================
