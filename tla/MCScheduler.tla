----------------------------- MODULE MCScheduler -----------------------------
(* Model values for Scheduler: the objects are all of one priority, which is   *)
(* the stopper's, as that of OsclAsyncFile is.                                 *)
EXTENDS Scheduler

CONSTANTS r, t, u, s, c, d

MCPriority == [a \in AO |-> 2]

(* To keep the states few: the second timer is in use only while the active    *)
(* object is not, and before the first command.                                *)
Apart == busy[u] => ~busy[r] /\ commands = 0
==============================================================================
