----------------------------- MODULE MCTaskStore -----------------------------
(* A small instance of TaskStore for TLC. *)
EXTENDS TaskStore

Plain == [status |-> "", attempts |-> 0, lockedBy |-> {}, lockedUntil |-> {}]

(* A new task, one that is not to be claimed before a time, and a row that is *)
(* copied from elsewhere with a worker's lock on it.                          *)
MCGiven ==
    {Plain,
     [Plain EXCEPT !.lockedUntil = {1}],
     [Plain EXCEPT !.status = "running", !.attempts = 1, !.lockedBy = {"w1"}]}
===============================================================================
