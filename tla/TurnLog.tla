------------------------------- MODULE TurnLog -------------------------------
(***************************************************************************)
(* What the agent promises about a session as long as nothing is compacted: *)
(* a session only grows, by one whole turn at a time, each turn the work of *)
(* one run, each run adding at most one.                                    *)
(***************************************************************************)
EXTENDS Transcript

CONSTANT Sessions

VARIABLES log,    \* [Sessions -> Seq(Message)]
          phase   \* [Runs -> {"idle", "active", "done", "failed"}]

logVars == <<log, phase>>

LogInit ==
    /\ log = [s \in Sessions |-> <<>>]
    /\ phase = [r \in Runs |-> "idle"]

Open(r) ==
    /\ phase[r] = "idle"
    /\ phase' = [phase EXCEPT ![r] = "active"]
    /\ UNCHANGED log

(* The new tail of session s is a whole turn of run r. *)
Extends(s, r) ==
    LET tail == SubSeq(log'[s], Len(log[s]) + 1, Len(log'[s]))
    IN  /\ log' = [log EXCEPT ![s] = @ \o tail]
        /\ WholeTurn(tail, r)

Commit(r) ==
    /\ phase[r] = "active"
    /\ phase' = [phase EXCEPT ![r] = "done"]
    /\ \E s \in Sessions : Extends(s, r)

(* A store that reports an error may have kept the turn all the same. *)
Abandon(r) ==
    /\ phase[r] \in {"idle", "active"}
    /\ phase' = [phase EXCEPT ![r] = "failed"]
    /\ log' = log \/ \E s \in Sessions : Extends(s, r)

LogNext == \E r \in Runs : Open(r) \/ Commit(r) \/ Abandon(r)

TurnLogSpec == LogInit /\ [][LogNext]_logVars

=============================================================================
