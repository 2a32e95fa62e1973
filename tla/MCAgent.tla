------------------------------- MODULE MCAgent -------------------------------
(* Small instances of Agent for TLC. *)
EXTENDS Agent, TLC

CONSTANTS r1, r2, r3, c1, c2

MCCost == [user |-> 1, assistant |-> 1, tool |-> 1, system |-> 1]

(* A store in memory or one that can fail, no compaction. *)
PlainConfigs ==
    [limit : {0}, budget : {0}, summarizer : {FALSE}, replaces : {TRUE}, faulty : BOOLEAN]

(* Message limits or token budgets, with and without a summarizer, on a       *)
(* store that can or cannot replace a session.                                *)
CompactingConfigs ==
    {c \in [limit : {0, 1, 2, 3}, budget : {0, 3, 4}, summarizer : BOOLEAN,
            replaces : BOOLEAN, faulty : BOOLEAN] :
        /\ c.limit = 0 <=> c.budget # 0
        /\ c.summarizer \/ (c.replaces /\ ~c.faulty)
        /\ c.faulty => c.replaces}

(* A summarizer and a message limit, on the store in memory. *)
LimitConfigs ==
    [limit : {3, 4}, budget : {0}, summarizer : {TRUE}, replaces : {TRUE}, faulty : {FALSE}]

RunSymmetry == Permutations(Runs)
=============================================================================
