------------------------------ MODULE TaskStore ------------------------------
(***************************************************************************)
(* tasks.GORMStore (internal/tasks/gorm.go): tasks as rows of a database    *)
(* shared by worker processes.  Claim reads the oldest claimable row and    *)
(* then writes the whole row back in the same transaction; what other       *)
(* transactions may do in between depends on the database's isolation,      *)
(* which the store leaves as it is configured.  Every call may fail; an     *)
(* error does not tell whether the database has done what it was asked.     *)
(***************************************************************************)
EXTENDS Naturals, Sequences, FiniteSets

CONSTANTS
    Ids,        \* primary keys
    Workers,    \* worker processes
    Lease,      \* the lease Claim is given
    LastTime,   \* the clock stops here (a bound of the model)
    Isolations, \* of "read committed", "repeatable read"
    Given       \* the rows applications enqueue, "" for no status

Times == 0..(LastTime + Lease)
Statuses == {"queued", "running", "completed", "failed"}
Row == [status : Statuses, attempts : Nat,
        lockedBy : SUBSET Workers, lockedUntil : SUBSET Times]

ASSUME TaskStoreAssumption ==
    /\ Lease \in Nat \ {0}
    /\ LastTime \in Nat
    /\ Given \subseteq [status : Statuses \cup {""}, attempts : Nat,
                       lockedBy : SUBSET Workers, lockedUntil : SUBSET Times]
    /\ Isolations \subseteq {"read committed", "repeatable read"}

VARIABLES
    isolation,  \* the database's isolation level, fixed
    clock,
    created,    \* the rows in the order of created_at
    row,        \* the committed row of each id in "created"
    worker,     \* where each worker stands
    task,       \* the row in each worker's memory, a set of at most one
    left        \* history: the rows that a failed call left running, or that
                \* were enqueued as running

vars == <<isolation, clock, created, row, worker, task, left>>

(* The row that Enqueue stores: only a missing status is filled in. *)
Enqueued(given) == IF given.status = "" THEN [given EXCEPT !.status = "queued"] ELSE given

NoRow == [status |-> "queued", attempts |-> 0, lockedBy |-> {}, lockedUntil |-> {}]

Exists(id) == \E n \in DOMAIN created : created[n] = id

TypeOK ==
    /\ isolation \in Isolations
    /\ clock \in 0..LastTime
    /\ created \in Seq(Ids)
    /\ row \in [Ids -> Row]
    /\ \A id \in Ids :
          \/ row[id] \in {Enqueued(given) : given \in Given}
          \/ /\ row[id].status = "running" <=> row[id].lockedBy # {}
             /\ row[id].status = "running" <=> row[id].lockedUntil # {}
    /\ worker \in [Workers -> {"idle", "claiming", "working", "crashed"}]
    /\ task \in [Workers -> SUBSET [id : Ids, copy : Row]]
    /\ left \subseteq Ids

Init ==
    /\ isolation \in Isolations
    /\ clock = 0
    /\ created = <<>>
    /\ row = [id \in Ids |-> NoRow]
    /\ worker = [w \in Workers |-> "idle"]
    /\ task = [w \in Workers |-> {}]
    /\ left = {}

Pass ==
    /\ clock < LastTime
    /\ clock' = clock + 1
    /\ UNCHANGED <<isolation, created, row, worker, task, left>>

(* created_at is left to the store.  An id that exists is refused. *)
Enqueue(id) ==
    /\ ~Exists(id)
    /\ created' = Append(created, id)
    /\ \E given \in Given :
          /\ row' = [row EXCEPT ![id] = Enqueued(given)]
          /\ left' = IF given.status = "running" THEN left \cup {id} ELSE left
    /\ UNCHANGED <<isolation, clock, worker, task>>

-----------------------------------------------------------------------------
(* Claim's query: status = queued AND (locked_until IS NULL OR < now) *)
Claimable(id) ==
    /\ Exists(id)
    /\ row[id].status = "queued"
    /\ \A t \in row[id].lockedUntil : t < clock

Oldest(id) ==
    \E n \in DOMAIN created :
        /\ created[n] = id
        /\ \A m \in 1..(n - 1) : ~Claimable(created[m])

(* An error of the query, or no row, leaves everything as it is. *)
ClaimReads(w) ==
    /\ worker[w] = "idle"
    /\ \E id \in Ids :
           /\ Claimable(id) /\ Oldest(id)
           /\ task' = [task EXCEPT ![w] = {[id |-> id, copy |-> row[id]]}]
    /\ worker' = [worker EXCEPT ![w] = "claiming"]
    /\ UNCHANGED <<isolation, clock, created, row, left>>

(* Save writes every column of the row as it was read, changed in memory.     *)
Saved(w, t) ==
    [t.copy EXCEPT !.status = "running", !.attempts = @ + 1,
                  !.lockedBy = {w}, !.lockedUntil = {clock + Lease}]

(* Variant of Serializes in which the write always goes ahead. *)
SerializesNothing(t) == TRUE

(* A snapshot transaction cannot write a row another one changed after the    *)
(* snapshot; under read committed the write waits for the other's commit and  *)
(* goes ahead.                                                                *)
Serializes(t) == isolation = "read committed" \/ row[t.id] = t.copy

ClaimSaves(w) ==
    /\ worker[w] = "claiming"
    /\ \E t \in task[w] :
           /\ Serializes(t)
           /\ row' = [row EXCEPT ![t.id] = Saved(w, t)]
           /\ task' = [task EXCEPT ![w] = {[t EXCEPT !.copy = Saved(w, t)]}]
           /\ left' = left \ {t.id}
    /\ worker' = [worker EXCEPT ![w] = "working"]
    /\ UNCHANGED <<isolation, clock, created>>

(* The worker is free again. *)
LetsGo(w) ==
    /\ worker' = [worker EXCEPT ![w] = "idle"]
    /\ task' = [task EXCEPT ![w] = {}]
    /\ UNCHANGED <<isolation, clock, created>>

(* Save or the commit fails: a write that cannot be serialized, the end of    *)
(* the context, a lost connection.                                           *)
ClaimRollsBack(w) ==
    /\ worker[w] = "claiming"
    /\ LetsGo(w)
    /\ UNCHANGED <<row, left>>

(* The commit goes through and its answer is lost: Claim returns an error.    *)
ClaimUnsure(w) ==
    /\ worker[w] = "claiming"
    /\ \E t \in task[w] :
           /\ Serializes(t)
           /\ row' = [row EXCEPT ![t.id] = Saved(w, t)]
           /\ left' = left \cup {t.id}
    /\ LetsGo(w)

(* Variant of Complete that updates the status alone. *)
CompleteStatus(w, status) ==
    /\ worker[w] = "working"
    /\ \E t \in task[w] :
           /\ row' = [row EXCEPT ![t.id].status = status]
           /\ left' = left \ {t.id}
    /\ LetsGo(w)

Settled(id, status) ==
    [row EXCEPT ![id].status = status, ![id].lockedBy = {}, ![id].lockedUntil = {}]

(* Variant of Complete that does nothing once the lease has expired. *)
CompleteInTime(w, status) ==
    /\ worker[w] = "working"
    /\ \E t \in task[w] :
           IF \A until \in row[t.id].lockedUntil : clock <= until
           THEN row' = Settled(t.id, status) /\ left' = left \ {t.id}
           ELSE UNCHANGED <<row, left>>
    /\ LetsGo(w)

(* Complete: by id alone, whoever holds the lease and whether it has expired. *)
Complete(w, status) ==
    /\ worker[w] = "working"
    /\ \E t \in task[w] : row' = Settled(t.id, status) /\ left' = left \ {t.id}
    /\ LetsGo(w)

(* The update fails and the worker lets it be: had only the answer been lost, *)
(* the row would be settled as above.  Calling Complete again is the same     *)
(* update again.                                                             *)
CompleteFails(w) ==
    /\ worker[w] = "working"
    /\ \E t \in task[w] : left' = IF row[t.id].status = "running" THEN left \cup {t.id} ELSE left
    /\ LetsGo(w)
    /\ UNCHANGED row

(* The worker process dies, with the task it executes; the database rolls the *)
(* transaction of a claim back, or has committed it.                          *)
Crash(w) ==
    /\ worker[w] \in {"claiming", "working"}
    /\ worker' = [worker EXCEPT ![w] = "crashed"]
    /\ task' = IF worker[w] = "claiming" THEN [task EXCEPT ![w] = {}] ELSE task
    /\ UNCHANGED <<isolation, clock, created, row, left>>

Step(w) ==
    \/ ClaimReads(w) \/ ClaimSaves(w) \/ ClaimRollsBack(w) \/ ClaimUnsure(w)
    \/ \E status \in {"completed", "failed"} : Complete(w, status)
    \/ CompleteFails(w) \/ Crash(w)

Next == Pass \/ (\E id \in Ids : Enqueue(id)) \/ (\E w \in Workers : Step(w))

Spec == Init /\ [][Next]_vars

(* A worker that is in Claim or executing a task goes on, fails or dies. *)
Fairness == \A w \in Workers : WF_vars(worker[w] # "idle" /\ Step(w))

FairSpec == Spec /\ Fairness

-----------------------------------------------------------------------------
WorksOn(w, id) == worker[w] = "working" /\ \E t \in task[w] : t.id = id

HoldsLease(w, id) ==
    /\ worker[w] = "working"
    /\ \E t \in task[w] : t.id = id /\ \A until \in t.copy.lockedUntil : clock <= until

(* A lease is exclusive: while it lasts nobody else holds one on the task    *)
(* ("lease" in DEVELOPMENT_STEPS.md:344).                                    *)
LeaseExclusive ==
    \A v, w \in Workers : \A id \in Ids : HoldsLease(v, id) /\ HoldsLease(w, id) => v = w

(* On a database that runs Claim on a snapshot no task is ever executed by    *)
(* two workers, not even after its lease has expired: Claim's read and its    *)
(* write of the row act as one.                                              *)
SnapshotExclusive ==
    isolation = "repeatable read" =>
        \A v, w \in Workers : \A id \in Ids : WorksOn(v, id) /\ WorksOn(w, id) => v = w

(* Nobody alive executes a running row: its worker died with it, or a call    *)
(* that reported an error left it so.                                        *)
Stranded(id) ==
    /\ row[id].status = "running"
    /\ \A w \in Workers : ~WorksOn(w, id)
    /\ id \in left \/ \E w \in Workers : worker[w] = "crashed" /\ \E t \in task[w] : t.id = id

(* A running row is settled in the end, on any database, with its lease        *)
(* expired or not, whoever else claimed it and whoever dies in Claim.  The     *)
(* only others are stranded, and those stay so for good: Claim asks for        *)
(* status = queued whatever the lease says (gorm.go:46), and nothing else      *)
(* looks for them.                                                            *)
OnlyFailuresStrand ==
    \A id \in Ids :
        [](row[id].status = "running" =>
               <>(row[id].status \in {"completed", "failed"} \/ []Stranded(id)))

===============================================================================
