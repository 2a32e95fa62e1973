------------------------------ MODULE TaskQueue ------------------------------
(***************************************************************************)
(* tasks.Queue (internal/tasks/queue.go): callers submit tasks to a         *)
(* buffered channel, workers take them and keep a status record per task    *)
(* id.  Neither the record and the channel, nor taking a task and marking   *)
(* it running, is one atomic step.                                          *)
(***************************************************************************)
EXTENDS Naturals, Sequences, FiniteSets

CONSTANTS
    Jobs,      \* the Submit calls, each with its task
    Ids,       \* task ids
    IdOf,      \* the id of each task: two tasks may share one
    Workers,   \* the goroutines Start launches
    Buffer     \* capacity of the channel (NewQueue makes it at least 1)

ASSUME QueueAssumption ==
    /\ IdOf \in [Jobs -> Ids]
    /\ Buffer \in Nat \ {0}

VARIABLES
    jobs,      \* the channel
    records,   \* status by task id, "none" when there is no record
    call,      \* where each Submit call stands
    holding,   \* the task a worker has taken, a set of at most one
    point,     \* where each worker stands
    outcome,   \* what Execute returned for each task, "none" before
    cancelled  \* the context given to Start is done

queueVars == <<jobs, records, call, holding, point, outcome, cancelled>>

Outcomes == {"completed", "failed"}
Statuses == {"none", "queued", "running"} \cup Outcomes

TypeOK ==
    /\ jobs \in Seq(Jobs) /\ Len(jobs) <= Buffer
    /\ records \in [Ids -> Statuses]
    /\ call \in [Jobs -> {"new", "sending", "accepted", "rejected"}]
    /\ holding \in [Workers -> SUBSET Jobs]
    /\ point \in [Workers -> {"idle", "taken", "running", "stopped"}]
    /\ outcome \in [Jobs -> {"none"} \cup Outcomes]
    /\ cancelled \in BOOLEAN

Init ==
    /\ jobs = <<>>
    /\ records = [id \in Ids |-> "none"]
    /\ call = [j \in Jobs |-> "new"]
    /\ holding = [w \in Workers |-> {}]
    /\ point = [w \in Workers |-> "idle"]
    /\ outcome = [j \in Jobs |-> "none"]
    /\ cancelled = FALSE

Set(j, status) == records' = [records EXCEPT ![IdOf[j]] = status]

-----------------------------------------------------------------------------
(* Submit: the record first, then the send. *)
SubmitBegins(j) ==
    /\ call[j] = "new"
    /\ Set(j, "queued")
    /\ call' = [call EXCEPT ![j] = "sending"]
    /\ UNCHANGED <<jobs, holding, point, outcome, cancelled>>

SubmitSends(j) ==
    /\ call[j] = "sending"
    /\ Len(jobs) < Buffer
    /\ jobs' = Append(jobs, j)
    /\ call' = [call EXCEPT ![j] = "accepted"]
    /\ UNCHANGED <<records, holding, point, outcome, cancelled>>

(* Variant of SubmitCancelled whose send goes on in the background. *)
SubmitCancelledSends(j) ==
    /\ call[j] = "sending"
    /\ Len(jobs) < Buffer
    /\ jobs' = Append(jobs, j)
    /\ call' = [call EXCEPT ![j] = "rejected"]
    /\ UNCHANGED <<records, holding, point, outcome, cancelled>>

(* The caller's context is done before the channel has room, or the select  *)
(* prefers it: Submit returns its error and the record stays.                *)
SubmitCancelled(j) ==
    /\ call[j] = "sending"
    /\ call' = [call EXCEPT ![j] = "rejected"]
    /\ UNCHANGED <<jobs, records, holding, point, outcome, cancelled>>

(* worker's select, free to prefer a task to a context that is done *)
Take(w) ==
    /\ point[w] = "idle"
    /\ jobs # <<>>
    /\ jobs' = Tail(jobs)
    /\ holding' = [holding EXCEPT ![w] = {Head(jobs)}]
    /\ point' = [point EXCEPT ![w] = "taken"]
    /\ UNCHANGED <<records, call, outcome, cancelled>>

Stop(w) ==
    /\ point[w] = "idle"
    /\ cancelled
    /\ point' = [point EXCEPT ![w] = "stopped"]
    /\ UNCHANGED <<jobs, records, call, holding, outcome, cancelled>>

(* run, up to the call of Execute *)
RunBegins(w) ==
    /\ point[w] = "taken"
    /\ \E j \in holding[w] : Set(j, "running")
    /\ point' = [point EXCEPT ![w] = "running"]
    /\ UNCHANGED <<jobs, call, holding, outcome, cancelled>>

(* Variant of RunEnds whose worker leaves its loop when a task fails. *)
RunEndsLeaving(w, result) ==
    /\ point[w] = "running"
    /\ \E j \in holding[w] :
           /\ Set(j, result)
           /\ outcome' = [outcome EXCEPT ![j] = result]
    /\ holding' = [holding EXCEPT ![w] = {}]
    /\ point' = [point EXCEPT ![w] = IF result = "failed" THEN "stopped" ELSE "idle"]
    /\ UNCHANGED <<jobs, call, cancelled>>

(* run, after Execute has returned an error or none *)
RunEnds(w, result) ==
    /\ point[w] = "running"
    /\ \E j \in holding[w] :
           /\ Set(j, result)
           /\ outcome' = [outcome EXCEPT ![j] = result]
    /\ holding' = [holding EXCEPT ![w] = {}]
    /\ point' = [point EXCEPT ![w] = "idle"]
    /\ UNCHANGED <<jobs, call, cancelled>>

Cancel ==
    /\ ~cancelled
    /\ cancelled' = TRUE
    /\ UNCHANGED <<jobs, records, call, holding, point, outcome>>

(* Variant of Submit that records the task after it has sent it. *)
SubmitRecordsLast(j) ==
    \/ /\ call[j] = "new"
       /\ Len(jobs) < Buffer
       /\ jobs' = Append(jobs, j)
       /\ call' = [call EXCEPT ![j] = "sending"]
       /\ UNCHANGED <<records, holding, point, outcome, cancelled>>
    \/ /\ call[j] = "sending"
       /\ Set(j, "queued")
       /\ call' = [call EXCEPT ![j] = "accepted"]
       /\ UNCHANGED <<jobs, holding, point, outcome, cancelled>>

Submit(j) == SubmitBegins(j) \/ SubmitSends(j) \/ SubmitCancelled(j)
Ends(w) == \E result \in Outcomes : RunEnds(w, result)
Work(w) == Take(w) \/ Stop(w) \/ RunBegins(w) \/ Ends(w)

Next ==
    \/ \E j \in Jobs : Submit(j)
    \/ \E w \in Workers : Work(w)
    \/ Cancel

Spec == Init /\ [][Next]_queueVars

(* Workers are goroutines that run when they can, a send goes ahead when     *)
(* there is room (Go serves blocked senders in order), and Execute returns.  *)
Fairness ==
    /\ \A j \in Jobs : WF_queueVars(SubmitSends(j))
    /\ \A w \in Workers : WF_queueVars(Take(w) \/ RunBegins(w) \/ Ends(w))

FairSpec == Spec /\ Fairness

-----------------------------------------------------------------------------
InChannel(j) == \E i \in DOMAIN jobs : jobs[i] = j
Held(j) == \E w \in Workers : j \in holding[w]
Finished(j) == outcome[j] # "none"

(* A task whose Submit returned nil is in exactly one place from then on: in  *)
(* the channel, with one worker, or executed; a task whose Submit failed is   *)
(* never executed.  So no accepted task is lost and none is executed twice,   *)
(* cancelled or not.                                                          *)
NothingLost ==
    /\ \A i, k \in DOMAIN jobs : jobs[i] = jobs[k] => i = k
    /\ \A v, w \in Workers : holding[v] \cap holding[w] # {} => v = w
    /\ \A j \in Jobs :
           /\ call[j] = "accepted" <=> InChannel(j) \/ Held(j) \/ Finished(j)
           /\ ~(InChannel(j) /\ Held(j))
           /\ Finished(j) => ~InChannel(j) /\ ~Held(j)

(* When every task submitted under an id has been executed, its record says   *)
(* how one of them ended: no earlier status can overwrite it, although tasks  *)
(* may share the id and submitters and workers write the record unordered.    *)
SettledRecord ==
    \A id \in Ids :
        LET mine == {j \in Jobs : IdOf[j] = id /\ call[j] # "new"}
        IN  (mine # {} /\ \A j \in mine : Finished(j)) =>
                \E j \in mine : records[id] = outcome[j]

Rank(status) ==
    CASE status = "none" -> 0
      [] status = "queued" -> 1
      [] status = "running" -> 2
      [] OTHER -> 3

Unshared(j) == \A k \in Jobs : IdOf[k] = IdOf[j] => k = j

(* The record of a task with an id of its own only moves forward: a poller of *)
(* Get never sees a finished task running or a running one queued again.      *)
StatusForward ==
    [][\A j \in Jobs : Unshared(j) =>
           Rank(records[IdOf[j]]) <= Rank(records'[IdOf[j]])]_queueVars

(* Until the queue's context is cancelled, an accepted task is executed.      *)
AcceptedFinish ==
    \A j \in Jobs : call[j] = "accepted" ~> (Finished(j) \/ cancelled)

=============================================================================
