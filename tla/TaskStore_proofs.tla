--------------------------- MODULE TaskStore_proofs ---------------------------
(***************************************************************************)
(* Proofs about TaskStore, for any tasks, workers and leases: types, and on *)
(* a database that serializes the writes of a snapshot, that no task is     *)
(* executed twice at once, whatever calls fail and workers die.             *)
(***************************************************************************)
EXTENDS TaskStore, TLAPS

(* The row a claiming worker has read was queued. *)
ClaimsQueued ==
    \A w \in Workers : worker[w] = "claiming" =>
        \A t \in task[w] : t.copy.status = "queued"

(* On snapshots, the row of a task is what its worker has made of it, so that *)
(* it names the worker: this is why two cannot execute it.                   *)
RowIsTheirs ==
    isolation = "repeatable read" =>
        \A w \in Workers : worker[w] = "working" =>
            \A t \in task[w] : /\ row[t.id] = t.copy
                               /\ t.copy.status = "running" /\ t.copy.lockedBy = {w}

(* Only a row that is there is claimed: this is why Enqueue, which refuses an *)
(* id that exists, changes no row in a worker's hands.                       *)
TasksExist == \A w \in Workers : \A t \in task[w] : Exists(t.id)

IndInv == TypeOK /\ ClaimsQueued /\ RowIsTheirs /\ TasksExist

(* What TypeOK says of a row. *)
Fits(r) ==
    \/ r \in {Enqueued(given) : given \in Given}
    \/ /\ r.status = "running" <=> r.lockedBy # {}
       /\ r.status = "running" <=> r.lockedUntil # {}

-----------------------------------------------------------------------------
LEMMA LeaseAndClock == Lease \in Nat /\ LastTime \in Nat /\ 0 \in 0..LastTime
<1>1. Lease \in Nat /\ LastTime \in Nat
  BY TaskStoreAssumption, Zenon
<1>2. QED
  BY <1>1

(* The row that Claim saves has the worker's lock. *)
LEMMA SavedRow ==
    ASSUME TypeOK, NEW w \in Workers, NEW t \in task[w]
    PROVE  /\ t.id \in Ids /\ t.copy \in Row
           /\ Saved(w, t) \in Row
           /\ Saved(w, t).status = "running"
           /\ Saved(w, t).lockedBy = {w}
           /\ Saved(w, t).lockedUntil = {clock + Lease}
           /\ [t EXCEPT !.copy = Saved(w, t)] \in [id : Ids, copy : Row]
           /\ [t EXCEPT !.copy = Saved(w, t)].id = t.id
           /\ [t EXCEPT !.copy = Saved(w, t)].copy = Saved(w, t)
<1>1. t \in [id : Ids, copy : Row] /\ clock \in 0..LastTime
  BY DEF TypeOK
<1>2. t.copy \in Row /\ t.id \in Ids
  BY <1>1
<1>3. clock + Lease \in Times
  BY <1>1, LeaseAndClock DEF Times
<1>4. {clock + Lease} \in SUBSET Times /\ {w} \in SUBSET Workers
  BY <1>3
<1>5. PICK copy \in Row : copy = t.copy
  BY <1>2
<1>6. Saved(w, t) = [copy EXCEPT !.status = "running", !.attempts = @ + 1,
                                !.lockedBy = {w}, !.lockedUntil = {clock + Lease}]
  BY <1>5 DEF Saved
<1>7. PICK saved : saved = [status |-> "running", attempts |-> copy.attempts + 1,
                            lockedBy |-> {w}, lockedUntil |-> {clock + Lease}]
  OBVIOUS
<1>8. Saved(w, t) = saved
  BY <1>6, <1>7 DEF Row
<1>9. copy.attempts + 1 \in Nat
  BY DEF Row
<1>10. saved \in Row
  BY <1>4, <1>7, <1>9 DEF Row, Statuses
<1>11. PICK u : u = [t EXCEPT !.copy = saved]
  OBVIOUS
<1>12. u \in [id : Ids, copy : Row] /\ u.id = t.id /\ u.copy = saved
  BY <1>1, <1>10, <1>11
<1>13. saved.status = "running" /\ saved.lockedBy = {w} /\ saved.lockedUntil = {clock + Lease}
  BY <1>7
<1>14. QED
  BY <1>2, <1>8, <1>10, <1>11, <1>12, <1>13

LEMMA TasksTyped ==
    ASSUME TypeOK, NEW w \in Workers, NEW t \in task[w]
    PROVE  t.id \in Ids /\ t.copy \in Row
<1>1. t \in [id : Ids, copy : Row]
  BY DEF TypeOK
<1>2. QED
  BY <1>1

LEMMA EnqueuedRow ==
    ASSUME NEW given \in Given
    PROVE  Enqueued(given) \in Row
<1>1. given \in [status : Statuses \cup {""}, attempts : Nat,
                lockedBy : SUBSET Workers, lockedUntil : SUBSET Times]
  BY TaskStoreAssumption, Zenon
<1>2. CASE given.status = ""
  BY <1>1, <1>2 DEF Enqueued, Row, Statuses
<1>3. CASE given.status # ""
  BY <1>1, <1>3 DEF Enqueued, Row
<1>4. QED
  BY <1>2, <1>3

(* One row that changes into one that fits leaves all rows as TypeOK wants.   *)
LEMMA RowChanges ==
    ASSUME TypeOK, NEW id \in Ids, NEW r \in Row, Fits(r), row' = [row EXCEPT ![id] = r]
    PROVE  /\ row' \in [Ids -> Row]
           /\ \A i \in Ids : Fits(row'[i])
<1>1. row \in [Ids -> Row] /\ \A i \in Ids : Fits(row[i])
  BY DEF TypeOK, Fits
<1>2. row' \in [Ids -> Row] /\ row'[id] = r /\ \A i \in Ids \ {id} : row'[i] = row[i]
  BY <1>1
<1>3. ASSUME NEW i \in Ids PROVE Fits(row'[i])
  <2>1. CASE i = id
    BY <1>2, <2>1
  <2>2. CASE i # id
    BY <1>1, <1>2, <2>2
  <2>3. QED
    BY <2>1, <2>2
<1>4. QED
  BY <1>2, <1>3

(* TypeOK in the words of Fits. *)
LEMMA TypeFits ==
    ASSUME isolation' \in Isolations, clock' \in 0..LastTime, created' \in Seq(Ids),
           row' \in [Ids -> Row], \A i \in Ids : Fits(row'[i]),
           worker' \in [Workers -> {"idle", "claiming", "working", "crashed"}],
           task' \in [Workers -> SUBSET [id : Ids, copy : Row]], left' \subseteq Ids
    PROVE  TypeOK'
BY DEF TypeOK, Fits

LEMMA RowsStay ==
    ASSUME TypeOK, UNCHANGED row
    PROVE  row' \in [Ids -> Row] /\ \A i \in Ids : Fits(row'[i])
BY DEF TypeOK, Fits

(* A worker that is let go has nothing in its hands; the others keep what     *)
(* they have.                                                                *)
LEMMA GoneWorker ==
    ASSUME IndInv, NEW w \in Workers, LetsGo(w)
    PROVE  /\ worker' \in [Workers -> {"idle", "claiming", "working", "crashed"}]
           /\ task' \in [Workers -> SUBSET [id : Ids, copy : Row]]
           /\ isolation' = isolation /\ clock' = clock /\ created' = created
           /\ worker'[w] = "idle" /\ task'[w] = {}
           /\ \A v \in Workers \ {w} : worker'[v] = worker[v] /\ task'[v] = task[v]
           /\ ClaimsQueued' /\ TasksExist'
<1>0. TypeOK /\ ClaimsQueued /\ TasksExist
  BY DEF IndInv
<1>1. /\ worker' = [worker EXCEPT ![w] = "idle"] /\ task' = [task EXCEPT ![w] = {}]
      /\ UNCHANGED <<isolation, clock, created>>
  BY DEF LetsGo
<1>2. /\ worker' \in [Workers -> {"idle", "claiming", "working", "crashed"}]
      /\ task' \in [Workers -> SUBSET [id : Ids, copy : Row]]
      /\ worker'[w] = "idle" /\ task'[w] = {}
      /\ \A v \in Workers \ {w} : worker'[v] = worker[v] /\ task'[v] = task[v]
  BY <1>0, <1>1 DEF TypeOK
<1>3. ClaimsQueued'
  BY <1>0, <1>2 DEF ClaimsQueued
<1>4. TasksExist'
  BY <1>0, <1>1, <1>2 DEF TasksExist, Exists
<1>5. QED
  BY <1>1, <1>2, <1>3, <1>4

LEMMA InitHolds == Init => IndInv
<1> SUFFICES ASSUME Init PROVE IndInv
  OBVIOUS
<1>1. NoRow \in Row /\ NoRow.status = "queued" /\ NoRow.lockedBy = {} /\ NoRow.lockedUntil = {}
  BY DEF NoRow, Row, Statuses
<1>2. TypeOK
  BY <1>1, LeaseAndClock DEF Init, TypeOK
<1>3. ClaimsQueued /\ RowIsTheirs /\ TasksExist
  BY DEF Init, ClaimsQueued, RowIsTheirs, TasksExist
<1>4. QED
  BY <1>2, <1>3 DEF IndInv

(* A row that exists already is not enqueued, so none that a worker has.      *)
LEMMA EnqueueHolds ==
    ASSUME IndInv, NEW id \in Ids, Enqueue(id)
    PROVE  IndInv'
<1>0. TypeOK /\ ClaimsQueued /\ RowIsTheirs /\ TasksExist
  BY DEF IndInv
<1>1. PICK given \in Given :
          /\ row' = [row EXCEPT ![id] = Enqueued(given)]
          /\ left' = IF given.status = "running" THEN left \cup {id} ELSE left
  BY DEF Enqueue
<1>2. /\ ~Exists(id) /\ created' = Append(created, id)
      /\ UNCHANGED <<isolation, clock, worker, task>>
  BY DEF Enqueue
<1>3. Enqueued(given) \in Row /\ Fits(Enqueued(given))
  BY EnqueuedRow DEF Fits
<1>4. row' \in [Ids -> Row] /\ \A i \in Ids : Fits(row'[i])
  BY <1>0, <1>1, <1>3, RowChanges
<1>5. created' \in Seq(Ids) /\ \A i \in Ids : Exists(i) => Exists(i)'
  <2>1. created \in Seq(Ids)
    BY <1>0 DEF TypeOK
  <2>2. created' \in Seq(Ids) /\ \A n \in DOMAIN created : n \in DOMAIN created' /\ created'[n] = created[n]
    BY <1>2, <2>1
  <2>3. QED
    BY <2>2 DEF Exists
<1>6. TypeOK'
  <2>1. left' \subseteq Ids
    BY <1>0, <1>1 DEF TypeOK
  <2>2. QED
    BY <1>0, <1>2, <1>4, <1>5, <2>1, TypeFits DEF TypeOK
<1>7. ClaimsQueued'
  BY <1>0, <1>2 DEF ClaimsQueued
<1>8. TasksExist'
  BY <1>0, <1>2, <1>5, TasksTyped DEF TasksExist
<1>9. RowIsTheirs'
  <2> SUFFICES ASSUME isolation = "repeatable read", NEW v \in Workers, worker[v] = "working",
                      NEW s \in task[v]
               PROVE  row'[s.id] = s.copy /\ s.copy.status = "running" /\ s.copy.lockedBy = {v}
    BY <1>2 DEF RowIsTheirs
  <2>1. row[s.id] = s.copy /\ s.copy.status = "running" /\ s.copy.lockedBy = {v}
    BY <1>0 DEF RowIsTheirs
  <2>2. s.id \in Ids /\ s.id # id
    BY <1>0, <1>2, TasksTyped DEF TasksExist
  <2>3. QED
    BY <1>0, <1>1, <2>1, <2>2 DEF TypeOK
<1>10. QED
  BY <1>6, <1>7, <1>8, <1>9 DEF IndInv

LEMMA ClaimReadsHolds ==
    ASSUME IndInv, NEW w \in Workers, ClaimReads(w)
    PROVE  IndInv'
<1>0. TypeOK /\ ClaimsQueued /\ RowIsTheirs /\ TasksExist
  BY DEF IndInv
<1>1. PICK id \in Ids : /\ Exists(id) /\ row[id].status = "queued"
                        /\ task' = [task EXCEPT ![w] = {[id |-> id, copy |-> row[id]]}]
  BY DEF ClaimReads, Claimable
<1>2. /\ worker' = [worker EXCEPT ![w] = "claiming"]
      /\ UNCHANGED <<isolation, clock, created, row, left>>
  BY DEF ClaimReads
<1>3. [id |-> id, copy |-> row[id]] \in [id : Ids, copy : Row]
  BY <1>0 DEF TypeOK
<1>4. task' \in [Workers -> SUBSET [id : Ids, copy : Row]]
  BY <1>0, <1>1, <1>3 DEF TypeOK
<1>5. TypeOK'
  BY <1>0, <1>2, <1>4 DEF TypeOK
<1>6. /\ worker'[w] = "claiming" /\ \A t \in task'[w] : t.copy.status = "queued" /\ t.id = id
      /\ \A v \in Workers \ {w} : worker'[v] = worker[v] /\ task'[v] = task[v]
  BY <1>0, <1>1, <1>2 DEF TypeOK
<1>7. ClaimsQueued'
  BY <1>0, <1>6 DEF ClaimsQueued
<1>8. RowIsTheirs'
  BY <1>0, <1>2, <1>6 DEF RowIsTheirs
<1>9. TasksExist'
  BY <1>0, <1>1, <1>2, <1>6 DEF TasksExist, Exists
<1>10. QED
  BY <1>5, <1>7, <1>8, <1>9 DEF IndInv

(* A claim that is written on a snapshot finds its row queued still, hence in *)
(* no other worker's hands.                                                  *)
LEMMA OthersUntouched ==
    ASSUME IndInv, NEW w \in Workers, worker[w] = "claiming",
           NEW t \in task[w], Serializes(t), NEW saved,
           row' = [row EXCEPT ![t.id] = saved], isolation = "repeatable read",
           NEW v \in Workers, v # w, worker[v] = "working", NEW s \in task[v]
    PROVE  row'[s.id] = s.copy /\ s.copy.status = "running" /\ s.copy.lockedBy = {v}
<1>0. TypeOK /\ ClaimsQueued /\ RowIsTheirs
  BY DEF IndInv
<1>1. s.id \in Ids
  BY <1>0, TasksTyped
<1>2. row[s.id] = s.copy /\ s.copy.status = "running" /\ s.copy.lockedBy = {v}
  BY <1>0 DEF RowIsTheirs
<1>3. row[t.id].status = "queued"
  BY <1>0 DEF Serializes, ClaimsQueued
<1>4. s.id # t.id
  BY <1>2, <1>3
<1>5. QED
  BY <1>0, <1>1, <1>2, <1>4 DEF TypeOK

LEMMA ClaimSavesHolds ==
    ASSUME IndInv, NEW w \in Workers, ClaimSaves(w)
    PROVE  IndInv'
<1>0. TypeOK /\ ClaimsQueued /\ RowIsTheirs /\ TasksExist
  BY DEF IndInv
<1>1. PICK t \in task[w] :
          /\ Serializes(t)
          /\ row' = [row EXCEPT ![t.id] = Saved(w, t)]
          /\ task' = [task EXCEPT ![w] = {[t EXCEPT !.copy = Saved(w, t)]}]
          /\ left' = left \ {t.id}
  BY DEF ClaimSaves
<1>2. /\ worker[w] = "claiming" /\ worker' = [worker EXCEPT ![w] = "working"]
      /\ UNCHANGED <<isolation, clock, created>>
  BY DEF ClaimSaves
<1>3. PICK u : u = [t EXCEPT !.copy = Saved(w, t)]
  OBVIOUS
<1>4. PICK saved : saved = Saved(w, t)
  OBVIOUS
<1>5. /\ t.id \in Ids /\ saved \in Row
      /\ saved.status = "running" /\ saved.lockedBy = {w} /\ saved.lockedUntil # {}
      /\ u \in [id : Ids, copy : Row] /\ u.id = t.id /\ u.copy = saved
      /\ row' = [row EXCEPT ![t.id] = saved] /\ task' = [task EXCEPT ![w] = {u}]
  BY <1>0, <1>1, <1>3, <1>4, SavedRow
<1>6. /\ worker' \in [Workers -> {"idle", "claiming", "working", "crashed"}]
      /\ task' \in [Workers -> SUBSET [id : Ids, copy : Row]]
      /\ worker'[w] = "working" /\ task'[w] = {u}
      /\ \A v \in Workers \ {w} : worker'[v] = worker[v] /\ task'[v] = task[v]
  BY <1>0, <1>2, <1>5 DEF TypeOK
<1>7. TypeOK'
  <2>1. row' \in [Ids -> Row] /\ \A i \in Ids : Fits(row'[i])
    BY <1>0, <1>5, RowChanges DEF Fits
  <2>2. left' \subseteq Ids
    BY <1>0, <1>1 DEF TypeOK
  <2>3. QED
    BY <1>0, <1>2, <1>6, <2>1, <2>2, TypeFits DEF TypeOK
<1>8. ClaimsQueued'
  BY <1>0, <1>6 DEF ClaimsQueued
<1>9. TasksExist'
  BY <1>0, <1>2, <1>5, <1>6 DEF TasksExist, Exists
<1>10. RowIsTheirs'
  <2> SUFFICES ASSUME isolation = "repeatable read", NEW v \in Workers, worker'[v] = "working",
                      NEW s \in task'[v]
               PROVE  row'[s.id] = s.copy /\ s.copy.status = "running" /\ s.copy.lockedBy = {v}
    BY <1>2 DEF RowIsTheirs
  <2>1. CASE v = w
    BY <1>0, <1>5, <1>6, <2>1 DEF TypeOK
  <2>2. CASE v # w
    <3>1. worker[v] = "working" /\ s \in task[v]
      BY <1>6, <2>2
    <3>2. row' = [row EXCEPT ![t.id] = saved] /\ worker[w] = "claiming" /\ Serializes(t)
      BY <1>1, <1>2, <1>5
    <3>3. QED
      BY <2>2, <3>1, <3>2, OthersUntouched, Zenon
  <2>3. QED
    BY <2>1, <2>2
<1>11. QED
  BY <1>7, <1>8, <1>9, <1>10 DEF IndInv

LEMMA ClaimRollsBackHolds ==
    ASSUME IndInv, NEW w \in Workers, ClaimRollsBack(w)
    PROVE  IndInv'
<1>0. TypeOK /\ RowIsTheirs
  BY DEF IndInv
<1>1. LetsGo(w) /\ UNCHANGED <<row, left>>
  BY DEF ClaimRollsBack
<1>2. TypeOK'
  <2>1. row' \in [Ids -> Row] /\ \A i \in Ids : Fits(row'[i])
    BY <1>0, <1>1, RowsStay
  <2>2. /\ isolation' \in Isolations /\ clock' \in 0..LastTime /\ created' \in Seq(Ids)
        /\ left' \subseteq Ids
    BY <1>0, <1>1, GoneWorker DEF TypeOK
  <2>3. QED
    BY <1>1, <2>1, <2>2, GoneWorker, TypeFits
<1>3. RowIsTheirs'
  <2> SUFFICES ASSUME isolation = "repeatable read", NEW v \in Workers, worker'[v] = "working",
                      NEW s \in task'[v]
               PROVE  row'[s.id] = s.copy /\ s.copy.status = "running" /\ s.copy.lockedBy = {v}
    BY <1>0, <1>1, GoneWorker DEF RowIsTheirs
  <2>1. worker[v] = "working" /\ s \in task[v]
    BY <1>1, GoneWorker
  <2>2. QED
    BY <1>0, <1>1, <2>1 DEF RowIsTheirs
<1>4. QED
  BY <1>1, <1>2, <1>3, GoneWorker DEF IndInv

LEMMA ClaimUnsureHolds ==
    ASSUME IndInv, NEW w \in Workers, ClaimUnsure(w)
    PROVE  IndInv'
<1>0. TypeOK /\ RowIsTheirs
  BY DEF IndInv
<1>1. PICK t \in task[w] : /\ Serializes(t) /\ row' = [row EXCEPT ![t.id] = Saved(w, t)]
                           /\ left' = left \cup {t.id}
  BY DEF ClaimUnsure
<1>2. LetsGo(w) /\ worker[w] = "claiming"
  BY DEF ClaimUnsure
<1>3. PICK saved : saved = Saved(w, t)
  OBVIOUS
<1>4. /\ t.id \in Ids /\ saved \in Row
      /\ saved.status = "running" /\ saved.lockedBy = {w} /\ saved.lockedUntil # {}
      /\ row' = [row EXCEPT ![t.id] = saved]
  BY <1>0, <1>1, <1>3, SavedRow
<1>5. TypeOK'
  <2>1. row' \in [Ids -> Row] /\ \A i \in Ids : Fits(row'[i])
    BY <1>0, <1>4, RowChanges DEF Fits
  <2>2. left' \subseteq Ids
    BY <1>0, <1>1, <1>4 DEF TypeOK
  <2>3. QED
    BY <1>0, <1>2, <2>1, <2>2, GoneWorker, TypeFits DEF TypeOK
<1>6. RowIsTheirs'
  <2> SUFFICES ASSUME isolation = "repeatable read", NEW v \in Workers, worker'[v] = "working",
                      NEW s \in task'[v]
               PROVE  row'[s.id] = s.copy /\ s.copy.status = "running" /\ s.copy.lockedBy = {v}
    BY <1>2, GoneWorker DEF RowIsTheirs
  <2>1. v # w /\ worker[v] = "working" /\ s \in task[v]
    BY <1>2, GoneWorker
  <2>2. QED
    BY <1>1, <1>2, <2>1, OthersUntouched, Zenon
<1>7. QED
  BY <1>2, <1>5, <1>6, GoneWorker DEF IndInv

(* The row that Complete settles is the worker's, hence no other's. *)
LEMMA CompleteHolds ==
    ASSUME IndInv, NEW w \in Workers, NEW status \in {"completed", "failed"},
           Complete(w, status)
    PROVE  IndInv'
<1>0. TypeOK /\ RowIsTheirs
  BY DEF IndInv
<1>1. PICK t \in task[w] : row' = Settled(t.id, status) /\ left' = left \ {t.id}
  BY DEF Complete
<1>2. LetsGo(w) /\ worker[w] = "working"
  BY DEF Complete
<1>3. t.id \in Ids /\ row[t.id] \in Row /\ row \in [Ids -> Row]
  BY <1>0 DEF TypeOK
<1>4. PICK done : done = [row[t.id] EXCEPT !.status = status, !.lockedBy = {},
                                           !.lockedUntil = {}]
  OBVIOUS
<1>5. done \in Row /\ done.status # "running" /\ done.lockedBy = {} /\ done.lockedUntil = {}
  BY <1>3, <1>4 DEF Row, Statuses
<1>6. row' = [row EXCEPT ![t.id] = done]
  BY <1>1, <1>3, <1>4 DEF Settled
<1>7. TypeOK'
  <2>1. row' \in [Ids -> Row] /\ \A i \in Ids : Fits(row'[i])
    BY <1>0, <1>3, <1>5, <1>6, RowChanges DEF Fits
  <2>2. left' \subseteq Ids
    BY <1>0, <1>1 DEF TypeOK
  <2>3. QED
    BY <1>0, <1>2, <2>1, <2>2, GoneWorker, TypeFits DEF TypeOK
<1>8. RowIsTheirs'
  <2> SUFFICES ASSUME isolation = "repeatable read", NEW v \in Workers, worker'[v] = "working",
                      NEW s \in task'[v]
               PROVE  row'[s.id] = s.copy /\ s.copy.status = "running" /\ s.copy.lockedBy = {v}
    BY <1>2, GoneWorker DEF RowIsTheirs
  <2>1. v # w /\ worker[v] = "working" /\ s \in task[v]
    BY <1>2, GoneWorker
  <2>2. s.id \in Ids
    BY <1>0, <2>1, TasksTyped
  <2>3. row[s.id] = s.copy /\ s.copy.status = "running" /\ s.copy.lockedBy = {v}
    BY <1>0, <2>1 DEF RowIsTheirs
  <2>4. row[t.id] = t.copy /\ t.copy.lockedBy = {w}
    BY <1>0, <1>2 DEF RowIsTheirs
  <2>5. s.id # t.id
    BY <2>1, <2>3, <2>4
  <2>6. QED
    BY <1>3, <1>6, <2>2, <2>3, <2>5
<1>9. QED
  BY <1>2, <1>7, <1>8, GoneWorker DEF IndInv

LEMMA CompleteFailsHolds ==
    ASSUME IndInv, NEW w \in Workers, CompleteFails(w)
    PROVE  IndInv'
<1>0. TypeOK /\ RowIsTheirs
  BY DEF IndInv
<1>1. PICK t \in task[w] :
          left' = IF row[t.id].status = "running" THEN left \cup {t.id} ELSE left
  BY DEF CompleteFails
<1>2. LetsGo(w) /\ UNCHANGED row
  BY DEF CompleteFails
<1>3. left' \subseteq Ids
  <2>1. t.id \in Ids /\ left \subseteq Ids
    BY <1>0, TasksTyped DEF TypeOK
  <2>2. QED
    BY <1>1, <2>1
<1>4. TypeOK'
  <2>1. row' \in [Ids -> Row] /\ \A i \in Ids : Fits(row'[i])
    BY <1>0, <1>2, RowsStay
  <2>2. isolation' \in Isolations /\ clock' \in 0..LastTime /\ created' \in Seq(Ids)
    BY <1>0, <1>2, GoneWorker DEF TypeOK
  <2>3. QED
    BY <1>2, <1>3, <2>1, <2>2, GoneWorker, TypeFits
<1>5. RowIsTheirs'
  <2> SUFFICES ASSUME isolation = "repeatable read", NEW v \in Workers, worker'[v] = "working",
                      NEW s \in task'[v]
               PROVE  row'[s.id] = s.copy /\ s.copy.status = "running" /\ s.copy.lockedBy = {v}
    BY <1>0, <1>2, GoneWorker DEF RowIsTheirs
  <2>1. worker[v] = "working" /\ s \in task[v]
    BY <1>2, GoneWorker
  <2>2. QED
    BY <1>0, <1>2, <2>1 DEF RowIsTheirs
<1>6. QED
  BY <1>2, <1>4, <1>5, GoneWorker DEF IndInv

LEMMA CrashHolds ==
    ASSUME IndInv, NEW w \in Workers, Crash(w)
    PROVE  IndInv'
<1>0. TypeOK /\ ClaimsQueued /\ RowIsTheirs /\ TasksExist
  BY DEF IndInv
<1>1. /\ worker' = [worker EXCEPT ![w] = "crashed"]
      /\ task' = IF worker[w] = "claiming" THEN [task EXCEPT ![w] = {}] ELSE task
      /\ UNCHANGED <<isolation, clock, created, row, left>>
  BY DEF Crash
<1>2. /\ worker' \in [Workers -> {"idle", "claiming", "working", "crashed"}]
      /\ task' \in [Workers -> SUBSET [id : Ids, copy : Row]]
      /\ worker'[w] = "crashed"
      /\ \A v \in Workers \ {w} : worker'[v] = worker[v]
      /\ \A v \in Workers : task'[v] \subseteq task[v]
  <2>1. /\ worker \in [Workers -> {"idle", "claiming", "working", "crashed"}]
        /\ task \in [Workers -> SUBSET [id : Ids, copy : Row]]
    BY <1>0 DEF TypeOK
  <2>2. /\ worker' \in [Workers -> {"idle", "claiming", "working", "crashed"}]
        /\ worker'[w] = "crashed" /\ \A v \in Workers \ {w} : worker'[v] = worker[v]
    BY <1>1, <2>1
  <2>3. CASE worker[w] = "claiming"
    BY <1>1, <2>1, <2>2, <2>3
  <2>4. CASE worker[w] # "claiming"
    BY <1>1, <2>1, <2>2, <2>4
  <2>5. QED
    BY <2>3, <2>4
<1>3. TypeOK'
  <2>1. row' \in [Ids -> Row] /\ \A i \in Ids : Fits(row'[i])
    BY <1>0, <1>1, RowsStay
  <2>2. /\ isolation' \in Isolations /\ clock' \in 0..LastTime /\ created' \in Seq(Ids)
        /\ left' \subseteq Ids
    BY <1>0, <1>1 DEF TypeOK
  <2>3. QED
    BY <1>2, <2>1, <2>2, TypeFits
<1>4. ClaimsQueued'
  BY <1>0, <1>2 DEF ClaimsQueued
<1>5. RowIsTheirs'
  <2> SUFFICES ASSUME isolation = "repeatable read", NEW v \in Workers, worker'[v] = "working",
                      NEW s \in task'[v]
               PROVE  row'[s.id] = s.copy /\ s.copy.status = "running" /\ s.copy.lockedBy = {v}
    BY <1>0, <1>1 DEF RowIsTheirs
  <2>1. worker[v] = "working" /\ s \in task[v]
    BY <1>0, <1>2
  <2>2. QED
    BY <1>0, <1>1, <2>1 DEF RowIsTheirs
<1>6. TasksExist'
  BY <1>0, <1>1, <1>2 DEF TasksExist, Exists
<1>7. QED
  BY <1>3, <1>4, <1>5, <1>6 DEF IndInv

LEMMA NextHolds == IndInv /\ [Next]_vars => IndInv'
<1> SUFFICES ASSUME IndInv, [Next]_vars PROVE IndInv'
  OBVIOUS
<1>0. TypeOK /\ ClaimsQueued /\ RowIsTheirs /\ TasksExist
  BY DEF IndInv
<1>1. ASSUME UNCHANGED <<isolation, created, row, worker, task, left>>, clock' \in 0..LastTime
      PROVE  IndInv'
  BY <1>0, <1>1 DEF IndInv, TypeOK, ClaimsQueued, RowIsTheirs, TasksExist, Exists
<1>2. CASE Pass
  BY <1>0, <1>1, <1>2, LeaseAndClock DEF Pass, TypeOK
<1>3. CASE UNCHANGED vars
  BY <1>0, <1>1, <1>3 DEF vars, TypeOK
<1>4. QED
  BY <1>2, <1>3, EnqueueHolds, ClaimReadsHolds, ClaimSavesHolds, ClaimRollsBackHolds,
     ClaimUnsureHolds, CompleteHolds, CompleteFailsHolds, CrashHolds
     DEF Next, Step

LEMMA Inductive == Spec => []IndInv
BY InitHolds, NextHolds, PTL DEF Spec

-----------------------------------------------------------------------------
(* The rows and the workers' copies keep their types, and a row is as it was  *)
(* enqueued, or running exactly while it names a worker and a time.          *)
THEOREM TypeCorrect == Spec => []TypeOK
<1>1. IndInv => TypeOK
  BY DEF IndInv
<1>2. QED
  BY <1>1, Inductive, PTL

(* Where Claim's transaction runs on a snapshot (gorm.go:46-56), no task is   *)
(* executed by two workers at once, whatever leases expire, calls fail and    *)
(* workers die.                                                              *)
THEOREM NobodyTwice == Spec => []SnapshotExclusive
<1>1. IndInv => SnapshotExclusive
  <2> SUFFICES ASSUME IndInv, isolation = "repeatable read",
                      NEW v \in Workers, NEW w \in Workers,
                      worker[v] = "working", worker[w] = "working",
                      NEW s \in task[v], NEW t \in task[w], s.id = t.id
               PROVE  v = w
    BY DEF SnapshotExclusive, WorksOn
  <2>1. s.copy.lockedBy = {v} /\ row[s.id] = s.copy
    BY DEF IndInv, RowIsTheirs
  <2>2. t.copy.lockedBy = {w} /\ row[t.id] = t.copy
    BY DEF IndInv, RowIsTheirs
  <2>3. QED
    BY <2>1, <2>2
<1>2. QED
  BY <1>1, Inductive, PTL
===============================================================================
