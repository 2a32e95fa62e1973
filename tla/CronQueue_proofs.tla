--------------------------- MODULE CronQueue_proofs ---------------------------
(***************************************************************************)
(* Proofs about TaskQueue, for any tasks, ids, workers and buffer size, and *)
(* about CronQueue: a cron is one more caller of the queue, and no entry    *)
(* fires twice for a minute.                                                *)
(***************************************************************************)
EXTENDS CronQueue, FiniteSetTheorems, TLAPS

(* A worker between taking a task and finishing it holds exactly that one. *)
OneHeld ==
    /\ \A w \in Workers : holding[w] = {} <=> point[w] \in {"idle", "stopped"}
    /\ \A w \in Workers : \A i, j \in holding[w] : i = j

IndInv == TypeOK /\ OneHeld /\ NothingLost /\ SettledRecord

-----------------------------------------------------------------------------
(* What a send and a receive do to the contents of the channel. *)
LEMMA AppendContents ==
    ASSUME NEW S, NEW s \in Seq(S), NEW e \in S
    PROVE  /\ Append(s, e) \in Seq(S)
           /\ Len(Append(s, e)) = Len(s) + 1
           /\ \A x : (\E i \in DOMAIN Append(s, e) : Append(s, e)[i] = x)
                         <=> (\E i \in DOMAIN s : s[i] = x) \/ x = e
<1>1. /\ Append(s, e) \in Seq(S)
      /\ Len(Append(s, e)) = Len(s) + 1
      /\ Append(s, e)[Len(s) + 1] = e
      /\ \A i \in 1..Len(s) : Append(s, e)[i] = s[i]
      /\ DOMAIN s = 1..Len(s) /\ DOMAIN Append(s, e) = 1..(Len(s) + 1)
      /\ Len(s) \in Nat
  OBVIOUS
<1>2. QED
  BY <1>1

LEMMA TailContents ==
    ASSUME NEW S, NEW s \in Seq(S), s # <<>>,
           \A i, k \in DOMAIN s : s[i] = s[k] => i = k
    PROVE  /\ Tail(s) \in Seq(S)
           /\ Head(s) \in S
           /\ Len(Tail(s)) <= Len(s)
           /\ \A x : (\E i \in DOMAIN Tail(s) : Tail(s)[i] = x)
                         <=> (\E i \in DOMAIN s : s[i] = x) /\ x # Head(s)
           /\ \A i, k \in DOMAIN Tail(s) : Tail(s)[i] = Tail(s)[k] => i = k
           /\ \E i \in DOMAIN s : s[i] = Head(s)
<1>1. /\ Tail(s) \in Seq(S) /\ Head(s) \in S /\ Head(s) = s[1]
      /\ Len(s) \in Nat \ {0}
      /\ Len(Tail(s)) = Len(s) - 1
      /\ DOMAIN s = 1..Len(s) /\ DOMAIN Tail(s) = 1..(Len(s) - 1)
      /\ \A i \in 1..(Len(s) - 1) : Tail(s)[i] = s[i + 1]
  OBVIOUS
<1>2. \A x : (\E i \in DOMAIN Tail(s) : Tail(s)[i] = x)
                 => (\E i \in DOMAIN s : s[i] = x) /\ x # Head(s)
  BY <1>1
<1>3. ASSUME NEW i \in DOMAIN s, s[i] # Head(s)
      PROVE  \E k \in DOMAIN Tail(s) : Tail(s)[k] = s[i]
  <2>1. i - 1 \in DOMAIN Tail(s) /\ Tail(s)[i - 1] = s[i]
    BY <1>1, <1>3
  <2>2. QED
    BY <2>1
<1>4. QED
  BY <1>1, <1>2, <1>3

LEMMA AppendDistinct ==
    ASSUME NEW S, NEW s \in Seq(S), NEW e \in S,
           \A i, k \in DOMAIN s : s[i] = s[k] => i = k,
           ~\E i \in DOMAIN s : s[i] = e
    PROVE  \A i, k \in DOMAIN Append(s, e) :
               Append(s, e)[i] = Append(s, e)[k] => i = k
<1>1. /\ Append(s, e)[Len(s) + 1] = e
      /\ \A i \in 1..Len(s) : Append(s, e)[i] = s[i]
      /\ DOMAIN s = 1..Len(s) /\ DOMAIN Append(s, e) = 1..(Len(s) + 1)
      /\ Len(s) \in Nat
  OBVIOUS
<1>2. QED
  BY <1>1

-----------------------------------------------------------------------------
LEMMA InitHolds == Init => IndInv
<1> SUFFICES ASSUME Init PROVE IndInv
  OBVIOUS
<1> USE QueueAssumption DEF Init
<1>1. /\ jobs = <<>> /\ jobs \in Seq(Jobs) /\ Len(jobs) <= Buffer
      /\ DOMAIN jobs = {}
  OBVIOUS
<1>2. TypeOK
  BY <1>1 DEF TypeOK, Statuses
<1>3. OneHeld /\ SettledRecord
  BY DEF OneHeld, SettledRecord
<1>4. NothingLost
  BY <1>1 DEF NothingLost, InChannel, Held, Finished
<1>5. QED
  BY <1>2, <1>3, <1>4 DEF IndInv

(* A submission changes the records, the channel or the calls, and leaves the *)
(* workers and the outcomes alone.                                           *)
LEMMA SubmitStep ==
    ASSUME IndInv, NEW j \in Jobs, Submit(j)
    PROVE  IndInv'
<1> USE QueueAssumption DEF IndInv
<1>1. CASE SubmitBegins(j)
  <2>1. TypeOK' /\ OneHeld'
    BY <1>1 DEF SubmitBegins, Set, TypeOK, OneHeld, Statuses
  <2>2. NothingLost'
    BY <1>1 DEF SubmitBegins, TypeOK, NothingLost, InChannel, Held, Finished
  <2>3. SettledRecord'
    BY <1>1 DEF SubmitBegins, Set, TypeOK, NothingLost, SettledRecord, Finished
  <2>4. QED
    BY <2>1, <2>2, <2>3
<1>2. CASE SubmitSends(j)
  <2>1. ~InChannel(j) /\ ~Held(j) /\ ~Finished(j)
    BY <1>2 DEF SubmitSends, NothingLost
  <2>2. /\ \A k \in Jobs : InChannel(k)' <=> InChannel(k) \/ k = j
        /\ jobs' \in Seq(Jobs) /\ Len(jobs') <= Buffer
    <3>1. j \in Jobs /\ jobs \in Seq(Jobs) /\ jobs' = Append(jobs, j) /\ Len(jobs) < Buffer
      BY <1>2 DEF SubmitSends, TypeOK
    <3>2. /\ Append(jobs, j) \in Seq(Jobs)
          /\ Len(Append(jobs, j)) = Len(jobs) + 1
          /\ \A x : (\E i \in DOMAIN Append(jobs, j) : Append(jobs, j)[i] = x)
                        <=> (\E i \in DOMAIN jobs : jobs[i] = x) \/ x = j
      <4> HIDE DEF IndInv
      <4>1. QED
        BY <3>1, AppendContents, SMT
    <3>3. Len(jobs') <= Buffer
      BY <3>1, <3>2
    <3>4. \A k \in Jobs : InChannel(k)' <=> InChannel(k) \/ k = j
      BY <3>1, <3>2, Zenon DEF InChannel
    <3>5. QED
      BY <3>1, <3>2, <3>3, <3>4
  <2>3. \A i, k \in DOMAIN jobs' : jobs'[i] = jobs'[k] => i = k
    <3>1. /\ j \in Jobs /\ jobs \in Seq(Jobs) /\ jobs' = Append(jobs, j)
          /\ \A i, k \in DOMAIN jobs : jobs[i] = jobs[k] => i = k
          /\ ~\E i \in DOMAIN jobs : jobs[i] = j
      BY <1>2, <2>1 DEF SubmitSends, TypeOK, NothingLost, InChannel
    <3>2. QED
      <4> HIDE DEF IndInv
      <4>1. \A i, k \in DOMAIN Append(jobs, j) :
                Append(jobs, j)[i] = Append(jobs, j)[k] => i = k
        BY <3>1, AppendDistinct, SMT
      <4>2. QED
        BY <3>1, <4>1, Zenon
  <2>4. TypeOK' /\ OneHeld'
    BY <1>2, <2>2 DEF SubmitSends, TypeOK, OneHeld
  <2>5. NothingLost'
    BY <1>2, <2>1, <2>2, <2>3 DEF SubmitSends, TypeOK, NothingLost, Held, Finished
  <2>6. SettledRecord'
    BY <1>2 DEF SubmitSends, TypeOK, SettledRecord, Finished
  <2>7. QED
    BY <2>4, <2>5, <2>6
<1>3. CASE SubmitCancelled(j)
  <2>1. TypeOK' /\ OneHeld'
    BY <1>3 DEF SubmitCancelled, TypeOK, OneHeld
  <2>2. NothingLost'
    BY <1>3 DEF SubmitCancelled, TypeOK, NothingLost, InChannel, Held, Finished
  <2>3. SettledRecord'
    BY <1>3 DEF SubmitCancelled, TypeOK, SettledRecord, Finished
  <2>4. QED
    BY <2>1, <2>2, <2>3
<1>4. QED
  BY <1>1, <1>2, <1>3 DEF Submit

(* A worker moves a task from the channel to its hands and from there to the  *)
(* finished ones; the record it writes is of a task it holds.                *)
LEMMA WorkerStep ==
    ASSUME IndInv, NEW w \in Workers, Work(w)
    PROVE  IndInv'
<1> USE QueueAssumption DEF IndInv
<1>1. CASE Take(w)
  <2> DEFINE h == Head(jobs)
  <2>1. /\ jobs' \in Seq(Jobs) /\ h \in Jobs /\ Len(jobs') <= Len(jobs)
        /\ \A k \in Jobs : InChannel(k)' <=> InChannel(k) /\ k # h
        /\ \A i, k \in DOMAIN jobs' : jobs'[i] = jobs'[k] => i = k
        /\ InChannel(h)
    <3>1. /\ jobs \in Seq(Jobs) /\ jobs # <<>> /\ jobs' = Tail(jobs)
          /\ \A i, k \in DOMAIN jobs : jobs[i] = jobs[k] => i = k
      BY <1>1 DEF Take, TypeOK, NothingLost
    <3> HIDE DEF IndInv
    <3>2. /\ Tail(jobs) \in Seq(Jobs) /\ Head(jobs) \in Jobs
          /\ Len(Tail(jobs)) <= Len(jobs)
          /\ \A x : (\E i \in DOMAIN Tail(jobs) : Tail(jobs)[i] = x)
                        <=> (\E i \in DOMAIN jobs : jobs[i] = x) /\ x # Head(jobs)
          /\ \A i, k \in DOMAIN Tail(jobs) : Tail(jobs)[i] = Tail(jobs)[k] => i = k
          /\ \E i \in DOMAIN jobs : jobs[i] = Head(jobs)
      BY <3>1, TailContents, Zenon
    <3>3. QED
      BY <3>1, <3>2, Zenon DEF InChannel
  <2>2. /\ holding[w] = {}
        /\ holding' = [holding EXCEPT ![w] = {h}]
        /\ ~Held(h) /\ ~Finished(h)
        /\ UNCHANGED <<records, call, outcome, cancelled>>
    BY <1>1, <2>1 DEF Take, OneHeld, NothingLost
  <2>3. \A k \in Jobs : Held(k)' <=> Held(k) \/ k = h
    BY <2>2 DEF Held, TypeOK
  <2>4. TypeOK'
    BY <1>1, <2>1, <2>2 DEF Take, TypeOK
  <2>5. OneHeld'
    <3>1. /\ holding \in [Workers -> SUBSET Jobs] /\ OneHeld
          /\ point \in [Workers -> {"idle", "taken", "running", "stopped"}]
          /\ point' = [point EXCEPT ![w] = "taken"]
      BY <1>1 DEF Take, TypeOK
    <3> HIDE DEF IndInv, h
    <3>2. QED
      BY <2>2, <3>1 DEF OneHeld
  <2>6. NothingLost'
    <3>1. \A u, v \in Workers : holding'[u] \cap holding'[v] # {} => u = v
      <4>1. /\ \A u, v \in Workers : holding[u] \cap holding[v] # {} => u = v
            /\ \A u \in Workers : h \notin holding[u]
        BY <2>2 DEF NothingLost, Held
      <4>2. /\ holding'[w] = {h}
            /\ \A u \in Workers \ {w} : holding'[u] = holding[u]
        BY <2>2 DEF TypeOK
      <4> HIDE DEF h
      <4>3. QED
        BY <4>1, <4>2
    <3>2. QED
      BY <2>1, <2>2, <2>3, <3>1 DEF NothingLost, Finished
  <2>7. SettledRecord'
    BY <2>2 DEF SettledRecord, Finished
  <2>8. QED
    BY <2>4, <2>5, <2>6, <2>7
<1>2. CASE Stop(w)
  <2>1. TypeOK' /\ OneHeld'
    BY <1>2 DEF Stop, TypeOK, OneHeld
  <2>2. NothingLost' /\ SettledRecord'
    BY <1>2 DEF Stop, NothingLost, SettledRecord, InChannel, Held, Finished
  <2>3. QED
    BY <2>1, <2>2
<1>3. CASE RunBegins(w)
  <2>1. PICK j \in holding[w] : Set(j, "running")
    BY <1>3 DEF RunBegins
  <2>2. j \in Jobs /\ call[j] = "accepted" /\ ~Finished(j)
    BY <2>1 DEF NothingLost, TypeOK, Held
  <2>3. TypeOK' /\ OneHeld'
    BY <1>3, <2>1, <2>2 DEF RunBegins, Set, TypeOK, OneHeld, Statuses
  <2>4. NothingLost'
    BY <1>3 DEF RunBegins, NothingLost, InChannel, Held, Finished
  <2>5. SettledRecord'
    BY <1>3, <2>1, <2>2 DEF RunBegins, Set, TypeOK, SettledRecord, Finished
  <2>6. QED
    BY <2>3, <2>4, <2>5
<1>4. ASSUME NEW result \in Outcomes, RunEnds(w, result)
      PROVE  IndInv'
  <2>1. PICK j \in holding[w] :
            Set(j, result) /\ outcome' = [outcome EXCEPT ![j] = result]
    BY <1>4 DEF RunEnds
  <2>2. /\ j \in Jobs /\ call[j] = "accepted" /\ ~Finished(j) /\ ~InChannel(j)
        /\ result # "none"
        /\ holding[w] = {j}
        /\ holding' = [holding EXCEPT ![w] = {}]
        /\ UNCHANGED <<jobs, call, cancelled>>
    BY <1>4, <2>1 DEF RunEnds, NothingLost, TypeOK, Held, OneHeld, Outcomes
  <2>3. TypeOK' /\ OneHeld'
    BY <1>4, <2>1, <2>2 DEF RunEnds, Set, TypeOK, OneHeld, Statuses
  <2>4. /\ \A k \in Jobs : Held(k)' <=> Held(k) /\ k # j
        /\ \A k \in Jobs : Finished(k)' <=> Finished(k) \/ k = j
        /\ \A k \in Jobs : InChannel(k)' <=> InChannel(k)
    BY <2>1, <2>2 DEF Held, Finished, InChannel, NothingLost, TypeOK
  <2>5. NothingLost'
    BY <2>2, <2>4 DEF NothingLost, TypeOK, Held
  <2>6. SettledRecord'
    BY <2>1, <2>2 DEF Set, TypeOK, SettledRecord, Finished
  <2>7. QED
    BY <2>3, <2>5, <2>6
<1>5. QED
  BY <1>1, <1>2, <1>3, <1>4 DEF Work, Ends

LEMMA NextHolds == IndInv /\ [Next]_queueVars => IndInv'
<1> SUFFICES ASSUME IndInv, [Next]_queueVars PROVE IndInv'
  OBVIOUS
<1>1. CASE Cancel
  BY <1>1 DEF Cancel, IndInv, TypeOK, OneHeld, NothingLost, SettledRecord,
     InChannel, Held, Finished
<1>2. CASE UNCHANGED queueVars
  BY <1>2 DEF queueVars, IndInv, TypeOK, OneHeld, NothingLost, SettledRecord,
     InChannel, Held, Finished
<1>3. QED
  BY <1>1, <1>2, SubmitStep, WorkerStep DEF Next

LEMMA Inductive == Spec => []IndInv
BY InitHolds, NextHolds, PTL DEF Spec

-----------------------------------------------------------------------------
(* The variables keep their types, and the channel its capacity. *)
THEOREM TypeCorrect == Spec => []TypeOK
BY Inductive, PTL DEF IndInv

(* An accepted task is in exactly one of the channel, a worker's hands and    *)
(* the executed ones; a rejected one is in none (Submit, worker and run of    *)
(* queue.go), for any number of tasks, workers and slots.                     *)
THEOREM AcceptedAccountedFor == Spec => []NothingLost
BY Inductive, PTL DEF IndInv

(* When all the tasks of an id are executed, its record tells the outcome of  *)
(* one of them.                                                              *)
THEOREM RecordsSettle == Spec => []SettledRecord
BY Inductive, PTL DEF IndInv

-----------------------------------------------------------------------------
(* The record of a task whose id no other task has tells where the task is:  *)
(* this is why it moves forward only.                                        *)
OwnRecord ==
    \A j \in Jobs : Unshared(j) =>
        /\ call[j] = "new" => records[IdOf[j]] = "none"
        /\ call[j] \in {"sending", "rejected"} \/ InChannel(j) => records[IdOf[j]] = "queued"
        /\ \A w \in Workers : j \in holding[w] =>
               records[IdOf[j]] = IF point[w] = "taken" THEN "queued" ELSE "running"

(* A step writes at most the record of one task, and then a later one.       *)
NoneBack ==
    \A j \in Jobs : Unshared(j) => Rank(records[IdOf[j]]) <= Rank(records'[IdOf[j]])

LEMMA Ranks ==
    /\ Rank("none") <= Rank("queued") /\ Rank("queued") <= Rank("running")
    /\ \A result \in Outcomes : Rank("running") <= Rank(result)
    /\ \A status \in Statuses : Rank(status) <= Rank(status)
BY DEF Rank, Outcomes, Statuses

LEMMA RecordsKept ==
    ASSUME TypeOK, records' = records
    PROVE  NoneBack
BY Ranks, QueueAssumption DEF TypeOK, NoneBack

(* A write to the record of one task leaves those of the others that have an *)
(* id of their own.                                                          *)
LEMMA OneRecord ==
    ASSUME TypeOK, NEW j \in Jobs, NEW status \in Statuses, Set(j, status)
    PROVE  /\ records'[IdOf[j]] = status
           /\ \A k \in Jobs : Unshared(k) /\ k # j =>
                  records'[IdOf[k]] = records[IdOf[k]]
           /\ Unshared(j) /\ Rank(records[IdOf[j]]) <= Rank(status)
                  => NoneBack
           /\ ~Unshared(j) => NoneBack
<1>1. \A k \in Jobs : IdOf[k] \in Ids /\ records[IdOf[k]] \in Statuses
  BY QueueAssumption DEF TypeOK
<1>2. records'[IdOf[j]] = status
  BY <1>1 DEF Set, TypeOK
<1>3. ASSUME NEW k \in Jobs, Unshared(k), k # j PROVE records'[IdOf[k]] = records[IdOf[k]]
  BY <1>1, <1>3 DEF Set, TypeOK, Unshared
<1>4. ASSUME Unshared(j) => Rank(records[IdOf[j]]) <= Rank(status)
      PROVE  NoneBack
  BY <1>1, <1>2, <1>3, <1>4, Ranks DEF NoneBack
<1>5. QED
  BY <1>2, <1>3, <1>4

LEMMA SendContents ==
    ASSUME NEW k \in Jobs, jobs \in Seq(Jobs), jobs' = Append(jobs, k)
    PROVE  \A j \in Jobs : InChannel(j)' <=> InChannel(j) \/ j = k
<1>1. /\ Append(jobs, k)[Len(jobs) + 1] = k
      /\ \A i \in 1..Len(jobs) : Append(jobs, k)[i] = jobs[i]
      /\ DOMAIN jobs = 1..Len(jobs) /\ DOMAIN Append(jobs, k) = 1..(Len(jobs) + 1)
      /\ Len(jobs) \in Nat
  OBVIOUS
<1>2. QED
  BY <1>1 DEF InChannel

LEMMA OwnSteps ==
    ASSUME IndInv, OwnRecord, [Next]_queueVars
    PROVE  OwnRecord' /\ NoneBack
<1> USE QueueAssumption
<1>0. TypeOK /\ OneHeld /\ NothingLost
  BY DEF IndInv
<1>1. ASSUME NEW k \in Jobs, SubmitBegins(k) PROVE OwnRecord' /\ NoneBack
  <2>1. /\ call[k] = "new" /\ call' = [call EXCEPT ![k] = "sending"]
        /\ Set(k, "queued") /\ "queued" \in Statuses
        /\ UNCHANGED <<jobs, holding, point>>
    BY <1>1 DEF SubmitBegins, Statuses
  <2>2. ~InChannel(k) /\ \A w \in Workers : k \notin holding[w]
    BY <1>0, <2>1 DEF NothingLost, Held
  <2>3. NoneBack
    BY <1>0, <2>1, OneRecord, Ranks DEF OwnRecord
  <2>4. OwnRecord'
    BY <1>0, <2>1, <2>2, OneRecord DEF OwnRecord, InChannel, TypeOK, Unshared
  <2>5. QED
    BY <2>3, <2>4
<1>2. ASSUME NEW k \in Jobs, SubmitSends(k) PROVE OwnRecord' /\ NoneBack
  <2>1. /\ call[k] = "sending" /\ call' = [call EXCEPT ![k] = "accepted"]
        /\ jobs' = Append(jobs, k) /\ UNCHANGED <<records, holding, point>>
    BY <1>2 DEF SubmitSends
  <2>2. \A j \in Jobs : InChannel(j)' <=> InChannel(j) \/ j = k
    <3>1. jobs \in Seq(Jobs)
      BY <1>0 DEF TypeOK
    <3>2. QED
      BY <1>2, <2>1, <3>1, SendContents
  <2>3. OwnRecord'
    BY <1>0, <2>1, <2>2 DEF OwnRecord, TypeOK, Unshared
  <2>4. QED
    BY <1>0, <2>1, <2>3, RecordsKept
<1>3. ASSUME NEW k \in Jobs, SubmitCancelled(k) PROVE OwnRecord' /\ NoneBack
  <2>1. OwnRecord'
    BY <1>0, <1>3 DEF SubmitCancelled, OwnRecord, InChannel, TypeOK, Unshared
  <2>2. QED
    BY <1>0, <1>3, <2>1, RecordsKept DEF SubmitCancelled
<1>4. ASSUME NEW w \in Workers, Take(w) PROVE OwnRecord' /\ NoneBack
  <2>1. /\ UNCHANGED <<records, call>> /\ point' = [point EXCEPT ![w] = "taken"]
        /\ holding' = [holding EXCEPT ![w] = {Head(jobs)}]
    BY <1>4 DEF Take
  <2>2. /\ \A j \in Jobs : InChannel(j)' => InChannel(j)
        /\ InChannel(Head(jobs))
    <3>1. /\ jobs \in Seq(Jobs) /\ jobs # <<>> /\ jobs' = Tail(jobs)
          /\ \A i, k \in DOMAIN jobs : jobs[i] = jobs[k] => i = k
      BY <1>0, <1>4 DEF Take, TypeOK, NothingLost
    <3>2. /\ \A x : (\E i \in DOMAIN Tail(jobs) : Tail(jobs)[i] = x)
                        <=> (\E i \in DOMAIN jobs : jobs[i] = x) /\ x # Head(jobs)
          /\ \E i \in DOMAIN jobs : jobs[i] = Head(jobs)
      BY <3>1, TailContents, Zenon
    <3>3. \A j \in Jobs : InChannel(j)' => InChannel(j)
      BY <3>1, <3>2, Zenon DEF InChannel
    <3>4. InChannel(Head(jobs))
      BY <3>2, Zenon DEF InChannel
    <3>5. QED
      BY <3>3, <3>4
  <2>3. ASSUME NEW j \in Jobs, Unshared(j), NEW v \in Workers, j \in holding'[v]
        PROVE  records[IdOf[j]] = IF point'[v] = "taken" THEN "queued" ELSE "running"
    <3>1. CASE v = w
      <4>1. j = Head(jobs) /\ point'[v] = "taken"
        BY <1>0, <2>1, <2>3, <3>1 DEF TypeOK
      <4>2. QED
        BY <2>2, <2>3, <4>1 DEF OwnRecord
    <3>2. CASE v # w
      BY <1>0, <2>1, <2>3, <3>2 DEF OwnRecord, TypeOK
    <3>3. QED
      BY <3>1, <3>2
  <2>4. OwnRecord'
    BY <2>1, <2>2, <2>3 DEF OwnRecord, Unshared
  <2>5. QED
    BY <1>0, <2>1, <2>4, RecordsKept
<1>5. ASSUME NEW w \in Workers, Stop(w) PROVE OwnRecord' /\ NoneBack
  <2>1. OwnRecord'
    BY <1>0, <1>5 DEF Stop, OwnRecord, OneHeld, InChannel, TypeOK, Unshared
  <2>2. QED
    BY <1>0, <1>5, <2>1, RecordsKept DEF Stop
<1>6. ASSUME NEW w \in Workers, RunBegins(w) PROVE OwnRecord' /\ NoneBack
  <2>1. PICK k \in holding[w] : Set(k, "running")
    BY <1>6 DEF RunBegins
  <2>2. /\ k \in Jobs /\ "running" \in Statuses /\ call[k] = "accepted" /\ ~InChannel(k)
        /\ \A j \in holding[w] : j = k
        /\ \A v \in Workers : k \in holding[v] => v = w
    BY <1>0, <2>1 DEF TypeOK, Statuses, NothingLost, Held, OneHeld
  <2>3. /\ point[w] = "taken" /\ point' = [point EXCEPT ![w] = "running"]
        /\ UNCHANGED <<jobs, call, holding>>
    BY <1>6 DEF RunBegins
  <2>4. NoneBack
    BY <1>0, <2>1, <2>2, <2>3, OneRecord, Ranks DEF OwnRecord
  <2>5. OwnRecord'
    BY <1>0, <2>1, <2>2, <2>3, OneRecord DEF OwnRecord, InChannel, TypeOK, Unshared
  <2>6. QED
    BY <2>4, <2>5
<1>7. ASSUME NEW w \in Workers, NEW result \in Outcomes, RunEnds(w, result)
      PROVE  OwnRecord' /\ NoneBack
  <2>1. PICK k \in holding[w] : Set(k, result)
    BY <1>7 DEF RunEnds
  <2>2. /\ k \in Jobs /\ result \in Statuses /\ call[k] = "accepted" /\ ~InChannel(k)
        /\ \A j \in holding[w] : j = k
        /\ \A v \in Workers : k \in holding[v] => v = w
    BY <1>0, <2>1 DEF TypeOK, Statuses, NothingLost, Held, OneHeld
  <2>3. /\ point[w] = "running" /\ point' = [point EXCEPT ![w] = "idle"]
        /\ holding' = [holding EXCEPT ![w] = {}] /\ UNCHANGED <<jobs, call>>
    BY <1>7 DEF RunEnds
  <2>4. NoneBack
    BY <1>0, <2>1, <2>2, <2>3, OneRecord, Ranks DEF OwnRecord
  <2>5. OwnRecord'
    BY <1>0, <2>1, <2>2, <2>3, OneRecord DEF OwnRecord, InChannel, TypeOK, Unshared
  <2>6. QED
    BY <2>4, <2>5
<1>8. CASE Cancel \/ UNCHANGED queueVars
  <2>1. UNCHANGED <<jobs, records, call, holding, point>>
    BY <1>8 DEF Cancel, queueVars
  <2>2. OwnRecord'
    BY <2>1 DEF OwnRecord, InChannel, Unshared
  <2>3. QED
    BY <1>0, <2>1, <2>2, RecordsKept
<1>9. QED
  BY <1>1, <1>2, <1>3, <1>4, <1>5, <1>6, <1>7, <1>8 DEF Next, Submit, Work, Ends

(* A poller of Get never sees the record of a task with an id of its own go   *)
(* back, for any tasks, workers and slots.                                   *)
THEOREM RecordsMoveForward == Spec => StatusForward
<1>1. Init => OwnRecord
  BY QueueAssumption DEF Init, OwnRecord, InChannel
<1>2. IndInv /\ OwnRecord /\ [Next]_queueVars => OwnRecord' /\ NoneBack
  BY OwnSteps
<1>3. IndInv /\ OwnRecord /\ [Next]_queueVars => [NoneBack]_queueVars
  BY <1>2
<1>4. Spec => [][NoneBack]_queueVars
  BY <1>1, <1>2, <1>3, Inductive, PTL DEF Spec
<1>5. QED
  BY <1>4 DEF StatusForward, NoneBack

-----------------------------------------------------------------------------
(* The cron *)

(* Time as the cron sees it goes forward: no tick is older than the one being *)
(* handled, and none is from the future.                                      *)
Forward ==
    /\ cron = "off" => ticker = {}
    /\ now <= clock
    /\ \A t \in ticker : now <= t /\ t <= clock

(* cronEntry.last is the minute of the entry's newest fire. *)
LastIsNewest ==
    \A e \in Entries :
        /\ \A t \in last[e] : t <= now
        /\ fired[e] # <<>> => last[e] = {fired[e][Len(fired[e])]}

CronInv == CronTypeOK /\ Forward /\ LastIsNewest /\ OncePerMinute

-----------------------------------------------------------------------------
LEMMA CronInitHolds == CronInit => CronInv
<1> SUFFICES ASSUME CronInit PROVE CronInv
  OBVIOUS
<1> USE CronAssumption DEF CronInit
<1>1. 0 \in Minutes
  BY DEF Minutes
<1>2. <<>> \in Seq(Minutes) /\ <<>> \in Seq(Entries) /\ Cardinality({}) = 0
  BY FS_EmptySet
<1>3. CronTypeOK
  <2>1. fired \in [Entries -> Seq(Minutes)] /\ tasks \in Seq(Entries)
    BY <1>2
  <2>2. Cardinality(ticker) <= 1
    BY <1>2
  <2>3. QED
    BY <1>1, <2>1, <2>2 DEF CronTypeOK
<1>4. Forward /\ LastIsNewest
  BY DEF Forward, LastIsNewest
<1>5. OncePerMinute
  BY DEF OncePerMinute
<1>6. QED
  BY <1>3, <1>4, <1>5 DEF CronInv

(* A strictly increasing sequence stays so when a larger number is appended. *)
LEMMA AppendIncreasing ==
    ASSUME NEW S \in SUBSET Nat, NEW s \in Seq(S), NEW x \in S,
           \A m, n \in DOMAIN s : m < n => s[m] < s[n],
           s # <<>> => s[Len(s)] < x
    PROVE  \A m, n \in DOMAIN Append(s, x) :
               m < n => Append(s, x)[m] < Append(s, x)[n]
<1>1. /\ Append(s, x)[Len(s) + 1] = x
      /\ \A i \in 1..Len(s) : Append(s, x)[i] = s[i] /\ s[i] \in S
      /\ DOMAIN s = 1..Len(s) /\ DOMAIN Append(s, x) = 1..(Len(s) + 1)
      /\ Len(s) \in Nat
      /\ s = <<>> <=> Len(s) = 0
  OBVIOUS
<1>2. ASSUME NEW i \in 1..Len(s) PROVE s[i] < x
  <2> DEFINE n == Len(s)
  <2>1. /\ n \in Nat /\ i \in 1..n /\ n \in 1..n /\ DOMAIN s = 1..n
        /\ s[n] < x /\ i <= n
    BY <1>1
  <2>2. s[i] \in S /\ s[n] \in S /\ x \in S
    BY <1>1, <2>1
  <2> HIDE DEF n
  <2>3. s[i] \in Nat /\ s[n] \in Nat /\ x \in Nat /\ s[n] < x
    BY <2>1, <2>2
  <2>4. i = n \/ s[i] < s[n]
    BY <2>1
  <2>5. QED
    BY <2>3, <2>4
<1>3. QED
  BY <1>1, <1>2

LEMMA FireHolds ==
    ASSUME CronInv, NEW j \in CronJobs, Fire(j)
    PROVE  CronInv'
<1> DEFINE e == tasks[pos]
<1>1. /\ e \in Entries
      /\ now \in Minutes /\ now \in Nat
      /\ fired \in [Entries -> Seq(Minutes)] /\ fired[e] \in Seq(Minutes)
      /\ last \in [Entries -> SUBSET Minutes]
      /\ last' = [last EXCEPT ![e] = {now}]
      /\ fired' = [fired EXCEPT ![e] = Append(fired[e], now)]
      /\ UNCHANGED <<clock, ticker, tasks, cron, now, pos, ended>>
      /\ sending' = {j} /\ cron = "ticking"
      /\ now \notin last[e]
  BY DEF CronInv, CronTypeOK, Fire, CronJobs, Minutes, Due, SameMinute, AtEntry, Locked
<1>2. CronTypeOK'
  BY <1>1 DEF CronInv, CronTypeOK
<1>3. Forward'
  BY <1>1 DEF CronInv, Forward
<1>4. /\ fired'[e] = Append(fired[e], now)
      /\ fired'[e] # <<>>
      /\ fired'[e][Len(fired'[e])] = now
      /\ last'[e] = {now}
      /\ \A f \in Entries \ {e} : fired'[f] = fired[f] /\ last'[f] = last[f]
  <2>1. ASSUME NEW S, NEW s \in Seq(S), NEW x \in S
        PROVE  Append(s, x) # <<>> /\ Append(s, x)[Len(Append(s, x))] = x
    OBVIOUS
  <2>2. fired'[e] = Append(fired[e], now)
    BY <1>1
  <2>3. fired'[e] # <<>> /\ fired'[e][Len(fired'[e])] = now
    BY <1>1, <2>1, <2>2
  <2>4. QED
    BY <1>1, <2>2, <2>3
<1>5. LastIsNewest'
  BY <1>1, <1>4 DEF CronInv, LastIsNewest
<1>6. fired[e] # <<>> => fired[e][Len(fired[e])] < now
  <2>1. SUFFICES ASSUME fired[e] # <<>> PROVE fired[e][Len(fired[e])] < now
    OBVIOUS
  <2>2. fired[e][Len(fired[e])] \in last[e]
    BY <1>1, <2>1 DEF CronInv, LastIsNewest
  <2>3. /\ fired[e][Len(fired[e])] <= now
        /\ fired[e][Len(fired[e])] # now
        /\ fired[e][Len(fired[e])] \in Nat
    BY <1>1, <2>2 DEF CronInv, LastIsNewest, Minutes
  <2>4. QED
    BY <1>1, <2>3
<1>7. \A m, n \in DOMAIN fired'[e] : m < n => fired'[e][m] < fired'[e][n]
  <2>1. Minutes \in SUBSET Nat
    BY DEF Minutes
  <2>2. \A m, n \in DOMAIN fired[e] : m < n => fired[e][m] < fired[e][n]
    BY <1>1 DEF CronInv, OncePerMinute
  <2>3. \A m, n \in DOMAIN Append(fired[e], now) :
            m < n => Append(fired[e], now)[m] < Append(fired[e], now)[n]
    BY <1>1, <1>6, <2>1, <2>2, AppendIncreasing
  <2>4. QED
    BY <1>4, <2>3, Zenon
<1>8. OncePerMinute'
  BY <1>4, <1>7 DEF CronInv, OncePerMinute
<1>9. QED
  BY <1>2, <1>3, <1>5, <1>8 DEF CronInv

(* The cron's other steps leave the fires alone and move time forward. *)
LEMMA OtherStepsHold ==
    ASSUME CronInv,
           QueueStep \/ Skip \/ Sent \/ EndTick \/ Tick \/ Run \/ NextTick \/ Return
             \/ End \/ (\E f \in Entries : Add(f)) \/ UNCHANGED allVars
    PROVE  CronInv'
<1> USE DEF CronInv
<1>1. fired' = fired /\ last' = last
  BY DEF QueueStep, cronVars, allVars, Skip, Sent, EndTick, Tick, Run, NextTick,
     StartTick, Return, End, Add
<1>2. /\ clock \in Nat /\ clock' \in Minutes /\ clock' \in Nat /\ now \in Nat
      /\ clock <= clock'
      /\ ticker' = ticker \/ ticker' = {} \/ (ticker' = {clock'} /\ cron # "off")
      /\ cron' = "off" => cron = "off"
  BY DEF CronTypeOK, Minutes, QueueStep, cronVars, allVars, Skip, Sent, EndTick,
     Tick, Run, NextTick, StartTick, Return, End, Add
<1>3. /\ now' = now \/ (now' = clock /\ clock' = clock /\ ticker' = {})
                    \/ (now' \in ticker /\ clock' = clock /\ ticker' = {})
  BY DEF Forward, QueueStep, cronVars, allVars, Skip, Sent, EndTick, Tick, Run,
     NextTick, StartTick, Return, End, Add
<1>4. /\ now' \in Minutes /\ now' \in Nat /\ now <= now' /\ now' <= clock'
      /\ now \in Minutes /\ clock \in Minutes
      /\ \A t \in ticker : t \in Nat /\ t \in Minutes /\ now <= t /\ t <= clock
  <2>1. /\ now \in Minutes /\ clock \in Minutes /\ now <= clock
        /\ \A t \in ticker : t \in Nat /\ t \in Minutes /\ now <= t /\ t <= clock
    BY DEF CronTypeOK, Forward, Minutes
  <2>2. QED
    BY <1>2, <1>3, <2>1
<1>5. Forward'
  <2>1. \A t \in ticker' : now' <= t /\ t <= clock'
    <3>1. CASE now' = now
      BY <1>2, <1>4, <3>1
    <3>2. CASE ticker' = {}
      BY <3>2
    <3>3. QED
      BY <1>3, <3>1, <3>2
  <2>2. cron' = "off" => ticker' = {}
    BY <1>2 DEF Forward, Tick, QueueStep, cronVars, allVars, Skip, Sent, EndTick, Run,
       NextTick, StartTick, Return, End, Add
  <2>3. QED
    BY <1>4, <2>1, <2>2 DEF Forward
<1>6. ticker' \subseteq Minutes /\ Cardinality(ticker') <= 1
  <2>1. Cardinality({}) = 0 /\ Cardinality({clock'}) = 1
    BY FS_EmptySet, FS_Singleton
  <2>2. ticker \subseteq Minutes /\ Cardinality(ticker) <= 1
    BY DEF CronTypeOK
  <2>3. CASE ticker' = ticker
    BY <2>2, <2>3
  <2>4. CASE ticker' = {}
    BY <2>1, <2>4
  <2>5. CASE ticker' = {clock'}
    BY <1>2, <2>1, <2>5
  <2>6. QED
    BY <1>2, <2>3, <2>4, <2>5
<1>7. /\ tasks' \in Seq(Entries)
      /\ pos' \in Nat
      /\ cron' \in {"off", "ticking", "waiting", "returned"}
      /\ sending' \subseteq CronJobs
      /\ ended' \in BOOLEAN
  <2>1. tasks' \in Seq(Entries)
    <3>1. tasks \in Seq(Entries)
      BY DEF CronTypeOK
    <3>2. tasks' = tasks \/ \E f \in Entries : tasks' = Append(tasks, f)
      BY DEF QueueStep, cronVars, allVars, Skip, Sent, EndTick, Tick, Run,
         NextTick, StartTick, Return, End, Add
    <3>3. \A f \in Entries : Append(tasks, f) \in Seq(Entries)
      BY <3>1
    <3>4. QED
      BY <3>1, <3>2, <3>3
  <2>2. pos' \in {pos, pos + 1, 1} /\ pos \in Nat
    BY DEF CronTypeOK, QueueStep, cronVars, allVars, Skip, Sent, EndTick, Tick, Run,
       NextTick, StartTick, Return, End, Add
  <2>3. cron' \in {cron, "ticking", "waiting", "returned"}
    BY DEF QueueStep, cronVars, allVars, Skip, Sent, EndTick, Tick, Run,
       NextTick, StartTick, Return, End, Add
  <2>4. sending' \in {sending, {}} /\ ended' \in {ended, TRUE}
    BY DEF QueueStep, cronVars, allVars, Skip, Sent, EndTick, Tick, Run,
       NextTick, StartTick, Return, End, Add
  <2>5. /\ cron \in {"off", "ticking", "waiting", "returned"}
        /\ sending \subseteq CronJobs /\ ended \in BOOLEAN
    BY DEF CronTypeOK
  <2>6. pos' \in Nat
    BY <2>2
  <2>7. QED
    BY <2>1, <2>3, <2>4, <2>5, <2>6
<1>8. sending' # {} => cron' = "ticking"
  <2>1. sending' = {} \/ (sending' = sending /\ (cron' = cron \/ cron' = "ticking" \/ sending = {}
                                                    \/ cron = "waiting"))
    BY DEF QueueStep, cronVars, allVars, Skip, Sent, EndTick, Tick, Run,
       NextTick, StartTick, Return, End, Add
  <2>2. sending # {} => cron = "ticking"
    BY DEF CronTypeOK
  <2>3. QED
    BY <2>1, <2>2
<1>9. CronTypeOK'
  BY <1>1, <1>2, <1>4, <1>6, <1>7, <1>8 DEF CronTypeOK
<1>10. LastIsNewest'
  BY <1>1, <1>2, <1>4 DEF LastIsNewest, CronTypeOK, Minutes
<1>11. OncePerMinute'
  BY <1>1 DEF OncePerMinute
<1>12. QED
  BY <1>5, <1>9, <1>10, <1>11

LEMMA CronInductive == CronSpec => []CronInv
<1>1. CronInv /\ [CronNext]_allVars => CronInv'
  BY FireHolds, OtherStepsHold DEF CronNext, TickStep
<1>2. QED
  BY CronInitHolds, <1>1, PTL DEF CronSpec

(* Every step of the cron is a step of the queue or leaves it alone. *)
LEMMA CronStepsAreQueueSteps ==
    CronInv /\ [CronNext]_allVars => [Next]_queueVars
<1> SUFFICES ASSUME CronInv, [CronNext]_allVars PROVE [Next]_queueVars
  OBVIOUS
<1>1. CASE QueueStep
  BY <1>1 DEF QueueStep, Next
<1>2. ASSUME NEW j \in CronJobs, Fire(j) PROVE Next
  BY <1>2 DEF Fire, CronJobs, Next, Submit
<1>3. CASE Sent
  BY <1>3 DEF Sent, CronInv, CronTypeOK, CronJobs, Next, Submit
<1>4. CASE Skip \/ EndTick \/ Tick \/ Run \/ NextTick \/ Return \/ End
           \/ (\E f \in Entries : Add(f)) \/ UNCHANGED allVars
  BY <1>4 DEF Skip, EndTick, Tick, Run, NextTick, StartTick, Return, End, Add, allVars
<1>5. QED
  BY <1>1, <1>2, <1>3, <1>4 DEF CronNext, TickStep

-----------------------------------------------------------------------------
(* The cron's variables keep their types, and it is inside a Submit call only *)
(* while it holds its mutex (tick, queue.go:127-138).                         *)
THEOREM CronTypeCorrect == CronSpec => []CronTypeOK
BY CronInductive, PTL DEF CronInv

(* An entry fires at most once for a minute, whatever the ticker drops,       *)
(* delays or repeats (tick and sameMinute, queue.go:127-141).                 *)
THEOREM FiresOncePerMinute == CronSpec => []OncePerMinute
BY CronInductive, PTL DEF CronInv

(* A queue fed by a cron behaves as a queue: the composition implements the   *)
(* specification of tasks.Queue.                                              *)
THEOREM CronImplementsQueue == CronSpec => ImplementsQueue
<1>1. CronInit => Init
  BY DEF CronInit
<1>2. QED
  BY <1>1, CronInductive, CronStepsAreQueueSteps, PTL DEF CronSpec, ImplementsQueue, Spec

(* So what is proved of the queue holds of the tasks a cron submits.          *)
THEOREM CronLosesNothing == CronSpec => []NothingLost
BY CronImplementsQueue, AcceptedAccountedFor, PTL DEF ImplementsQueue

=============================================================================
