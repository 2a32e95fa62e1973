------------------------------ MODULE CronQueue ------------------------------
(***************************************************************************)
(* tasks.Cron feeding a tasks.Queue (internal/tasks/queue.go:90-159).  One  *)
(* goroutine runs Cron.Run; a tick walks the entries with the cron's mutex  *)
(* held and submits the due ones, waiting for room in the queue's channel   *)
(* while it holds it.  Cron.Add wants the same mutex, and a task the queue  *)
(* is executing may call it.                                                *)
(***************************************************************************)
EXTENDS TaskQueue

CONSTANTS
    Entries,     \* what Add can register; an entry's tasks carry its name as id
    Schedule,    \* the minutes at which each entry's spec matches
    LastMinute,  \* the clock stops here (a bound of the model)
    Adder,       \* the entry whose task calls Cron.Add ...
    Added        \* ... to register this entry before it returns

CronJobs == {j \in Jobs : IdOf[j] \in Entries}

ASSUME CronAssumption ==
    /\ Entries \subseteq Ids
    /\ Schedule \in [Entries -> SUBSET Nat]
    /\ LastMinute \in Nat
    /\ Adder \in Entries /\ Added \in Entries

VARIABLES
    clock,    \* the minute of the wall clock
    ticker,   \* the tick waiting in ticker.C, a set of at most one minute
    tasks,    \* c.tasks: the entries in the order they were added
    last,     \* cronEntry.last of each entry, a set of at most one minute
    cron,     \* where Cron.Run stands; c.mu is held while it is "ticking"
    now,      \* the minute of the tick being handled
    pos,      \* the entry the tick is at
    sending,  \* the task of the Submit call the tick is in, a set of at most one
    ended,    \* Cron.Run's context is done
    fired     \* history: the minutes for which each entry was fired, in order

cronVars == <<clock, ticker, tasks, last, cron, now, pos, sending, ended, fired>>
allVars == <<queueVars, cronVars>>

Minutes == 0..LastMinute

CronTypeOK ==
    /\ clock \in Minutes
    /\ ticker \subseteq Minutes /\ Cardinality(ticker) <= 1
    /\ tasks \in Seq(Entries)
    /\ last \in [Entries -> SUBSET Minutes]
    /\ cron \in {"off", "ticking", "waiting", "returned"}
    /\ now \in Minutes
    /\ pos \in Nat
    /\ sending \subseteq CronJobs /\ (sending # {} => cron = "ticking")
    /\ ended \in BOOLEAN
    /\ fired \in [Entries -> Seq(Minutes)]

CronInit ==
    /\ Init
    /\ clock = 0
    /\ ticker = {}
    /\ tasks = <<>>
    /\ last = [e \in Entries |-> {}]
    /\ cron = "off"
    /\ now = 0
    /\ pos = 0
    /\ sending = {}
    /\ ended = FALSE
    /\ fired = [e \in Entries |-> <<>>]

Locked == cron = "ticking"
Registered(e) == \E n \in DOMAIN tasks : tasks[n] = e

-----------------------------------------------------------------------------
(* time.Ticker: one tick a minute, dropped while an earlier one waits. The   *)
(* wall clock may be corrected within the minute, never to an earlier one.   *)
Tick ==
    /\ cron # "off"
    /\ clock' \in {clock, clock + 1} \cap Minutes
    /\ ticker' = IF ticker = {} THEN {clock'} ELSE ticker
    /\ UNCHANGED <<queueVars, tasks, last, cron, now, pos, sending, ended, fired>>

(* Add, by anybody: it waits while a tick holds the mutex. (An entry is       *)
(* registered once, which bounds the model.)                                 *)
Add(e) ==
    /\ ~Locked
    /\ ~Registered(e)
    /\ tasks' = Append(tasks, e)
    /\ UNCHANGED <<queueVars, clock, ticker, last, cron, now, pos, sending, ended, fired>>

StartTick(minute) ==
    /\ cron' = "ticking"
    /\ now' = minute
    /\ pos' = 1
    /\ UNCHANGED <<queueVars, clock, tasks, last, sending, ended, fired>>

(* Run: a tick at once, then one per tick of the ticker. *)
Run ==
    /\ cron = "off"
    /\ StartTick(clock)
    /\ UNCHANGED ticker

NextTick ==
    /\ cron = "waiting"
    /\ \E minute \in ticker : StartTick(minute)
    /\ ticker' = {}

Return ==
    /\ cron = "waiting"
    /\ ended
    /\ cron' = "returned"
    /\ UNCHANGED <<queueVars, clock, ticker, tasks, last, now, pos, sending, ended, fired>>

-----------------------------------------------------------------------------
(* tick: the loop over the entries *)
SameMinute(e) == now \in last[e]
Matches(e) == now \in Schedule[e]

(* Variant of Due that fires whenever the spec matches. *)
DueOnMatch(e) == Matches(e)

Due(e) == ~SameMinute(e) /\ Matches(e)

AtEntry == Locked /\ sending = {} /\ pos <= Len(tasks)

Skip ==
    /\ AtEntry
    /\ ~Due(tasks[pos])
    /\ pos' = pos + 1
    /\ UNCHANGED <<queueVars, clock, ticker, tasks, last, cron, now, sending, ended, fired>>

(* e.last is set before the task is submitted, and stays set if that fails. *)
Fire(j) ==
    /\ AtEntry
    /\ Due(tasks[pos])
    /\ IdOf[j] = tasks[pos]
    /\ last' = [last EXCEPT ![tasks[pos]] = {now}]
    /\ fired' = [fired EXCEPT ![tasks[pos]] = Append(@, now)]
    /\ sending' = {j}
    /\ SubmitBegins(j)
    /\ UNCHANGED <<clock, ticker, tasks, cron, now, pos, ended>>

(* Variant of Sent that drops the task when the channel is full. *)
SentOrDropped ==
    /\ Locked
    /\ \E j \in sending :
           /\ jobs' = IF Len(jobs) < Buffer THEN Append(jobs, j) ELSE jobs
           /\ call' = [call EXCEPT ![j] = "accepted"]
           /\ UNCHANGED <<records, holding, point, outcome, cancelled>>
    /\ sending' = {}
    /\ pos' = pos + 1
    /\ UNCHANGED <<clock, ticker, tasks, last, cron, now, ended, fired>>

(* Variant of Sent that does not look at Run's context. *)
SentRegardless ==
    /\ Locked
    /\ \E j \in sending : SubmitSends(j)
    /\ sending' = {}
    /\ pos' = pos + 1
    /\ UNCHANGED <<clock, ticker, tasks, last, cron, now, ended, fired>>

(* The Submit call of a tick returns: sent, or given up because Run's        *)
(* context is done (its error is dropped).                                   *)
Sent ==
    /\ Locked
    /\ \E j \in sending : SubmitSends(j) \/ (ended /\ SubmitCancelled(j))
    /\ sending' = {}
    /\ pos' = pos + 1
    /\ UNCHANGED <<clock, ticker, tasks, last, cron, now, ended, fired>>

EndTick ==
    /\ Locked
    /\ sending = {}
    /\ pos > Len(tasks)
    /\ cron' = "waiting"
    /\ UNCHANGED <<queueVars, clock, ticker, tasks, last, now, pos, sending, ended, fired>>

End ==
    /\ ~ended
    /\ ended' = TRUE
    /\ UNCHANGED <<queueVars, clock, ticker, tasks, last, cron, now, pos, sending, fired>>

-----------------------------------------------------------------------------
(* A worker whose task is to register an entry does so before it returns. *)
WantsToAdd(w) ==
    /\ point[w] = "running"
    /\ \E j \in holding[w] : IdOf[j] = Adder
    /\ ~Registered(Added)

QueueStep ==
    /\ \/ \E j \in Jobs \ CronJobs : Submit(j)
       \/ \E w \in Workers : ~WantsToAdd(w) /\ Work(w)
       \/ Cancel
    /\ UNCHANGED cronVars

TickStep == Skip \/ (\E j \in CronJobs : Fire(j)) \/ Sent \/ EndTick

CronNext ==
    \/ QueueStep
    \/ TickStep
    \/ Tick \/ Run \/ NextTick \/ Return \/ End
    \/ \E e \in Entries : Add(e)

CronSpec == CronInit /\ [][CronNext]_allVars

(* Scheduled goroutines run: the ticking one, and the workers; Execute       *)
(* returns unless it waits for the cron's mutex, which a sync.Mutex hands to *)
(* whoever has waited long, so that ticks cannot keep it from Add for ever.  *)
CronFairness ==
    /\ WF_allVars(TickStep)
    /\ \A w \in Workers :
           WF_allVars(/\ ~WantsToAdd(w)
                      /\ Take(w) \/ RunBegins(w) \/ Ends(w)
                      /\ UNCHANGED cronVars)
    /\ SF_allVars((\E w \in Workers : WantsToAdd(w)) /\ Add(Added))

CronFairSpec == CronSpec /\ CronFairness

-----------------------------------------------------------------------------
(* Whatever the cron does, the queue behaves as tasks.Queue: every fire is a  *)
(* Submit call like any other, so all that holds of the queue holds here.     *)
ImplementsQueue == Spec

(* An entry fires at most once for any minute, and for its minutes in order,  *)
(* although ticks arrive late, are dropped, or come twice in a minute.        *)
OncePerMinute ==
    \A e \in Entries : \A m, n \in DOMAIN fired[e] :
        m < n => fired[e][m] < fired[e][n]

(* The mutex is free again and again, except in one way of getting stuck,     *)
(* and it is real: the tick waits for room in the full channel, and every     *)
(* worker has left with the queue's context or is executing a task that       *)
(* waits in Cron.Add for the mutex the tick holds.  Only the end of Run's      *)
(* own context gets it out.                                                   *)
Stuck ==
    /\ Locked /\ sending # {} /\ Len(jobs) = Buffer /\ ~ended
    /\ cancelled \/ \A w \in Workers : WantsToAdd(w)

TicksEnd == []<>~Locked \/ <>[]Stuck

(* A fire is not lost: although its minute is ticked off before the task is   *)
(* submitted and the error of Submit is dropped, the task is executed, unless *)
(* the context of the cron or of the queue ends or the cron gets stuck.       *)
FiresFinish ==
    []<>~Stuck =>
        <>[](\A j \in CronJobs : call[j] = "new" \/ Finished(j) \/ ended \/ cancelled)

=============================================================================
