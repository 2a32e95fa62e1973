# CortexGo in TLA+

A TLA+ model of CortexGo, the Go agent framework of this repository: modules
that model its stateful components, TLC configurations that check them on small
instances, and theorems about them checked by TLAPS. File names below are
relative to `internal/`.

    tlc -workers 2 -config agent_turns.cfg MCAgent      # one run
    tlapm Agent_proofs.tla                              # one module's proofs

## 1. The system

| component | source | state | operations |
|---|---|---|---|
| Agent loop | `agent/agent.go` | per call of `run` (every kind of `Chat`): transcript, `historyStart`, round, current tool call | list the session, compact it (token budget, then message limit), call the model, call tools, append the turn |
| Compaction | `memory/compact.go`, end of `agent/agent.go` | none | `Compact`, `CompactToTokenBudget`, `compactHistory`, `compactTokenHistory` |
| Session stores | `memory/memory.go`, `memory/file_store.go` | messages by session; a JSON file | `List`, `Append`, `Replace`, `Delete`; write to a temporary file and rename |
| Facts | `memory/facts.go` | facts by user and key with expiry | `Upsert`, `List`, `Forget`, `ForgetUser`; in memory and on file |
| Task queue | `tasks/queue.go` | channel, records by id | `Submit`, `Start` (workers), `Get` |
| Cron | `tasks/queue.go` | entries with their last minute | `Add`, `Run`, `tick` |
| Persistent task store | `tasks/gorm.go` | rows of a database | `Enqueue`, `Claim`, `Complete`, `Get` |
| Knowledge index | `knowledge/knowledge.go`, `vector.go`, `persistent.go` | chunks in a lexical and a vector index, a file | `SplitDocument`, `Add`, `RemoveDocument`, `Search`, open |
| Importer, loaders | `knowledge/importer.go`, `loader.go` | job records, versions of documents | `Submit`, `Progress`; file formats |
| Reliability | `reliability/reliability.go` | what each tenant used in its window; a semaphore | `Budget.Allow`, `Concurrency.Acquire`/`Release`, backup files |
| HTTP API, access | `api/http.go`, `access.go`, `observability.go` | request times by client | authentication, rate limit, the handlers |
| Model provider | `provider/*.go` | none between calls | retries, streaming, embeddings |
| Tool registry | `tool/tool.go` | definitions with their schemas by name | `Register`, `Definitions`, `Invoke` with `validateValue` |
| Event sinks | `core/core.go`, `observability/observability.go` | a channel; a remote service | `ChannelEventSink.Publish`, `MultiSink.Publish`, `Langfuse.Publish` |
| Security, telemetry, CLI, Milvus | the rest | counters | see section 8 |

How they interact: the API (or the CLI) calls `Agent.Chat` on one goroutine per
request. Runs share nothing but the session store, the tool registry and the
provider client. The store's mutex covers single calls; between them a run talks
to the model and to tools, so two runs of one session interleave freely. Every
tool call runs on a goroutine of its own, raced against a timeout. At each step a
run publishes an event from its own goroutine, so that a sink which does not
return holds up the run. Tools may be registered while runs are going on: a run
lists the definitions once at its start and looks a tool up again when it is
called. The cron feeds
the queue through the same `Submit` as everybody else. The importer runs
`HybridIndex.Add` on a goroutine per job; the hybrid index holds no lock of its
own over the steps of an `Add`.

What is hard, and what each component must get right:

* *Agent*: histories read before and used after a compaction or another run's
  append; tools that answer after their timeout; failures in the middle of a
  turn. A turn is stored whole or not at all, an answer goes with its call, a run
  ends whatever tools do, a reported success is stored.
* *Compaction*: cuts at boundaries, and repeated cuts. No result without its
  call, nothing forgotten without a summary, the prompt fits the budget.
* *Queue*: the record and the channel are two steps; cancellation races with
  sending. No accepted task lost or executed twice, records settle.
* *Cron*: ticks late, double or dropped; it submits with its mutex held.
* *Task store*: read and write of a row are two statements of a transaction.
* *Provider*: retries meet deadlines, streams break after part of the text was
  shown, fragments of tool calls interleave. A call keeps to its retries, shows
  nothing twice, returns the server's reply whole, and returns.
* *API*: the limiter's clock is read outside its mutex, `Retry-After` is rounded.
* *Facts*: memory changes before the file does, facts expire in both. What was
  acknowledged stands, nothing expired is shown.
* *Knowledge*: an `Add` is five steps on two indexes and a file, each of which
  can fail or be cut off by a restart. What was added last is what is found, and
  chunks cover the text.
* *Reliability*: the budget's window restarts at whichever call finds it old, so
  spending adds up around its edge; slots must come back. What a tenant gets in a
  window and in any minute is bounded, everybody who waits is served.
* *Event sinks*: a full channel blocks a run, the first sink that fails ends the
  publishing of an event. Events arrive once and in order, and only those are
  missing that a failure accounts for.
* *Tools*: schemas nest, registration and invocation look at them to different
  depths. A handler is given what fits the schema the model was shown.

`PROJECT.json` lists the hazards one by one, at their lines.

## 2. Modules

| module | models | goes with |
|---|---|---|
| `Transcript` | messages, tool-call lists, turns, pairing of calls and results | base of the agent's modules |
| `Compaction` | the four compaction functions, as operators on sequences | `Agent_proofs` |
| `TurnLog` | **abstract**: a session is a log of whole turns | implemented by `Agent` |
| `Agent` | concurrent runs, the store, tool goroutines | `MCAgent`, `Agent_proofs` |
| `TaskQueue` | `Queue` | `MCTaskQueue`, `CronQueue_proofs` |
| `CronQueue` | `Cron` composed with `TaskQueue` | `MCCronQueue`, `CronQueue_proofs` |
| `TaskStore` | `GORMStore` on a database of either isolation level | `MCTaskStore`, `TaskStore_proofs` |
| `Chunker` | the arithmetic of `SplitDocument`'s loop | |
| `Knowledge` | `HybridIndex.Add`, the vector index's file, `AsyncImporter`, `VersionStore`, restarts | `MCKnowledge`, `Knowledge_proofs` |
| `Provider` | one call of `Chat`, `ChatStream` or `Embed`, with the server as environment | `MCProvider`, `Provider_proofs` |
| `Admission` | the checks in front of the API's handlers and `SlidingWindowLimiter` | `MCAdmission`, `Admission_proofs` |
| `FactStore` | `InMemoryFactStore` and `FileFactStore`, restarts | `MCFactStore`, `FactStore_proofs` |
| `Reliability` | `Budget` and `Concurrency` with their callers | `Service_proofs` |
| `ToolSchema` | the schema check of `tool.go`, with a reference definition | base of `Service` |
| `Service` | `Reliability` composed with agent runs, the registry and the sinks | `MCService`, `Service_proofs` |

Definitions whose comment starts with "Variant of" are deliberately wrong copies
of the definition that follows them. No specification uses them; each shows, put
in the place of the right one, that a property notices the mistake.

### Agent

`run[r]` is the local state of one call of `Agent.run`, `store` is
`InMemory.sessions`. `pc` names the points where another goroutine can interfere;
one action is what the code does between two of them.

| action | code (`agent/agent.go`) |
|---|---|
| `Begin`, `ListFails` | `memory.List` (149-153) |
| `WithinBudget`, `CompactTokens` | the token budget (154-169) |
| `WithinLimit`, `CompactLimit` | the message limit (171-184) |
| `CompactionFails` | their error returns |
| `Save`, `SaveFails` | `ReplaceStore.Replace` after either compaction |
| `FinalReply`, `ToolReply`, `TooManyRounds`, `ModelFails` | the round loop (199-242): `callModel`, `validateToolCalls`, the check of the round |
| `ToolRefused`, `ToolStarts`, `ToolFinishes`, `ToolAnswers`, `ToolTimesOut` | `invokeTool` and its goroutine (243-257, 339-361) |
| `AppendTurn`, `AppendFails` | `memory.Append` of `transcript[historyStart:]` (224) |

A configuration of the agent (`limit`, `budget`, `summarizer`, `replaces`,
`faulty`) is chosen at the start from the constant `Configs`. A message is named
by its run, round and role; a summary by the set of messages it was made from; a
message's token cost depends on its role. `ToolAnswers` and `ToolTimesOut` are
both enabled when a result and the deadline are both there, as in Go's `select`.

### TaskQueue and CronQueue

`Submit` is two actions, the record and then the send, because `set` and the send
are not atomic; a worker is `Take`, `RunBegins`, `RunEnds`. `Cancel` ends the
context of `Start`; afterwards a worker may `Stop` or still take a task, as its
`select` may. In `CronQueue` the cron's `tick` is one action per entry, so that
its `Submit` can wait in the middle with the mutex held (`Locked`); `WantsToAdd`
marks a worker whose task calls `Cron.Add` and waits for that mutex. The matching
of a cron expression is the constant `Schedule`. `Jobs` are the calls of
`Submit`, so every job is submitted at most once; ids may be shared.

### TaskStore

`Enqueue` stores a row as the caller gives it (`Given`, any status and lock) but
for a missing status. `ClaimReads` is the `SELECT` of `Claim`, `ClaimSaves` its
`Save` and commit. `ClaimRollsBack` is any failure of these, and `ClaimUnsure` a commit
that succeeds although its caller is told otherwise: the row is running and nobody
works on it. `Complete` settles the row by its id, `CompleteFails` is the error of
its update. The worker, which is an application's loop, lets a task go when a call
fails. `left` is a history of the rows that such calls left running; the code has
no such thing. At "read committed" the save overwrites whatever has been committed
since; at "repeatable read" the database refuses it (`Serializes`). The database
itself is external code; the isolation levels are modelled as PostgreSQL defines
them. `created_at` is left to the store, so it is the order of the `Enqueue`s.

### Chunker and Knowledge

A text is a sequence of runes of three kinds: white space, a mark that ends a
sentence, anything else; that is all `findBoundary` and `TrimSpace` look at.
Texts are trimmed, as in line 48 of `knowledge.go`. A chunk is a range of its text
with an ordinal, and `(document, ordinal)` stands for the chunk's ID.

Every import job or call of `Add` is a member of `Jobs` with a program counter:
`RemoveVectors`, `RemoveLexical`, `Split` (one iteration of the loop each),
`Upsert`, `AddLexical`, and a failing action beside each of the steps that can
fail. `persistent` selects `FileVectorIndex`: its memory changes first and the file
follows (`Stored`) or does not (`StoreFails`); a rename replaces it as a whole.
`Restart` kills the process at any point and reopens the file, which also fills
the lexical index. Ids of import jobs are clock readings, and two jobs may get the
same one (`Submit`). `era[d]` is a history variable: the sets of entries that
successful `Add`s of `d` stored since the last moment at which nobody was changing
`d`, and whether one of them failed or overlapped with another. No guard reads it.

### Provider

A behaviour is one call; `call` holds the operation and the provider's settings.
`Start`, `Send`, `PauseOver` and `PauseCut` are the retry loop that the three
operations share, with `RetryDelay` for its pauses; `DoFails`, `Answer`, `ReadFails`,
`Turned`, `Useless`, `Chat` and `Embed` are what comes of a request whose body is
read as a whole (`doChat`, `Embed`), `Event`, `StreamEnds` and `StreamBreaks` the
scanner's loop over a stream. The server is the environment: `server` is the
reply it is sending, of which `Event` takes the next piece of text and the next
fragments of any calls. Status codes are three classes. `ended` is the request's
context: its deadline (`Tick`) or the caller's cancellation.

### Admission

A request goes through `Arrive` (identification, permission, and the limiter's
reading of the clock) or `TurnAway`, and then, with the mutex held, through `Admit`
or `Refuse`. Requests may wait any time and overtake each other in between. An
entry of `hits` is the request that made it, standing for `arrived` of it.

### FactStore

`Begin` is a client's call, `Upsert`, `Forget` (both `Forget` and `ForgetUser`) and
`List` take the mutex and change memory, `Commit` and `CommitFails` write the file
and return. `Crash` and `Reopen` may fall between any two of them. `acked` and
`loose` are history variables: what the last acknowledged change left of a fact,
and what later changes that failed, or are still running, would make of it. A
failing write leaves its change in memory, and the next write of anything puts it
into the file too: this is why `loose` is needed.

### Reliability, ToolSchema and Service

`Reliability`: a caller goes through `Ask`, `Acquire` or `GiveUp` (the two cases
of `Concurrency.Acquire`'s `select`), `Allow`, `Deny` or `AllowUnlimited`
(`Budget.Allow`, one step under its mutex), and `Release`. `granted` is a history
variable: what a caller was granted, when and in which window. Tokens and cost
are two kinds of one amount (`Amounts`).

`ToolSchema`: `Valid` is `Definition.Validate`, `WellFormed` is
`unmarshalSchema`, `Validates` is `validateValue`; `Conforms` is the reference, which
says of each node and the part of the value it speaks of what the keywords mean.
The code's recursion is a walk: `Below` says what a function calls itself with,
`Level` what it has reached after so many calls, `Walk` all it reaches. `Fits` is what
`validateValue` checks at one node, `Judged` what it goes on to.

`Service` lets a caller that was admitted run the agent. `emit`
(`agent.go:375-380`) is `Emits` followed by one step for each sink of the
application: `SendsToChannel` or `ChannelGivenUp` for `ChannelEventSink`
(`core.go:73`), `SendsToRemote` or `RemoteRefuses` for `Langfuse`, in the order and
with the early return of `MultiSink.Publish` (`observability.go:22`). `Register`
and `Invoke` are the registry's. The run itself is that of `Agent` with one tool
call a round and without compaction; what `Agent` says of sessions is not
repeated here. `scenario` is chosen at the start: which callers, sinks, tools and
inputs there are. `ChannelEventSink` has no `RecordModel`, so an application that
puts it into a `MultiSink` adds one; nothing here depends on it.

## 3. Runs

| run | instance | what it shows |
|---|---|---|
| `agent_turns` | 2 runs of one session at once, 1 tool round of up to 2 calls, no compaction, store faulty or not | `TypeOK`, `ResultsBelongToCalls`, `ImplementsTurnLog` (refinement of `TurnLog`), `RunsEnd` |
| `agent_compaction` | 3 runs, 2 at a time, 1 tool call; every mix of limit 1-3 or budget 3-4, summarizer, kind of store | `OneSummaryInFront`, `FirstPromptFits`, `CompactSound`, `SuccessMeansStored` |
| `agent_forgets` | 3 runs one after the other, limit 3 or 4 | **violated**: `AckedTurnsRemembered` |
| `queue` | 4 submissions (2 share an id), 2 workers, 1 slot | `NothingLost`, `SettledRecord`, `StatusForward`, `AcceptedFinish` |
| `cron` | 2 entries, 4 tasks, 1 worker, 1 slot, 2 minutes | `OncePerMinute`, `ImplementsQueue`, `TicksEnd`, `FiresFinish` |
| `taskstore` | 2 tasks enqueued plain, with a time before which they are not to be claimed, or as running; 2 workers, lease 1, clock 0-3, both isolation levels | `TypeOK`, `SnapshotExclusive`, `OnlyFailuresStrand` |
| `taskstore_lease` | the same | **violated**: `LeaseExclusive` |
| `knowledge` | 2 documents, 2 jobs, 3 texts, chunks of at most 3 runes, 1 restart | `TypeOK`, `ChunksCover`, `CurrentIndexed`, `OverlapKeepsOne`, `JobsEnd` |
| `provider` | 3 operations, at most 2 retries or a negative number, 3 base pauses, 2 replies, 2 texts to embed | `TypeOK`, `RetriesPaced`, `ReplyIntact`, `VectorsMatchTexts`, `CallEnds` |
| `admission` | 4 requests, 2 tenants, limit 2, window 2, clock 0-4, 2 servers | `WindowBound`, `RefusedWhenFull`, `RetryAfterSuffices` |
| `facts` | 2 users with a fact each, 2 clients, 3 policies, clock 1-2, 2 failures or crashes | `ChangesStand`, `ListsAcknowledged` |
| `service` | five scenarios, see below; 2 slots, a channel of 1, minutes of 2 ticks | `TypeOK`, `RequestsBounded`, `AmountsBounded`, `EventsTold`, `SchemasEnforced`, `CallersServed` |

The type invariants of the queue, the cron, the limiter and the fact store are
theorems (section 5) and are not checked again by their runs.

Why the bounds are enough to see the interesting cases:

* Two runs that overlap are all it takes to interleave listing, replacing and
  appending. Three are needed for a second compaction on top of a first while
  another run is in flight; `MaxActive` keeps the third from multiplying the
  states. A round of two calls lets the answer of the first arrive while the
  second is awaited. Limits 1 to 4 reach "cannot compact", "summary only" and
  "summary and a rest"; the costs make budgets 3 and 4 fit with and without
  dropping a message.
* One slot and two workers give a full channel, a waiting submitter and a task
  executing at once. In `cron` one worker is enough for all workers to be stuck.
* Two workers and a lease of one tick let a lease run out while its holder works,
  and one worker save, lose or settle a row that the other has read. A row that is
  enqueued with `locked_until` 1 is claimed from tick 2 on.
* One text is cut at a sentence, at white space and into a chunk that is blank
  altogether (which uses up an ordinal), one is a single chunk, one is empty and
  refused. Both jobs may be of one document or of two. One restart suffices to
  lose a job at any point and to add on top of what was reloaded.

* Two replies: one of two pieces of text, one whose two calls of two fragments each
  lie under the indexes 0 and 2, one with a type and one without. Base pauses below,
  inside and above the allowed range; the deadline falls before, into and after
  the last pause. Three items for two texts: too few, too many, doubled, outside.
* Four requests fill a limit of two twice, and leave a slow request to be judged
  after entries it should have seen were trimmed. A second is two ticks, so that
  `Retry-After` is rounded.
* Two clients whose calls overlap on either user; a failed write followed by a
  crash needs two faults. A fact that never expires, one that expires by its
  caller's word and one by policy.
* `service`: *OverTime* has three callers of one tenant under a quota of 2 requests
  and 3 tokens and a clock that passes a window's edge; *Watched* three callers
  for two slots, two of them running the agent into one channel whose consumer
  may leave, one with a context that may end; *TwoSinks* puts the remote sink
  before and behind the channel and lets it fail once; *WithTools* registers, in
  any order or not at all, two tools of one name and two that are refused while
  a run that may call it is on its way; *Schemas* is one run for every schema of depth three
  over one field against every input of that depth (hence `Depth` = 2, counted from 0). `ChannelSize` 0 is made 1 by
  the code and is the tightest channel there is.

`CHECK_DEADLOCK FALSE` is set where a behaviour ends: every run, task, job, request and clock of an
instance can come to its end, after which nothing is left to do. The agent's
three runs, the requests, the clients and the users of facts are interchangeable
in the safety runs, hence `SYMMETRY`; runs that check liveness use none.

### The violations

* `agent_forgets`: with a message limit, the first compaction of a session
  summarizes, but a history that already starts with a summary is only cut:
  `compactHistory` keeps the old summary and the newest `limit - 1` messages and
  drops those in between (`agent.go:284-292`), and `Replace` then removes them
  from the session. `DEVELOPMENT_STEPS.md:306` says that old messages are
  summarized. The run has one run of a session at a time, so it shows this way
  alone. With two at a time `AckedTurnsRemembered` has a second way to fail, also
  with this one corrected: a run that compacts replaces the session by the copy it
  took at its start, and erases the turn another run has appended since (`agent.go:177`).
* `taskstore_lease`: `Claim` reads a queued row without locking it. At read
  committed two workers both get the task, each with an unexpired lease.
  `SnapshotExclusive` shows that repeatable read is enough to rule it out.

## 4. Fairness

* `Agent`: a run that has begun takes its next step. A model call returns since
  every request of the provider has a deadline; an awaited tool ends at the latest
  with its context. *Nothing* is assumed of `ToolFinishes`: `RunsEnd` holds
  although a tool may never return. Nobody is obliged to begin a run.
* `TaskQueue`: workers are goroutines and run; a blocked send goes ahead when there
  is room; `Execute` returns. Weak fairness of each submitter's send is stronger
  than it looks, since room comes and goes, but Go serves blocked senders in
  order. Nothing forces a cancellation, or a worker to prefer it.
* `CronQueue`: the same, and the ticking goroutine runs. A worker whose
  task waits for the mutex goes on when it gets it (strong fairness of `Add`):
  `sync.Mutex` hands itself to whoever has waited long, however often a tick takes
  it meanwhile. So `TicksEnd` and `FiresFinish` must name the one way to get
  stuck for good: the tick waits for room with the mutex held while every worker
  waits for that mutex or has left with the queue's context.
* `TaskStore`: a worker inside a claim or a task goes on, fails or dies. No call is
  assumed to succeed in the end, so `OnlyFailuresStrand` must name the rows that stay
  running for good: those whose worker died executing them, those that a `Claim` or
  `Complete` which returned an error left running, and those enqueued as running
  (`Stranded`).
* `Knowledge`: the goroutine of an accepted job runs; loader and embedding model
  return, with an answer or an error.
* `Provider`: the call takes its own steps, time passes, and a network operation
  whose context is done returns (`Unblocked`), as `net/http` does. Nothing is asked
  of the server: `CallEnds` holds although it may stay silent at any point.
* `Service`: a caller that has asked goes on, the consumer receives until it stops
  (which nothing forces or forbids), the model, the tools and the remote sink answer
  within their deadlines. The remote sink's is the timeout of the HTTP client that
  `Langfuse` makes for itself (`observability.go:77`); one given to it may have none.
  Weak fairness for each caller is enough for a slot and for room in the channel, since a caller asks once and Go serves blocked senders in
  order. No context is obliged to end. So `CallersServed` must name the one way
  to get stuck for good (`Stuck`): nobody receives, the channel is full, and a run
  whose context does not end publishes to it.

## 5. What is proved

For every value of the constants that satisfies the named assumptions:

| theorem | says |
|---|---|
| `Agent_proofs!TypeCorrect` | `Spec => []TypeOK` |
| `Agent_proofs!NeverTwoSummaries` | `Spec => []OneSummaryInFront` |
| `Agent_proofs!AnswersStayWithTheirCalls` | `Spec => []ResultsBelongToCalls` |
| `Agent_proofs!SuccessIsStored` | `Spec => SuccessMeansStored` |
| `Agent_proofs!AgentKeepsTurnLog` | `NothingReplaced` implies `Spec => ImplementsTurnLog`, the refinement of `TurnLog` |
| `Agent_proofs!CompactionIsSound` | `Spec => []CompactSound` |
| `Agent_proofs!PromptKeepsToBudget` | `Spec => []FirstPromptFits` |
| `Agent_proofs!CompactHistoryDerives`, `CompactTokenHistoryDerives` | what a compaction returns is made of messages of its input, in place, behind at most one summary |
| `CronQueue_proofs!TypeCorrect`, `AcceptedAccountedFor`, `RecordsSettle` | `[]TypeOK`, `[]NothingLost`, `[]SettledRecord` |
| `CronQueue_proofs!RecordsMoveForward` | `Spec => StatusForward`: no record of an id used once goes back |
| `CronQueue_proofs!CronTypeCorrect`, `FiresOncePerMinute` | `[]CronTypeOK`, `[]OncePerMinute` |
| `CronQueue_proofs!CronImplementsQueue`, `CronLosesNothing` | `CronSpec => Spec`, hence what is proved of the queue holds under a cron |
| `Knowledge_proofs!SplitMakesProgress` | each chunk starts behind the previous one's start and inside the text, for overlaps up to a quarter of the chunk size |
| `Knowledge_proofs!TypeCorrect`, `ChunksAlwaysCover`, `LastAddStands`, `OverlapLeavesOne` | `[]TypeOK`, `[]ChunksCover`, `[]CurrentIndexed`, `[]OverlapKeepsOne` |
| `Provider_proofs!TypeCorrect`, `RetriesArePaced`, `RepliesAreIntact`, `VectorsAreTheTexts` | `[]TypeOK`, `[]RetriesPaced`, `[]ReplyIntact`, `[]VectorsMatchTexts` |
| `Admission_proofs!TypeCorrect`, `WindowIsBounded`, `RefusalsAreDeserved`, `RetryAfterIsKept` | `[]TypeOK`, `[]WindowBound`, `[]RefusedWhenFull`, `[]RetryAfterSuffices` |
| `TaskStore_proofs!TypeCorrect`, `NobodyTwice` | `[]TypeOK`, `[]SnapshotExclusive` |
| `FactStore_proofs!TypeCorrect`, `AcknowledgedStands`, `ListsAreTrue` | `[]TypeOK`, `[]ChangesStand`, `[]ListsAcknowledged` |
| `Service_proofs!SlotsCorrect`, `RequestsWithinQuota`, `AmountsWithinQuota` | `GovernSpec` implies `[]GovernTypeOK`, `[]RequestsBounded`, `[]AmountsBounded` |
| `Service_proofs!Governs`, `QuotasHold` | `Spec => GovernSpec`, hence the quotas hold of the service |
| `Service_proofs!TypeCorrect`, `HandlersGetWhatConforms`, `SinksAreTold` | `[]TypeOK`, `[]SchemasEnforced`, `[]EventsTold` |

Assumptions: `TranscriptAssumption`, `CostAssumption` (a message costs something;
in the code at least 4), `AgentAssumption`, `QueueAssumption`, `CronAssumption`,
`KnowledgeAssumption` (texts are trimmed, there are finitely many jobs, the chunk
size is positive), `AdmissionAssumption` (any integer limit, any window),
`RequestsFinite`, `ProviderAssumption`, `ReplyAssumption` (a tool call of a reply has a stream index
of its own and at least one fragment, which may be empty), `TaskStoreAssumption`, `FactStoreAssumption`
(facts have some value), `ReliabilityAssumption` (any integer limit, any quota, a window that is not
empty) and `ServiceAssumption` (at most two sinks; schemas nest no deeper than `Depth`, as
`encoding/json` refuses documents that nest deeper than 10000). TLC evaluates each of them in some run.
`AgentKeepsTurnLog` assumes in addition `NothingReplaced`: no configuration has both a
`ReplaceStore` and a limit or budget. With them a save drops turns from the log, which is
what `agent_forgets` shows.

The arguments:

* *Agent*. The properties of a store and of transcripts are not inductive alone:
  a session may be replaced by any run's copy. `IndInv` says of every sequence of
  messages, stored or local, that it is typed, has a summary at most in front,
  and that its answers belong to their calls (`Clean` in `Agent_proofs`), and of a
  run in a tool round where its current assistant message is. Clean sequences stay
  clean under prefixes, concatenation of a part without a summary and both compactions;
  for these the two lemmas about the compactions are used, which rest on `CutStops`
  (the cut exists: the walk back over tool results stops).
  `TurnInv` follows what a run has added behind `historyStart` (`Added`): at the model
  it is a whole turn but for the final reply (`Between`), in a round all calls before the
  current one have been answered (`Answering`), so it is a `WholeTurn` at the append,
  which puts it behind the session as it then is: hence `SuccessMeansStored`.
  `NoSaves` (no run reaches a save where nothing is replaced) leaves the append as the
  only step that changes a session, and each step maps to `Open`, `Commit`, `Abandon`
  or a stutter of `TurnLog`. `HistoryInv`: a session, and the history a run has read from
  it, begins with a summary or pairs every call with its result. Compacting puts a
  summary in front or changes nothing, and turns are paired. `CompactSound` is then
  a matter of one sequence: behind the cut everything stays at a constant distance
  (`WhereCompactCuts`), so a retained result has its call where it had it, unless the call
  is before the cut; but between a call and its result there are results only, and
  the first retained message is none. `FirstPromptFits` is about a sum of costs.
  `EstimateTokens` adds up message by message (`TokensCounted`), so that the estimate of
  a prompt is that of the history and that of the input (`TokensAppend`): `PromptInv`
  says of a run past the token stage that its history leaves room for the input.
* *TaskQueue*. `NothingLost` needs `OneHeld`: exactly the workers at "taken" or
  "running" hold a task, and one. The settled record follows since a worker
  writes the result in the step that records the outcome and all `queued` writes
  come before that (`Submit` records before it sends). `StatusForward` needs in
  addition, of an id used once, that its record says "queued" exactly until
  a worker begins with its task (`OwnRecord`).
* *CronQueue*. `Forward` and `LastIsNewest` tie `fired`, which is history, to
  `cronEntry.last`, which is what the code compares: the last minute fired for is
  not later than the tick being handled.
* *Knowledge*. `SoFar` is the invariant of the splitting loop: the chunks made so
  far cover the text up to `start` once, with ordinals below the next one.
  `SplitOnce` preserves it, using where `EndOf` can cut (`ChunkEnds`), which
  needs that a boundary search has a greatest hit (`GreatestNumber`).
  `LastAddStands` needs `EraInv`: while the era of a document is neither failed nor
  overlapped at most one job works on it, and its program counter tells what each
  index holds: nothing behind the removals, its own entries behind the insertions,
  and in the file what is in memory. Steps on other documents keep all this
  (`Elsewhere`), a failing or overlapping step ends the claim (`Spoilt`).
  `OverlapLeavesOne` has an invariant of its own (`OverlapInv`): somebody at work has
  yet to insert its chunks, or has inserted them last, or one that has succeeded
  has; and whoever leaves last has just listed its chunks.
* *Sums, pauses and walks* are recursive functions over numbers. What they compute for
  every number is proved by the least number for which it fails (`LeastNumber` and
  `AllNumbers`, from the library's well-founded order on the naturals), since the library's
  induction theorem takes an operator, which no installed prover can instantiate.
* *Provider*. That the answer's items are placed by index and no place is empty
  is enough: a place that is filled holds the last item that names it
  (`PlacedItems`, again with `GreatestNumber`), and nothing follows a result.
  `RetryInv` bounds the requests sent by the attempt and its program counter, and says
  that the clock, or the moment a pause ends, is behind the pauses so far; the pause
  the code takes is the exactly doubled one cut at the cap (`DelayIsCapped`), although the
  code cuts after each doubling. `StreamInv`: the text shown is the text sent, and the
  call assembled at an index is the fragments sent of the one call with that index,
  joined, with its id and type as soon as the first has come (`Known`). Indexes ascend in
  a reply, so sorting them returns its calls in order (`SortedIsTheEnumeration`).
* *Admission*. `WindowBound` speaks of requests the limiter may have forgotten.
  `Remembered` says which it cannot have: a request is trimmed by the time that a
  later one read, which is not ahead of the clock, so whatever arrived within a
  window of the clock is still an entry. When a request is admitted, all others of
  the stretch are therefore entries, distinct ones (`Entries`), and there was room.
  A refusal finds the entries full and the oldest not expired, hence none of them
  trimmed. `Pledge` is what it leaves behind: when the client comes back, an entry
  will have expired behind which there are fewer than the limit, and this stands
  until the tenant has a request admitted.
* *TaskStore*. `ClaimsQueued`: what a claim is about to save was queued when it was
  read. `RowIsTheirs`: on a snapshot the row of a task somebody executes is what
  that worker saved and names it, so a second one would have to be named too: a
  save on top of it is refused. `TasksExist`: a worker's row is there, so that
  `Enqueue`, which refuses an id that exists, does not touch it. A failing call
  takes the task from its worker, whatever it has done to the row. Leases and
  clocks play no part, so the theorem holds after a lease has run out.
* *FactStore*. `ChangesStand` explains what memory and file hold of a fact by the
  last acknowledged change and the later ones that may have got there. To be
  inductive it takes `Dead` (a stopped process serves nobody, and only a store with
  a file outlives it) and `ChangePending` (a change that holds the mutex has the
  file to write). `ListPending` says what a list that holds the mutex finds in
  memory, from which `ListsAcknowledged` follows.
* *Reliability*. `RequestsCounted` says that the usage of the current window is the number
  of requests granted in it; `WindowsBounded` that grants of different windows lie
  a window's length apart, so that any minute meets at most two of them and the sum
  of two counts bounds it. Tokens and cost are counted the same way, unit by unit
  (`Units`): a grant of *n* is *n* units of its caller, so that amounts are
  cardinalities and sum up as requests do (`AmountInv`). The run has three callers, fewer
  than twice the request quota: there it is the theorem that shows the second half.
* *Service*. Every step is a step of `GovernNext` or leaves its variables alone (`Governs`).
  `TypeInv` adds to `TypeOK` what a run that is publishing goes on to, and is proved for
  all actions of a run at once, from the record each leaves behind (`RunsAct`).
  `SchemaInv`: a name keeps its schema once it is registered, and a handler that has
  been started was callable; with `AcceptedConforms` this is `SchemasEnforced`. Where a
  schema's keywords stand under their type, the walk of `validateValue` and that of
  the reference are the same, level by level (`EveryPartJudged`). That an input which
  conforms is accepted needs that no node is deeper than the walk goes (`NothingDeeper`,
  `ConformingAccepted`). `EventsTold` needs `SinkInv` of each sink: it was given no event
  whose turn there has not come, none that was refused before it, each in ascending
  order, and while the run's context lasts all the others but those it refused.

## 6. Model-checked only

Liveness: `RunsEnd`, `AcceptedFinish`, `TicksEnd`, `FiresFinish`, `OnlyFailuresStrand`,
`JobsEnd`, `CallEnds` and `CallersServed`. It is outside the prover's reach, and checked
on one instance each. Every other property of a passing run is a theorem (`ImplementsTurnLog`
under `NothingReplaced`, see above).

## 7. What to keep in mind

* A store "faulty" means `FileStore`: a failing call may or may not have changed
  the store's memory, since it changes memory first and then writes.
* `CurrentIndexed` is about documents whose `Add`s did not overlap. Overlapping
  `Add`s of one document can leave chunks of both: nothing in the code prevents
  it. `OverlapKeepsOne` says what remains true of them.
* `WindowBound` counts the requests that arrived *and* were admitted in a stretch of
  time as long as the window. Of those that merely arrived in it, or were
  merely admitted in it, there can be more than the limit, since the limiter
  reads its clock before it has its mutex.
* A stream whose body ends without `[DONE]` is a success (`StreamEnds`), and an error
  event inside a stream is skipped. `ReplyIntact` is about streams read to `[DONE]`.
* When the body of an answer cannot be read, `Embed` tries again at once
  (`embedding.go:78-83`), although `DEVELOPMENT_STEPS.md:106` speaks of exponential
  back-off. `RetriesPaced` is about the pauses of `Chat` and `ChatStream`.
* The `onDelta` callback of `ChatStream` is taken to return: one that blocks would
  hold the call beyond its deadline, against `CallEnds`.
* A worker whose `Complete` fails gives the task up. One that calls it again does the
  same update again, which only shortens the list of stranded rows.
* An `Upsert` without `ExpiresAt` takes over that of the fact it replaces, also when
  it has passed and no `List` has dropped the fact yet (`Expiry`). The new fact is
  then stored and acknowledged, and never listed.
* `SplitDocument` accepts any overlap below the chunk size. Progress is proved up
  to a quarter of it; the repository's callers use no overlap.
* `compactHistory` cuts a session that starts with a summary at `limit - 1`
  messages, also between an assistant message with tool calls and their results,
  against the comment at `memory/compact.go:27`. `CompactSound` is about the cuts
  that `Compact` and `CompactToTokenBudget` choose.
* `RunsEnd` takes publishing an event as immediate. A `ChannelEventSink` that nobody
  drains blocks a run whose context does not end; `Service` models that
  (`Stuck`).
* No package uses `reliability`: that a caller takes a slot, then asks the budget,
  then works and gives the slot back is what an application would do. The budget's
  clock is taken to go forward: `UTC()` strips the monotonic reading, so a wall
  clock that is set back would keep a window open longer.
* A schema node without `"type": "object"` or `"array"` has its `required`,
  `properties`, `additionalProperties` and `items` ignored by `validateValue`, and a
  keyword that is not supported is refused below `items` only when an element is
  validated: a tool so registered refuses every non-empty array there. Both are
  left out of `SchemasEnforced` by name (`Typed`, `Plain`).
* `MaxRestarts`, `MaxFaults`, `MaxItems`, `LastMinute`, `LastTime`, `MaxActive`, `MaxCalls` and the
  scenarios' `rounds`, `faults` and `until` are bounds on the environment. No theorem depends on how large they are.

## 8. Not modelled

* Milvus, the loaders, `DetectOCR`, JSON and SSE formatting, routing, the CLI: I/O
  and conversions without state of their own.
* Search, scoring and metadata filters of the indexes: they change nothing.
* `MemoryEventSink` (it appends to a slice without a lock and is for one run at a
  time), telemetry's counters, `RecordModel`, audit: no other component reads their
  state; the agent drops their errors.
* Security helpers: pure checks. A tenant's sessions are different members of
  `Sessions`.
* A lone `InMemoryIndex.Add` and `RemoveDocument` called from outside an `Add`.
* `BackupJSON`, `RestoreJSON` and `Cost` of `reliability`: a file copied, a product.
* The file of the session store, which is written as that of the facts.

## 9. Plan

Order: the agent and its sessions first, since everything else serves them, then
the asynchronous parts, then the stores and the edges. Next:

1. `SessionFile`: `FileStore` on its own, with the session contents that `Agent` reads
   back after a restart, over the same abstract store as `FactStore`.
2. `Provider` as an implementation of the one-step model call that `Agent` uses.
3. The safety behind liveness: that what `CallersServed` and `TicksEnd` name as the one way
   to get stuck (`Stuck`) is the only state in which nobody can move.
