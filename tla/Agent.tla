-------------------------------- MODULE Agent --------------------------------
(***************************************************************************)
(* Concurrent runs of one Agent over a session store.                      *)
(*                                                                         *)
(* Every run lists its session under the store's lock, shortens the copy,  *)
(* writes the shortened copy back, talks to the model and the tools with no *)
(* lock held, and appends its turn under the lock at the end.  One action   *)
(* is one stretch of Agent.run between two points where another goroutine   *)
(* can be seen: the store, the model, a tool's goroutine, a timeout.        *)
(***************************************************************************)
EXTENDS Compaction

CONSTANTS
    Sessions,   \* session ids
    Configs,    \* ways the agent can be configured, see Config
    MaxActive   \* how many runs the callers keep in flight (an environment bound)

(* limit: WithContextMessageLimit, budget: WithContextTokenBudget, 0 when    *)
(* not set; summarizer: one is set; replaces: the store is a ReplaceStore;   *)
(* faulty: the store's calls can fail (FileStore), in memory they cannot.    *)
Config == [limit : Nat, budget : Nat, summarizer : BOOLEAN, replaces : BOOLEAN,
           faulty : BOOLEAN]

ASSUME AgentAssumption ==
    /\ Configs \subseteq Config
    /\ MaxActive \in Nat \ {0}

VARIABLES
    conf,       \* the agent's configuration, fixed
    store,      \* InMemory.sessions
    run,        \* the local state of every Agent.run call
    inFlight,   \* invocations whose tool goroutine is still executing
    answered    \* invocations whose goroutine has sent on its result channel

vars == <<conf, store, run, inFlight, answered>>

(* pc: the point reached; transcript: history, then transcript in the code; *)
(* start: historyStart; next: position in the current round's tool calls.   *)
Points == {"idle", "tokens", "saveTokens", "limit", "saveLimit", "model", "tool",
           "await", "append", "done", "failed"}

RunState == [pc : Points, session : Sessions, transcript : Seq(Message),
             start : Nat, round : Rounds, next : Nat]

TypeOK ==
    /\ conf \in Configs
    /\ store \in [Sessions -> Seq(Message)]
    /\ run \in [Runs -> RunState]
    /\ inFlight \subseteq Invocations
    /\ answered \subseteq Invocations

Init ==
    /\ conf \in Configs
    /\ store = [s \in Sessions |-> <<>>]
    /\ run \in [Runs -> {[pc |-> "idle", session |-> s, transcript |-> <<>>,
                          start |-> 0, round |-> 0, next |-> 0] : s \in Sessions}]
    /\ inFlight = {}
    /\ answered = {}

Ended == {"done", "failed"}
Active(r) == run[r].pc \notin Ended \cup {"idle"}

At(r, point) == run[r].pc = point
Go(r, point) == run' = [run EXCEPT ![r].pc = point]
Fail(r) == Go(r, "failed") /\ UNCHANGED <<conf, inFlight, answered>>

-----------------------------------------------------------------------------
(* memory.List: a copy of the session as it is now. *)
Begin(r) ==
    /\ At(r, "idle")
    /\ Cardinality({q \in Runs : Active(q)}) < MaxActive
    /\ run' = [run EXCEPT ![r].pc = "tokens",
                          ![r].transcript = store[run[r].session],
                          ![r].start = Len(store[run[r].session])]
    /\ UNCHANGED <<conf, store, inFlight, answered>>

ListFails(r) ==
    /\ At(r, "idle")
    /\ conf.faulty
    /\ Fail(r)
    /\ UNCHANGED store

-----------------------------------------------------------------------------
(* The two compactions.  "WithInput" is the candidate prompt. *)
WithInput(r) == Append(run[r].transcript, UserMessage(r))

OverBudget(r) == conf.budget > 0 /\ EstimateTokens(WithInput(r)) > conf.budget
OverLimit(r) == conf.limit > 0 /\ Len(run[r].transcript) + 1 > conf.limit

(* Variant of InputBudget that leaves no room for the input. *)
InputBudgetWhole == conf.budget

InputBudget == conf.budget - Cost["user"]

(* A compaction calls the summarizer unless the history starts with a summary *)
(* already; without a summarizer it fails.                                    *)
CanSummarize(r) == conf.summarizer \/ HasSummary(run[r].transcript)

(* The compacted copy becomes the run's history, historyStart moves with it, *)
(* and the session follows if the store supports replacing.                  *)
CompactTokens(r) ==
    /\ At(r, "tokens")
    /\ OverBudget(r)
    /\ CanSummarize(r)
    /\ \E c \in CompactTokenHistory(run[r].transcript, InputBudget) :
           run' = [run EXCEPT ![r].pc = IF conf.replaces THEN "saveTokens" ELSE "limit",
                              ![r].transcript = c,
                              ![r].start = Len(c)]
    /\ UNCHANGED <<conf, store, inFlight, answered>>

WithinBudget(r) ==
    /\ At(r, "tokens")
    /\ ~OverBudget(r)
    /\ Go(r, "limit")
    /\ UNCHANGED <<conf, store, inFlight, answered>>

CompactLimit(r) ==
    /\ At(r, "limit")
    /\ OverLimit(r)
    /\ conf.limit > 1
    /\ CanSummarize(r)
    /\ LET c == CompactHistory(run[r].transcript, conf.limit - 1)
       IN  run' = [run EXCEPT ![r].pc = IF conf.replaces THEN "saveLimit" ELSE "model",
                              ![r].transcript = Append(c, UserMessage(r)),
                              ![r].start = Len(c)]
    /\ UNCHANGED <<conf, store, inFlight, answered>>

WithinLimit(r) ==
    /\ At(r, "limit")
    /\ ~OverLimit(r)
    /\ run' = [run EXCEPT ![r].pc = "model", ![r].transcript = WithInput(r)]
    /\ UNCHANGED <<conf, store, inFlight, answered>>

(* Either compaction ends the run when it is needed and cannot be done: no   *)
(* summarizer, a summarizer that fails, a limit or budget that is too small. *)
CompactionFails(r) ==
    /\ \/ At(r, "tokens") /\ OverBudget(r)
       \/ At(r, "limit") /\ OverLimit(r)
    /\ \/ ~HasSummary(run[r].transcript)
       \/ At(r, "tokens") /\ CompactTokenHistory(run[r].transcript, InputBudget) = {}
       \/ At(r, "limit") /\ conf.limit = 1
    /\ Fail(r)
    /\ UNCHANGED store

(* Replace: the session becomes the run's compacted copy, whatever was        *)
(* appended to it since the copy was taken.                                   *)
Replaced(r) ==
    [store EXCEPT ![run[r].session] = SubSeq(run[r].transcript, 1, run[r].start)]

SavePoint(r) == At(r, "saveTokens") \/ At(r, "saveLimit")

Save(r) ==
    /\ SavePoint(r)
    /\ store' = Replaced(r)
    /\ Go(r, IF At(r, "saveTokens") THEN "limit" ELSE "model")
    /\ UNCHANGED <<conf, inFlight, answered>>

SaveFails(r) ==
    /\ SavePoint(r)
    /\ conf.faulty
    /\ store' \in {store, Replaced(r)}
    /\ Fail(r)

-----------------------------------------------------------------------------
(* callModel and what the loop does with the reply. *)
ModelFails(r) ==
    \* an error of the provider, or tool calls that validateToolCalls refuses
    /\ At(r, "model")
    /\ Fail(r)
    /\ UNCHANGED store

FinalReply(r) ==
    /\ At(r, "model")
    /\ run' = [run EXCEPT ![r].pc = "append",
                          ![r].transcript = Append(@, Reply(r, run[r].round, <<>>))]
    /\ UNCHANGED <<conf, store, inFlight, answered>>

(* Variant of ToolReply that is off by one on the number of rounds. *)
ToolReplyOneMore(r, l) ==
    /\ At(r, "model")
    /\ l # <<>>
    /\ run[r].round <= MaxToolRounds
    /\ run' = [run EXCEPT ![r].pc = "tool",
                          ![r].transcript = Append(@, Reply(r, run[r].round, l)),
                          ![r].next = 1]
    /\ UNCHANGED <<conf, store, inFlight, answered>>

ToolReply(r, l) ==
    /\ At(r, "model")
    /\ l # <<>>
    /\ run[r].round < MaxToolRounds
    /\ run' = [run EXCEPT ![r].pc = "tool",
                          ![r].transcript = Append(@, Reply(r, run[r].round, l)),
                          ![r].next = 1]
    /\ UNCHANGED <<conf, store, inFlight, answered>>

TooManyRounds(r) ==
    /\ At(r, "model")
    /\ run[r].round >= MaxToolRounds
    /\ Fail(r)
    /\ UNCHANGED store

-----------------------------------------------------------------------------
(* invokeTool, call after call.                                              *)
(* The round's calls are those of the last assistant message.               *)
RoundCalls(r) ==
    run[r].transcript[Len(run[r].transcript) - (run[r].next - 1)].calls

Invocation(r) ==
    [run |-> r, round |-> run[r].round, call |-> RoundCalls(r)[run[r].next]]

(* The tool message of the current call: the loop goes on to the next call,  *)
(* or to the next round of the model.                                        *)
Observed(r, output) ==
    LET more == run[r].next < Len(RoundCalls(r))
    IN  [run EXCEPT ![r].pc = IF more THEN "tool" ELSE "model",
                    ![r].transcript = Append(@, ToolMessage(r, run[r].round,
                                                   Invocation(r).call, output)),
                    ![r].next = IF more THEN @ + 1 ELSE 0,
                    ![r].round = IF more THEN @ ELSE @ + 1]

(* The authorizer says no, or there is no tool registry: no goroutine. *)
ToolRefused(r) ==
    /\ At(r, "tool")
    /\ run' = Observed(r, {})
    /\ UNCHANGED <<conf, store, inFlight, answered>>

ToolStarts(r) ==
    /\ At(r, "tool")
    /\ Go(r, "await")
    /\ inFlight' = inFlight \cup {Invocation(r)}
    /\ UNCHANGED <<conf, store, answered>>

(* The goroutine finishes, in its own time, and sends on its own buffered    *)
(* channel: nobody has to be receiving any more.                             *)
ToolFinishes(i) ==
    /\ i \in inFlight
    /\ inFlight' = inFlight \ {i}
    /\ answered' = answered \cup {i}
    /\ UNCHANGED <<conf, store, run>>

(* Variant of ToolAnswers with one result channel for all calls of a run. *)
ToolAnswersShared(r) ==
    /\ At(r, "await")
    /\ \E i \in answered : i.run = r /\ run' = Observed(r, {i})
    /\ UNCHANGED <<conf, store, inFlight, answered>>

(* The select: a result that has arrived, good or bad, or the tool context's *)
(* end, whichever is picked when both are ready.                             *)
ToolAnswers(r) ==
    /\ At(r, "await")
    /\ Invocation(r) \in answered
    /\ run' \in {Observed(r, {}), Observed(r, {Invocation(r)})}
    /\ UNCHANGED <<conf, store, inFlight, answered>>

(* Variant of ToolTimesOut that only looks at the clock once the tool is back. *)
ToolTimesOutLate(r) ==
    /\ At(r, "await")
    /\ Invocation(r) \in answered
    /\ run' = Observed(r, {})
    /\ UNCHANGED <<conf, store, inFlight, answered>>

ToolTimesOut(r) ==
    /\ At(r, "await")
    /\ run' = Observed(r, {})
    /\ UNCHANGED <<conf, store, inFlight, answered>>

-----------------------------------------------------------------------------
(* Variant of Turn that takes the length of the session for historyStart. *)
TurnAfterStore(r) ==
    SubSeq(run[r].transcript, Len(store[run[r].session]) + 1, Len(run[r].transcript))

(* memory.Append of transcript[historyStart:] *)
Turn(r) == SubSeq(run[r].transcript, run[r].start + 1, Len(run[r].transcript))

(* Variant of Appended that writes the run's transcript back as a whole. *)
AppendedWhole(r) == [store EXCEPT ![run[r].session] = run[r].transcript]

Appended(r) == [store EXCEPT ![run[r].session] = @ \o Turn(r)]

AppendTurn(r) ==
    /\ At(r, "append")
    /\ store' = Appended(r)
    /\ Go(r, "done")
    /\ UNCHANGED <<conf, inFlight, answered>>

AppendFails(r) ==
    /\ At(r, "append")
    /\ conf.faulty
    /\ store' \in {store, Appended(r)}
    /\ Fail(r)

-----------------------------------------------------------------------------
(* A run's own goroutine; everything but the compactions and the store's      *)
(* failures can happen to any agent.                                          *)
RunStep(r) ==
    \/ Begin(r) \/ ListFails(r)
    \/ CompactTokens(r) \/ WithinBudget(r) \/ CompactLimit(r) \/ WithinLimit(r)
    \/ CompactionFails(r) \/ Save(r) \/ SaveFails(r)
    \/ ModelFails(r) \/ FinalReply(r) \/ TooManyRounds(r)
    \/ \E l \in CallLists : ToolReply(r, l)
    \/ ToolRefused(r) \/ ToolStarts(r) \/ ToolAnswers(r) \/ ToolTimesOut(r)
    \/ AppendTurn(r) \/ AppendFails(r)

Next == \/ \E r \in Runs : RunStep(r)
        \/ \E i \in inFlight : ToolFinishes(i)

Spec == Init /\ [][Next]_vars

(* A run that has begun keeps going: the model call returns (the provider    *)
(* gives it a deadline) and the tool context ends at its own deadline.       *)
(* Nothing is assumed of the tools, which may never finish.                  *)
Fairness == \A r \in Runs : WF_vars(~At(r, "idle") /\ RunStep(r))

FairSpec == Spec /\ Fairness

-----------------------------------------------------------------------------
(* While nothing is compacted the store is a log of whole turns: a run       *)
(* changes its session only by appending its complete turn (input, every     *)
(* tool call with its result, final reply) in one step, however the runs     *)
(* interleave and wherever one fails (Agent.run persists nothing earlier).   *)
Turns == INSTANCE TurnLog WITH
    log <- store,
    phase <- [r \in Runs |-> IF Active(r) THEN "active" ELSE run[r].pc]

ImplementsTurnLog == Turns!TurnLogSpec

(* A tool message carries the answer of its own call: the late answer of a   *)
(* call that timed out never passes for the answer of another (invokeTool    *)
(* makes one result channel per call).                                       *)
AnswersBelong(ms) ==
    \A i \in DOMAIN ms :
        (ms[i].role = "tool" /\ ms[i].output # {}) =>
            ms[i].output = {[run |-> ms[i].run, round |-> ms[i].round, call |-> c] :
                                c \in ms[i].call}

ResultsBelongToCalls == \A r \in Runs : AnswersBelong(run[r].transcript)

(* Every run that has begun comes to an end, even if a tool never returns.   *)
RunsEnd == \A r \in Runs : Active(r) ~> run[r].pc \in Ended

(* A run reports success only in the step that leaves its whole turn as the  *)
(* newest part of its session, compacted or not: historyStart always splits  *)
(* the transcript where the stored history ends.                             *)
EndsWithTurn(ms, r) ==
    \E n \in 1..Len(ms) : WholeTurn(SubSeq(ms, n, Len(ms)), r)

SuccessMeansStored ==
    [][\A r \in Runs : (~At(r, "done") /\ At(r, "done")') =>
           EndsWithTurn(store'[run[r].session], r)]_vars

(* Compacting never stacks summaries: a session and a prompt hold at most    *)
(* one, in front, even when runs replace each other's sessions.              *)
SummaryOnlyInFront(ms) == \A i \in DOMAIN ms : ms[i].role = "system" => i = 1

OneSummaryInFront ==
    /\ \A s \in Sessions : SummaryOnlyInFront(store[s])
    /\ \A r \in Runs : SummaryOnlyInFront(run[r].transcript)

(* Under a token budget alone the first prompt of a run fits it, the new      *)
(* input included (agent.go:155-169).                                         *)
FirstPromptFits ==
    \A r \in Runs :
        (conf.budget > 0 /\ conf.limit = 0 /\ At(r, "model") /\ run[r].round = 0) =>
            EstimateTokens(run[r].transcript) <= conf.budget

(* memory.Compact on any history without an earlier summary that a session   *)
(* reaches, at any limit: nothing is forgotten, and no retained tool result  *)
(* loses its call (the comment at compact.go:27).                            *)
CompactSound ==
    \A s \in Sessions : \A limit \in 1..Len(store[s]) :
        LET c == Compact(store[s], limit)
        IN  ~HasSummary(store[s]) =>
                /\ Remembered(c) = Remembered(store[s])
                /\ Paired(c)

(* What compaction is for: an acknowledged turn stays in the session or in   *)
(* its summary (DEVELOPMENT_STEPS.md:306).                                   *)
AckedTurnsRemembered ==
    \A r \in Runs : At(r, "done") =>
        UserMessage(r) \in Remembered(store[run[r].session])

=============================================================================
