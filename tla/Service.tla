-------------------------------- MODULE Service --------------------------------
(***************************************************************************)
(* Agent runs under admission control, watched through event sinks, with   *)
(* tools from a registry that grows meanwhile.                             *)
(*                                                                         *)
(* A caller that has a slot and was allowed runs the agent: core.Events    *)
(* are published by the run's own goroutine at each step of Agent.run,     *)
(* through the sinks of a MultiSink one after the other, up to the first   *)
(* that fails.  "channel" is a ChannelEventSink that one consumer drains   *)
(* (in a MultiSink the application gives it the missing RecordModel),      *)
(* "remote" is a Langfuse sink.  The run is Agent.run with the detail of   *)
(* module Agent left out: one tool call a round, a session that is only    *)
(* appended to.                                                            *)
(***************************************************************************)
EXTENDS Reliability, ToolSchema

CONSTANTS
    Scenarios,   \* the applications considered, see Scenario
    ChannelSize  \* NewChannelEventSink's size

Leaves == {"channel", "remote"}

(* Of an application: who asks for a slot, who of them runs the agent with it *)
(* (the others do other work) and whose context may end; its sinks in their  *)
(* order (none: the agent has no event sink), the definitions it may         *)
(* register, the inputs the model may make up.  Bounds: rounds               *)
(* (WithMaxToolRounds), how often the remote sink fails, when the clock stops. *)
ScenarioFields ==
    {"asking", "agents", "mayEnd", "sinks", "catalog", "inputs", "rounds", "faults",
     "until"}

ASSUME ServiceAssumption ==
    /\ ChannelSize \in Int
    /\ \A s \in Scenarios :
          /\ DOMAIN s = ScenarioFields
          /\ s.asking \subseteq Callers
          /\ s.agents \subseteq s.asking /\ s.mayEnd \subseteq s.asking
          /\ s.sinks \in UNION {[1..n -> Leaves] : n \in 0..2} /\ IsInjective(s.sinks)
          /\ s.rounds \in Nat /\ s.faults \in Nat /\ s.until \in 0..LastTime
          /\ \A def \in s.catalog : Level("nodes", def.schema, Depth + 1) = {}
    /\ Depth \in Nat

Capacity == IF ChannelSize < 1 THEN 1 ELSE ChannelSize

VARIABLES
    scenario,   \* fixed
    tools,      \* Registry.tools: a function of the names registered
    live,       \* the callers whose context has not ended
    listening,  \* somebody receives from the channel
    channel,    \* ChannelEventSink.Events: <<caller, number of the event>>
    run,        \* the local state of the callers' Agent.run
    told,       \* told[leaf][caller]: the numbers of the events it was given
    failed      \* history: <<caller, number>> of the events the remote sink refused

vars == <<governVars, scenario, tools, live, listening, channel, run, told, failed>>

Event == [type : {"run.started", "model.completed", "tool.started", "tool.completed",
                  "run.completed"},
          error : BOOLEAN]   \* of tool.completed

(* pc: the point reached, or the event published last with its sink (leaf)   *)
(* and the point to go on from (then); events: those of the run so far;      *)
(* offered: the tools in the prompt; call: the model's call; ran: whether    *)
(* its handler was started; stored: the turn is in the session.              *)
NoCall == [tool |-> "", input |-> Blank]

Idle == [pc |-> "idle", then |-> "idle", leaf |-> 0, round |-> 0, events |-> <<>>,
         offered |-> <<>>, call |-> NoCall, ran |-> FALSE, stored |-> FALSE]

Points == {"idle", "publish", "list", "model", "tool", "invoke", "append", "done"}

TypeOK ==
    /\ GovernTypeOK
    /\ scenario \in Scenarios
    /\ live \subseteq Callers
    /\ Len(channel) <= Capacity
    /\ \A c \in Callers :
          /\ run[c].pc \in Points /\ run[c].then \in Points
          /\ run[c].round \in 0..scenario.rounds
          /\ run[c].events \in Seq(Event)
          /\ run[c].pc # "idle" => stage[c] \in {"allowed", "left"}
          /\ run[c].pc = "publish" => run[c].leaf \in 1..Len(scenario.sinks)
          /\ stage[c] = "left" => run[c].pc \in {"idle", "done"}
    /\ failed \subseteq Callers \X Nat

Init ==
    /\ GovernInit
    /\ scenario \in Scenarios
    /\ tools = <<>>
    /\ live = Callers
    /\ listening = TRUE
    /\ channel = <<>>
    /\ run = [c \in Callers |-> Idle]
    /\ told = [l \in Leaves |-> [c \in Callers |-> <<>>]]
    /\ failed = {}

agentVars == <<scenario, tools, live, listening, channel, run, told, failed>>

-----------------------------------------------------------------------------
(* The callers and what is outside the program. *)
Admit(c) ==
    /\ c \in scenario.asking
    /\ \/ Ask(c) \/ Acquire(c) \/ AllowUnlimited(c) \/ Allow(c) \/ Deny(c)
       \/ GiveUp(c) /\ c \notin live
    /\ UNCHANGED agentVars

At(c, point) == run[c].pc = point
Works(c) == stage[c] = "allowed" /\ c \notin scenario.agents

(* The deferred Release. *)
Leave(c) ==
    /\ stage[c] = "denied" \/ Works(c) \/ At(c, "done")
    /\ Release(c)
    /\ UNCHANGED agentVars

Minutes ==
    /\ clock < scenario.until
    /\ Tick
    /\ UNCHANGED agentVars

ContextEnds(c) ==
    /\ c \in scenario.mayEnd \cap live
    /\ live' = live \ {c}
    /\ UNCHANGED <<governVars, scenario, tools, listening, channel, run, told, failed>>

StopListening ==
    /\ "channel" \in ToSet(scenario.sinks)
    /\ listening
    /\ listening' = FALSE
    /\ UNCHANGED <<governVars, scenario, tools, live, channel, run, told, failed>>

Tell(leaf, c, n) == [told EXCEPT ![leaf][c] = Append(@, n)]

Receive ==
    /\ listening
    /\ channel # <<>>
    /\ channel' = Tail(channel)
    /\ LET e == Head(channel) IN told' = Tell("channel", e[1], e[2])
    /\ UNCHANGED <<governVars, scenario, tools, live, listening, run, failed>>

-----------------------------------------------------------------------------
(* Registry.Register; a definition it refuses changes nothing.               *)

Register(def) ==
    /\ Valid(def)
    /\ def.name \notin DOMAIN tools
    /\ tools' = [name \in DOMAIN tools \cup {def.name} |->
                    IF name = def.name THEN def.schema ELSE tools[name]]
    /\ UNCHANGED <<governVars, scenario, live, listening, channel, run, told, failed>>

-----------------------------------------------------------------------------
(* emit: the event is published through the sinks, then the run goes on.     *)
Emits(r, type, error, then) ==
    [r EXCEPT !.events = Append(@, [type |-> type, error |-> error]),
              !.pc = IF scenario.sinks = <<>> THEN then ELSE "publish",
              !.leaf = 1,
              !.then = then]

Sets(c, r) ==
    /\ run' = [run EXCEPT ![c] = r]
    /\ UNCHANGED <<governVars, scenario, tools, live, listening, channel, told, failed>>

Publishes(c, leaf) == At(c, "publish") /\ scenario.sinks[run[c].leaf] = leaf
Number(c) == Len(run[c].events)

(* The error of a sink ends the publishing, and the run ignores it. *)
GoesOn(r) == [r EXCEPT !.pc = r.then, !.leaf = 0]

(* Variant of Refused that goes on to the next sink. *)
RefusedOnly(r) ==
    IF r.leaf = Len(scenario.sinks) THEN GoesOn(r) ELSE [r EXCEPT !.leaf = @ + 1]

Refused(r) == GoesOn(r)

NextLeaf(r) ==
    IF r.leaf = Len(scenario.sinks) THEN GoesOn(r) ELSE [r EXCEPT !.leaf = @ + 1]

(* ChannelEventSink.Publish: room in the channel or the end of the context,  *)
(* either one when there are both.                                           *)
SendsToChannel(c) ==
    /\ Publishes(c, "channel")
    /\ Len(channel) < Capacity
    /\ channel' = Append(channel, <<c, Number(c)>>)
    /\ run' = [run EXCEPT ![c] = NextLeaf(@)]
    /\ UNCHANGED <<governVars, scenario, tools, live, listening, told, failed>>

(* Variant of ChannelGivenUp for a sink that does not watch the context. *)
ChannelNeverGivenUp(c) ==
    /\ Publishes(c, "channel")
    /\ c \notin live /\ Len(channel) < Capacity
    /\ Sets(c, Refused(run[c]))

ChannelGivenUp(c) ==
    /\ Publishes(c, "channel")
    /\ c \notin live
    /\ Sets(c, Refused(run[c]))

(* Langfuse.Publish: a request with the run's context and a deadline; an     *)
(* answer that is lost leaves the event at the remote end.                   *)
SendsToRemote(c) ==
    /\ Publishes(c, "remote")
    /\ c \in live
    /\ told' = Tell("remote", c, Number(c))
    /\ run' = [run EXCEPT ![c] = NextLeaf(@)]
    /\ UNCHANGED <<governVars, scenario, tools, live, listening, channel, failed>>

RemoteRefuses(c) ==
    /\ Publishes(c, "remote")
    /\ c \in live => Cardinality({f \in failed : f[1] \in live}) < scenario.faults
    /\ told' \in {told, Tell("remote", c, Number(c))}
    /\ failed' = failed \cup {<<c, Number(c)>>}
    /\ run' = [run EXCEPT ![c] = Refused(@)]
    /\ UNCHANGED <<governVars, scenario, tools, live, listening, channel>>

-----------------------------------------------------------------------------
(* Agent.run *)
Start(c) ==
    /\ At(c, "idle") /\ stage[c] = "allowed" /\ c \in scenario.agents
    /\ Sets(c, Emits(run[c], "run.started", FALSE, "list"))

(* The session is listed, the tools are put into the prompt. *)
List(c) ==
    /\ At(c, "list")
    /\ \/ Sets(c, [run[c] EXCEPT !.pc = "model", !.offered = tools])
       \/ Sets(c, [run[c] EXCEPT !.pc = "done"])

(* The event is emitted before the error is looked at: an error of the       *)
(* provider, a call in the last round or one that validateToolCalls refuses  *)
(* ends the run without a further event.                                     *)
ModelReturns(c, then) ==
    Sets(c, Emits(run[c], "model.completed", FALSE, then))

ModelFails(c) == At(c, "model") /\ ModelReturns(c, "done")

FinalReply(c) == At(c, "model") /\ ModelReturns(c, "append")

CallsTool(c) ==
    /\ At(c, "model")
    /\ run[c].round < scenario.rounds
    /\ \E def \in scenario.catalog, input \in scenario.inputs :
          Sets(c, Emits([run[c] EXCEPT !.call = [tool |-> def.name, input |-> input],
                                       !.ran = FALSE],
                        "model.completed", FALSE, "tool"))

ToolStarts(c) ==
    /\ At(c, "tool")
    /\ Sets(c, Emits(run[c], "tool.started", FALSE, "invoke"))

(* Registry.Invoke under the tool's timeout.  The handler may fail, panic,   *)
(* answer with what is no JSON, or answer too late; its start may be as late. *)
Callable(c) ==
    /\ run[c].call.tool \in DOMAIN tools
    /\ Accepts(tools[run[c].call.tool], run[c].call.input)

ToolCompleted(c, ran, error) ==
    Sets(c, Emits([run[c] EXCEPT !.ran = ran, !.round = @ + 1],
                  "tool.completed", error, "model"))

Invoke(c) ==
    /\ At(c, "invoke")
    /\ \/ ToolCompleted(c, FALSE, TRUE)
       \/ Callable(c) /\ \E error \in BOOLEAN : ToolCompleted(c, TRUE, error)

(* A failing Append ends the run without a further event. *)
AppendTurn(c) ==
    /\ At(c, "append")
    /\ \/ Sets(c, Emits([run[c] EXCEPT !.stored = TRUE], "run.completed", FALSE, "done"))
       \/ Sets(c, [run[c] EXCEPT !.pc = "done"])

-----------------------------------------------------------------------------
RunStep(c) ==
    \/ Start(c) \/ List(c)
    \/ ModelFails(c) \/ FinalReply(c) \/ CallsTool(c)
    \/ ToolStarts(c) \/ Invoke(c) \/ AppendTurn(c)
    \/ SendsToChannel(c) \/ ChannelGivenUp(c)
    \/ SendsToRemote(c) \/ RemoteRefuses(c)

Next ==
    \/ \E c \in Callers : Admit(c) \/ RunStep(c) \/ Leave(c) \/ ContextEnds(c)
    \/ Minutes
    \/ StopListening \/ Receive
    \/ \E def \in scenario.catalog : Register(def)

(* Every goroutine keeps going: the model, the tools and the remote sink     *)
(* answer within their deadlines, the consumer of the channel receives until *)
(* it stops.  A caller asks once, so that weak fairness is enough for a slot *)
(* and for room in the channel, where Go serves who waits longest.           *)
Fairness ==
    /\ \A c \in Callers : WF_vars(stage[c] # "new" /\ (Admit(c) \/ RunStep(c) \/ Leave(c)))
    /\ WF_vars(Receive)

Spec == Init /\ [][Next]_vars /\ Fairness

-----------------------------------------------------------------------------
(* The events of a run on their way through the channel, by their places.    *)
OnTheWay(c) == {i \in DOMAIN channel : channel[i][1] = c}

(* The numbers of the events of a run that a sink was given: the consumer's  *)
(* share, and what is on the way to it.                                      *)
Given(leaf, c) ==
    ToSet(told[leaf][c]) \cup
    IF leaf = "channel" THEN {channel[i][2] : i \in OnTheWay(c)} ELSE {}

(* They arrive in the order they happened, each once. *)
InOrder(leaf, c) ==
    LET came == told[leaf][c]
    IN  /\ \A j, k \in DOMAIN came : j < k => came[j] < came[k]
        /\ leaf = "channel" =>
              \A i \in OnTheWay(c) :
                 /\ \A j \in OnTheWay(c) : i < j => channel[i][2] < channel[j][2]
                 /\ \A n \in ToSet(came) : n < channel[i][2]

(* The events whose turn at the sink in place i has come. *)
Offered(c, i) ==
    1..(IF At(c, "publish") /\ run[c].leaf <= i THEN Number(c) - 1 ELSE Number(c))

(* Every sink is given the events of a run in the order they happened, each  *)
(* once, and all of them unless the run's context ends or a sink before it   *)
(* (or itself) refuses one: MultiSink stops at the first error, so a sink    *)
(* never misses less than its predecessors.  A run that is said to have      *)
(* completed has been stored.                                                *)
EventsTold ==
    \A c \in Callers, i \in DOMAIN scenario.sinks :
        LET leaf == scenario.sinks[i]
            before == {scenario.sinks[j] : j \in 1..(i - 1)}
            missed == IF "remote" \in before THEN failed ELSE {}
            own == IF leaf = "remote" THEN failed ELSE {}
        IN  /\ InOrder(leaf, c)
            /\ \A n \in Given(leaf, c) :
                  /\ <<c, n>> \notin missed
                  /\ run[c].events[n].type = "run.completed" => run[c].stored
            /\ c \in live =>
                  \A n \in Offered(c, i) :
                      n \in Given(leaf, c) \/ <<c, n>> \in missed \cup own

(* A handler is started on an input only if that conforms to the schema the  *)
(* model was given with the tool, whatever is registered meanwhile; and an   *)
(* input that conforms is not refused.  Two kinds of schema are left out:    *)
(* those with keywords for objects or arrays on a node of another type,      *)
(* which validateValue ignores, and, of the second promise, those with an    *)
(* unknown keyword below items, which Register takes and Invoke does not.    *)
SchemasEnforced ==
    \A c \in Callers :
        LET input == Normalized(run[c].call.input)
        IN  run[c].call.tool \in DOMAIN run[c].offered =>
            LET schema == run[c].offered[run[c].call.tool]
            IN  /\ run[c].ran /\ Typed(schema) => Conforms(schema, input)
                /\ At(c, "invoke") /\ Plain(schema) /\ Conforms(schema, input)
                      => Callable(c)

(* Whoever has asked for a slot gets it and gives it back, or its context    *)
(* ends first, so that in the end nobody waits or is inside; unless the      *)
(* consumer of the channel has gone, the channel is full and a run whose     *)
(* context does not end is blocked on it for good.                           *)
Stuck ==
    /\ ~listening
    /\ Len(channel) = Capacity
    /\ \E c \in live : Publishes(c, "channel")

Settled == \A c \in Callers : stage[c] \in {"new", "left"}

CallersServed == []<>~Stuck => <>[]Settled
===============================================================================
