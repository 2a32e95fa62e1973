------------------------------ MODULE Transcript ------------------------------
(***************************************************************************)
(* The messages of a conversation (provider.Message) as the agent and the  *)
(* session store see them, and what it means for a sequence of them to be   *)
(* well formed.  Wording is left out: a message is named by the run that    *)
(* produced it, the round of its tool loop, and its role.                   *)
(***************************************************************************)
EXTENDS Integers, Sequences

CONSTANTS
    Runs,           \* calls of Agent.run
    CallIds,        \* tool-call ids a model may choose
    MaxToolRounds,  \* Agent.maxToolRounds, positive (WithMaxToolRounds)
    MaxCalls        \* most tool calls in one reply (a bound of the model)

ASSUME TranscriptAssumption ==
    /\ MaxToolRounds \in Nat \ {0}
    /\ MaxCalls \in Nat

Rounds == 0..MaxToolRounds

Invocations == [run : Runs, round : Rounds, call : CallIds]

(* validateToolCalls lets a model ask for any list of calls with distinct   *)
(* ids in one round; the same id may come back in a later round.            *)
CallLists == {l \in UNION {[1..n -> CallIds] : n \in 0..MaxCalls} :
                  \A i, j \in DOMAIN l : l[i] = l[j] => i = j}

(* One message: "calls" is filled in an assistant message that asks for     *)
(* tools, "call" in a tool message (a set of at most one id), "output" in a *)
(* tool message that carries a tool's answer (the invocation that produced  *)
(* it) and is empty when the message reports an error.                      *)
Entry == [role : {"user", "assistant", "tool"}, run : Runs, round : Rounds,
          calls : CallLists, call : SUBSET CallIds, output : SUBSET Invocations]

(* A summary message, named by the set of messages the summarizer was given *)
SummaryEntry == [role : {"system"}, covers : SUBSET Entry]

Message == Entry \cup SummaryEntry

UserMessage(r) ==
    [role |-> "user", run |-> r, round |-> 0, calls |-> <<>>, call |-> {}, output |-> {}]

Reply(r, n, l) ==
    [role |-> "assistant", run |-> r, round |-> n, calls |-> l, call |-> {}, output |-> {}]

ToolMessage(r, n, c, out) ==
    [role |-> "tool", run |-> r, round |-> n, calls |-> <<>>, call |-> {c}, output |-> out]

-----------------------------------------------------------------------------
(* What a provider accepts: every tool message answers a call of the        *)
(* assistant message it follows, and every call is answered, in order.      *)
AnswersACall(ms, i) ==
    \E k \in 1..(i - 1) :
        /\ ms[i - k].role = "assistant"
        /\ k \in DOMAIN ms[i - k].calls
        /\ ms[i].call = {ms[i - k].calls[k]}

CallsAnswered(ms, i) ==
    \A k \in DOMAIN ms[i].calls :
        /\ i + k \in DOMAIN ms
        /\ ms[i + k].role = "tool"
        /\ ms[i + k].call = {ms[i].calls[k]}

Paired(ms) ==
    \A i \in DOMAIN ms :
        /\ ms[i].role = "tool" => AnswersACall(ms, i)
        /\ ms[i].role = "assistant" => CallsAnswered(ms, i)

(* The messages one successful run adds to its session: the input, the tool *)
(* rounds, and a final reply that asks for no tool.                         *)
WholeTurn(ms, r) ==
    /\ Len(ms) >= 2
    /\ ms[1] = UserMessage(r)
    /\ \A i \in DOMAIN ms : ms[i].role # "system" /\ ms[i].run = r
    /\ \A i \in 2..Len(ms) : ms[i].role \in {"assistant", "tool"}
    /\ \A i \in 2..Len(ms) :
           (ms[i].role = "assistant" /\ ms[i].calls = <<>>) <=> i = Len(ms)
    /\ Paired(ms)

-----------------------------------------------------------------------------
(* history[0].Role == "system" and it has the summary prefix: the agent adds *)
(* no other system message to a session.                                    *)
HasSummary(ms) == ms # <<>> /\ ms[1].role = "system"

Covered(m) == IF m.role = "system" THEN m.covers ELSE {m}

(* Everything a sequence of messages says, directly or in a summary. *)
Remembered(ms) == UNION {Covered(ms[i]) : i \in DOMAIN ms}

=============================================================================
