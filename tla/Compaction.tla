------------------------------ MODULE Compaction ------------------------------
(***************************************************************************)
(* How a long conversation is shortened before the model sees it:          *)
(* internal/memory/compact.go and the two wrappers the agent calls,        *)
(* compactHistory and compactTokenHistory of internal/agent/agent.go.       *)
(***************************************************************************)
EXTENDS Transcript, FiniteSetsExt, SequencesExt

CONSTANT Cost   \* tokens of one message, by role: at least 4 in the code

ASSUME CostAssumption ==
    Cost \in [{"user", "assistant", "tool", "system"} -> Nat \ {0}]

EstimateTokens(ms) ==
    LET total[n \in 0..Len(ms)] ==
            IF n = 0 THEN 0 ELSE total[n - 1] + Cost[ms[n].role]
    IN  total[Len(ms)]

(* The summarizer's text, named by what it was given (an earlier summary    *)
(* among the messages is passed on with what it covers).                    *)
Summary(ms) == [role |-> "system", covers |-> Remembered(ms)]

(* Variant of Cut without the loop that keeps a tool result with its call. *)
CutAnywhere(ms, limit) == Len(ms) - limit + 1

(* Compact's cut: how many of the oldest messages the summary replaces. The *)
(* loop walks back while the first retained message is a tool result.       *)
Cut(ms, limit) ==
    LET first == Len(ms) - limit + 1
        Stops(k) == k = 0 \/ k = Len(ms) \/ ms[k + 1].role # "tool"
    IN  CHOOSE k \in 0..first :
            Stops(k) /\ \A j \in (k + 1)..first : ~Stops(j)

Compact(ms, limit) ==
    IF limit <= 0 \/ Len(ms) <= limit THEN ms
    ELSE LET cut == Cut(ms, limit)
         IN  <<Summary(SubSeq(ms, 1, cut))>> \o SubSeq(ms, cut + 1, Len(ms))

(* Variant of CompactHistory that summarizes again below the old summary. *)
CompactHistoryAgain(ms, limit) ==
    IF Len(ms) > limit /\ HasSummary(ms)
    THEN <<ms[1]>> \o Compact(Tail(ms), limit - 1)
    ELSE Compact(ms, limit)

(* compactHistory, past its error for limit <= 0: a history that already    *)
(* starts with a summary keeps it and the newest limit - 1 messages.        *)
CompactHistory(ms, limit) ==
    IF Len(ms) > limit /\ HasSummary(ms)
    THEN <<ms[1]>> \o SubSeq(ms, Len(ms) - limit + 2, Len(ms))
    ELSE Compact(ms, limit)

(* CompactToTokenBudget: the results it can return, none when it fails. *)
CompactToTokenBudget(ms, budget) ==
    IF EstimateTokens(ms) <= budget THEN {ms}
    ELSE {c \in {<<Summary(SubSeq(ms, 1, Len(ms) - 1)), ms[Len(ms)]>>} :
              Len(ms) > 1 /\ EstimateTokens(c) <= budget}

(* compactTokenHistory: under an existing summary the oldest messages go one *)
(* by one until the rest fits; otherwise all but the last are summarized.   *)
WithoutOldest(ms, n) == <<ms[1]>> \o SubSeq(ms, n + 2, Len(ms))

CompactTokenHistory(ms, budget) ==
    LET fitting == {n \in 0..(Len(ms) - 1) :
                        EstimateTokens(WithoutOldest(ms, n)) <= budget}
    IN  IF budget <= 0 THEN {}
        ELSE IF HasSummary(ms)
             THEN {WithoutOldest(ms, n) : n \in {k \in fitting : k = Min(fitting)}}
             ELSE CompactToTokenBudget(ms, budget)

=============================================================================
