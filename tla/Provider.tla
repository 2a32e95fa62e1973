------------------------------ MODULE Provider ------------------------------
(***************************************************************************)
(* One call of the OpenAI-compatible model provider: a chat, a streamed    *)
(* chat or an embedding (internal/provider).  A call sends a request, and  *)
(* again after a failure that may pass, with growing pauses, until it has  *)
(* an answer, has used its retries, or its context ends.  The server is    *)
(* the environment: it answers, refuses, breaks off or stays silent.       *)
(*                                                                         *)
(* A reply is [text, calls]: its pieces of text, and its tool calls in the *)
(* order of their stream indexes, each [index, id, type, args] with its    *)
(* arguments in fragments ("id" stands for the id and the name, which are  *)
(* treated alike; "" is an absent field).  Model names, usage and finish   *)
(* reasons are left out, and so are stream events without a choice: the    *)
(* code skips them, an error payload among them.                           *)
(***************************************************************************)
EXTENDS Integers, FiniteSets, SequencesExt

CONSTANTS Retries,      \* values of MaxRetries
          Backoffs,     \* values of RetryBackoff, in ticks; 0 stands for any value <= 0
          DefaultPause, \* 100 milliseconds
          Cap,          \* five seconds
          Timeout,      \* RequestTimeout, or the default of the operation
          Replies,      \* what the server may want to say
          Texts,        \* how many texts an embedding call is given
          MaxItems      \* bound: how many vectors a server returns

Reply == [text : Seq(STRING),
          calls : Seq([index : Int, id : STRING, type : STRING, args : Seq(STRING)])]

(* Every call of a reply has a fragment, and an index of its own.          *)
ASSUME ReplyAssumption ==
  /\ Replies \subseteq Reply
  /\ \A r \in Replies : \A i, j \in DOMAIN r.calls :
       /\ r.calls[i].args # <<>>
       /\ i < j => r.calls[i].index < r.calls[j].index

ASSUME ProviderAssumption ==
  /\ Retries \subseteq Int
  /\ Backoffs \subseteq Nat
  /\ DefaultPause \in 1 .. Cap
  /\ {Cap, Timeout, Texts, MaxItems} \subseteq Nat

VARIABLES call,      \* [op, retries, base]: the operation and the provider's settings
          pc, attempt,
          clock, wake,
          ended,     \* the request's context is done
          status,    \* class of the last answer's status code
          server,    \* [reply, text, frags]: the reply being sent and what has left
          content,   \* result.Content of a stream so far
          calls,     \* toolCalls: the assembled calls by index
          delivered, \* pieces given to onDelta, over the whole call
          finished,  \* the stream's [DONE] was read
          items,     \* the vectors of an embedding answer
          requests,  \* requests that reached the network
          outcome, result

vars == <<call, pc, attempt, clock, wake, ended, status, server, content, calls,
          delivered, finished, items, requests, outcome, result>>

retrying  == <<attempt, wake>>
streaming == <<server, content, calls, delivered, finished>>
returned  == <<outcome, result>>

NoResult == [text |-> <<>>, calls |-> <<>>, vectors |-> <<>>]
Silence  == [reply |-> [text |-> <<>>, calls |-> <<>>], text |-> 0, frags |-> <<>>]

Init ==
  /\ call \in [op : {"chat", "stream", "embed"}, retries : Retries, base : Backoffs]
  /\ pc = "start" /\ attempt = 0
  /\ clock = 0 /\ wake = 0 /\ ended = FALSE
  /\ status = "none" /\ server = Silence /\ requests = 0
  /\ content = <<>> /\ calls = <<>> /\ delivered = <<>> /\ finished = FALSE
  /\ items = <<>> /\ outcome = "none" /\ result = NoResult

-----------------------------------------------------------------------------
(* The retry loop.                                                         *)

Pause == IF call.base = 0 THEN DefaultPause ELSE IF call.base > Cap THEN Cap ELSE call.base

(* The pause after attempt n: doubled once per attempt, up to the cap.     *)
RetryDelay(n) ==
  LET delay[k \in Nat] ==
        IF k = 0 THEN Pause
        ELSE IF 2 * delay[k-1] >= Cap THEN Cap ELSE 2 * delay[k-1]
  IN  delay[n]

(* Variant of Fail that forgets the error. *)
FailQuietly == pc' = "returned" /\ UNCHANGED <<returned, retrying>>

Fail == pc' = "returned" /\ outcome' = "error" /\ UNCHANGED <<result, retrying>>

Succeed(r) == pc' = "returned" /\ outcome' = "ok" /\ result' = r /\ UNCHANGED retrying

(* Variant of MayRetry that counts the first attempt as no attempt. *)
MayRetryOnceMore == attempt <= call.retries

MayRetry == attempt < call.retries   \* call.retries < 0 counts as 0, attempt is never negative

RetryLater ==
  IF MayRetry THEN /\ pc' = "pause" /\ wake' = clock + RetryDelay(attempt)
                   /\ UNCHANGED <<attempt, returned>>
              ELSE Fail

RetryNow ==
  IF MayRetry THEN pc' = "send" /\ attempt' = attempt + 1 /\ UNCHANGED <<wake, returned>>
              ELSE Fail

(* A missing URL, model, callback or text ends the call before a request.  *)
Start ==
  /\ pc = "start"
  /\ \/ pc' = "send" /\ UNCHANGED <<retrying, returned>>
     \/ Fail
  /\ UNCHANGED <<call, clock, ended, status, streaming, items, requests>>

(* client.Do sends nothing under a context that is done.                   *)
Send ==
  /\ pc = "send"
  /\ pc' = "await"
  /\ requests' = requests + IF ended THEN 0 ELSE 1
  /\ UNCHANGED <<call, retrying, clock, ended, status, streaming, items, returned>>

PauseOver ==
  /\ pc = "pause" /\ clock >= wake
  /\ pc' = "send" /\ attempt' = attempt + 1
  /\ UNCHANGED <<call, wake, clock, ended, status, streaming, items, requests, returned>>

PauseCut ==
  /\ pc = "pause" /\ ended
  /\ Fail
  /\ UNCHANGED <<call, clock, ended, status, streaming, items, requests>>

-----------------------------------------------------------------------------
(* Answers that come as one body.                                          *)

DoFails ==
  /\ pc = "await"
  /\ RetryLater
  /\ UNCHANGED <<call, clock, ended, status, streaming, items, requests>>

(* The header of an answer arrives.  Status codes fall into 2xx ("ok"),    *)
(* 429 and 5xx ("retry"), and the others ("refused").                      *)
Answer ==
  /\ pc = "await" /\ ~ended
  /\ status' \in {"ok", "retry", "refused"}
  /\ pc' = IF call.op = "stream" /\ status' = "ok" THEN "stream" ELSE "body"
  /\ \E reply \in IF status' = "ok" /\ call.op # "embed" THEN Replies ELSE {Silence.reply} :
       server' = [reply |-> reply, text |-> 0, frags |-> [k \in DOMAIN reply.calls |-> 0]]
  /\ UNCHANGED <<call, retrying, clock, ended, content, calls, delivered, finished,
                 items, requests, returned>>

(* Only a stream whose status says no ignores that its body is unreadable; *)
(* an embedding call asks again without a pause.                           *)
ReadFails ==
  /\ pc = "body"
  /\ CASE call.op = "chat" -> RetryLater
       [] call.op = "embed" -> RetryNow
       [] OTHER -> IF status = "retry" THEN RetryLater ELSE Fail
  /\ UNCHANGED <<call, clock, ended, status, streaming, items, requests>>

Turned ==
  /\ pc = "body" /\ status # "ok"
  /\ IF status = "retry" THEN RetryLater ELSE Fail
  /\ UNCHANGED <<call, clock, ended, status, streaming, items, requests>>

(* Not JSON, an error field, no choice.                                    *)
Useless ==
  /\ pc = "body" /\ status = "ok"
  /\ Fail
  /\ UNCHANGED <<call, clock, ended, status, streaming, items, requests>>

Chat ==
  /\ pc = "body" /\ status = "ok" /\ call.op = "chat"
  /\ Succeed([NoResult EXCEPT !.text = server.reply.text, !.calls = server.reply.calls])
  /\ UNCHANGED <<call, clock, ended, status, streaming, items, requests>>

(* The vectors of the answer, put at the indexes they name: the position   *)
(* of the last item for an index, 0 when there is none.                    *)
Placed(its) == [i \in 0 .. Texts-1 |->
                  LET for == {n \in DOMAIN its : its[n].index = i}
                  IN  IF for = {} THEN 0 ELSE CHOOSE n \in for : \A m \in for : m <= n]

(* Variant of Complete that does not look for a missing vector. *)
CompleteUnchecked(vectors) == TRUE

Complete(vectors) == \A i \in DOMAIN vectors : vectors[i] # 0

Embed ==
  /\ pc = "body" /\ status = "ok" /\ call.op = "embed"
  /\ items' \in UNION {[1 .. n -> [index : -1 .. Texts, full : BOOLEAN]] : n \in 0 .. MaxItems}
  /\ IF /\ Len(items') = Texts
        /\ \A n \in DOMAIN items' : items'[n].index \in 0 .. Texts-1 /\ items'[n].full
        /\ Complete(Placed(items'))
     THEN Succeed([NoResult EXCEPT !.vectors = Placed(items')])
     ELSE Fail
  /\ UNCHANGED <<call, clock, ended, status, streaming, requests>>

-----------------------------------------------------------------------------
(* A streamed reply.                                                       *)

FirstNonEmpty(a, b) == IF a # "" THEN a ELSE b

Assembled(i) ==
  IF i \in DOMAIN calls THEN calls[i] ELSE [id |-> "", type |-> "", args |-> <<>>]

(* Variant of Merge by which the last fragment names the call. *)
MergeLast(known, fragment) ==
  [id |-> fragment.id, type |-> fragment.type, args |-> known.args \o fragment.args]

(* The call assembled at an index after one more fragment.                 *)
Merge(known, fragment) ==
  [id   |-> FirstNonEmpty(known.id, fragment.id),
   type |-> FirstNonEmpty(known.type, fragment.type),
   args |-> known.args \o fragment.args]

(* Fragment n+1 of a call: the first names the call, the others may.       *)
Fragments(c, n) ==
  LET bare == [id |-> "", type |-> "", args |-> <<c.args[n+1]>>]
      full == [bare EXCEPT !.id = c.id, !.type = c.type]
  IN  IF n = 0 THEN {full} ELSE {bare, full}

(* One event carries the next piece of text, or none, and the next         *)
(* fragment of each of some calls.                                         *)
Event ==
  /\ pc = "stream"
  /\ \E t \in {0, 1}, K \in SUBSET DOMAIN server.reply.calls :
       /\ t = 1 \/ K # {}
       /\ server.text + t <= Len(server.reply.text)
       /\ \A k \in K : server.frags[k] < Len(server.reply.calls[k].args)
       /\ server' = [server EXCEPT !.text = @ + t,
                                   !.frags = [k \in DOMAIN @ |-> @[k] + IF k \in K THEN 1 ELSE 0]]
       /\ LET piece == SubSeq(server.reply.text, server.text + 1, server.text + t) IN
            content' = content \o piece /\ delivered' = delivered \o piece
       /\ \/ /\ t = 1   \* onDelta returns an error
             /\ Fail /\ UNCHANGED calls
          \/ /\ \E f \in [K -> UNION {Fragments(server.reply.calls[k], server.frags[k]) : k \in K}] :
                  /\ \A k \in K : f[k] \in Fragments(server.reply.calls[k], server.frags[k])
                  /\ LET new == [i \in {server.reply.calls[k].index : k \in K} |->
                                   Merge(Assembled(i),
                                         f[CHOOSE k \in K : server.reply.calls[k].index = i])]
                     IN  calls' = [i \in DOMAIN calls \union DOMAIN new |->
                                     IF i \in DOMAIN new THEN new[i] ELSE calls[i]]
             /\ UNCHANGED <<pc, retrying, returned>>
  /\ UNCHANGED <<call, clock, ended, status, finished, items, requests>>

(* The indexes in ascending order (sort.Ints).                             *)
Sorted(S) == CHOOSE s \in [1 .. Cardinality(S) -> S] :
                 \A i, j \in DOMAIN s : i < j => s[i] < s[j]

(* A call without a type is a function call.                               *)
OrderedToolCalls ==
  LET order == Sorted(DOMAIN calls)
  IN  [k \in 1 .. Len(order) |->
         [index |-> order[k], id |-> calls[order[k]].id,
          type |-> FirstNonEmpty(calls[order[k]].type, "function"),
          args |-> calls[order[k]].args]]

AllSent == /\ server.text = Len(server.reply.text)
           /\ \A k \in DOMAIN server.frags : server.frags[k] = Len(server.reply.calls[k].args)

(* The scanner stops at [DONE], which the server sends after its last      *)
(* event, or at the end of the body, and both are a success.               *)
StreamEnds ==
  /\ pc = "stream"
  /\ finished' \in {FALSE, AllSent}
  /\ Succeed([NoResult EXCEPT !.text = content, !.calls = OrderedToolCalls])
  /\ UNCHANGED <<call, clock, ended, status, server, content, calls, delivered, items, requests>>

(* The connection breaks, a line is too long or is not JSON.               *)
StreamBreaks ==
  /\ pc = "stream"
  /\ Fail
  /\ UNCHANGED <<call, clock, ended, status, streaming, items, requests>>

-----------------------------------------------------------------------------
(* Variant of Tick for a context without a deadline. *)
TickOn ==
  /\ clock < Timeout /\ pc # "returned"
  /\ clock' = clock + 1
  /\ UNCHANGED <<call, pc, retrying, ended, status, streaming, items, requests, returned>>

Tick ==
  /\ clock < Timeout /\ pc # "returned"
  /\ clock' = clock + 1
  /\ ended' = (ended \/ clock' = Timeout)
  /\ UNCHANGED <<call, pc, retrying, status, streaming, items, requests, returned>>

CallerCancels ==
  /\ ~ended /\ pc # "returned"
  /\ ended' = TRUE
  /\ UNCHANGED <<call, pc, retrying, clock, status, streaming, items, requests, returned>>

Returned == pc = "returned" /\ UNCHANGED vars

Next ==
  \/ Start \/ Send \/ PauseOver \/ PauseCut
  \/ DoFails \/ Answer \/ ReadFails \/ Turned \/ Useless \/ Chat \/ Embed
  \/ Event \/ StreamEnds \/ StreamBreaks
  \/ Tick \/ CallerCancels \/ Returned

(* The program takes its own steps, time passes, and a blocked network     *)
(* operation returns once the context is done.  Nothing is asked of the    *)
(* server.                                                                 *)
Unblocked == ended /\ (DoFails \/ ReadFails \/ StreamBreaks)

Fairness == WF_vars(Start \/ Send \/ PauseOver \/ PauseCut) /\ WF_vars(Unblocked) /\ WF_vars(Tick)

Spec == Init /\ [][Next]_vars /\ Fairness

-----------------------------------------------------------------------------
TypeOK ==
  /\ call \in [op : {"chat", "stream", "embed"}, retries : Retries, base : Backoffs]
  /\ pc \in {"start", "send", "await", "pause", "body", "stream", "returned"}
  /\ {attempt, clock, wake, requests} \subseteq Nat
  /\ {ended, finished} \subseteq BOOLEAN
  /\ status \in {"none", "ok", "retry", "refused"}
  /\ server.reply \in Replies \union {Silence.reply}
  /\ DOMAIN server.frags = DOMAIN server.reply.calls
  /\ outcome \in {"none", "ok", "error"}
  /\ (outcome # "none") <=> (pc = "returned")
  /\ outcome # "ok" => result = NoResult

(* A call sends at most one request more than its retries allow, and the   *)
(* pauses of a chat or a stream add up to the documented exponential       *)
(* backoff: base, 2 base, 4 base..., each at most the cap.                 *)
Doubled[n \in Nat] == IF n = 0 THEN Pause ELSE 2 * Doubled[n-1]

ExponentialPauses[n \in Nat] ==
  IF n = 0 THEN 0
  ELSE ExponentialPauses[n-1] + IF Doubled[n-1] > Cap THEN Cap ELSE Doubled[n-1]

RetriesPaced ==
  /\ requests <= 1 + IF call.retries > 0 THEN call.retries ELSE 0
  /\ call.op # "embed" => clock >= ExponentialPauses[attempt]

(* What a stream has shown its caller is never taken back or shown twice:  *)
(* it is a beginning of one reply of the server, and a success returns     *)
(* exactly the text that was shown.  A chat, and a stream that was read to *)
(* its final marker, return the text and every tool call of the server's   *)
(* reply, each with its id, its type and all its arguments in order,       *)
(* however the fragments were interleaved.                                 *)
ReplyIntact ==
  /\ call.op = "stream" =>
       /\ IsPrefix(delivered, server.reply.text)
       /\ outcome = "ok" => result.text = delivered
  /\ (outcome = "ok" /\ (call.op = "chat" \/ finished)) =>
       /\ result.text = server.reply.text
       /\ Len(result.calls) = Len(server.reply.calls)
       /\ \A k \in DOMAIN result.calls :
            LET got == result.calls[k]
                sent == server.reply.calls[k]
            IN  /\ got.id = sent.id /\ got.args = sent.args
                /\ got.type = sent.type \/ (sent.type = "" /\ got.type = "function")

(* A successful embedding has for every text a vector that the server gave *)
(* for that text, whatever indexes and empty vectors its answer held.      *)
VectorsMatchTexts ==
  (outcome = "ok" /\ call.op = "embed") =>
    \A i \in 0 .. Texts-1 :
      LET n == result.vectors[i] IN
        n \in DOMAIN items /\ items[n].index = i /\ items[n].full

(* A call returns, though the server may never answer: its deadline ends   *)
(* every wait.                                                             *)
CallEnds == <>(pc = "returned")
=============================================================================
