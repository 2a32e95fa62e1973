------------------------------ MODULE Admission ------------------------------
(***************************************************************************)
(* How the HTTP server admits a request: it identifies the tenant, asks    *)
(* the authorizer, and asks the sliding window limiter (internal/api).     *)
(* The limiter reads the clock before it takes its mutex, so requests may  *)
(* be judged in another order than that of their times.                    *)
(*                                                                         *)
(* An entry of hits is the request that left it and stands for the time    *)
(* that request read.  The limiter's answer to a request, and the moment   *)
(* it was given, are kept to state what the limiter promises.              *)
(***************************************************************************)
EXTENDS Integers, Sequences, FiniteSets

CONSTANTS Requests, Tenants,
          DefaultTenant, \* the tenant of a server that identifies nobody
          NoTenant,      \* a credential that is missing or invalid
          Servers,       \* which of the optional checks a server has
          LimitArg,      \* NewSlidingWindowLimiter's limit
          Window,        \* its window, in ticks
          Second,        \* ticks per second
          LastTime       \* bound on the clock

ASSUME AdmissionAssumption ==
  /\ LimitArg \in Int /\ {Window, LastTime} \subseteq Nat /\ Second \in Nat \ {0}
  /\ DefaultTenant \in Tenants /\ NoTenant \notin Tenants
  /\ Servers \subseteq [hook : BOOLEAN, keys : BOOLEAN, resolver : BOOLEAN, authorizer : BOOLEAN]

ASSUME RequestsFinite == IsFiniteSet(Requests)

Limit == IF LimitArg < 1 THEN 1 ELSE LimitArg

Credentials == [hook : Tenants \union {NoTenant}, key : Tenants \union {NoTenant},
                header : Tenants \union {NoTenant}, allowed : BOOLEAN]

VARIABLES server, clock,
          pc,      \* what a request is about to do
          tenant,  \* whom it is charged to
          arrived, \* the time it read before the mutex
          hits,    \* the limiter's entries of each tenant
          judged,  \* the requests in the order in which they held the mutex
          decided, \* when that was
          verdict,
          comeback \* arrival plus Retry-After of a refused request

vars == <<server, clock, pc, tenant, arrived, hits, judged, decided, verdict, comeback>>

Init ==
  /\ server \in Servers /\ clock = 0
  /\ pc = [r \in Requests |-> "sent"]
  /\ tenant = [r \in Requests |-> NoTenant]
  /\ arrived = [r \in Requests |-> 0]
  /\ hits = [t \in Tenants |-> <<>>]
  /\ judged = <<>>
  /\ decided = [r \in Requests |-> 0]
  /\ verdict = [r \in Requests |-> "none"]
  /\ comeback = [r \in Requests |-> 0]

-----------------------------------------------------------------------------
(* The checks in front of the limiter.  A verified key or token names the  *)
(* tenant, and a resolver may then only agree; without one the resolver's  *)
(* tenant stands, before that of the authentication hook.                  *)
Identified(s, c) ==
  /\ s.hook => c.hook # NoTenant
  /\ s.keys => c.key # NoTenant
  /\ (s.resolver /\ s.keys) => c.header \in {NoTenant, c.key}
  /\ (s.resolver /\ ~s.keys) => c.header # NoTenant

Owner(s, c) ==
  CASE s.keys -> c.key
    [] ~s.keys /\ s.resolver -> c.header
    [] ~s.keys /\ ~s.resolver /\ s.hook -> c.hook
    [] OTHER -> DefaultTenant

Permitted(s, c) == s.authorizer => c.allowed

(* A request passes the checks and reads the clock.                        *)
Arrive(r) ==
  /\ pc[r] = "sent"
  /\ \E c \in Credentials :
       /\ Identified(server, c) /\ Permitted(server, c)
       /\ tenant' = [tenant EXCEPT ![r] = Owner(server, c)]
  /\ pc' = [pc EXCEPT ![r] = "waits"]
  /\ arrived' = [arrived EXCEPT ![r] = clock]
  /\ UNCHANGED <<server, clock, hits, judged, decided, verdict, comeback>>

(* 401 or 403: the limiter never hears of the request.                     *)
TurnAway(r) ==
  /\ pc[r] = "sent"
  /\ \E c \in Credentials : ~Identified(server, c) \/ ~Permitted(server, c)
  /\ pc' = [pc EXCEPT ![r] = "answered"]
  /\ UNCHANGED <<server, clock, tenant, arrived, hits, judged, decided, verdict, comeback>>

-----------------------------------------------------------------------------
(* The limiter.                                                            *)

(* Variant of Expired by which an entry counts for less than the window. *)
ExpiredAtEdge(time, now) == time <= now - Window

Expired(time, now) == time < now - Window

(* Variant of Recent that drops nothing. *)
RecentAll(entries, now) == entries

(* Leading entries older than the window are dropped.                      *)
Recent(entries, now) ==
  LET first == CHOOSE i \in 1 .. Len(entries) + 1 :
                 /\ \A k \in 1 .. i-1 : Expired(arrived[entries[k]], now)
                 /\ i \in DOMAIN entries => ~Expired(arrived[entries[i]], now)
  IN  SubSeq(entries, first, Len(entries))

HasRoom(entries) == Len(entries) < Limit

(* Variant of RetryAfter without the second that makes up for rounding. *)
RetryAfterRounded(wait) == (wait \div Second) * Second

(* The Retry-After header in whole seconds, never short of the wait.       *)
RetryAfter(wait) == ((IF wait < 0 THEN 0 ELSE wait) \div Second + 1) * Second

Judged(r, answer) ==
  /\ pc' = [pc EXCEPT ![r] = "answered"]
  /\ verdict' = [verdict EXCEPT ![r] = answer]
  /\ decided' = [decided EXCEPT ![r] = clock]
  /\ judged' = Append(judged, r)
  /\ UNCHANGED <<server, clock, tenant, arrived>>

Admit(r) ==
  /\ pc[r] = "waits"
  /\ LET recent == Recent(hits[tenant[r]], arrived[r]) IN
       /\ HasRoom(recent)
       /\ hits' = [hits EXCEPT ![tenant[r]] = Append(recent, r)]
  /\ Judged(r, "admitted")
  /\ UNCHANGED comeback

(* A refusal does not store the trimmed entries.                           *)
Refuse(r) ==
  /\ pc[r] = "waits"
  /\ LET recent == Recent(hits[tenant[r]], arrived[r]) IN
       /\ ~HasRoom(recent)
       /\ comeback' = [comeback EXCEPT ![r] =
                         arrived[r] + RetryAfter(arrived[recent[1]] + Window - arrived[r])]
  /\ Judged(r, "refused")
  /\ UNCHANGED hits

Tick ==
  /\ clock < LastTime
  /\ clock' = clock + 1
  /\ UNCHANGED <<server, pc, tenant, arrived, hits, judged, decided, verdict, comeback>>

Next ==
  \/ \E r \in Requests : Arrive(r) \/ TurnAway(r) \/ Admit(r) \/ Refuse(r)
  \/ Tick

Spec == Init /\ [][Next]_vars

-----------------------------------------------------------------------------
TypeOK ==
  /\ server \in Servers /\ clock \in Nat
  /\ pc \in [Requests -> {"sent", "waits", "answered"}]
  /\ tenant \in [Requests -> Tenants \union {NoTenant}]
  /\ \A r \in Requests : pc[r] = "waits" => tenant[r] \in Tenants
  /\ arrived \in [Requests -> Nat] /\ decided \in [Requests -> Nat]
  /\ hits \in [Tenants -> Seq(Requests)]
  /\ \A t \in Tenants : Len(hits[t]) <= Limit
  /\ judged \in Seq(Requests)
  /\ verdict \in [Requests -> {"none", "admitted", "refused"}]
  /\ comeback \in [Requests -> Nat]

(* However requests overtake each other between the clock and the mutex,   *)
(* of a tenant's requests that arrived and were admitted within any stretch *)
(* of time as long as the window there are never more than the limit.      *)
WithinFrom(t, start) ==
  {r \in Requests : /\ verdict[r] = "admitted" /\ tenant[r] = t
                    /\ start <= arrived[r] /\ decided[r] <= start + Window}

WindowBound ==
  \A t \in Tenants, first \in Requests :
    Cardinality(WithinFrom(t, arrived[first])) <= Limit

(* A request is refused only when the limit is used up by requests of its  *)
(* own tenant that were admitted no longer before its arrival than the     *)
(* window: other tenants and the more distant past cost it nothing.        *)
RefusedWhenFull ==
  \A r \in Requests : verdict[r] = "refused" =>
    Cardinality({q \in Requests : /\ verdict[q] = "admitted" /\ tenant[q] = tenant[r]
                                  /\ decided[q] >= arrived[r] - Window}) >= Limit

(* No request of r's tenant was admitted at the positions in K.            *)
Quiet(r, K) ==
  \A k \in K : ~(verdict[judged[k]] = "admitted" /\ tenant[judged[k]] = tenant[r])

(* The request judged j-th comes from the tenant of the i-th, which was    *)
(* refused, no sooner than that was told to come back.                     *)
ComesBack(i, j) ==
  /\ i < j /\ tenant[judged[i]] = tenant[judged[j]]
  /\ verdict[judged[i]] = "refused" /\ comeback[judged[i]] <= arrived[judged[j]]

(* A tenant that comes back after the Retry-After it was told is admitted, *)
(* unless another request of the tenant was admitted since it was refused. *)
RetryAfterSuffices ==
  \A i, j \in DOMAIN judged :
    (ComesBack(i, j) /\ Quiet(judged[i], i+1 .. j-1)) => verdict[judged[j]] = "admitted"
=============================================================================
