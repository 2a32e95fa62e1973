-------------------------- MODULE Admission_proofs --------------------------
(***************************************************************************)
(* What the sliding window limiter guarantees, for any requests, tenants,  *)
(* limit, window and interleaving.                                         *)
(***************************************************************************)
EXTENDS Admission, FiniteSetTheorems, WellFoundedInduction, TLAPS

-----------------------------------------------------------------------------
(* Sequences and numbers.                                                  *)

(* Every set of naturals with an element has a least one.                  *)
LEMMA LeastNumber ==
    ASSUME NEW T, T \subseteq Nat, T # {}
    PROVE  \E x \in T : \A y \in T : x <= y
<1> DEFINE R == OpToRel(<, Nat)
<1>1. \E x \in T : \A y \in T : <<y, x>> \notin R
  BY NatLessThanWellFounded, WFMin, Zenon
<1>2. \A x, y \in Nat : y < x => <<y, x>> \in R
  BY DEF OpToRel
<1> HIDE DEF R
<1>3. PICK x \in T : \A y \in T : ~(y < x)
  BY <1>1, <1>2
<1>4. \A y \in T : x <= y
  BY <1>3
<1>5. QED
  BY <1>4

(* What stands in a sequence is of its set, and what Append does to one.   *)
LEMMA SeqElement ==
    ASSUME NEW S, NEW e \in Seq(S), NEW i \in DOMAIN e
    PROVE  e[i] \in S
OBVIOUS

LEMMA Appended ==
    ASSUME NEW S, NEW e \in Seq(S), NEW x \in S
    PROVE  /\ Append(e, x) \in Seq(S)
           /\ Len(e) \in Nat /\ Len(Append(e, x)) = Len(e) + 1
           /\ DOMAIN e = 1 .. Len(e) /\ DOMAIN Append(e, x) = 1 .. Len(e) + 1
           /\ Append(e, x)[Len(e) + 1] = x
           /\ \A i \in DOMAIN e : Append(e, x)[i] = e[i]
OBVIOUS

Elements(e) == {e[i] : i \in DOMAIN e}

(* A sequence has at most as many elements as places, and exactly as many  *)
(* when they are distinct.                                                 *)
LEMMA ElementsCounted ==
    ASSUME NEW S, NEW e \in Seq(S)
    PROVE  /\ IsFiniteSet(Elements(e))
           /\ Cardinality(Elements(e)) <= Len(e)
           /\ (\A i, j \in DOMAIN e : i < j => e[i] # e[j]) => Cardinality(Elements(e)) = Len(e)
<1>1. Len(e) \in Nat /\ DOMAIN e = 1..Len(e)
  OBVIOUS
<1>2. e \in Surjection(DOMAIN e, Elements(e))
  BY <1>1 DEF Surjection, Elements
<1>3. IsFiniteSet(DOMAIN e) /\ Cardinality(DOMAIN e) = Len(e)
  BY <1>1, FS_Interval
<1>4. /\ IsFiniteSet(Elements(e))
      /\ Cardinality(Elements(e)) <= Cardinality(DOMAIN e)
      /\ Cardinality(Elements(e)) = Cardinality(DOMAIN e) <=> e \in Injection(DOMAIN e, Elements(e))
  BY <1>2, <1>3, FS_Surjection
<1>5. ASSUME \A i, j \in DOMAIN e : i < j => e[i] # e[j]
      PROVE  e \in Injection(DOMAIN e, Elements(e))
  <2>1. \A i, j \in DOMAIN e : e[i] = e[j] => i = j
    BY <1>1, <1>5
  <2>2. QED
    BY <1>2, <2>1 DEF Injection, Surjection, IsInjective
<1>6. QED
  BY <1>3, <1>4, <1>5

(* Recent cuts its entries at the first that has not expired.              *)
LEMMA RecentCuts ==
    ASSUME NEW e \in Seq(Requests), NEW now
    PROVE  \E f \in 1 .. Len(e) + 1 :
             /\ Recent(e, now) = SubSeq(e, f, Len(e))
             /\ \A k \in 1 .. f-1 : Expired(arrived[e[k]], now)
             /\ f \in DOMAIN e => ~Expired(arrived[e[f]], now)
<1> DEFINE Fits(i) == /\ \A k \in 1 .. i-1 : Expired(arrived[e[k]], now)
                      /\ i \in DOMAIN e => ~Expired(arrived[e[i]], now)
           Stays == {i \in 1 .. Len(e) + 1 : i \in DOMAIN e => ~Expired(arrived[e[i]], now)}
<1>1. Len(e) \in Nat /\ DOMAIN e = 1 .. Len(e)
  OBVIOUS
<1>2. Len(e) + 1 \in Stays /\ Stays \subseteq Nat
  BY <1>1
<1>3. PICK f \in Stays : \A i \in Stays : f <= i
  BY <1>2, LeastNumber
<1>4. f \in 1 .. Len(e) + 1 /\ Fits(f)
  <2>1. ASSUME NEW k \in 1 .. f-1 PROVE Expired(arrived[e[k]], now)
    <3>1. k \in DOMAIN e /\ k \in 1 .. Len(e) + 1 /\ ~(f <= k)
      BY <1>1
    <3>2. QED
      BY <1>3, <3>1
  <2>2. QED
    BY <2>1
<1>5. \E i \in 1 .. Len(e) + 1 : Fits(i)
  BY <1>4
<1>6. Recent(e, now) = SubSeq(e, CHOOSE i \in 1 .. Len(e) + 1 : Fits(i), Len(e))
  BY DEF Recent
<1> HIDE DEF Fits
<1>7. (CHOOSE i \in 1 .. Len(e) + 1 : Fits(i)) \in 1 .. Len(e) + 1
      /\ Fits(CHOOSE i \in 1 .. Len(e) + 1 : Fits(i))
  BY <1>5
<1>8. QED
  BY <1>6, <1>7 DEF Fits

(* cut is e without its leading entries, which have expired.               *)
CutAt(e, now, cut, f) ==
  /\ Len(cut) = Len(e) - f + 1
  /\ \A k \in 1 .. f-1 : Expired(arrived[e[k]], now)
  /\ f \in DOMAIN e => ~Expired(arrived[e[f]], now)
  /\ \A i \in DOMAIN cut : i + f - 1 \in DOMAIN e /\ cut[i] = e[i + f - 1]
  /\ \A k \in DOMAIN e : k >= f => k - f + 1 \in DOMAIN cut /\ cut[k - f + 1] = e[k]

(* Recent is such a cut.                                                   *)
LEMMA RecentShape ==
    ASSUME NEW e \in Seq(Requests), NEW now
    PROVE  /\ Recent(e, now) \in Seq(Requests)
           /\ \E f \in 1 .. Len(e) + 1 : CutAt(e, now, Recent(e, now), f)
<1>1. PICK f \in 1 .. Len(e) + 1 :
        /\ Recent(e, now) = SubSeq(e, f, Len(e))
        /\ \A k \in 1 .. f-1 : Expired(arrived[e[k]], now)
        /\ f \in DOMAIN e => ~Expired(arrived[e[f]], now)
  BY RecentCuts
<1>2. Len(e) \in Nat /\ f \in Nat /\ f <= Len(e) + 1 /\ 1 <= f
  OBVIOUS
<1>3. /\ SubSeq(e, f, Len(e)) \in Seq(Requests)
      /\ Len(SubSeq(e, f, Len(e))) = Len(e) - f + 1
      /\ \A i \in 1 .. Len(e) - f + 1 : SubSeq(e, f, Len(e))[i] = e[i + f - 1]
  BY <1>2
<1>4. PICK cut \in Seq(Requests) : cut = Recent(e, now)
  BY <1>1, <1>3
<1>5. cut = SubSeq(e, f, Len(e))
  BY <1>1, <1>4
<1>6. PICK n \in Nat, m \in Nat : n = Len(e) /\ m = n - f + 1
  BY <1>2
<1>7. /\ Len(cut) = m /\ DOMAIN cut = 1 .. m /\ DOMAIN e = 1 .. n
      /\ \A i \in 1 .. m : cut[i] = e[i + f - 1]
  BY <1>3, <1>5, <1>6
<1>8. \A i \in 1 .. m : i + f - 1 \in 1 .. n
  BY <1>2, <1>6
<1>9. \A k \in 1 .. n : k >= f => k - f + 1 \in 1 .. m /\ (k - f + 1) + f - 1 = k
  BY <1>2, <1>6
<1>10. \A k \in 1 .. n : k >= f => cut[k - f + 1] = e[k]
  BY <1>7, <1>9
<1>11. CutAt(e, now, cut, f)
  BY <1>1, <1>6, <1>7, <1>8, <1>9, <1>10 DEF CutAt
<1>12. QED
  BY <1>4, <1>11

(* The Retry-After that is told is longer than the wait.                   *)
LEMMA ToldIsEnough ==
    ASSUME NEW wait \in Int
    PROVE  RetryAfter(wait) \in Nat /\ RetryAfter(wait) > wait /\ RetryAfter(wait) > 0
<1> DEFINE w == IF wait < 0 THEN 0 ELSE wait
           q == w \div Second
<1>1. w \in Nat /\ w >= wait /\ Second \in Nat /\ Second > 0
  BY AdmissionAssumption
<1>2. RetryAfter(wait) = (q + 1) * Second
  BY DEF RetryAfter
<1> HIDE DEF w
<1>3. q \in Nat /\ w < (q + 1) * Second
  BY <1>1
<1> HIDE DEF q
<1>4. (q + 1) * Second \in Nat /\ (q + 1) * Second > 0
  BY <1>1, <1>3
<1>5. QED
  BY <1>1, <1>2, <1>3, <1>4

-----------------------------------------------------------------------------
(* The inductive invariant.                                                *)

(* An answer comes after the arrival, and nobody is ahead of the clock.    *)
InTime ==
  \A r \in Requests :
    /\ arrived[r] <= clock /\ decided[r] <= clock
    /\ verdict[r] # "none" => /\ pc[r] = "answered" /\ tenant[r] \in Tenants
                              /\ arrived[r] <= decided[r]

(* The entries of a tenant are distinct admitted requests of it, in the    *)
(* order of their admission.                                               *)
EntriesOf(t) ==
  \A i \in DOMAIN hits[t] :
    /\ verdict[hits[t][i]] = "admitted" /\ tenant[hits[t][i]] = t
    /\ \A j \in DOMAIN hits[t] :
         i < j => hits[t][i] # hits[t][j] /\ decided[hits[t][i]] <= decided[hits[t][j]]

Entries == \A t \in Tenants : EntriesOf(t)

(* An admitted request is among the entries until the window has passed    *)
(* since it arrived, by the real clock.                                    *)
Remembered ==
  \A q \in Requests : verdict[q] = "admitted" =>
    \/ arrived[q] < clock - Window
    \/ \E i \in DOMAIN hits[tenant[q]] : hits[tenant[q]][i] = q

(* WindowBound, from any moment.                                           *)
Bounded ==
  \A t \in Tenants, start \in Nat : Cardinality(WithinFrom(t, start)) <= Limit

(* What a refusal relies on: at its return, no more than the limit of the  *)
(* tenant's entries remain, and one of those that will have expired.       *)
Pledge(r) ==
  \E f \in DOMAIN hits[tenant[r]] :
    /\ Len(hits[tenant[r]]) - f < Limit
    /\ \A k \in 1 .. f : arrived[hits[tenant[r]][k]] + Window < comeback[r]

Pledged ==
  \A i \in DOMAIN judged :
    /\ verdict[judged[i]] # "none"
    /\ (verdict[judged[i]] = "refused" /\ Quiet(judged[i], i+1 .. Len(judged)))
         => Pledge(judged[i])

IndInv ==
  /\ TypeOK /\ InTime /\ Entries /\ Remembered /\ Bounded
  /\ RefusedWhenFull /\ Pledged /\ RetryAfterSuffices

-----------------------------------------------------------------------------
(* NewSlidingWindowLimiter raises a limit below one to one.                *)
LEMMA LimitPositive == Limit \in Nat \ {0}
BY AdmissionAssumption DEF Limit

(* The server starts with nothing judged.                                  *)
LEMMA InitIndInv == Init => IndInv
<1> SUFFICES ASSUME Init PROVE IndInv
  OBVIOUS
<1> USE AdmissionAssumption, LimitPositive
<1>1. TypeOK
  BY DEF Init, TypeOK
<1>2. InTime /\ Entries /\ Remembered /\ RefusedWhenFull /\ Pledged /\ RetryAfterSuffices
  BY DEF Init, InTime, Entries, EntriesOf, Remembered, RefusedWhenFull, Pledged, RetryAfterSuffices
<1>3. Bounded
  <2>1. \A t, start : WithinFrom(t, start) = {}
    BY DEF Init, WithinFrom
  <2>2. Cardinality({}) = 0
    BY FS_EmptySet
  <2>3. QED
    BY <2>1, <2>2 DEF Bounded
<1>4. QED
  BY <1>1, <1>2, <1>3 DEF IndInv

(* Types are kept by every step.                                           *)
LEMMA TypeStep == IndInv /\ [Next]_vars => TypeOK'
<1> SUFFICES ASSUME TypeOK, [Next]_vars PROVE TypeOK'
  BY DEF IndInv
<1> USE AdmissionAssumption, LimitPositive DEF TypeOK
<1>1. ASSUME NEW r \in Requests, Arrive(r) PROVE TypeOK'
  <2>1. PICK c \in Credentials : /\ Identified(server, c)
                                 /\ tenant' = [tenant EXCEPT ![r] = Owner(server, c)]
    BY <1>1 DEF Arrive
  <2>2. server \in [hook : BOOLEAN, keys : BOOLEAN, resolver : BOOLEAN, authorizer : BOOLEAN]
    OBVIOUS
  <2>3. Owner(server, c) \in Tenants
    BY <2>1, <2>2 DEF Owner, Identified, Credentials
  <2>4. QED
    BY <1>1, <2>1, <2>3 DEF Arrive
<1>2. ASSUME NEW r \in Requests, TurnAway(r) PROVE TypeOK'
  BY <1>2 DEF TurnAway
<1>3. ASSUME NEW r \in Requests, Admit(r) PROVE TypeOK'
  <2> DEFINE t == tenant[r]
             e == hits[t]
             recent == Recent(e, arrived[r])
  <2>1. t \in Tenants /\ e \in Seq(Requests)
    BY <1>3 DEF Admit
  <2>2. recent \in Seq(Requests) /\ Len(recent) < Limit
    <3>1. recent \in Seq(Requests)
      BY <2>1, RecentShape
    <3>2. QED
      BY <1>3, <3>1 DEF Admit, HasRoom
  <2>3. hits' = [hits EXCEPT ![t] = Append(recent, r)]
    BY <1>3 DEF Admit
  <2> HIDE DEF recent
  <2>4. /\ Append(recent, r) \in Seq(Requests)
        /\ Len(Append(recent, r)) <= Limit
    BY <2>2
  <2>5. /\ hits' \in [Tenants -> Seq(Requests)]
        /\ \A u \in Tenants : Len(hits'[u]) <= Limit
    BY <2>1, <2>3, <2>4
  <2>6. QED
    BY <1>3, <2>5 DEF Admit, Judged
<1>4. ASSUME NEW r \in Requests, Refuse(r) PROVE TypeOK'
  <2> DEFINE recent == Recent(hits[tenant[r]], arrived[r])
             wait == arrived[recent[1]] + Window - arrived[r]
  <2>1. tenant[r] \in Tenants /\ hits[tenant[r]] \in Seq(Requests)
    BY <1>4 DEF Refuse
  <2>2. recent \in Seq(Requests) /\ Len(recent) >= 1
    <3>1. recent \in Seq(Requests)
      BY <2>1, RecentShape
    <3>2. ~(Len(recent) < Limit)
      BY <1>4 DEF Refuse, HasRoom
    <3> HIDE DEF recent
    <3>3. QED
      BY <3>1, <3>2
  <2>3. recent[1] \in Requests
    BY <2>2
  <2>4. wait \in Int
    BY <2>3
  <2>5. RetryAfter(wait) \in Nat
    BY <2>4, ToldIsEnough
  <2>6. comeback' = [comeback EXCEPT ![r] = arrived[r] + RetryAfter(wait)]
    BY <1>4 DEF Refuse
  <2> HIDE DEF wait
  <2>7. comeback' \in [Requests -> Nat]
    BY <2>5, <2>6
  <2>8. Judged(r, "refused") /\ UNCHANGED hits
    BY <1>4 DEF Refuse
  <2>9. QED
    BY <2>7, <2>8 DEF Judged
<1>5. CASE Tick
  BY <1>5 DEF Tick
<1>6. CASE UNCHANGED vars
  BY <1>6 DEF vars
<1>7. QED
  BY <1>1, <1>2, <1>3, <1>4, <1>5, <1>6 DEF Next

-----------------------------------------------------------------------------
(* Steps outside the limiter change nothing that was decided.              *)

Undisturbed ==
  /\ verdict' = verdict /\ hits' = hits /\ judged' = judged
  /\ decided' = decided /\ comeback' = comeback
  /\ clock' >= clock
  /\ \A q \in Requests : verdict[q] # "none" =>
       tenant'[q] = tenant[q] /\ arrived'[q] = arrived[q]

(* What is known of an entry, and of a request that was judged.            *)
LEMMA EntryKnown ==
    ASSUME IndInv, NEW t \in Tenants, NEW i \in DOMAIN hits[t]
    PROVE  /\ hits[t] \in Seq(Requests) /\ hits[t][i] \in Requests
           /\ verdict[hits[t][i]] = "admitted" /\ tenant[hits[t][i]] = t
<1>1. hits[t] \in Seq(Requests)
  BY DEF IndInv, TypeOK
<1>2. hits[t][i] \in Requests
  BY <1>1, SeqElement
<1>3. QED
  BY <1>1, <1>2 DEF IndInv, Entries, EntriesOf

LEMMA JudgedKnown ==
    ASSUME IndInv, NEW i \in DOMAIN judged
    PROVE  /\ judged[i] \in Requests /\ verdict[judged[i]] # "none"
           /\ pc[judged[i]] = "answered" /\ tenant[judged[i]] \in Tenants
<1>1. judged \in Seq(Requests)
  BY DEF IndInv, TypeOK
<1>2. judged[i] \in Requests
  BY <1>1, SeqElement
<1>3. verdict[judged[i]] # "none"
  BY DEF IndInv, Pledged
<1>4. QED
  BY <1>2, <1>3 DEF IndInv, InTime

(* Arrivals, 401s, 403s and the clock leave the invariant standing.        *)
LEMMA UndisturbedStep ==
    ASSUME IndInv, TypeOK', Undisturbed
    PROVE  /\ Entries' /\ Remembered' /\ Bounded'
           /\ RefusedWhenFull' /\ Pledged' /\ RetryAfterSuffices'
<1>1. /\ verdict' = verdict /\ hits' = hits /\ judged' = judged
      /\ decided' = decided /\ comeback' = comeback
  BY DEF Undisturbed
<1>2. \A q \in Requests : verdict[q] # "none" =>
        tenant'[q] = tenant[q] /\ arrived'[q] = arrived[q]
  BY DEF Undisturbed
<1>3. ASSUME NEW t \in Tenants PROVE EntriesOf(t)'
  <2>1. EntriesOf(t)
    BY DEF IndInv, Entries
  <2>2. \A i \in DOMAIN hits[t] : tenant'[hits[t][i]] = t
    BY <1>2, EntryKnown
  <2>3. QED
    BY <1>1, <2>1, <2>2 DEF EntriesOf
<1>4. Remembered'
  <2>1. \A q \in Requests : verdict[q] = "admitted" =>
          arrived'[q] = arrived[q] /\ tenant'[q] = tenant[q] /\ arrived[q] \in Nat
    BY <1>2 DEF IndInv, TypeOK
  <2>2. clock' >= clock /\ clock \in Nat /\ clock' \in Nat /\ Window \in Nat
    BY AdmissionAssumption DEF IndInv, TypeOK, Undisturbed
  <2>3. QED
    BY <1>1, <2>1, <2>2 DEF IndInv, Remembered
<1>5. Bounded'
  <2>1. ASSUME NEW t \in Tenants, NEW start \in Nat
        PROVE  WithinFrom(t, start)' = WithinFrom(t, start)
    BY <1>1, <1>2 DEF WithinFrom
  <2>2. QED
    BY <2>1 DEF Bounded, IndInv
<1>6. RefusedWhenFull'
  <2>1. ASSUME NEW r \in Requests, verdict[r] = "refused"
        PROVE  {q \in Requests : /\ verdict[q] = "admitted" /\ tenant[q] = tenant[r]
                                 /\ decided[q] >= arrived[r] - Window}' =
               {q \in Requests : /\ verdict[q] = "admitted" /\ tenant[q] = tenant[r]
                                 /\ decided[q] >= arrived[r] - Window}
    BY <1>1, <1>2, <2>1
  <2>2. QED
    BY <1>1, <2>1 DEF IndInv, RefusedWhenFull
<1>7. \A i \in DOMAIN judged :
        /\ judged[i] \in Requests /\ verdict[judged[i]] # "none" /\ tenant[judged[i]] \in Tenants
        /\ tenant'[judged[i]] = tenant[judged[i]] /\ arrived'[judged[i]] = arrived[judged[i]]
  BY <1>2, JudgedKnown
<1>8. judged \in Seq(Requests) /\ DOMAIN judged = 1 .. Len(judged) /\ Len(judged) \in Nat
  BY DEF IndInv, TypeOK
<1>9. ASSUME NEW i \in DOMAIN judged, NEW j \in 1 .. Len(judged) + 1, Quiet(judged[i], i+1 .. j-1)'
      PROVE  Quiet(judged[i], i+1 .. j-1)
  <2>1. \A k \in i+1 .. j-1 : k \in DOMAIN judged
    BY <1>8
  <2>2. QED
    BY <1>1, <1>7, <1>9, <2>1 DEF Quiet
<1>10. ASSUME NEW i \in DOMAIN judged, Pledge(judged[i]) PROVE Pledge(judged[i])'
  <2>1. PICK t \in Tenants : t = tenant[judged[i]] /\ t = tenant'[judged[i]]
    BY <1>7
  <2>2. \A k \in DOMAIN hits[t] : arrived'[hits[t][k]] = arrived[hits[t][k]]
    BY <1>2, EntryKnown
  <2>3. PICK f \in DOMAIN hits[t] :
          /\ Len(hits[t]) - f < Limit
          /\ \A k \in 1 .. f : arrived[hits[t][k]] + Window < comeback[judged[i]]
    BY <1>10, <2>1 DEF Pledge
  <2>4. \A k \in 1 .. f : k \in DOMAIN hits[t]
    BY <2>3 DEF IndInv, TypeOK
  <2>5. \A k \in 1 .. f : arrived'[hits'[t][k]] + Window < comeback'[judged'[i]]
    BY <1>1, <2>2, <2>3, <2>4
  <2>6. QED
    BY <1>1, <2>1, <2>3, <2>5 DEF Pledge
<1>11. Pledged'
  <2>1. ASSUME NEW i \in DOMAIN judged, verdict[judged[i]] = "refused",
               Quiet(judged[i], i+1 .. Len(judged))'
        PROVE  Pledge(judged[i])'
    <3>1. Quiet(judged[i], i+1 .. (Len(judged) + 1) - 1)'
      BY <1>1, <1>8, <2>1
    <3>2. Quiet(judged[i], i+1 .. Len(judged))
      BY <1>1, <1>8, <1>9, <3>1
    <3>3. QED
      BY <1>10, <2>1, <3>2 DEF IndInv, Pledged
  <2>2. QED
    BY <1>1, <1>7, <2>1 DEF Pledged
<1>12. RetryAfterSuffices'
  <2>1. ASSUME NEW i \in DOMAIN judged, NEW j \in DOMAIN judged,
               ComesBack(i, j)', Quiet(judged[i], i+1 .. j-1)'
        PROVE  verdict[judged[j]] = "admitted"
    <3>1. ComesBack(i, j)
      BY <1>1, <1>7, <2>1 DEF ComesBack
    <3>2. Quiet(judged[i], i+1 .. j-1)
      BY <1>8, <1>9, <2>1
    <3>3. QED
      BY <3>1, <3>2 DEF IndInv, RetryAfterSuffices
  <2>2. QED
    BY <1>1, <2>1 DEF RetryAfterSuffices
<1>13. QED
  BY <1>3, <1>4, <1>5, <1>6, <1>11, <1>12 DEF Entries

-----------------------------------------------------------------------------
(* The two judgements.                                                     *)

(* What a judgement changes, whatever the answer.                          *)
LEMMA JudgedShape ==
    ASSUME IndInv, NEW r \in Requests, NEW answer \in {"admitted", "refused"},
           pc[r] = "waits", Judged(r, answer)
    PROVE  /\ tenant[r] \in Tenants /\ verdict[r] = "none" /\ verdict'[r] = answer
           /\ decided'[r] = clock
           /\ \A q \in Requests : q # r => verdict'[q] = verdict[q] /\ decided'[q] = decided[q]
           /\ clock' = clock /\ tenant' = tenant /\ arrived' = arrived
           /\ Len(judged) \in Nat /\ Len(judged') = Len(judged) + 1
           /\ DOMAIN judged = 1 .. Len(judged) /\ DOMAIN judged' = 1 .. Len(judged) + 1
           /\ judged'[Len(judged) + 1] = r
           /\ \A i \in DOMAIN judged : judged'[i] = judged[i] /\ judged[i] # r
           /\ InTime'
<1>1. tenant[r] \in Tenants /\ verdict[r] = "none"
  BY DEF IndInv, TypeOK, InTime
<1>2. /\ verdict' = [verdict EXCEPT ![r] = answer] /\ decided' = [decided EXCEPT ![r] = clock]
      /\ pc' = [pc EXCEPT ![r] = "answered"] /\ judged' = Append(judged, r)
      /\ clock' = clock /\ tenant' = tenant /\ arrived' = arrived
  BY DEF Judged
<1>3. /\ verdict'[r] = answer /\ decided'[r] = clock /\ pc'[r] = "answered"
      /\ \A q \in Requests : q # r => /\ verdict'[q] = verdict[q] /\ decided'[q] = decided[q]
                                      /\ pc'[q] = pc[q]
  BY <1>2 DEF IndInv, TypeOK
<1>4. judged \in Seq(Requests)
  BY DEF IndInv, TypeOK
<1>5. /\ Len(judged) \in Nat /\ Len(judged') = Len(judged) + 1
      /\ DOMAIN judged = 1 .. Len(judged) /\ DOMAIN judged' = 1 .. Len(judged) + 1
      /\ judged'[Len(judged) + 1] = r
      /\ \A i \in DOMAIN judged : judged'[i] = judged[i]
  BY <1>2, <1>4, Appended
<1>6. \A i \in DOMAIN judged : judged[i] # r
  BY <1>1, JudgedKnown
<1>7. InTime'
  <2>1. ASSUME NEW q \in Requests
        PROVE  /\ arrived'[q] <= clock' /\ decided'[q] <= clock'
               /\ verdict'[q] # "none" => /\ pc'[q] = "answered" /\ tenant'[q] \in Tenants
                                          /\ arrived'[q] <= decided'[q]
    <3>1. clock \in Nat
      BY DEF IndInv, TypeOK
    <3>2. CASE q = r
      BY <1>1, <1>2, <1>3, <3>1, <3>2 DEF IndInv, InTime
    <3>3. CASE q # r
      BY <1>2, <1>3, <3>3 DEF IndInv, InTime
    <3>4. QED
      BY <3>2, <3>3
  <2>2. QED
    BY <2>1 DEF InTime
<1>8. QED
  BY <1>1, <1>2, <1>3, <1>5, <1>6, <1>7

(* What was said of earlier judgements stays as it was.                    *)
LEMMA JudgedKeeps ==
    ASSUME IndInv, NEW r \in Requests, NEW answer \in {"admitted", "refused"},
           pc[r] = "waits", Judged(r, answer),
           \A q \in Requests : q # r => comeback'[q] = comeback[q]
    PROVE  /\ \A i \in DOMAIN judged, n \in 0 .. Len(judged) :
                Quiet(judged[i], i+1 .. n)' => Quiet(judged[i], i+1 .. n)
           /\ \A i, j \in DOMAIN judged :
                (ComesBack(i, j)' /\ Quiet(judged[i], i+1 .. j-1)') => verdict'[judged'[j]] = "admitted"
<1>1. \A i \in DOMAIN judged :
        /\ judged'[i] = judged[i] /\ verdict'[judged[i]] = verdict[judged[i]]
        /\ tenant'[judged[i]] = tenant[judged[i]] /\ arrived'[judged[i]] = arrived[judged[i]]
        /\ comeback'[judged[i]] = comeback[judged[i]]
  BY JudgedShape, JudgedKnown
<1>2. Len(judged) \in Nat /\ DOMAIN judged = 1 .. Len(judged)
  BY JudgedShape
<1>3. ASSUME NEW i \in DOMAIN judged, NEW n \in 0 .. Len(judged), Quiet(judged[i], i+1 .. n)'
      PROVE  Quiet(judged[i], i+1 .. n)
  <2>1. \A k \in i+1 .. n : k \in DOMAIN judged
    BY <1>2
  <2>2. QED
    BY <1>1, <1>3, <2>1 DEF Quiet
<1>4. ASSUME NEW i \in DOMAIN judged, NEW j \in DOMAIN judged,
             ComesBack(i, j)', Quiet(judged[i], i+1 .. j-1)'
      PROVE  verdict'[judged'[j]] = "admitted"
  <2>1. ComesBack(i, j)
    BY <1>1, <1>4 DEF ComesBack
  <2>2. j - 1 \in 0 .. Len(judged)
    BY <1>2
  <2>3. Quiet(judged[i], i+1 .. j-1)
    BY <1>3, <1>4, <2>2
  <2>4. QED
    BY <1>1, <2>1, <2>3 DEF IndInv, RetryAfterSuffices
<1>5. QED
  BY <1>3, <1>4

(* An admission fills a place that is free among the entries.              *)
LEMMA AdmitStep ==
    ASSUME IndInv, NEW r \in Requests, Admit(r)
    PROVE  /\ InTime' /\ Entries' /\ Remembered' /\ Bounded'
           /\ RefusedWhenFull' /\ Pledged' /\ RetryAfterSuffices'
<1>1. pc[r] = "waits" /\ Judged(r, "admitted") /\ comeback' = comeback
  BY DEF Admit
<1>2. /\ tenant[r] \in Tenants /\ verdict[r] = "none" /\ verdict'[r] = "admitted"
      /\ decided'[r] = clock
      /\ \A q \in Requests : q # r => verdict'[q] = verdict[q] /\ decided'[q] = decided[q]
      /\ clock' = clock /\ tenant' = tenant /\ arrived' = arrived
      /\ InTime'
  BY <1>1, JudgedShape
<1>3. /\ Len(judged) \in Nat /\ Len(judged') = Len(judged) + 1
      /\ DOMAIN judged = 1 .. Len(judged) /\ DOMAIN judged' = 1 .. Len(judged) + 1
      /\ judged'[Len(judged) + 1] = r
      /\ \A i \in DOMAIN judged : judged'[i] = judged[i] /\ judged[i] # r
  BY <1>1, JudgedShape
<1>4. PICK t \in Tenants : t = tenant[r]
  BY <1>2
<1>5. PICK e \in Seq(Requests) : e = hits[t]
  BY <1>4 DEF IndInv, TypeOK
<1>6. PICK recent \in Seq(Requests) : recent = Recent(e, arrived[r])
  BY RecentShape
<1>7. PICK f \in 1 .. Len(e) + 1 : CutAt(e, arrived[r], recent, f)
  BY <1>6, RecentShape
<1>8. PICK mine \in Seq(Requests) : mine = Append(recent, r)
  BY Appended
<1>9. /\ Len(recent) \in Nat /\ Len(mine) = Len(recent) + 1
      /\ DOMAIN recent = 1 .. Len(recent) /\ DOMAIN mine = 1 .. Len(recent) + 1
      /\ mine[Len(recent) + 1] = r /\ \A i \in DOMAIN recent : mine[i] = recent[i]
  BY <1>8, Appended
<1>10. hits' = [hits EXCEPT ![t] = mine] /\ Len(recent) < Limit
  BY <1>4, <1>5, <1>6, <1>8 DEF Admit, HasRoom
<1>11. hits'[t] = mine /\ \A u \in Tenants : u # t => hits'[u] = hits[u]
  BY <1>10 DEF IndInv, TypeOK
<1>12. /\ Window \in Nat /\ clock \in Nat /\ \A q \in Requests : arrived[q] \in Nat
       /\ arrived[r] <= clock /\ Len(e) \in Nat /\ DOMAIN e = 1 .. Len(e)
  BY AdmissionAssumption DEF IndInv, TypeOK, InTime
<1>13. \A k \in DOMAIN e : e[k] \in Requests /\ verdict[e[k]] = "admitted" /\ tenant[e[k]] = t
  BY <1>5, EntryKnown
<1>14. ASSUME NEW q \in Requests, NEW k \in DOMAIN e, e[k] = q, ~(arrived[q] < clock - Window)
       PROVE  \E i \in DOMAIN recent : recent[i] = q
  <2>1. CASE k >= f
    BY <1>7, <1>14, <2>1 DEF CutAt
  <2>2. CASE k < f
    <3>1. k \in 1 .. f-1
      BY <1>12, <2>2
    <3>2. Expired(arrived[q], arrived[r])
      BY <1>7, <1>14, <3>1 DEF CutAt
    <3>3. arrived[q] < arrived[r] - Window /\ arrived[q] \in Nat /\ arrived[r] \in Nat
      BY <1>12, <3>2 DEF Expired
    <3>4. QED
      BY <1>12, <1>14, <3>3
  <2>3. QED
    BY <1>12, <2>1, <2>2
<1>15. Entries'
  <2>1. ASSUME NEW i \in DOMAIN recent
        PROVE  /\ recent[i] \in Requests /\ recent[i] # r
               /\ verdict'[recent[i]] = "admitted" /\ tenant'[recent[i]] = t
               /\ decided'[recent[i]] = decided[recent[i]] /\ decided[recent[i]] <= clock
    <3>1. recent[i] \in Requests /\ verdict[recent[i]] = "admitted" /\ tenant[recent[i]] = t
      BY <1>7, <1>13 DEF CutAt
    <3>2. decided[recent[i]] <= clock
      BY <3>1 DEF IndInv, InTime
    <3>3. QED
      BY <1>2, <3>1, <3>2
  <2>2. ASSUME NEW i \in DOMAIN recent, NEW j \in DOMAIN recent, i < j
        PROVE  recent[i] # recent[j] /\ decided[recent[i]] <= decided[recent[j]]
    <3>1. i + f - 1 < j + f - 1
      BY <1>9, <2>2
    <3>2. EntriesOf(t)
      BY DEF IndInv, Entries
    <3>3. QED
      BY <1>5, <1>7, <3>1, <3>2 DEF EntriesOf, CutAt
  <2>3. ASSUME NEW i \in DOMAIN mine
        PROVE  /\ verdict'[mine[i]] = "admitted" /\ tenant'[mine[i]] = t
               /\ \A j \in DOMAIN mine :
                    i < j => mine[i] # mine[j] /\ decided'[mine[i]] <= decided'[mine[j]]
    <3>1. CASE i \in DOMAIN recent
      <4>1. ASSUME NEW j \in DOMAIN mine, i < j
            PROVE  mine[i] # mine[j] /\ decided'[mine[i]] <= decided'[mine[j]]
        <5>1. CASE j \in DOMAIN recent
          <6>1. mine[i] = recent[i] /\ mine[j] = recent[j]
            BY <1>9, <3>1, <5>1
          <6>2. QED
            BY <2>1, <2>2, <3>1, <4>1, <5>1, <6>1
        <5>2. CASE j = Len(recent) + 1
          <6>1. mine[i] = recent[i] /\ mine[j] = r
            BY <1>9, <3>1, <5>2
          <6>2. QED
            BY <1>2, <2>1, <3>1, <6>1
        <5>3. QED
          BY <1>9, <5>1, <5>2
      <4>2. mine[i] = recent[i]
        BY <1>9, <3>1
      <4>3. QED
        BY <2>1, <3>1, <4>1, <4>2
    <3>2. CASE i = Len(recent) + 1
      <4>1. mine[i] = r /\ \A j \in DOMAIN mine : ~(i < j)
        BY <1>9, <3>2
      <4>2. QED
        BY <1>2, <1>4, <4>1
    <3>3. QED
      BY <1>9, <3>1, <3>2
  <2>4. EntriesOf(t)'
    BY <1>11, <2>3 DEF EntriesOf
  <2>5. ASSUME NEW u \in Tenants, u # t PROVE EntriesOf(u)'
    <3>1. EntriesOf(u) /\ hits'[u] = hits[u]
      BY <1>11, <2>5 DEF IndInv, Entries
    <3>2. \A i \in DOMAIN hits[u] : hits[u][i] \in Requests /\ hits[u][i] # r
      BY <1>2, EntryKnown
    <3>3. \A i \in DOMAIN hits[u] : /\ verdict'[hits[u][i]] = verdict[hits[u][i]]
                                    /\ decided'[hits[u][i]] = decided[hits[u][i]]
                                    /\ tenant'[hits[u][i]] = tenant[hits[u][i]]
      BY <1>2, <3>2
    <3>4. QED
      BY <3>1, <3>3 DEF EntriesOf
  <2>6. QED
    BY <2>4, <2>5 DEF Entries
<1>16. Remembered'
  <2>1. ASSUME NEW q \in Requests, verdict'[q] = "admitted", ~(arrived[q] < clock - Window)
        PROVE  \E i \in DOMAIN hits'[tenant[q]] : hits'[tenant[q]][i] = q
    <3>1. CASE q = r
      <4>1. Len(recent) + 1 \in DOMAIN mine /\ mine[Len(recent) + 1] = q
        BY <1>9, <3>1
      <4>2. QED
        BY <1>4, <1>11, <3>1, <4>1
    <3>2. CASE q # r
      <4>1. PICK i \in DOMAIN hits[tenant[q]] : hits[tenant[q]][i] = q
        BY <1>2, <2>1, <3>2 DEF IndInv, Remembered
      <4>2. CASE tenant[q] = t
        <5>1. PICK n \in DOMAIN recent : recent[n] = q
          BY <1>5, <1>14, <2>1, <4>1, <4>2
        <5>2. n \in DOMAIN mine /\ mine[n] = q
          BY <1>9, <5>1
        <5>3. QED
          BY <1>11, <4>2, <5>2
      <4>3. CASE tenant[q] # t
        <5>1. tenant[q] \in Tenants
          BY <1>2, <2>1, <3>2 DEF IndInv, InTime
        <5>2. QED
          BY <1>11, <4>1, <4>3, <5>1
      <4>4. QED
        BY <4>2, <4>3
    <3>3. QED
      BY <3>1, <3>2
  <2>2. QED
    BY <1>2, <2>1 DEF Remembered
<1>17. Bounded'
  <2>1. ASSUME NEW u \in Tenants, NEW start \in Nat, r \notin WithinFrom(u, start)'
        PROVE  Cardinality(WithinFrom(u, start)') <= Limit
    <3>1. WithinFrom(u, start)' \subseteq WithinFrom(u, start)
      BY <1>2, <2>1 DEF WithinFrom
    <3>2. WithinFrom(u, start) \subseteq Requests
      BY DEF WithinFrom
    <3> DEFINE old == WithinFrom(u, start)
               new == WithinFrom(u, start)'
    <3>3. Cardinality(old) <= Limit
      BY DEF IndInv, Bounded
    <3>4. new \subseteq old /\ IsFiniteSet(old)
      BY <3>1, <3>2, RequestsFinite, FS_Subset
    <3> HIDE DEF old, new
    <3>5. Cardinality(new) <= Cardinality(old) /\ Cardinality(new) \in Nat /\ Cardinality(old) \in Nat
      BY <3>4, FS_Subset, FS_CardinalityType
    <3>6. Cardinality(new) <= Limit
      BY <3>3, <3>5, LimitPositive
    <3>7. QED
      BY <3>6 DEF new
  <2>2. ASSUME NEW u \in Tenants, NEW start \in Nat, r \in WithinFrom(u, start)'
        PROVE  Cardinality(WithinFrom(u, start)') <= Limit
    <3> DEFINE new == WithinFrom(u, start)'
    <3>1. u = t /\ start <= arrived[r] /\ clock <= start + Window
      BY <1>2, <1>4, <2>2 DEF WithinFrom
    <3>2. ASSUME NEW q \in new PROVE q \in Elements(mine)
      <4>1. CASE q = r
        <5>1. Len(recent) + 1 \in DOMAIN mine /\ mine[Len(recent) + 1] = q
          BY <1>9, <4>1
        <5>2. QED
          BY <5>1 DEF Elements
      <4>2. CASE q # r
        <5>1. q \in Requests /\ verdict[q] = "admitted" /\ tenant[q] = t /\ start <= arrived[q]
          BY <1>2, <3>1, <3>2, <4>2 DEF WithinFrom
        <5>2. ~(arrived[q] < clock - Window)
          BY <1>12, <3>1, <5>1
        <5>3. PICK k \in DOMAIN e : e[k] = q
          BY <1>5, <5>1, <5>2 DEF IndInv, Remembered
        <5>4. PICK i \in DOMAIN recent : recent[i] = q
          BY <1>14, <5>1, <5>2, <5>3
        <5>5. i \in DOMAIN mine /\ mine[i] = q
          BY <1>9, <5>4
        <5>6. QED
          BY <5>5 DEF Elements
      <4>3. QED
        BY <4>1, <4>2
    <3> HIDE DEF new
    <3>3. IsFiniteSet(Elements(mine)) /\ Cardinality(Elements(mine)) <= Len(mine)
      BY ElementsCounted
    <3>4. /\ Cardinality(new) <= Cardinality(Elements(mine))
          /\ Cardinality(new) \in Nat /\ Cardinality(Elements(mine)) \in Nat
      <4>1. new \subseteq Elements(mine)
        BY <3>2
      <4>2. QED
        BY <3>3, <4>1, FS_Subset, FS_CardinalityType
    <3>5. Len(mine) \in Nat /\ Len(mine) <= Limit
      BY <1>9, <1>10, LimitPositive
    <3>6. Cardinality(new) <= Limit
      BY <3>3, <3>4, <3>5, LimitPositive
    <3>7. QED
      BY <3>6 DEF new
  <2>3. QED
    BY <2>1, <2>2 DEF Bounded
<1>18. RefusedWhenFull'
  <2>1. ASSUME NEW q \in Requests, verdict'[q] = "refused"
        PROVE  Cardinality({p \in Requests : /\ verdict'[p] = "admitted" /\ tenant'[p] = tenant'[q]
                                             /\ decided'[p] >= arrived'[q] - Window}) >= Limit
    <3> DEFINE old == {p \in Requests : /\ verdict[p] = "admitted" /\ tenant[p] = tenant[q]
                                        /\ decided[p] >= arrived[q] - Window}
               new == {p \in Requests : /\ verdict'[p] = "admitted" /\ tenant'[p] = tenant'[q]
                                        /\ decided'[p] >= arrived'[q] - Window}
    <3>1. verdict[q] = "refused"
      BY <1>2, <2>1
    <3>2. Cardinality(old) >= Limit
      BY <3>1 DEF IndInv, RefusedWhenFull
    <3>3. old \subseteq new /\ new \subseteq Requests
      BY <1>2
    <3> HIDE DEF old, new
    <3>4. IsFiniteSet(new)
      BY <3>3, RequestsFinite, FS_Subset
    <3>5. Cardinality(old) <= Cardinality(new) /\ Cardinality(old) \in Nat /\ Cardinality(new) \in Nat
      BY <3>3, <3>4, FS_Subset, FS_CardinalityType
    <3>6. Cardinality(new) >= Limit
      BY <3>2, <3>5, LimitPositive
    <3>7. QED
      BY <3>6 DEF new
  <2>2. QED
    BY <2>1 DEF RefusedWhenFull
<1>19. \A i \in DOMAIN judged, n \in 0 .. Len(judged) :
         Quiet(judged[i], i+1 .. n)' => Quiet(judged[i], i+1 .. n)
  BY <1>1, JudgedKeeps
<1>20. \A i, j \in DOMAIN judged :
         (ComesBack(i, j)' /\ Quiet(judged[i], i+1 .. j-1)') => verdict'[judged'[j]] = "admitted"
  BY <1>1, JudgedKeeps
<1>21. \A i \in DOMAIN judged :
         /\ judged'[i] = judged[i] /\ verdict'[judged[i]] = verdict[judged[i]]
         /\ verdict[judged[i]] # "none" /\ tenant[judged[i]] \in Tenants
  BY <1>2, <1>3, JudgedKnown
<1>22. Pledged'
  <2>1. ASSUME NEW i \in DOMAIN judged, verdict[judged[i]] = "refused",
               Quiet(judged[i], i+1 .. Len(judged))'
        PROVE  Pledge(judged[i])'
    <3>1. PICK n \in Nat : n = Len(judged)
      BY <1>3
    <3>2. \A k \in i+1 .. n+1 : ~(verdict'[judged'[k]] = "admitted" /\ tenant'[judged'[k]] = tenant'[judged'[i]])
      BY <1>3, <2>1, <3>1 DEF Quiet
    <3>3. tenant[judged[i]] # t
      <4>1. n + 1 \in i+1 .. n+1
        BY <1>3, <3>1
      <4>2. QED
        BY <1>2, <1>3, <1>4, <1>21, <3>1, <3>2, <4>1
    <3>4. Quiet(judged[i], i+1 .. Len(judged))
      <4>1. \A k \in i+1 .. n : k \in i+1 .. n+1
        BY <1>3, <3>1
      <4>2. Quiet(judged[i], i+1 .. n)'
        BY <3>2, <4>1 DEF Quiet
      <4>3. n \in 0 .. Len(judged)
        BY <3>1
      <4>4. QED
        BY <1>19, <3>1, <4>2, <4>3
    <3>5. Pledge(judged[i])
      BY <2>1, <3>4 DEF IndInv, Pledged
    <3>6. hits'[tenant[judged[i]]] = hits[tenant[judged[i]]]
      BY <1>11, <1>21, <3>3
    <3>7. QED
      BY <1>1, <1>2, <1>21, <3>5, <3>6 DEF Pledge
  <2>2. ASSUME NEW i \in DOMAIN judged'
        PROVE  /\ verdict'[judged'[i]] # "none"
               /\ (verdict'[judged'[i]] = "refused" /\ Quiet(judged[i], i+1 .. Len(judged))')
                    => Pledge(judged[i])'
    <3>1. CASE i \in DOMAIN judged
      BY <1>21, <2>1, <3>1
    <3>2. CASE i = Len(judged) + 1
      BY <1>2, <1>3, <3>2
    <3>3. QED
      BY <1>3, <3>1, <3>2
  <2>3. QED
    BY <2>2 DEF Pledged
<1>23. RetryAfterSuffices'
  <2>1. ASSUME NEW i \in DOMAIN judged', NEW j \in DOMAIN judged',
               ComesBack(i, j)', Quiet(judged[i], i+1 .. j-1)'
        PROVE  verdict'[judged'[j]] = "admitted"
    <3>1. CASE j = Len(judged) + 1
      BY <1>2, <1>3, <3>1
    <3>2. CASE j # Len(judged) + 1
      <4>1. i < j
        BY <2>1 DEF ComesBack
      <4>2. i \in DOMAIN judged /\ j \in DOMAIN judged
        BY <1>3, <3>2, <4>1
      <4>3. QED
        BY <1>20, <2>1, <4>2
    <3>3. QED
      BY <3>1, <3>2
  <2>2. QED
    BY <2>1 DEF RetryAfterSuffices
<1>24. QED
  BY <1>2, <1>15, <1>16, <1>17, <1>18, <1>22, <1>23

(* A refusal finds the entries full and none expired; the oldest will have *)
(* when the client comes back.                                             *)
LEMMA RefuseStep ==
    ASSUME IndInv, NEW r \in Requests, Refuse(r)
    PROVE  /\ InTime' /\ Entries' /\ Remembered' /\ Bounded'
           /\ RefusedWhenFull' /\ Pledged' /\ RetryAfterSuffices'
<1>1. pc[r] = "waits" /\ Judged(r, "refused") /\ hits' = hits
  BY DEF Refuse
<1>2. /\ tenant[r] \in Tenants /\ verdict[r] = "none" /\ verdict'[r] = "refused"
      /\ decided'[r] = clock
      /\ \A q \in Requests : q # r => verdict'[q] = verdict[q] /\ decided'[q] = decided[q]
      /\ clock' = clock /\ tenant' = tenant /\ arrived' = arrived
      /\ InTime'
  BY <1>1, JudgedShape
<1>3. /\ Len(judged) \in Nat /\ Len(judged') = Len(judged) + 1
      /\ DOMAIN judged = 1 .. Len(judged) /\ DOMAIN judged' = 1 .. Len(judged) + 1
      /\ judged'[Len(judged) + 1] = r
      /\ \A i \in DOMAIN judged : judged'[i] = judged[i] /\ judged[i] # r
  BY <1>1, JudgedShape
<1>4. PICK t \in Tenants : t = tenant[r]
  BY <1>2
<1>5. PICK e \in Seq(Requests) : e = hits[t]
  BY <1>4 DEF IndInv, TypeOK
<1>6. PICK recent \in Seq(Requests) : recent = Recent(e, arrived[r])
  BY RecentShape
<1>7. PICK f \in 1 .. Len(e) + 1 : CutAt(e, arrived[r], recent, f)
  BY <1>6, RecentShape
<1>8. /\ ~(Len(recent) < Limit)
      /\ comeback' = [comeback EXCEPT ![r] =
                        arrived[r] + RetryAfter(arrived[recent[1]] + Window - arrived[r])]
  BY <1>4, <1>5, <1>6 DEF Refuse, HasRoom
<1>9. /\ Window \in Nat /\ clock \in Nat /\ \A q \in Requests : arrived[q] \in Nat
      /\ Len(e) \in Nat /\ DOMAIN e = 1 .. Len(e) /\ Limit \in Nat /\ Limit > 0
  BY AdmissionAssumption, LimitPositive DEF IndInv, TypeOK
(* The entries are full and none of them has expired.                      *)
<1>10. Len(e) = Limit /\ f = 1
  <2>1. Len(e) <= Limit
    BY <1>5 DEF IndInv, TypeOK
  <2>2. Len(recent) = Len(e) - f + 1
    BY <1>7 DEF CutAt
  <2>3. f \in Nat /\ f >= 1 /\ f <= Len(e) + 1
    BY <1>9
  <2>4. PICK n \in Nat : n = Len(e)
    BY <1>9
  <2>5. PICK l \in Nat : l = Limit
    BY <1>9
  <2>6. ~(n - f + 1 < l) /\ n <= l
    BY <1>8, <2>1, <2>2, <2>4, <2>5
  <2>7. n = l /\ f = 1
    BY <2>3, <2>6
  <2>8. QED
    BY <2>4, <2>5, <2>7
<1>11. /\ 1 \in DOMAIN e /\ e[1] \in Requests /\ recent[1] = e[1]
       /\ ~Expired(arrived[e[1]], arrived[r])
  <2>1. 1 \in DOMAIN e /\ e[1] \in Requests
    BY <1>9, <1>10
  <2>2. ~Expired(arrived[e[1]], arrived[r])
    BY <1>7, <1>10, <2>1 DEF CutAt
  <2>3. recent[1 - 1 + 1] = e[1]
    BY <1>7, <1>10, <2>1 DEF CutAt
  <2>4. QED
    BY <2>1, <2>2, <2>3
<1>12. /\ arrived[e[1]] \in Nat /\ arrived[r] \in Nat
       /\ arrived[e[1]] >= arrived[r] - Window
  <2>1. arrived[e[1]] \in Nat /\ arrived[r] \in Nat
    BY <1>9, <1>11
  <2>2. QED
    BY <1>9, <1>11, <2>1 DEF Expired
<1>13. /\ comeback'[r] > arrived[e[1]] + Window
       /\ \A q \in Requests : q # r => comeback'[q] = comeback[q]
  <2>1. PICK wait \in Int : wait = arrived[recent[1]] + Window - arrived[r]
    BY <1>9, <1>11, <1>12
  <2>2. RetryAfter(wait) \in Nat /\ RetryAfter(wait) > wait
    BY ToldIsEnough
  <2>3. comeback' = [comeback EXCEPT ![r] = arrived[r] + RetryAfter(wait)]
    BY <1>8, <2>1
  <2>4. /\ comeback'[r] = arrived[r] + RetryAfter(wait)
        /\ \A q \in Requests : q # r => comeback'[q] = comeback[q]
    BY <2>3 DEF IndInv, TypeOK
  <2>5. QED
    BY <1>9, <1>11, <1>12, <2>1, <2>2, <2>4
<1>14. \A q \in Requests : verdict'[q] = "admitted" <=> verdict[q] = "admitted"
  BY <1>2
<1>15. \A q \in Requests : verdict[q] = "admitted" => decided'[q] = decided[q]
  BY <1>2
<1>16. Entries'
  <2>1. ASSUME NEW u \in Tenants PROVE EntriesOf(u)'
    <3>1. EntriesOf(u)
      BY DEF IndInv, Entries
    <3>2. \A i \in DOMAIN hits[u] : hits[u][i] \in Requests /\ verdict[hits[u][i]] = "admitted"
      BY EntryKnown
    <3>3. \A i \in DOMAIN hits[u] : /\ verdict'[hits[u][i]] = verdict[hits[u][i]]
                                    /\ decided'[hits[u][i]] = decided[hits[u][i]]
                                    /\ tenant'[hits[u][i]] = tenant[hits[u][i]]
      BY <1>2, <1>14, <1>15, <3>2
    <3>4. QED
      BY <1>1, <3>1, <3>3 DEF EntriesOf
  <2>2. QED
    BY <2>1 DEF Entries
<1>17. Remembered'
  BY <1>1, <1>2, <1>14 DEF IndInv, Remembered
<1>18. Bounded'
  <2>1. ASSUME NEW u \in Tenants, NEW start \in Nat
        PROVE  WithinFrom(u, start)' = WithinFrom(u, start)
    BY <1>2, <1>14, <1>15 DEF WithinFrom
  <2>2. QED
    BY <2>1 DEF IndInv, Bounded
<1>19. RefusedWhenFull'
  <2>1. ASSUME NEW q \in Requests, verdict'[q] = "refused"
        PROVE  Cardinality({p \in Requests : /\ verdict'[p] = "admitted" /\ tenant'[p] = tenant'[q]
                                             /\ decided'[p] >= arrived'[q] - Window}) >= Limit
    <3> DEFINE old == {p \in Requests : /\ verdict[p] = "admitted" /\ tenant[p] = tenant[q]
                                        /\ decided[p] >= arrived[q] - Window}
               new == {p \in Requests : /\ verdict'[p] = "admitted" /\ tenant'[p] = tenant'[q]
                                        /\ decided'[p] >= arrived'[q] - Window}
    <3>1. old = new
      BY <1>2, <1>14, <1>15
    <3>2. CASE q # r
      <4>1. Cardinality(old) >= Limit
        BY <1>2, <2>1, <3>2 DEF IndInv, RefusedWhenFull
      <4>2. QED
        BY <3>1, <4>1
    <3>3. CASE q = r
      <4>1. ASSUME NEW i \in DOMAIN e PROVE e[i] \in old
        <5>1. e[i] \in Requests /\ verdict[e[i]] = "admitted" /\ tenant[e[i]] = t
          BY <1>5, EntryKnown
        <5>2. decided[e[1]] <= decided[e[i]]
          <6>1. CASE i = 1
            BY <1>11, <6>1 DEF IndInv, TypeOK
          <6>2. CASE 1 < i
            BY <1>5, <1>11, <6>2 DEF IndInv, Entries, EntriesOf
          <6>3. QED
            BY <1>9, <6>1, <6>2
        <5>3. arrived[e[1]] <= decided[e[1]]
          <6>1. verdict[e[1]] = "admitted"
            BY <1>5, <1>11, EntryKnown
          <6>2. QED
            BY <1>11, <6>1 DEF IndInv, InTime
        <5>4. decided[e[1]] \in Nat /\ decided[e[i]] \in Nat
          BY <1>11, <5>1 DEF IndInv, TypeOK
        <5>5. decided[e[i]] >= arrived[r] - Window
          BY <1>9, <1>12, <5>2, <5>3, <5>4
        <5>6. QED
          BY <1>4, <3>3, <5>1, <5>5
      <4>2. Elements(e) \subseteq old /\ old \subseteq Requests
        BY <4>1 DEF Elements
      <4>3. \A i, j \in DOMAIN e : i < j => e[i] # e[j]
        BY <1>5 DEF IndInv, Entries, EntriesOf
      <4>4. Cardinality(Elements(e)) = Limit
        BY <1>10, <4>3, ElementsCounted
      <4> HIDE DEF old, new
      <4>5. IsFiniteSet(old)
        BY <4>2, RequestsFinite, FS_Subset
      <4>6. Cardinality(Elements(e)) <= Cardinality(old) /\ Cardinality(old) \in Nat
        BY <4>2, <4>5, FS_Subset, FS_CardinalityType
      <4>7. Cardinality(new) >= Limit
        BY <1>9, <3>1, <4>4, <4>6
      <4>8. QED
        BY <4>7 DEF new
    <3>4. QED
      BY <3>2, <3>3
  <2>2. QED
    BY <2>1 DEF RefusedWhenFull
<1>20. \A i \in DOMAIN judged, n \in 0 .. Len(judged) :
         Quiet(judged[i], i+1 .. n)' => Quiet(judged[i], i+1 .. n)
  BY <1>1, <1>13, JudgedKeeps
<1>21. \A i, j \in DOMAIN judged :
         (ComesBack(i, j)' /\ Quiet(judged[i], i+1 .. j-1)') => verdict'[judged'[j]] = "admitted"
  BY <1>1, <1>13, JudgedKeeps
<1>22. \A i \in DOMAIN judged :
         /\ judged'[i] = judged[i] /\ verdict'[judged[i]] = verdict[judged[i]]
         /\ comeback'[judged[i]] = comeback[judged[i]]
         /\ verdict[judged[i]] # "none" /\ tenant[judged[i]] \in Tenants
  BY <1>2, <1>3, <1>13, JudgedKnown
<1>23. PICK n \in Nat : n = Len(judged)
  BY <1>3
<1>24. ASSUME NEW i \in DOMAIN judged, verdict[judged[i]] = "refused", Quiet(judged[i], i+1 .. n)'
       PROVE  Pledge(judged[i])
  <2>1. n \in 0 .. Len(judged)
    BY <1>23
  <2>2. Quiet(judged[i], i+1 .. Len(judged))
    BY <1>20, <1>23, <1>24, <2>1
  <2>3. QED
    BY <1>24, <2>2 DEF IndInv, Pledged
<1>25. Pledged'
  <2>1. ASSUME NEW i \in DOMAIN judged, verdict[judged[i]] = "refused",
               Quiet(judged[i], i+1 .. Len(judged))'
        PROVE  Pledge(judged[i])'
    <3>1. \A k \in i+1 .. n+1 : ~(verdict'[judged'[k]] = "admitted" /\ tenant'[judged'[k]] = tenant'[judged'[i]])
      BY <1>3, <1>23, <2>1 DEF Quiet
    <3>2. \A k \in i+1 .. n : k \in i+1 .. n+1
      BY <1>3, <1>23
    <3>3. Quiet(judged[i], i+1 .. n)'
      BY <3>1, <3>2 DEF Quiet
    <3>4. Pledge(judged[i])
      BY <1>24, <2>1, <3>3
    <3>5. QED
      BY <1>1, <1>2, <1>22, <3>4 DEF Pledge
  <2>2. Pledge(r)'
    <3>1. Len(e) - 1 < Limit
      BY <1>9, <1>10
    <3>2. \A k \in 1 .. 1 : arrived'[e[k]] + Window < comeback'[r]
      <4>1. arrived[e[1]] + Window < comeback'[r]
        <5>1. comeback'[r] > arrived[e[1]] + Window
          BY <1>13
        <5>2. QED
          BY <5>1
      <4>2. QED
        BY <1>2, <4>1
    <3>3. hits'[tenant'[r]] = e
      BY <1>1, <1>2, <1>4, <1>5
    <3>4. QED
      BY <1>11, <3>1, <3>2, <3>3 DEF Pledge
  <2>3. ASSUME NEW i \in DOMAIN judged'
        PROVE  /\ verdict'[judged'[i]] # "none"
               /\ (verdict'[judged'[i]] = "refused" /\ Quiet(judged[i], i+1 .. Len(judged))')
                    => Pledge(judged[i])'
    <3>1. CASE i \in DOMAIN judged
      BY <1>22, <2>1, <3>1
    <3>2. CASE i = Len(judged) + 1
      <4>1. judged'[i] = r
        BY <1>3, <3>2
      <4>2. Pledge(judged[i])'
        BY <2>2, <4>1 DEF Pledge
      <4>3. QED
        BY <1>2, <4>1, <4>2
    <3>3. QED
      BY <1>3, <3>1, <3>2
  <2>4. QED
    BY <2>3 DEF Pledged
<1>26. RetryAfterSuffices'
  <2>1. ASSUME NEW i \in DOMAIN judged', NEW j \in DOMAIN judged',
               ComesBack(i, j)', Quiet(judged[i], i+1 .. j-1)'
        PROVE  verdict'[judged'[j]] = "admitted"
    <3>1. i < j /\ i \in DOMAIN judged
      BY <1>3, <2>1 DEF ComesBack
    <3>2. CASE j = Len(judged) + 1
      (* Who came back found room: the oldest entry had expired.           *)
      <4>1. /\ verdict[judged[i]] = "refused" /\ tenant[judged[i]] = t
            /\ comeback[judged[i]] <= arrived[r]
        BY <1>2, <1>3, <1>4, <1>22, <2>1, <3>1, <3>2 DEF ComesBack
      <4>2. j - 1 = n
        BY <1>23, <3>2
      <4>3. Quiet(judged[i], i+1 .. n)'
        BY <2>1, <4>2
      <4>4. Pledge(judged[i])
        BY <1>24, <3>1, <4>1, <4>3
      <4>5. PICK g \in DOMAIN e : \A k \in 1 .. g : arrived[e[k]] + Window < comeback[judged[i]]
        BY <1>5, <4>1, <4>4 DEF Pledge
      <4>6. arrived[e[1]] + Window < comeback[judged[i]]
        BY <1>9, <4>5
      <4>7. comeback[judged[i]] \in Nat
        BY <3>1, JudgedKnown DEF IndInv, TypeOK
      <4>8. QED
        BY <1>9, <1>12, <4>1, <4>6, <4>7
    <3>3. CASE j # Len(judged) + 1
      <4>1. j \in DOMAIN judged
        BY <1>3, <3>3
      <4>2. QED
        BY <1>21, <2>1, <3>1, <4>1
    <3>4. QED
      BY <3>2, <3>3
  <2>2. QED
    BY <2>1 DEF RetryAfterSuffices
<1>27. QED
  BY <1>2, <1>16, <1>17, <1>18, <1>19, <1>25, <1>26

-----------------------------------------------------------------------------
(* Every step keeps the invariant.                                         *)
LEMMA IndInvStep == IndInv /\ [Next]_vars => IndInv'
<1> SUFFICES ASSUME IndInv, [Next]_vars PROVE IndInv'
  OBVIOUS
<1>1. TypeOK'
  BY TypeStep
<1>2. ASSUME NEW r \in Requests, Arrive(r) PROVE IndInv'
  <2>1. pc[r] = "sent" /\ verdict[r] = "none" /\ clock \in Nat
    BY <1>2 DEF Arrive, IndInv, TypeOK, InTime
  <2>2. PICK u : tenant' = [tenant EXCEPT ![r] = u]
    BY <1>2 DEF Arrive
  <2>3. /\ pc' = [pc EXCEPT ![r] = "waits"] /\ arrived' = [arrived EXCEPT ![r] = clock]
        /\ clock' = clock /\ hits' = hits /\ judged' = judged
        /\ decided' = decided /\ verdict' = verdict /\ comeback' = comeback
    BY <1>2 DEF Arrive
  <2>4. /\ arrived'[r] = clock
        /\ \A q \in Requests : q # r => /\ tenant'[q] = tenant[q] /\ arrived'[q] = arrived[q]
                                        /\ pc'[q] = pc[q]
    BY <2>2, <2>3 DEF IndInv, TypeOK
  <2>5. Undisturbed
    BY <2>1, <2>3, <2>4 DEF Undisturbed
  <2>6. InTime'
    BY <2>1, <2>3, <2>4 DEF IndInv, InTime
  <2>7. QED
    BY <1>1, <2>5, <2>6, UndisturbedStep DEF IndInv
<1>3. ASSUME NEW r \in Requests, TurnAway(r) PROVE IndInv'
  <2>1. Undisturbed
    BY <1>3 DEF TurnAway, Undisturbed, IndInv, TypeOK
  <2>2. InTime'
    BY <1>3 DEF TurnAway, IndInv, TypeOK, InTime
  <2>3. QED
    BY <1>1, <2>1, <2>2, UndisturbedStep DEF IndInv
<1>4. ASSUME NEW r \in Requests, Admit(r) PROVE IndInv'
  BY <1>1, <1>4, AdmitStep DEF IndInv
<1>5. ASSUME NEW r \in Requests, Refuse(r) PROVE IndInv'
  BY <1>1, <1>5, RefuseStep DEF IndInv
<1>6. CASE Tick
  <2>1. clock \in Nat /\ clock' = clock + 1
    BY <1>6 DEF Tick, IndInv, TypeOK
  <2>2. Undisturbed
    BY <1>6, <2>1 DEF Tick, Undisturbed
  <2>3. InTime'
    BY <1>6, <2>1 DEF Tick, IndInv, TypeOK, InTime
  <2>4. QED
    BY <1>1, <2>2, <2>3, UndisturbedStep DEF IndInv
<1>7. CASE UNCHANGED vars
  <2>1. Undisturbed
    BY <1>7 DEF vars, Undisturbed, IndInv, TypeOK
  <2>2. InTime'
    BY <1>7 DEF vars, IndInv, InTime
  <2>3. QED
    BY <1>1, <2>1, <2>2, UndisturbedStep DEF IndInv
<1>8. QED
  BY <1>2, <1>3, <1>4, <1>5, <1>6, <1>7 DEF Next

(* The invariant holds in every state the server reaches.                  *)
THEOREM Invariance == Spec => []IndInv
BY InitIndInv, IndInvStep, PTL DEF Spec

(* Every value the server keeps has its type; in particular no tenant ever *)
(* has more entries than the limit.                                        *)
THEOREM TypeCorrect == Spec => []TypeOK
<1>1. IndInv => TypeOK
  BY DEF IndInv
<1>2. QED
  BY <1>1, Invariance, PTL

(* Between its arrival and its admission within one window, no tenant has  *)
(* more requests than the limit, in whatever order requests that read the  *)
(* clock earlier or later take the limiter's mutex.                        *)
THEOREM WindowIsBounded == Spec => []WindowBound
<1>1. IndInv => WindowBound
  BY DEF IndInv, TypeOK, Bounded, WindowBound
<1>2. QED
  BY <1>1, Invariance, PTL

(* A refused tenant has used up its limit with requests admitted no longer *)
(* ago than the window, whatever other tenants do.                         *)
THEOREM RefusalsAreDeserved == Spec => []RefusedWhenFull
<1>1. IndInv => RefusedWhenFull
  BY DEF IndInv
<1>2. QED
  BY <1>1, Invariance, PTL

(* The Retry-After of a refusal is long enough, for every window, rounding *)
(* and order of the requests: who keeps to it is admitted, unless another  *)
(* request of the tenant took the place.                                   *)
THEOREM RetryAfterIsKept == Spec => []RetryAfterSuffices
<1>1. IndInv => RetryAfterSuffices
  BY DEF IndInv
<1>2. QED
  BY <1>1, Invariance, PTL
=============================================================================
