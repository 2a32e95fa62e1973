---------------------------- MODULE Provider_proofs ----------------------------
(***************************************************************************)
(* What a call of the provider returns, and what it does to get there, for *)
(* any settings, any replies and any behaviour of the server:              *)
(*                                                                         *)
(*   ResultInv   which vectors an embedding call returns: indexes out of   *)
(*               range, doubled or missing, empty vectors;                 *)
(*   TypeInv     type correctness;                                         *)
(*   RetryInv    how many requests were sent, how long the pauses were:    *)
(*               the code's capped doubling (RetryDelay) is the exact      *)
(*               doubling cut at the cap (DelayIsCapped);                  *)
(*   StreamInv   a stream has assembled exactly what the server has sent.  *)
(***************************************************************************)
EXTENDS Provider, WellFoundedInduction, SequenceTheorems, FiniteSetTheorems, TLAPS

-----------------------------------------------------------------------------
(* Numbers.                                                                *)

(* A set of numbers has a least one. *)
LEMMA LeastNumber ==
    ASSUME NEW T, T \subseteq Nat, T # {}
    PROVE  \E x \in T : \A y \in T : x <= y
<1> DEFINE R == OpToRel(<, Nat)
<1>1. \E x \in T : \A y \in T : <<y, x>> \notin R
  BY NatLessThanWellFounded, WFMin, Zenon
<1>2. \A x, y \in Nat : y < x => <<y, x>> \in R
  BY DEF OpToRel
<1> HIDE DEF R
<1>3. PICK x \in T : \A y \in T : <<y, x>> \notin R
  BY <1>1
<1>4. ASSUME NEW y \in T PROVE x <= y
  <2>1. x \in Nat /\ y \in Nat
    OBVIOUS
  <2>2. ~(y < x)
    BY <1>2, <1>3, <2>1, Zenon
  <2>3. QED
    BY <2>1, <2>2
<1>5. QED
  BY <1>4

(* Induction: a set of numbers that has 0, and n + 1 with n, has them all. *)
LEMMA AllNumbers ==
    ASSUME NEW T, 0 \in T, \A n \in Nat : n \in T => n + 1 \in T
    PROVE  Nat \subseteq T
<1> DEFINE Rest == {n \in Nat : n \notin T}
<1> SUFFICES ASSUME Rest # {} PROVE FALSE
  OBVIOUS
<1>1. PICK x \in Rest : \A y \in Rest : x <= y
  BY LeastNumber
<1>2. x # 0 /\ x \in Nat /\ x \notin T
  OBVIOUS
<1>3. x - 1 \in Nat /\ ~(x <= x - 1)
  BY <1>2
<1>4. x - 1 \in T
  BY <1>1, <1>3
<1>5. (x - 1) + 1 \in T
  BY <1>3, <1>4
<1>6. QED
  BY <1>2, <1>5

(* Primitive recursion: the values of a recursive function exist. *)
Recursive(f, base, step) == f[0] = base /\ \A n \in Nat : f[n + 1] = step[<<n, f[n]>>]

LEMMA Recursion ==
    ASSUME NEW S, NEW base \in S, NEW step \in [Nat \X S -> S]
    PROVE  \E f \in [Nat -> S] : Recursive(f, base, step)
<1> DEFINE Upto(n) == {g \in [0..n -> S] :
                          g[0] = base /\ \A k \in 0..(n - 1) : g[k + 1] = step[<<k, g[k]>>]}
           T == {n \in Nat : Upto(n) # {}}
<1>1. 0 \in T
  <2>1. [k \in 0..0 |-> base] \in Upto(0)
    OBVIOUS
  <2>2. QED
    BY <2>1
<1>2. ASSUME NEW n \in Nat, n \in T PROVE n + 1 \in T
  <2>1. PICK g \in Upto(n) : TRUE
    BY <1>2
  <2> DEFINE h == [k \in 0..(n + 1) |-> IF k = n + 1 THEN step[<<n, g[n]>>] ELSE g[k]]
  <2>2. g[n] \in S /\ step[<<n, g[n]>>] \in S
    BY <2>1
  <2>3. h \in [0..(n + 1) -> S]
    BY <2>1, <2>2
  <2>4. h[0] = base
    BY <2>1
  <2>5. ASSUME NEW k \in 0..((n + 1) - 1) PROVE h[k + 1] = step[<<k, h[k]>>]
    <3>1. k \in 0..n /\ k + 1 \in 0..(n + 1) /\ k \in 0..(n + 1)
      OBVIOUS
    <3>2. h[k] = g[k]
      BY <3>1
    <3>3. CASE k = n
      BY <3>1, <3>2, <3>3
    <3>4. CASE k # n
      <4>1. k \in 0..(n - 1) /\ h[k + 1] = g[k + 1]
        BY <3>1, <3>4
      <4>2. QED
        BY <2>1, <3>2, <4>1
    <3>5. QED
      BY <3>3, <3>4
  <2> HIDE DEF h
  <2>6. h \in Upto(n + 1)
    BY <2>3, <2>4, <2>5
  <2>7. n + 1 \in Nat
    OBVIOUS
  <2> HIDE DEF Upto
  <2>8. QED
    BY <2>6, <2>7
<1>3. Nat \subseteq T
  <2> HIDE DEF T
  <2>1. QED
    BY <1>1, <1>2, AllNumbers
<1>4. ASSUME NEW n \in Nat, NEW m \in Nat, NEW g \in Upto(n), NEW h \in Upto(m)
      PROVE  \A k \in Nat : k <= n /\ k <= m => g[k] = h[k]
  <2> DEFINE A == {k \in Nat : k <= n /\ k <= m => g[k] = h[k]}
  <2>1. 0 \in A
    OBVIOUS
  <2>2. ASSUME NEW k \in Nat, k \in A PROVE k + 1 \in A
    <3> SUFFICES ASSUME k + 1 <= n, k + 1 <= m PROVE g[k + 1] = h[k + 1]
      OBVIOUS
    <3>1. k \in 0..(n - 1) /\ k \in 0..(m - 1) /\ g[k] = h[k]
      BY <2>2
    <3>2. g[k + 1] = step[<<k, g[k]>>] /\ h[k + 1] = step[<<k, h[k]>>]
      BY <3>1
    <3>3. QED
      BY <3>1, <3>2
  <2>3. Nat \subseteq A
    <3> HIDE DEF A
    <3>1. QED
      BY <2>1, <2>2, AllNumbers
  <2>4. QED
    BY <2>3
<1> DEFINE f == [n \in Nat |-> (CHOOSE g : g \in Upto(n))[n]]
<1>5. \A n \in Nat : (CHOOSE g : g \in Upto(n)) \in Upto(n)
  BY <1>3
<1>6. ASSUME NEW n \in Nat, NEW g \in Upto(n), NEW k \in 0..n PROVE g[k] = f[k]
  <2> DEFINE h == CHOOSE h : h \in Upto(k)
  <2>1. k \in Nat /\ f[k] = h[k]
    OBVIOUS
  <2> HIDE DEF f, Upto
  <2>3. h \in Upto(k)
    BY <1>5, <2>1
  <2> HIDE DEF h
  <2>2. QED
    BY <1>4, <2>1, <2>3
<1>7. ASSUME NEW n \in Nat
      PROVE  f[n] \in S /\ f[0] = base /\ f[n + 1] = step[<<n, f[n]>>]
  <2>1. PICK g \in Upto(n + 1) : TRUE
    <3>1. n + 1 \in Nat
      OBVIOUS
    <3> HIDE DEF Upto
    <3>2. QED
      BY <1>5, <3>1
  <2>2. g[0] = f[0] /\ g[n] = f[n] /\ g[n + 1] = f[n + 1]
    <3>1. n + 1 \in Nat /\ 0 \in 0..(n + 1) /\ n \in 0..(n + 1) /\ n + 1 \in 0..(n + 1)
      OBVIOUS
    <3> HIDE DEF f, Upto
    <3>2. QED
      BY <1>6, <3>1
  <2>3. g[0] = base /\ g[n] \in S /\ g[n + 1] = step[<<n, g[n]>>]
    BY <2>1
  <2>4. QED
    BY <2>2, <2>3
<1>8. f \in [Nat -> S]
  <2>1. \A n \in Nat : f[n] \in S
    BY <1>7
  <2> HIDE DEF Upto
  <2>2. QED
    BY <2>1
<1>9. QED
  <2> HIDE DEF f
  <2>1. QED
    BY <1>7, <1>8 DEF Recursive

(* A set of numbers with an upper bound has a greatest one. *)
LEMMA GreatestNumber ==
    ASSUME NEW b \in Nat, NEW T, T \subseteq 0..b, T # {}
    PROVE  \E x \in T : \A y \in T : y <= x
<1> DEFINE S == {b - x : x \in T}
           R == OpToRel(<, Nat)
<1>1. S \subseteq Nat /\ S # {}
  <2>1. \A x \in T : x \in 0..b
    OBVIOUS
  <2>2. \A x \in 0..b : b - x \in Nat
    OBVIOUS
  <2>3. QED
    BY <2>1, <2>2, Zenon
<1>2. \E x \in S : \A y \in S : <<y, x>> \notin R
  BY <1>1, NatLessThanWellFounded, WFMin, Zenon
<1>3. \A x, y \in Nat : y < x => <<y, x>> \in R
  BY DEF OpToRel
<1> HIDE DEF R
<1>4. PICK n \in S : \A m \in S : ~(m < n)
  BY <1>1, <1>2, <1>3
<1>5. PICK x \in T : n = b - x
  BY <1>4
<1>6. \A y \in T : y <= x
  <2> TAKE y \in T
  <2>1. b - y \in S /\ y \in Nat /\ x \in Nat
    OBVIOUS
  <2> HIDE DEF S
  <2>2. ~(b - y < b - x)
    BY <1>4, <1>5, <2>1
  <2>3. QED
    BY <2>1, <2>2
<1>7. QED
  BY <1>6

-----------------------------------------------------------------------------
(* The vectors of an embedding.                                            *)

(* Where no vector is missing, each comes from an item that names its index.  *)
LEMMA PlacedItems ==
    ASSUME NEW its, NEW n \in Nat, DOMAIN its = 1..n, Complete(Placed(its)),
           NEW i \in 0 .. Texts-1
    PROVE  /\ Placed(its)[i] \in DOMAIN its
           /\ its[Placed(its)[i]].index = i
<1> DEFINE for == {k \in DOMAIN its : its[k].index = i}
<1>1. Placed(its)[i] = IF for = {} THEN 0 ELSE CHOOSE k \in for : \A m \in for : m <= k
  BY DEF Placed
<1>2. Placed(its)[i] # 0
  BY DEF Complete, Placed
<1>3. for # {} /\ for \subseteq 0..n
  BY <1>1, <1>2
<1>4. \E k \in for : \A m \in for : m <= k
  <2> HIDE DEF for
  <2>1. QED
    BY <1>3, GreatestNumber
<1>5. Placed(its)[i] \in for
  BY <1>1, <1>3, <1>4
<1>6. QED
  BY <1>5

(* A result stands once the call has returned; only a stream is streamed.     *)
ResultInv ==
    /\ outcome # "none" => pc = "returned"
    /\ pc = "stream" => call.op = "stream"
    /\ VectorsMatchTexts

LEMMA EmbedMatches == ASSUME ResultInv, Embed PROVE ResultInv'
<1>1. PICK n \in 0 .. MaxItems : items' \in [1 .. n -> [index : -1 .. Texts, full : BOOLEAN]]
  BY DEF Embed
<1>2. n \in Nat /\ DOMAIN items' = 1..n
  BY <1>1
<1>3. call' = call /\ pc' = "returned"
  BY DEF Embed, Succeed, Fail
<1>4. CASE outcome' # "ok"
  BY <1>3, <1>4 DEF ResultInv, VectorsMatchTexts
<1>5. CASE outcome' = "ok"
  <2>1. /\ \A k \in DOMAIN items' : items'[k].full
        /\ Complete(Placed(items'))
        /\ result' = [NoResult EXCEPT !.vectors = Placed(items')]
    BY <1>5 DEF Embed, Fail, Succeed
  <2>2. result'.vectors = Placed(items')
    BY <2>1 DEF NoResult
  <2>3. ASSUME NEW i \in 0 .. Texts-1
        PROVE  /\ result'.vectors[i] \in DOMAIN items'
               /\ items'[result'.vectors[i]].index = i
               /\ items'[result'.vectors[i]].full
    BY <1>2, <2>1, <2>2, PlacedItems
  <2>4. QED
    BY <1>3, <2>3 DEF ResultInv, VectorsMatchTexts
<1>6. QED
  BY <1>4, <1>5

LEMMA OthersKeepResult ==
    ASSUME ResultInv, [Next]_vars, ~Embed PROVE ResultInv'
<1> USE DEF ResultInv, VectorsMatchTexts
<1>1. CASE UNCHANGED vars
  BY <1>1 DEF vars, retrying, streaming, returned
<1>2. CASE Start \/ PauseCut \/ DoFails \/ ReadFails \/ Turned \/ Useless \/ StreamBreaks
  BY <1>2 DEF Start, PauseCut, DoFails, ReadFails, Turned, Useless, StreamBreaks,
              RetryLater, RetryNow, Fail, retrying, streaming, returned
<1>3. CASE Send \/ PauseOver
  BY <1>3 DEF Send, PauseOver, retrying, streaming, returned
<1>4. CASE Answer
  BY <1>4 DEF Answer, retrying, returned
<1>5. CASE Chat \/ StreamEnds
  BY <1>5 DEF Chat, StreamEnds, Succeed
<1>6. CASE Event
  BY <1>6 DEF Event, Fail, retrying, returned
<1>7. CASE Tick \/ CallerCancels
  BY <1>7 DEF Tick, CallerCancels, retrying, streaming, returned
<1>8. QED
  BY <1>1, <1>2, <1>3, <1>4, <1>5, <1>6, <1>7 DEF Next, Returned

(* A successful embedding has for every text a vector the server gave for     *)
(* that text (embedding answers are placed by index and checked for gaps).    *)
THEOREM VectorsAreTheTexts == Spec => []VectorsMatchTexts
<1>1. Init => ResultInv
  BY DEF Init, ResultInv, VectorsMatchTexts
<1>2. ResultInv /\ [Next]_vars => ResultInv'
  BY EmbedMatches, OthersKeepResult
<1>3. ResultInv => VectorsMatchTexts
  BY DEF ResultInv
<1>4. QED
  BY <1>1, <1>2, <1>3, PTL DEF Spec

-----------------------------------------------------------------------------
(* The delays.                                                             *)

LEMMA PauseType == ASSUME call.base \in Nat PROVE Pause \in 1 .. Cap /\ Cap \in Nat
BY ProviderAssumption DEF Pause

(* The loop of retryDelay, unrolled.                                       *)
LEMMA DelaySteps ==
    ASSUME Pause \in Nat
    PROVE  /\ RetryDelay(0) = Pause
           /\ \A n \in Nat : /\ RetryDelay(n) \in Nat
                             /\ RetryDelay(n + 1) = IF 2 * RetryDelay(n) >= Cap THEN Cap
                                                    ELSE 2 * RetryDelay(n)
<1> DEFINE longer(d) == IF 2 * d >= Cap THEN Cap ELSE 2 * d
           Body(t) == [k \in Nat |-> IF k = 0 THEN Pause ELSE longer(t[k-1])]
           step == [p \in Nat \X Nat |-> longer(p[2])]
           delay == CHOOSE t : t = Body(t)
           S == Nat
<1>1. Cap \in Nat
  BY ProviderAssumption
<1>2. step \in [Nat \X S -> S] /\ Pause \in S
  BY <1>1
<1>3. \A n, d \in Nat : step[<<n, d>>] = longer(d)
  OBVIOUS
<1>4. \E t : t = Body(t)
  <2> HIDE DEF step, S
  <2>1. PICK f \in [Nat -> S] : Recursive(f, Pause, step)
    BY <1>2, Recursion, Zenon
  <2>2. \A n \in Nat : f[n] \in Nat /\ f[0] = Pause /\ f[n + 1] = step[<<n, f[n]>>]
    BY <2>1 DEF S, Recursive
  <2> HIDE DEF longer
  <2>3. \A n \in Nat : f[n + 1] = longer(f[n])
    BY <1>3, <2>2
  <2>4. \A k \in Nat : f[k] = IF k = 0 THEN Pause ELSE longer(f[k-1])
    <3> TAKE k \in Nat
    <3>1. CASE k = 0
      BY <2>2, <3>1
    <3>2. CASE k # 0
      <4>1. k - 1 \in Nat /\ (k - 1) + 1 = k
        BY <3>2
      <4>2. QED
        BY <2>3, <3>2, <4>1
    <3>3. QED
      BY <3>1, <3>2
  <2>5. f = Body(f)
    BY <2>1, <2>4
  <2> HIDE DEF Body
  <2>6. QED
    BY <2>5
<1>5. delay = Body(delay)
  <2> HIDE DEF Body
  <2>1. QED
    BY <1>4
<1>6. \A n : RetryDelay(n) = delay[n]
  BY DEF RetryDelay
<1> HIDE DEF delay
<1>7. delay[0] = Pause /\ \A n \in Nat : delay[n + 1] = longer(delay[n])
  <2> HIDE DEF longer
  <2>1. \A k \in Nat : delay[k] = IF k = 0 THEN Pause ELSE longer(delay[k-1])
    BY <1>5
  <2>2. \A n \in Nat : n + 1 \in Nat /\ n + 1 # 0 /\ (n + 1) - 1 = n
    OBVIOUS
  <2>3. QED
    BY <2>1, <2>2
<1> DEFINE T == {n \in Nat : delay[n] \in Nat}
<1>8. Nat \subseteq T
  <2>1. 0 \in T
    BY <1>7
  <2>2. ASSUME NEW n \in Nat, n \in T PROVE n + 1 \in T
    <3>1. longer(delay[n]) \in Nat
      BY <1>1, <2>2
    <3>2. QED
      BY <1>7, <3>1
  <2> HIDE DEF T
  <2>3. QED
    BY <2>1, <2>2, AllNumbers
<1>9. QED
  BY <1>6, <1>7, <1>8

LEMMA DoubledSteps ==
    ASSUME Pause \in Nat
    PROVE  /\ Doubled[0] = Pause
           /\ \A n \in Nat : Doubled[n] \in Nat /\ Doubled[n + 1] = 2 * Doubled[n]
<1> DEFINE Body(t) == [n \in Nat |-> IF n = 0 THEN Pause ELSE 2 * t[n-1]]
           step == [p \in Nat \X Nat |-> 2 * p[2]]
           S == Nat
<1>1. step \in [Nat \X S -> S] /\ Pause \in S
  OBVIOUS
<1>2. \A n, d \in Nat : step[<<n, d>>] = 2 * d
  OBVIOUS
<1>3. \E t : t = Body(t)
  <2> HIDE DEF step, S
  <2>1. PICK f \in [Nat -> S] : Recursive(f, Pause, step)
    BY <1>1, Recursion, Zenon
  <2>2. \A n \in Nat : f[n] \in Nat /\ f[0] = Pause /\ f[n + 1] = step[<<n, f[n]>>]
    BY <2>1 DEF S, Recursive
  <2>3. \A n \in Nat : f[n + 1] = 2 * f[n]
    BY <1>2, <2>2
  <2>4. \A k \in Nat : f[k] = IF k = 0 THEN Pause ELSE 2 * f[k-1]
    <3> TAKE k \in Nat
    <3>1. CASE k = 0
      BY <2>2, <3>1
    <3>2. CASE k # 0
      <4>1. k - 1 \in Nat /\ (k - 1) + 1 = k
        BY <3>2
      <4>2. QED
        BY <2>3, <3>2, <4>1
    <3>3. QED
      BY <3>1, <3>2
  <2>5. f = Body(f)
    BY <2>1, <2>4
  <2> HIDE DEF Body
  <2>6. QED
    BY <2>5
<1>4. Doubled = Body(Doubled)
  <2>1. Doubled = CHOOSE t : t = Body(t)
    BY DEF Doubled
  <2> HIDE DEF Body
  <2>2. QED
    BY <1>3, <2>1
<1>5. Doubled[0] = Pause /\ \A n \in Nat : Doubled[n + 1] = 2 * Doubled[n]
  <2>1. \A k \in Nat : Doubled[k] = IF k = 0 THEN Pause ELSE 2 * Doubled[k-1]
    BY <1>4
  <2>2. \A n \in Nat : n + 1 \in Nat /\ n + 1 # 0 /\ (n + 1) - 1 = n
    OBVIOUS
  <2>3. QED
    BY <2>1, <2>2
<1> DEFINE T == {n \in Nat : Doubled[n] \in Nat}
<1>6. Nat \subseteq T
  <2>1. 0 \in T
    BY <1>5
  <2>2. ASSUME NEW n \in Nat, n \in T PROVE n + 1 \in T
    <3>1. 2 * Doubled[n] \in Nat
      BY <2>2
    <3>2. QED
      BY <1>5, <3>1
  <2> HIDE DEF T
  <2>3. QED
    BY <2>1, <2>2, AllNumbers
<1>7. QED
  BY <1>5, <1>6

(* The code's delay is the exact one, cut at the cap.                      *)
Capped(d) == IF d > Cap THEN Cap ELSE d

LEMMA DelayIsCapped ==
    ASSUME call.base \in Nat, NEW n \in Nat
    PROVE  RetryDelay(n) = Capped(Doubled[n]) /\ RetryDelay(n) \in Nat /\ Doubled[n] \in Nat
<1>1. Pause \in 1 .. Cap /\ Pause \in Nat /\ Cap \in Nat
  BY PauseType
<1> DEFINE T == {k \in Nat : RetryDelay(k) = Capped(Doubled[k])}
<1>2. Nat \subseteq T
  <2>1. 0 \in T
    BY <1>1, DelaySteps, DoubledSteps DEF Capped
  <2>2. ASSUME NEW k \in Nat, k \in T PROVE k + 1 \in T
    <3>1. /\ RetryDelay(k + 1) = IF 2 * RetryDelay(k) >= Cap THEN Cap ELSE 2 * RetryDelay(k)
          /\ RetryDelay(k) = Capped(Doubled[k])
          /\ Doubled[k] \in Nat /\ Doubled[k + 1] = 2 * Doubled[k]
      BY <1>1, <2>2, DelaySteps, DoubledSteps
    <3>2. RetryDelay(k + 1) = Capped(Doubled[k + 1])
      BY <1>1, <3>1 DEF Capped
    <3>3. QED
      BY <3>2
  <2> HIDE DEF T
  <2>3. QED
    BY <2>1, <2>2, AllNumbers
<1>3. QED
  BY <1>1, <1>2, DelaySteps, DoubledSteps

LEMMA PausesSteps ==
    ASSUME call.base \in Nat
    PROVE  /\ ExponentialPauses[0] = 0
           /\ \A n \in Nat :
                 /\ ExponentialPauses[n] \in Nat
                 /\ ExponentialPauses[n + 1] = ExponentialPauses[n] + RetryDelay(n)
<1> DEFINE Body(t) == [n \in Nat |->
              IF n = 0 THEN 0
              ELSE t[n-1] + IF Doubled[n-1] > Cap THEN Cap ELSE Doubled[n-1]]
           step == [p \in Nat \X Nat |-> p[2] + RetryDelay(p[1])]
           S == Nat
<1>1. \A n \in Nat : /\ RetryDelay(n) = IF Doubled[n] > Cap THEN Cap ELSE Doubled[n]
                     /\ RetryDelay(n) \in Nat
  BY DelayIsCapped DEF Capped
<1>2. step \in [Nat \X S -> S] /\ 0 \in S
  BY <1>1
<1>3. \A n, d \in Nat : step[<<n, d>>] = d + RetryDelay(n)
  OBVIOUS
<1>4. \E t : t = Body(t)
  <2> HIDE DEF step, S
  <2>1. PICK f \in [Nat -> S] : Recursive(f, 0, step)
    BY <1>2, Recursion, Zenon
  <2>2. \A n \in Nat : f[n] \in Nat /\ f[0] = 0 /\ f[n + 1] = step[<<n, f[n]>>]
    BY <2>1 DEF S, Recursive
  <2>3. \A n \in Nat : f[n + 1] = f[n] + RetryDelay(n)
    BY <1>3, <2>2
  <2>4. \A k \in Nat : f[k] = IF k = 0 THEN 0 ELSE f[k-1] + RetryDelay(k-1)
    <3> TAKE k \in Nat
    <3>1. CASE k = 0
      BY <2>2, <3>1
    <3>2. CASE k # 0
      <4>1. k - 1 \in Nat /\ (k - 1) + 1 = k
        BY <3>2
      <4>2. QED
        BY <2>3, <3>2, <4>1
    <3>3. QED
      BY <3>1, <3>2
  <2>5. \A k \in Nat : f[k] = Body(f)[k]
    <3> TAKE k \in Nat
    <3>1. k # 0 => k - 1 \in Nat
      OBVIOUS
    <3>2. QED
      BY <1>1, <2>4, <3>1
  <2>6. f = Body(f)
    <3>1. f = [k \in Nat |-> f[k]] /\ Body(f) = [k \in Nat |-> Body(f)[k]]
      BY <2>1
    <3> HIDE DEF Body
    <3>2. QED
      BY <2>5, <3>1
  <2> HIDE DEF Body
  <2>7. QED
    BY <2>6
<1>5. ExponentialPauses = Body(ExponentialPauses)
  <2>1. ExponentialPauses = CHOOSE t : t = Body(t)
    BY DEF ExponentialPauses
  <2> HIDE DEF Body
  <2>2. QED
    BY <1>4, <2>1
<1>6. /\ ExponentialPauses[0] = 0
      /\ \A n \in Nat : ExponentialPauses[n + 1] = ExponentialPauses[n] + RetryDelay(n)
  <2>1. \A k \in Nat : ExponentialPauses[k] =
           IF k = 0 THEN 0
           ELSE ExponentialPauses[k-1] + IF Doubled[k-1] > Cap THEN Cap ELSE Doubled[k-1]
    BY <1>5
  <2>2. \A n \in Nat : n + 1 \in Nat /\ n + 1 # 0 /\ (n + 1) - 1 = n
    OBVIOUS
  <2>3. QED
    BY <1>1, <2>1, <2>2
<1> DEFINE T == {n \in Nat : ExponentialPauses[n] \in Nat}
<1>7. Nat \subseteq T
  <2>1. 0 \in T
    BY <1>6
  <2>2. ASSUME NEW n \in Nat, n \in T PROVE n + 1 \in T
    <3>1. ExponentialPauses[n] + RetryDelay(n) \in Nat
      BY <1>1, <2>2
    <3>2. QED
      BY <1>6, <3>1
  <2> HIDE DEF T
  <2>3. QED
    BY <2>1, <2>2, AllNumbers
<1>8. QED
  BY <1>6, <1>7

-----------------------------------------------------------------------------
(* Type correctness.                                                       *)

LEMMA CallSettled ==
    ASSUME call \in [op : {"chat", "stream", "embed"}, retries : Retries, base : Backoffs]
    PROVE  call.base \in Nat /\ call.retries \in Int
BY ProviderAssumption

TypeInv ==
    /\ TypeOK
    /\ server = [reply |-> server.reply, text |-> server.text, frags |-> server.frags]

(* What an attempt that fails leaves: an error, a pause, or, for an        *)
(* embedding whose body broke off, the next attempt at once.               *)
Failed(where) ==
    /\ pc = where
    /\ UNCHANGED <<call, clock, ended, status, streaming, items, requests>>
    /\ \/ Fail
       \/ /\ MayRetry /\ pc' = "pause" /\ wake' = clock + RetryDelay(attempt)
          /\ UNCHANGED <<attempt, returned>>
          /\ where \in {"await", "body"}
       \/ /\ MayRetry /\ pc' = "send" /\ attempt' = attempt + 1 /\ UNCHANGED <<wake, returned>>
          /\ where = "body" /\ call.op = "embed"

LEMMA Unsuccessful ==
    ASSUME PauseCut \/ DoFails \/ ReadFails \/ Turned \/ Useless \/ StreamBreaks
    PROVE  \E where \in {"pause", "await", "body", "stream"} : Failed(where)
<1>1. CASE PauseCut
  BY <1>1 DEF PauseCut, Failed
<1>2. CASE DoFails
  BY <1>2 DEF DoFails, Failed, RetryLater
<1>3. CASE ReadFails
  BY <1>3 DEF ReadFails, Failed, RetryLater, RetryNow
<1>4. CASE Turned
  BY <1>4 DEF Turned, Failed, RetryLater
<1>5. CASE Useless
  BY <1>5 DEF Useless, Failed
<1>6. CASE StreamBreaks
  BY <1>6 DEF StreamBreaks, Failed
<1>7. QED
  BY <1>1, <1>2, <1>3, <1>4, <1>5, <1>6

LEMMA TypeInit == Init => TypeInv
<1> SUFFICES ASSUME Init PROVE TypeInv
  OBVIOUS
<1>1. server = Silence /\ server = [reply |-> server.reply, text |-> server.text, frags |-> server.frags]
  BY DEF Init, Silence
<1>2. DOMAIN server.frags = DOMAIN server.reply.calls
  <2>1. server.frags = <<>> /\ server.reply.calls = <<>>
    BY <1>1 DEF Silence
  <2>2. QED
    BY <2>1
<1>3. server.reply \in Replies \union {Silence.reply}
  BY <1>1
<1>4. {ended, finished} \subseteq BOOLEAN
  BY DEF Init
<1>5. QED
  BY <1>1, <1>2, <1>3, <1>4 DEF Init, TypeInv, TypeOK

LEMMA TypeStep == ASSUME TypeInv, [Next]_vars PROVE TypeInv'
<1> USE DEF TypeInv, TypeOK
<1>0. call.base \in Nat /\ clock \in Nat /\ attempt \in Nat /\ RetryDelay(attempt) \in Nat
  BY CallSettled, DelayIsCapped
<1>1. CASE UNCHANGED vars \/ Returned
  BY <1>1 DEF Returned, vars, retrying, streaming, returned
<1>2. CASE Start \/ Send \/ PauseOver
  BY <1>2 DEF Start, Send, PauseOver, Fail, retrying, streaming, returned
<1>3. CASE \E where \in {"pause", "await", "body", "stream"} : Failed(where)
  BY <1>0, <1>3 DEF Failed, Fail, retrying, streaming, returned
<1>4. CASE Answer
  <2>1. PICK reply \in Replies \union {Silence.reply} :
           server' = [reply |-> reply, text |-> 0, frags |-> [k \in DOMAIN reply.calls |-> 0]]
    BY <1>4 DEF Answer
  <2>2. /\ server'.reply = reply
        /\ server' = [reply |-> server'.reply, text |-> server'.text, frags |-> server'.frags]
        /\ DOMAIN server'.frags = DOMAIN server'.reply.calls
    BY <2>1
  <2>3. QED
    BY <1>4, <2>2 DEF Answer, retrying, returned
<1>5. CASE Chat \/ Embed
  BY <1>5 DEF Chat, Embed, Succeed, Fail, retrying, streaming, returned
<1>6. CASE Event
  <2>1. /\ server'.reply = server.reply
        /\ server' = [reply |-> server'.reply, text |-> server'.text, frags |-> server'.frags]
        /\ DOMAIN server'.frags = DOMAIN server.frags
    BY <1>6 DEF Event
  <2>2. /\ pc # "returned"
        /\ Fail \/ UNCHANGED <<pc, retrying, returned>>
        /\ UNCHANGED <<call, clock, ended, status, finished, items, requests>>
    BY <1>6 DEF Event
  <2>3. QED
    BY <2>1, <2>2 DEF Fail, retrying, returned
<1>7. CASE StreamEnds
  <2>1. AllSent \in BOOLEAN
    BY DEF AllSent
  <2>2. QED
    BY <1>7, <2>1 DEF StreamEnds, Succeed, retrying
<1>8. CASE Tick \/ CallerCancels
  <2>1. ended' \in BOOLEAN
    BY <1>8, Zenon DEF Tick, CallerCancels
  <2>2. clock' \in Nat
    BY <1>0, <1>8 DEF Tick, CallerCancels
  <2>3. UNCHANGED <<call, pc, retrying, status, streaming, items, requests, returned>>
    BY <1>8 DEF Tick, CallerCancels
  <2>4. QED
    BY <2>1, <2>2, <2>3 DEF retrying, streaming, returned
<1>9. QED
  BY <1>1, <1>2, <1>3, <1>4, <1>5, <1>6, <1>7, <1>8, Unsuccessful DEF Next

(* A call's bookkeeping keeps its types; it has an outcome exactly when it    *)
(* has returned, and a result only with a success (complete, streamChat and   *)
(* embed return one or the other).                                            *)
THEOREM TypeCorrect == Spec => []TypeOK
<1>1. TypeInv /\ [Next]_vars => TypeInv'
  BY TypeStep
<1>2. TypeInv => TypeOK
  BY DEF TypeInv
<1>3. QED
  BY <1>1, <1>2, TypeInit, PTL DEF Spec

-----------------------------------------------------------------------------
(* Requests and pauses.                                                    *)

(* The request of the current attempt counts from its sending; a pause is  *)
(* taken only before an attempt that will be made, and the clock has       *)
(* passed the pauses before the current attempt.                           *)
RetryInv ==
    /\ attempt <= 0 \/ attempt <= call.retries
    /\ requests <= attempt + (IF pc \in {"start", "send"} THEN 0 ELSE 1)
    /\ pc = "pause" => attempt < call.retries
    /\ call.op # "embed" => /\ clock >= ExponentialPauses[attempt]
                            /\ pc = "pause" => wake >= ExponentialPauses[attempt + 1]

LEMMA RetryStep == ASSUME TypeInv, RetryInv, [Next]_vars PROVE RetryInv'
<1> USE DEF RetryInv
<1>0. /\ call.base \in Nat /\ call.retries \in Int
      /\ clock \in Nat /\ attempt \in Nat /\ wake \in Nat /\ requests \in Nat
  BY CallSettled DEF TypeInv, TypeOK
<1>1. /\ RetryDelay(attempt) \in Nat /\ ExponentialPauses[attempt] \in Nat
      /\ ExponentialPauses[attempt + 1] \in Nat
      /\ ExponentialPauses[attempt + 1] = ExponentialPauses[attempt] + RetryDelay(attempt)
  BY <1>0, DelayIsCapped, PausesSteps
<1>2. call' = call /\ ExponentialPauses' = ExponentialPauses
  <2>1. call' = call
    <3>1. CASE Start \/ Send \/ PauseOver \/ Answer \/ Chat \/ Embed \/ Event \/ StreamEnds
      BY <3>1, Zenon DEF Start, Send, PauseOver, Answer, Chat, Embed, Event, StreamEnds
    <3>2. CASE \E where \in {"pause", "await", "body", "stream"} : Failed(where)
      BY <3>2 DEF Failed
    <3>3. CASE Tick \/ CallerCancels \/ Returned \/ UNCHANGED vars
      BY <3>3 DEF Tick, CallerCancels, Returned, vars
    <3>4. QED
      BY <3>1, <3>2, <3>3, Unsuccessful DEF Next
  <2>2. Pause' = Pause
    BY <2>1 DEF Pause
  <2>3. Doubled' = Doubled
    BY <2>2 DEF Doubled
  <2>4. QED
    BY <2>1, <2>3 DEF ExponentialPauses
<1>3. CASE UNCHANGED vars \/ Returned
  BY <1>2, <1>3 DEF Returned, vars
<1>4. CASE Start \/ Send
  BY <1>0, <1>2, <1>4 DEF Start, Send, Fail, retrying
<1>5. CASE PauseOver
  <2>1. /\ pc = "pause" /\ clock >= wake /\ pc' = "send" /\ attempt' = attempt + 1
        /\ UNCHANGED <<call, wake, clock, requests>>
    BY <1>5 DEF PauseOver
  <2>2. QED
    BY <1>0, <1>1, <1>2, <2>1
<1>6. CASE \E where \in {"pause", "await", "body", "stream"} : Failed(where)
  <2>1. CASE Fail /\ UNCHANGED <<call, clock, requests>>
    BY <1>0, <1>2, <2>1 DEF Fail, retrying
  <2>2. CASE /\ MayRetry /\ pc' = "pause" /\ wake' = clock + RetryDelay(attempt)
             /\ pc \in {"await", "body"}
             /\ UNCHANGED <<call, clock, requests, attempt>>
    BY <1>0, <1>1, <1>2, <2>2 DEF MayRetry
  <2>3. CASE /\ MayRetry /\ pc' = "send" /\ attempt' = attempt + 1
             /\ pc = "body" /\ call.op = "embed"
             /\ UNCHANGED <<call, clock, requests>>
    BY <1>0, <1>2, <2>3 DEF MayRetry
  <2>4. QED
    BY <1>6, <2>1, <2>2, <2>3 DEF Failed
<1>7. CASE Answer
  BY <1>0, <1>2, <1>7 DEF Answer, retrying
<1>8. CASE Chat \/ Embed \/ StreamEnds
  BY <1>0, <1>2, <1>8 DEF Chat, Embed, StreamEnds, Succeed, Fail, retrying
<1>9. CASE Event
  <2>1. /\ pc = "stream"
        /\ Fail \/ UNCHANGED <<pc, retrying, returned>>
        /\ UNCHANGED <<call, clock, requests>>
    BY <1>9 DEF Event
  <2>2. QED
    BY <1>0, <1>2, <2>1 DEF Fail, retrying
<1>10. CASE Tick \/ CallerCancels
  <2>1. UNCHANGED <<call, pc, attempt, wake, requests>> /\ clock' \in {clock, clock + 1}
    BY <1>10 DEF Tick, CallerCancels, retrying
  <2>2. QED
    BY <1>0, <1>1, <1>2, <2>1
<1>11. QED
  BY <1>3, <1>4, <1>5, <1>6, <1>7, <1>8, <1>9, <1>10, Unsuccessful DEF Next

(* Retries are bounded and paced: whatever the server does, a call sends at   *)
(* most 1 + MaxRetries requests, and a chat or a stream has waited out the    *)
(* exponential backoff before each of them (maxRetries, retryDelay and the    *)
(* loops of complete and streamChat).                                         *)
THEOREM RetriesArePaced == Spec => []RetriesPaced
<1>1. Init => RetryInv
  <2>1. ASSUME Init PROVE call.base \in Nat
    BY <2>1, CallSettled DEF Init
  <2>2. ASSUME Init PROVE ExponentialPauses[0] = 0
    BY <2>1, <2>2, PausesSteps, Zenon
  <2>3. ASSUME Init PROVE RetryInv
    <3>1. ExponentialPauses[0] = 0 /\ attempt = 0 /\ requests = 0 /\ clock = 0 /\ pc = "start"
      BY <2>2, <2>3 DEF Init
    <3>2. QED
      BY <3>1 DEF RetryInv
  <2>4. QED
    BY <2>3
<1>2. (TypeInv /\ RetryInv) /\ [Next]_vars => (TypeInv /\ RetryInv)'
  BY TypeStep, RetryStep
<1>3. TypeInv /\ RetryInv => RetriesPaced
  <2> SUFFICES ASSUME TypeInv, RetryInv PROVE RetriesPaced
    OBVIOUS
  <2>1. call.retries \in Int /\ attempt \in Nat /\ requests \in Nat
    BY CallSettled DEF TypeInv, TypeOK
  <2>2. QED
    BY <2>1 DEF RetryInv, RetriesPaced
<1>4. QED
  BY <1>1, <1>2, <1>3, TypeInit, PTL DEF Spec

-----------------------------------------------------------------------------
(* Increasing enumerations.                                                *)

LEMMA Counted ==
    ASSUME NEW n \in Nat, NEW S, NEW e \in [1..n -> S],
           \A i, j \in 1..n : i # j => e[i] # e[j],
           \A x \in S : \E i \in 1..n : x = e[i]
    PROVE  Cardinality(S) = n
<1>1. IsFiniteSet(1..n) /\ Cardinality(1..n) = n
  BY FS_Interval
<1>2. e \in Injection(1..n, S) /\ e \in Surjection(1..n, S)
  BY DEF Injection, IsInjective, Surjection
<1>3. ExistsBijection(1..n, S)
  BY <1>2 DEF ExistsBijection, Bijection
<1>4. QED
  BY <1>1, <1>3, FS_Bijection

(* A strictly increasing map of 1..n into itself is the identity: it can   *)
(* fall below the identity nowhere, nor rise above it.                     *)
LEMMA IncreasingIsIdentity ==
    ASSUME NEW n \in Nat, NEW g \in [1..n -> 1..n],
           \A i, j \in 1..n : i < j => g[i] < g[j]
    PROVE  \A k \in 1..n : g[k] = k
<1> DEFINE Low == {k \in Nat : k \in 1..n => g[k] >= k}
           High == {d \in Nat : n - d \in 1..n => g[n - d] <= n - d}
<1>1. Nat \subseteq Low
  <2>1. 0 \in Low
    OBVIOUS
  <2>2. ASSUME NEW k \in Nat, k \in Low PROVE k + 1 \in Low
    <3> SUFFICES ASSUME k + 1 \in 1..n PROVE g[k + 1] >= k + 1
      OBVIOUS
    <3>1. CASE k = 0
      BY <3>1
    <3>2. CASE k # 0
      <4>1. k \in 1..n /\ k < k + 1
        BY <3>2
      <4>2. g[k] >= k /\ g[k] < g[k + 1]
        BY <2>2, <4>1
      <4>3. g[k] \in Nat /\ g[k + 1] \in Nat
        BY <4>1
      <4>4. \A a, b \in Nat : a >= k /\ a < b => b >= k + 1
        OBVIOUS
      <4>5. QED
        BY <4>2, <4>3, <4>4, Zenon
    <3>3. QED
      BY <3>1, <3>2
  <2> HIDE DEF Low
  <2>3. QED
    BY <2>1, <2>2, AllNumbers
<1>2. Nat \subseteq High
  <2>1. 0 \in High
    OBVIOUS
  <2>2. ASSUME NEW d \in Nat, d \in High PROVE d + 1 \in High
    <3> SUFFICES ASSUME n - (d + 1) \in 1..n PROVE g[n - (d + 1)] <= n - (d + 1)
      OBVIOUS
    <3>1. n - d \in 1..n /\ n - (d + 1) < n - d
      OBVIOUS
    <3>2. g[n - d] <= n - d /\ g[n - (d + 1)] < g[n - d]
      BY <2>2, <3>1
    <3>3. g[n - d] \in Nat /\ g[n - (d + 1)] \in Nat
      BY <3>1
    <3>4. \A a, b \in Nat : a <= n - d /\ b < a => b <= n - (d + 1)
      OBVIOUS
    <3>5. QED
      BY <3>2, <3>3, <3>4, Zenon
  <2> HIDE DEF High
  <2>3. QED
    BY <2>1, <2>2, AllNumbers
<1>3. ASSUME NEW k \in 1..n PROVE g[k] = k
  <2>1. k \in Nat /\ n - k \in Nat /\ n - (n - k) = k /\ g[k] \in Nat
    OBVIOUS
  <2>2. g[k] >= k
    BY <1>1, <2>1
  <2>3. g[k] <= k
    <3>1. n - k \in High
      BY <1>2, <2>1
    <3>2. g[n - (n - k)] <= n - (n - k)
      BY <2>1, <3>1
    <3>3. QED
      BY <2>1, <3>2
  <2>4. QED
    BY <2>1, <2>2, <2>3
<1>4. QED
  BY <1>3

(* What sort.Ints returns for a set of indexes given in ascending order.   *)
LEMMA SortedIsTheEnumeration ==
    ASSUME NEW n \in Nat, NEW S, S \subseteq Int, NEW e \in [1..n -> S],
           \A i, j \in 1..n : i < j => e[i] < e[j],
           \A x \in S : \E i \in 1..n : x = e[i]
    PROVE  Sorted(S) = e
<1> DEFINE Ascends(s) == \A i, j \in DOMAIN s : i < j => s[i] < s[j]
           t == Sorted(S)
<1>1. \A i \in 1..n : e[i] \in Int
  OBVIOUS
<1>2. Cardinality(S) = n
  <2>1. \A i, j \in 1..n : i # j => e[i] # e[j]
    <3> TAKE i, j \in 1..n
    <3>1. i # j => i < j \/ j < i
      OBVIOUS
    <3>2. QED
      BY <1>1, <3>1
  <2>2. QED
    BY <2>1, Counted
<1>3. t \in [1..n -> S] /\ Ascends(t)
  <2>1. t = CHOOSE s \in [1..n -> S] : Ascends(s)
    BY <1>2 DEF Sorted
  <2>2. e \in [1..n -> S] /\ Ascends(e)
    OBVIOUS
  <2> HIDE DEF t, Ascends
  <2>3. QED
    BY <2>1, <2>2
<1> HIDE DEF t
<1> DEFINE g == [k \in 1..n |-> CHOOSE i \in 1..n : t[k] = e[i]]
<1>4. \A k \in 1..n : g[k] \in 1..n /\ t[k] = e[g[k]]
  <2> TAKE k \in 1..n
  <2>1. t[k] \in S
    BY <1>3
  <2>2. PICK i \in 1..n : t[k] = e[i]
    BY <2>1
  <2>3. QED
    BY <2>2
<1>5. g \in [1..n -> 1..n]
  BY <1>4
<1> HIDE DEF g
<1>6. \A i, j \in 1..n : i < j => g[i] < g[j]
  <2> TAKE i, j \in 1..n
  <2> SUFFICES ASSUME i < j, ~(g[i] < g[j]) PROVE FALSE
    OBVIOUS
  <2>1. e[g[i]] < e[g[j]]
    BY <1>3, <1>4
  <2>2. g[j] = g[i] \/ g[j] < g[i]
    BY <1>5
  <2>3. e[g[i]] \in Int /\ e[g[j]] \in Int
    BY <1>1, <1>4
  <2>4. QED
    BY <1>4, <2>1, <2>2, <2>3
<1>7. \A k \in 1..n : g[k] = k
  BY <1>5, <1>6, IncreasingIsIdentity
<1>8. t = e
  BY <1>3, <1>4, <1>7
<1>9. QED
  BY <1>8 DEF t

-----------------------------------------------------------------------------
(* A streamed reply.                                                       *)

Call == [index : Int, id : STRING, type : STRING, args : Seq(STRING)]

LEMMA ReplyTypes ==
    ASSUME NEW r \in Replies
    PROVE  /\ r.text \in Seq(STRING) /\ r.calls \in Seq(Call)
           /\ \A k \in DOMAIN r.calls : r.calls[k] \in Call /\ Len(r.calls[k].args) > 0
           /\ \A i, j \in DOMAIN r.calls : i < j => r.calls[i].index < r.calls[j].index
           /\ \A i, j \in DOMAIN r.calls : r.calls[i].index = r.calls[j].index => i = j
<1>1. r \in Reply
  BY ReplyAssumption
<1>2. r.text \in Seq(STRING) /\ r.calls \in Seq(Call)
  BY <1>1 DEF Reply, Call
<1>3. \A k \in DOMAIN r.calls : r.calls[k] \in Call /\ k \in Int
  BY <1>2
<1>4. \A k \in DOMAIN r.calls : r.calls[k].args # <<>>
  BY ReplyAssumption
<1>5. \A k \in DOMAIN r.calls : Len(r.calls[k].args) > 0
  <2> TAKE k \in DOMAIN r.calls
  <2>1. r.calls[k].args \in Seq(STRING) /\ r.calls[k].args # <<>>
    BY <1>3, <1>4 DEF Call
  <2>2. QED
    BY <2>1, EmptySeq, LenProperties
<1>6. \A i, j \in DOMAIN r.calls : i < j => r.calls[i].index < r.calls[j].index
  BY ReplyAssumption
<1>7. \A i, j \in DOMAIN r.calls : r.calls[i].index = r.calls[j].index => i = j
  <2> TAKE i, j \in DOMAIN r.calls
  <2>1. r.calls[i].index \in Int /\ r.calls[j].index \in Int /\ i \in Int /\ j \in Int
    BY <1>3 DEF Call
  <2>2. i = j \/ i < j \/ j < i
    BY <2>1
  <2>3. QED
    BY <1>6, <2>1, <2>2
<1>8. QED
  BY <1>2, <1>3, <1>5, <1>6, <1>7

(* What is known of a call after its first n fragments.                    *)
Known(c, n) ==
  [id   |-> IF n = 0 THEN "" ELSE c.id,
   type |-> IF n = 0 THEN "" ELSE c.type,
   args |-> SubSeq(c.args, 1, n)]

(* One more fragment, whether or not it repeats the call's name.           *)
LEMMA MergeNext ==
    ASSUME NEW c \in Call, NEW n \in Nat, n < Len(c.args),
           NEW fragment \in Fragments(c, n)
    PROVE  Merge(Known(c, n), fragment) = Known(c, n + 1)
<1>1. c.args \in Seq(STRING)
  BY DEF Call
<1>2. SubSeq(c.args, 1, n) \o <<c.args[n + 1]>> = SubSeq(c.args, 1, n + 1)
  <2>1. 1 \in 1 .. Len(c.args) /\ n + 1 \in 1 .. Len(c.args) /\ (n + 1) - 1 = n
    BY <1>1
  <2>2. QED
    BY <1>1, <2>1, SubSeqRecursiveSecond
<1> DEFINE bare == [id |-> "", type |-> "", args |-> <<c.args[n+1]>>]
           full == [id |-> c.id, type |-> c.type, args |-> <<c.args[n+1]>>]
<1>3. fragment = full \/ (fragment = bare /\ n # 0)
  BY DEF Fragments
<1>4. n + 1 # 0
  OBVIOUS
<1>5. Merge(Known(c, n), fragment) =
         [id |-> c.id, type |-> c.type, args |-> SubSeq(c.args, 1, n) \o <<c.args[n+1]>>]
  <2>1. Merge(Known(c, n), full) =
           [id |-> c.id, type |-> c.type, args |-> SubSeq(c.args, 1, n) \o <<c.args[n+1]>>]
    BY DEF Merge, Known, FirstNonEmpty
  <2>2. n # 0 =>
          Merge(Known(c, n), bare) =
            [id |-> c.id, type |-> c.type, args |-> SubSeq(c.args, 1, n) \o <<c.args[n+1]>>]
    BY DEF Merge, Known, FirstNonEmpty
  <2> HIDE DEF full, bare
  <2>3. QED
    BY <1>3, <2>1, <2>2
<1>6. QED
  BY <1>2, <1>4, <1>5 DEF Known

(* While it lasts, a stream has assembled exactly what has been sent.      *)
Streamed ==
    /\ finished = FALSE
    /\ server.reply \in Replies
    /\ server.text \in 0 .. Len(server.reply.text)
    /\ content = SubSeq(server.reply.text, 1, server.text)
    /\ delivered = SubSeq(server.reply.text, 1, server.text)
    /\ \A k \in DOMAIN server.reply.calls :
          server.frags[k] \in 0 .. Len(server.reply.calls[k].args)
    /\ DOMAIN calls = {server.reply.calls[k].index :
                          k \in {k \in DOMAIN server.reply.calls : server.frags[k] > 0}}
    /\ \A k \in DOMAIN server.reply.calls :
          server.frags[k] > 0 =>
            calls[server.reply.calls[k].index] = Known(server.reply.calls[k], server.frags[k])

Unstreamed == content = <<>> /\ calls = <<>> /\ delivered = <<>> /\ finished = FALSE

StreamInv ==
    /\ pc \notin {"stream", "returned"} => Unstreamed
    /\ pc = "stream" => call.op = "stream" /\ Streamed
    /\ ReplyIntact

(* A cut of the text is a beginning of it.                                 *)
LEMMA CutIsPrefix ==
    ASSUME NEW s \in Seq(STRING), NEW n \in 0 .. Len(s)
    PROVE  IsPrefix(SubSeq(s, 1, n), s)
<1>1. Len(SubSeq(s, 1, n)) = n
  <2>1. \A i \in 1 .. n : s[i] \in STRING
    BY ElementOfSeq
  <2>2. n \in Int /\ (n - 1 + 1 = n)
    OBVIOUS
  <2>3. QED
    BY <2>1, <2>2, SubSeqProperties
<1>2. SubSeq(SubSeq(s, 1, n), 1, n) = SubSeq(s, 1, n)
  <2>1. SubSeq(s, 1, n) \in Seq(STRING)
    <3>1. \A i \in 1 .. n : s[i] \in STRING
      BY ElementOfSeq
    <3>2. QED
      BY <3>1, SubSeqProperties
  <2>2. QED
    BY <1>1, <2>1, SubSeqFull
<1>3. QED
  BY <1>1, <1>2 DEF IsPrefix

LEMMA NothingIsPrefix == ASSUME NEW s \in Seq(STRING) PROVE IsPrefix(<<>>, s)
<1>1. SubSeq(s, 1, 0) = <<>>
  BY SubSeqEmpty
<1>2. 0 \in 0 .. Len(s)
  BY LenProperties
<1>3. QED
  BY <1>1, <1>2, CutIsPrefix

(* An event adds the same piece of text to what is kept and shown.         *)
LEMMA EventText ==
    ASSUME TypeInv, Streamed, Event
    PROVE  /\ server'.reply = server.reply
           /\ server'.text \in 0 .. Len(server.reply.text)
           /\ content' = SubSeq(server.reply.text, 1, server'.text)
           /\ delivered' = SubSeq(server.reply.text, 1, server'.text)
<1> DEFINE text == server.reply.text
<1>1. text \in Seq(STRING) /\ server.text \in 0 .. Len(text)
  <2>1. server.reply \in Replies /\ server.text \in 0 .. Len(text)
    BY DEF Streamed
  <2>2. QED
    BY <2>1, ReplyTypes, ZenonT(60)
<1>2. PICK t \in {0, 1} :
         /\ server.text + t <= Len(text)
         /\ server'.reply = server.reply /\ server'.text = server.text + t
         /\ content' = content \o SubSeq(text, server.text + 1, server.text + t)
         /\ delivered' = delivered \o SubSeq(text, server.text + 1, server.text + t)
  BY ZenonT(60) DEF Event, TypeInv
<1>3. SubSeq(text, 1, server.text) \o SubSeq(text, server.text + 1, server.text + t)
        = SubSeq(text, 1, server.text + t)
  <2>1. /\ 1 \in 1 .. Len(text) + 1
        /\ server.text \in 1 - 1 .. Len(text)
        /\ server.text + t \in server.text .. Len(text)
    <3>1. Len(text) \in Nat /\ t \in Nat
      BY <1>1
    <3>2. \A n \in Nat : \A a \in 0 .. n, d \in Nat :
             a + d <= n => 1 \in 1 .. n + 1 /\ a \in 1 - 1 .. n /\ a + d \in a .. n
      OBVIOUS
    <3> HIDE DEF text
    <3>3. QED
      BY <1>1, <1>2, <3>1, <3>2, Zenon
  <2> HIDE DEF text
  <2>2. QED
    BY <1>1, <2>1, ConcatAdjacentSubSeq
<1>4. server.text + t \in 0 .. Len(text)
  BY <1>1, <1>2, SMTT(60)
<1>5. content = SubSeq(text, 1, server.text) /\ delivered = SubSeq(text, 1, server.text)
  BY DEF Streamed
<1> HIDE DEF text
<1>6. content' = SubSeq(text, 1, server'.text) /\ delivered' = SubSeq(text, 1, server'.text)
  BY <1>2, <1>3, <1>5
<1>7. QED
  BY <1>2, <1>4, <1>6 DEF text

(* An event merges the next fragment of each call it names.                *)
LEMMA EventCalls ==
    ASSUME TypeInv, Streamed, Event, UNCHANGED pc
    PROVE  Streamed'
<1> DEFINE sent == server.reply.calls
<1>1. /\ server.reply \in Replies
      /\ \A k \in DOMAIN sent : server.frags[k] \in 0 .. Len(sent[k].args)
      /\ DOMAIN calls = {sent[k].index : k \in {k \in DOMAIN sent : server.frags[k] > 0}}
      /\ \A k \in DOMAIN sent :
            server.frags[k] > 0 => calls[sent[k].index] = Known(sent[k], server.frags[k])
  BY DEF Streamed
<1>2. /\ \A k \in DOMAIN sent : sent[k] \in Call /\ Len(sent[k].args) \in Nat
      /\ \A i, j \in DOMAIN sent : sent[i].index = sent[j].index => i = j
  BY <1>1, ReplyTypes DEF Call
<1>3. DOMAIN server.frags = DOMAIN sent
  BY DEF TypeInv, TypeOK
<1>4. PICK K \in SUBSET DOMAIN sent :
         /\ \A k \in K : server.frags[k] < Len(sent[k].args)
         /\ server'.frags = [k \in DOMAIN sent |-> server.frags[k] + IF k \in K THEN 1 ELSE 0]
         /\ \E f \in [K -> UNION {Fragments(sent[k], server.frags[k]) : k \in K}] :
               /\ \A k \in K : f[k] \in Fragments(sent[k], server.frags[k])
               /\ LET new == [i \in {sent[k].index : k \in K} |->
                                Merge(Assembled(i), f[CHOOSE k \in K : sent[k].index = i])]
                  IN  calls' = [i \in DOMAIN calls \union DOMAIN new |->
                                  IF i \in DOMAIN new THEN new[i] ELSE calls[i]]
  <2>1. pc' # "returned"
    BY DEF Event
  <2>2. QED
    BY <1>3, <2>1, ZenonT(60) DEF Event, Fail, TypeInv
<1>5. PICK f \in [K -> UNION {Fragments(sent[k], server.frags[k]) : k \in K}] :
         /\ \A k \in K : f[k] \in Fragments(sent[k], server.frags[k])
         /\ LET new == [i \in {sent[k].index : k \in K} |->
                          Merge(Assembled(i), f[CHOOSE k \in K : sent[k].index = i])]
            IN  calls' = [i \in DOMAIN calls \union DOMAIN new |->
                            IF i \in DOMAIN new THEN new[i] ELSE calls[i]]
  BY <1>4
<1> DEFINE named == {sent[k].index : k \in K}
           new == [i \in named |-> Merge(Assembled(i), f[CHOOSE k \in K : sent[k].index = i])]
<1>6. calls' = [i \in DOMAIN calls \union named |-> IF i \in named THEN new[i] ELSE calls[i]]
  BY <1>5
<1>7. ASSUME NEW k \in DOMAIN sent
      PROVE  Assembled(sent[k].index) = Known(sent[k], server.frags[k])
  <2>1. sent[k].args \in Seq(STRING) /\ server.frags[k] \in Nat
    BY <1>1, <1>2 DEF Call
  <2>2. CASE server.frags[k] > 0
    <3>1. sent[k].index \in DOMAIN calls
      BY <1>1, <2>2
    <3>2. QED
      BY <1>1, <2>2, <3>1 DEF Assembled
  <2>3. CASE server.frags[k] = 0
    <3>1. sent[k].index \notin DOMAIN calls
      BY <1>1, <1>2, <2>3
    <3>2. SubSeq(sent[k].args, 1, 0) = <<>>
      BY SubSeqEmpty
    <3>3. QED
      BY <2>3, <3>1, <3>2 DEF Assembled, Known
  <2>4. QED
    BY <2>1, <2>2, <2>3
<1>8. ASSUME NEW k \in K
      PROVE  new[sent[k].index] = Known(sent[k], server.frags[k] + 1)
  <2>1. (CHOOSE j \in K : sent[j].index = sent[k].index) = k
    <3>1. \A j \in K : sent[j].index = sent[k].index => j = k
      BY <1>2
    <3>2. k \in K
      OBVIOUS
    <3> HIDE DEF sent
    <3>3. QED
      BY <3>1, <3>2
  <2>2. sent[k].index \in named
    OBVIOUS
  <2>3. new[sent[k].index] = Merge(Assembled(sent[k].index), f[k])
    BY <2>1, <2>2
  <2> HIDE DEF sent, new
  <2>4. /\ sent[k] \in Call /\ server.frags[k] \in Nat /\ server.frags[k] < Len(sent[k].args)
        /\ f[k] \in Fragments(sent[k], server.frags[k])
    <3>1. sent[k] \in Call /\ Len(sent[k].args) \in Nat
      BY <1>2
    <3>2. server.frags[k] \in 0 .. Len(sent[k].args)
      BY <1>1
    <3>3. server.frags[k] < Len(sent[k].args)
      BY <1>4
    <3>4. f[k] \in Fragments(sent[k], server.frags[k])
      BY <1>5
    <3>5. QED
      BY <3>1, <3>2, <3>3, <3>4
  <2>5. Assembled(sent[k].index) = Known(sent[k], server.frags[k])
    BY <1>7
  <2>6. QED
    BY <2>3, <2>4, <2>5, MergeNext
<1> HIDE DEF new
<1> DEFINE frags2 == server'.frags
<1>9. \A k \in DOMAIN sent : frags2[k] = server.frags[k] + IF k \in K THEN 1 ELSE 0
  BY <1>4
<1> HIDE DEF frags2
<1>10. \A k \in DOMAIN sent : /\ frags2[k] \in 0 .. Len(sent[k].args)
                              /\ frags2[k] > 0 <=> (k \in K \/ server.frags[k] > 0)
  <2> TAKE k \in DOMAIN sent
  <2>1. server.frags[k] \in 0 .. Len(sent[k].args) /\ Len(sent[k].args) \in Nat
    BY <1>1, <1>2
  <2>2. k \in K => server.frags[k] < Len(sent[k].args)
    BY <1>4
  <2>3. QED
    BY <1>9, <2>1, <2>2
<1>11. DOMAIN calls' = {sent[k].index : k \in {k \in DOMAIN sent : frags2[k] > 0}}
  <2>1. DOMAIN calls' = DOMAIN calls \union named
    BY <1>6
  <2> HIDE DEF sent
  <2>2. QED
    BY <1>1, <1>10, <2>1
<1>12. ASSUME NEW k \in DOMAIN sent, frags2[k] > 0
       PROVE  calls'[sent[k].index] = Known(sent[k], frags2[k])
  <2>1. CASE k \in K
    <3>1. sent[k].index \in named /\ frags2[k] = server.frags[k] + 1
      BY <1>9, <2>1
    <3>2. calls'[sent[k].index] = new[sent[k].index]
      BY <1>6, <3>1, SMTT(60)
    <3>3. new[sent[k].index] = Known(sent[k], server.frags[k] + 1)
      BY <1>8, <2>1
    <3>4. QED
      BY <3>1, <3>2, <3>3, Zenon
  <2>2. CASE k \notin K
    <3>1. sent[k].index \notin named
      BY <1>2, <2>2
    <3>2. server.frags[k] > 0 /\ frags2[k] = server.frags[k]
      BY <1>1, <1>2, <1>9, <1>10, <1>12, <2>2
    <3>3. sent[k].index \in DOMAIN calls
      BY <1>1, <3>2
    <3>4. QED
      BY <1>1, <1>6, <3>1, <3>2, <3>3
  <2>3. QED
    BY <2>1, <2>2
<1>13. /\ server'.reply = server.reply
       /\ server'.text \in 0 .. Len(server.reply.text)
       /\ content' = SubSeq(server.reply.text, 1, server'.text)
       /\ delivered' = SubSeq(server.reply.text, 1, server'.text)
  BY EventText, ZenonT(60)
<1>14. finished' = FALSE
  BY DEF Event, Streamed
<1>15. QED
  BY <1>1, <1>10, <1>11, <1>12, <1>13, <1>14 DEF Streamed, frags2

(* All calls whose fragments were all sent, in the order of their indexes. *)
LEMMA AllCallsOrdered ==
    ASSUME TypeInv, Streamed, AllSent
    PROVE  LET sent == server.reply.calls
           IN  OrderedToolCalls = [k \in 1 .. Len(sent) |->
                  [index |-> sent[k].index, id |-> sent[k].id,
                   type |-> FirstNonEmpty(sent[k].type, "function"), args |-> sent[k].args]]
<1> DEFINE sent == server.reply.calls
           n == Len(sent)
           e == [k \in 1 .. n |-> sent[k].index]
<1>1. /\ sent \in Seq(Call) /\ n \in Nat /\ DOMAIN sent = 1 .. n
      /\ \A k \in 1 .. n : sent[k] \in Call /\ Len(sent[k].args) > 0
      /\ \A i, j \in 1 .. n : i < j => sent[i].index < sent[j].index
  <2>1. server.reply \in Replies
    BY DEF Streamed
  <2>2. sent \in Seq(Call)
    BY <2>1, ReplyTypes
  <2>3. n \in Nat /\ DOMAIN sent = 1 .. n
    BY <2>2, LenProperties
  <2>4. QED
    BY <2>1, <2>2, <2>3, ReplyTypes
<1>2. \A k \in 1 .. n : server.frags[k] = Len(sent[k].args)
  <2>1. DOMAIN server.frags = 1 .. n
    BY <1>1 DEF TypeInv, TypeOK
  <2>2. QED
    BY <2>1 DEF AllSent
<1>3. /\ DOMAIN calls = {sent[k].index : k \in {k \in 1 .. n : server.frags[k] > 0}}
      /\ \A k \in 1 .. n :
            server.frags[k] > 0 => calls[sent[k].index] = Known(sent[k], server.frags[k])
  BY <1>1 DEF Streamed
<1> HIDE DEF sent, n
<1>4. DOMAIN calls = {sent[k].index : k \in 1 .. n}
  BY <1>1, <1>2, <1>3
<1>5. \A k \in 1 .. n :
         calls[sent[k].index] = [id |-> sent[k].id, type |-> sent[k].type, args |-> sent[k].args]
  <2> TAKE k \in 1 .. n
  <2>1. sent[k].args \in Seq(STRING) /\ Len(sent[k].args) > 0
    BY <1>1 DEF Call
  <2>2. SubSeq(sent[k].args, 1, Len(sent[k].args)) = sent[k].args
    BY <2>1, SubSeqFull
  <2>3. calls[sent[k].index] = Known(sent[k], Len(sent[k].args))
    BY <1>2, <1>3, <2>1
  <2>4. Len(sent[k].args) # 0
    BY <2>1
  <2>5. QED
    BY <2>2, <2>3, <2>4 DEF Known
<1>6. Sorted(DOMAIN calls) = e
  <2>1. \A k \in 1 .. n : sent[k].index \in Int
    BY <1>1 DEF Call
  <2>2. DOMAIN calls \subseteq Int /\ e \in [1 .. n -> DOMAIN calls]
    BY <1>4, <2>1
  <2>3. \A i, j \in 1 .. n : i < j => e[i] < e[j]
    BY <1>1
  <2>4. \A x \in DOMAIN calls : \E i \in 1 .. n : x = e[i]
    BY <1>4
  <2> HIDE DEF e
  <2>5. QED
    BY <1>1, <2>2, <2>3, <2>4, SortedIsTheEnumeration, ZenonT(60)
<1>7. e \in Seq(Int) /\ Len(e) = n
  BY <1>1 DEF Call
<1>8. OrderedToolCalls = [k \in 1 .. n |->
         [index |-> e[k], id |-> calls[e[k]].id,
          type |-> FirstNonEmpty(calls[e[k]].type, "function"), args |-> calls[e[k]].args]]
  <2> HIDE DEF e
  <2>1. QED
    BY <1>6, <1>7 DEF OrderedToolCalls
<1>9. \A k \in 1 .. n : /\ e[k] = sent[k].index
                        /\ calls[e[k]].id = sent[k].id
                        /\ calls[e[k]].type = sent[k].type
                        /\ calls[e[k]].args = sent[k].args
  <2> TAKE k \in 1 .. n
  <2>1. e[k] = sent[k].index
    OBVIOUS
  <2>2. calls[e[k]] = [id |-> sent[k].id, type |-> sent[k].type, args |-> sent[k].args]
    BY <1>5, <2>1
  <2> HIDE DEF e
  <2>3. QED
    BY <2>1, <2>2
<1> HIDE DEF e
<1>10. OrderedToolCalls = [k \in 1 .. n |->
         [index |-> sent[k].index, id |-> sent[k].id,
          type |-> FirstNonEmpty(sent[k].type, "function"), args |-> sent[k].args]]
  BY <1>8, <1>9
<1>11. QED
  BY <1>10 DEF sent, n

LEMMA TextIsSequence == ASSUME TypeInv PROVE server.reply.text \in Seq(STRING)
<1>1. Silence.reply.text = <<>>
  BY DEF Silence
<1>2. server.reply \in Replies \/ server.reply = Silence.reply
  BY DEF TypeInv, TypeOK
<1>3. <<>> \in Seq(STRING)
  OBVIOUS
<1>4. QED
  BY <1>1, <1>2, <1>3, ReplyTypes

LEMMA NoSuccessIntact ==
    ASSUME ReplyIntact, UNCHANGED <<call, server, delivered>>, outcome' # "ok"
    PROVE  ReplyIntact'
BY DEF ReplyIntact

LEMMA StreamAnswers == ASSUME TypeInv, StreamInv, Answer PROVE StreamInv'
<1>1. /\ pc = "await" /\ outcome' = "none" /\ UNCHANGED <<call, content, calls, delivered, finished>>
      /\ Unstreamed
  BY DEF Answer, TypeInv, TypeOK, StreamInv, returned
<1>2. PICK reply \in IF status' = "ok" /\ call.op # "embed" THEN Replies ELSE {Silence.reply} :
         server' = [reply |-> reply, text |-> 0, frags |-> [k \in DOMAIN reply.calls |-> 0]]
  BY DEF Answer
<1>3. Unstreamed' /\ pc' # "returned"
  BY <1>1 DEF Unstreamed, Answer
<1>4. ReplyIntact'
  <2>1. server'.reply.text \in Seq(STRING)
    <3>1. reply \in Replies \/ reply = Silence.reply
      BY <1>2
    <3>2. Silence.reply.text = <<>> /\ <<>> \in Seq(STRING)
      BY DEF Silence
    <3>3. QED
      BY <1>2, <3>1, <3>2, ReplyTypes
  <2>2. IsPrefix(delivered', server'.reply.text)
    BY <1>3, <2>1, NothingIsPrefix DEF Unstreamed
  <2>3. QED
    BY <1>1, <2>2 DEF ReplyIntact
<1>5. ASSUME pc' = "stream" PROVE call'.op = "stream" /\ Streamed'
  <2>1. call.op = "stream" /\ status' = "ok"
    BY <1>5 DEF Answer
  <2>2. reply \in Replies
    BY <1>2, <2>1
  <2>3. reply.text \in Seq(STRING) /\ \A k \in DOMAIN reply.calls : Len(reply.calls[k].args) > 0
                                                       /\ reply.calls[k].args \in Seq(STRING)
    BY <2>2, ReplyTypes DEF Call
  <2>4. SubSeq(reply.text, 1, 0) = <<>>
    BY SubSeqEmpty
  <2>5. \A k \in DOMAIN reply.calls : server'.frags[k] = 0 /\ 0 \in 0 .. Len(reply.calls[k].args)
    BY <1>2, <2>3
  <2>6. DOMAIN calls' = {}
    BY <1>3 DEF Unstreamed
  <2>7. server'.reply = reply /\ server'.text = 0
    BY <1>2
  <2>8. 0 \in 0 .. Len(reply.text)
    BY <2>3
  <2>9. {k \in DOMAIN reply.calls : server'.frags[k] > 0} = {}
    BY <2>5
  <2>10. {reply.calls[k].index : k \in {k \in DOMAIN reply.calls : server'.frags[k] > 0}} = {}
    BY <2>9
  <2>11. QED
    BY <1>1, <1>3, <2>1, <2>2, <2>4, <2>5, <2>6, <2>7, <2>8, <2>10 DEF Streamed, Unstreamed
<1>6. QED
  BY <1>3, <1>4, <1>5 DEF StreamInv

LEMMA StreamEvent == ASSUME TypeInv, StreamInv, Event PROVE StreamInv'
<1>1. /\ pc = "stream" /\ Streamed /\ call' = call /\ call.op = "stream" /\ outcome = "none"
      /\ Fail \/ UNCHANGED <<pc, retrying, returned>>
  BY DEF Event, StreamInv, TypeInv, TypeOK
<1>2. outcome' # "ok"
  BY <1>1 DEF Fail, returned
<1>3. ReplyIntact'
  <2>1. server'.reply.text = server.reply.text /\ server'.text \in 0 .. Len(server.reply.text)
        /\ delivered' = SubSeq(server.reply.text, 1, server'.text)
    BY <1>1, EventText
  <2>2. IsPrefix(delivered', server'.reply.text)
    BY <2>1, TextIsSequence, CutIsPrefix
  <2>3. QED
    BY <1>2, <2>2 DEF ReplyIntact
<1>4. CASE Fail
  BY <1>3, <1>4 DEF Fail, StreamInv
<1>5. CASE UNCHANGED pc
  BY <1>1, <1>3, <1>5, EventCalls DEF StreamInv
<1>6. QED
  BY <1>1, <1>4, <1>5

LEMMA StreamEnd == ASSUME TypeInv, StreamInv, StreamEnds PROVE StreamInv'
<1>1. /\ pc' = "returned" /\ outcome' = "ok" /\ UNCHANGED <<call, server, delivered>>
      /\ Streamed /\ call.op = "stream"
      /\ finished' => AllSent
      /\ result' = [NoResult EXCEPT !.text = content, !.calls = OrderedToolCalls]
  <2>1. finished' => AllSent
    BY Zenon DEF StreamEnds
  <2>2. QED
    BY <2>1 DEF StreamEnds, Succeed, StreamInv
<1>2. result'.text = delivered /\ result'.calls = OrderedToolCalls
  BY <1>1 DEF NoResult, Streamed
<1>3. ASSUME finished'
      PROVE  /\ delivered = server.reply.text
             /\ Len(OrderedToolCalls) = Len(server.reply.calls)
             /\ \A k \in DOMAIN OrderedToolCalls :
                   LET got == OrderedToolCalls[k]
                       sent == server.reply.calls[k]
                   IN  /\ got.id = sent.id /\ got.args = sent.args
                       /\ got.type = sent.type \/ (sent.type = "" /\ got.type = "function")
  <2>1. delivered = server.reply.text
    BY <1>1, <1>3, TextIsSequence, SubSeqFull DEF Streamed, AllSent
  <2>2. LET sent == server.reply.calls
        IN  OrderedToolCalls = [k \in 1 .. Len(sent) |->
                  [index |-> sent[k].index, id |-> sent[k].id,
                   type |-> FirstNonEmpty(sent[k].type, "function"), args |-> sent[k].args]]
    BY <1>1, <1>3, AllCallsOrdered
  <2>3. Len(server.reply.calls) \in Nat
    <3>1. server.reply.calls \in Seq(Call)
      BY <1>1, ReplyTypes DEF Streamed
    <3>2. QED
      BY <3>1, LenProperties
  <2>4. DOMAIN OrderedToolCalls = 1 .. Len(server.reply.calls)
    BY <2>2
  <2>5. Len(OrderedToolCalls) = Len(server.reply.calls)
    BY <2>2, <2>3
  <2>6. \A k \in 1 .. Len(server.reply.calls) :
           LET got == OrderedToolCalls[k]
               sent == server.reply.calls[k]
           IN  /\ got.id = sent.id /\ got.args = sent.args
               /\ got.type = FirstNonEmpty(sent.type, "function")
    BY <2>2
  <2>7. QED
    BY <2>1, <2>4, <2>5, <2>6 DEF FirstNonEmpty
<1>4. IsPrefix(delivered, server.reply.text)
  BY <1>1 DEF StreamInv, ReplyIntact
<1>5. ReplyIntact'
  BY <1>1, <1>2, <1>3, <1>4, ZenonT(60) DEF ReplyIntact
<1>6. QED
  BY <1>1, <1>5 DEF StreamInv

(* A step that leaves the stream and the outcome alone.                    *)
LEMMA StreamKept ==
    ASSUME StreamInv,
           UNCHANGED <<call, pc, server, content, calls, delivered, finished, outcome, result>>
    PROVE  StreamInv'
<1>1. Unstreamed' = Unstreamed
  BY DEF Unstreamed
<1>2. Streamed' = Streamed
  BY DEF Streamed
<1>3. ReplyIntact' = ReplyIntact
  BY DEF ReplyIntact
<1>4. QED
  BY <1>1, <1>2, <1>3 DEF StreamInv

LEMMA StreamStep == ASSUME TypeInv, StreamInv, [Next]_vars PROVE StreamInv'
<1> USE DEF StreamInv
<1>0. pc # "returned" => outcome = "none"
  BY DEF TypeInv, TypeOK
<1>1. CASE UNCHANGED vars \/ Returned
  <2>1. UNCHANGED vars
    BY <1>1 DEF Returned
  <2>2. UNCHANGED <<call, pc, server, content, calls, delivered, finished, outcome, result>>
    BY <2>1 DEF vars
  <2>3. QED
    BY <2>2, StreamKept
<1>2. CASE Start \/ Send \/ PauseOver
  <2>1. /\ pc \notin {"stream", "returned"} /\ pc' # "stream"
        /\ UNCHANGED <<call, server, content, calls, delivered, finished>> /\ outcome' # "ok"
    BY <1>0, <1>2 DEF Start, Send, PauseOver, Fail, streaming, returned
  <2>2. QED
    BY <2>1, NoSuccessIntact DEF Unstreamed
<1>3. CASE \E where \in {"pause", "await", "body", "stream"} : Failed(where)
  <2>1. /\ pc # "returned" /\ pc' # "stream"
        /\ pc' # "returned" => pc # "stream"
        /\ UNCHANGED <<call, server, content, calls, delivered, finished>> /\ outcome' # "ok"
    BY <1>0, <1>3 DEF Failed, Fail, streaming, returned
  <2>2. QED
    BY <2>1, NoSuccessIntact DEF Unstreamed
<1>4. CASE Answer
  BY <1>4, StreamAnswers
<1>5. CASE Chat
  <2>1. /\ pc' = "returned" /\ call.op = "chat" /\ UNCHANGED <<call, server>>
        /\ result' = [NoResult EXCEPT !.text = server.reply.text, !.calls = server.reply.calls]
    BY <1>5 DEF Chat, Succeed, streaming
  <2>2. result'.text = server.reply.text /\ result'.calls = server.reply.calls
    BY <2>1 DEF NoResult
  <2>3. QED
    BY <2>1, <2>2 DEF ReplyIntact
<1>6. CASE Embed
  <2>1. pc' = "returned" /\ call.op = "embed" /\ pc = "body" /\ UNCHANGED <<call, finished>>
    BY <1>6 DEF Embed, Succeed, Fail, streaming
  <2>2. finished' = FALSE
    BY <2>1 DEF Unstreamed
  <2>3. QED
    BY <2>1, <2>2 DEF ReplyIntact
<1>7. CASE Event
  BY <1>7, StreamEvent
<1>8. CASE StreamEnds
  BY <1>8, StreamEnd
<1>9. CASE Tick \/ CallerCancels
  <2>1. UNCHANGED <<call, pc, server, content, calls, delivered, finished, outcome, result>>
    BY <1>9 DEF Tick, CallerCancels, streaming, returned
  <2>2. QED
    BY <2>1, StreamKept
<1>10. QED
  BY <1>1, <1>2, <1>3, <1>4, <1>5, <1>6, <1>7, <1>8, <1>9, Unsuccessful DEF Next

(* What a stream has shown its caller is a beginning of one reply of the      *)
(* server, never taken back or shown twice; a stream read to its final marker *)
(* returns that reply's text and all its tool calls, whatever the order of    *)
(* their fragments (streamChat, mergeToolCallDelta, orderedToolCalls).        *)
THEOREM RepliesAreIntact == Spec => []ReplyIntact
<1>1. Init => StreamInv
  <2> SUFFICES ASSUME Init PROVE StreamInv
    OBVIOUS
  <2>1. Unstreamed /\ outcome = "none" /\ pc = "start" /\ server = Silence
    BY DEF Init, Unstreamed
  <2>2. server.reply.text = <<>>
    BY <2>1 DEF Silence
  <2>3. IsPrefix(delivered, server.reply.text)
    <3>1. <<>> \in Seq(STRING)
      OBVIOUS
    <3>2. QED
      BY <2>1, <2>2, <3>1, NothingIsPrefix DEF Unstreamed
  <2>4. QED
    BY <2>1, <2>3 DEF StreamInv, ReplyIntact
<1>2. (TypeInv /\ StreamInv) /\ [Next]_vars => (TypeInv /\ StreamInv)'
  BY TypeStep, StreamStep
<1>3. StreamInv => ReplyIntact
  BY DEF StreamInv
<1>4. QED
  BY <1>1, <1>2, <1>3, TypeInit, PTL DEF Spec

=============================================================================
