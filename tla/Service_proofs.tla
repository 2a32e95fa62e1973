---------------------------- MODULE Service_proofs ----------------------------
(***************************************************************************)
(* What the semaphore, the budget and the agent runs under them guarantee, *)
(* for any callers, tenants, quotas, limit and length of a minute, and any *)
(* sinks, size of the channel, tools, schemas and inputs:                  *)
(*                                                                         *)
(*   GovernInv   the slots taken are counted, and what a tenant is charged *)
(*               in a window is what it was granted there, requests and    *)
(*               units of tokens and cost alike; no two windows start      *)
(*               within a minute, so a minute meets at most two;           *)
(*   TypeInv     type correctness, with the points a run goes on to;       *)
(*   SchemaInv   a name keeps its schema, and a handler that was started   *)
(*               was callable; validateValue's walk through a schema and a *)
(*               value is the walk of the reference (EveryPartJudged);     *)
(*   EventsInv   what a sink was given is what had its turn there and was  *)
(*               refused neither there nor before.                         *)
(*                                                                         *)
(* Every step of the service is one of the semaphore and the budget, or    *)
(* none (Governs), so their guarantees hold of it.                         *)
(***************************************************************************)
EXTENDS Service, WellFoundedInduction, SequenceTheorems, FiniteSetTheorems, TLAPS

-----------------------------------------------------------------------------
(* Numbers.                                                                *)

(* A set of numbers has a least one. *)
LEMMA LeastNumber ==
    ASSUME NEW T, T \subseteq Nat, T # {}
    PROVE  \E x \in T : \A y \in T : x <= y
<1> DEFINE R == OpToRel(<, Nat)
<1>1. \E x \in T : \A y \in T : <<y, x>> \notin R
  BY NatLessThanWellFounded, WFMin, Zenon
<1>2. \A x, y \in Nat : y < x => <<y, x>> \in R
  BY DEF OpToRel
<1> HIDE DEF R
<1>3. PICK x \in T : \A y \in T : <<y, x>> \notin R
  BY <1>1
<1>4. ASSUME NEW y \in T PROVE x <= y
  <2>1. x \in Nat /\ y \in Nat
    OBVIOUS
  <2>2. ~(y < x)
    BY <1>2, <1>3, <2>1, Zenon
  <2>3. QED
    BY <2>1, <2>2
<1>5. QED
  BY <1>4

(* Induction: a set of numbers that has 0, and n + 1 with n, has them all. *)
LEMMA AllNumbers ==
    ASSUME NEW T, 0 \in T, \A n \in Nat : n \in T => n + 1 \in T
    PROVE  Nat \subseteq T
<1> DEFINE Rest == {n \in Nat : n \notin T}
<1> SUFFICES ASSUME Rest # {} PROVE FALSE
  OBVIOUS
<1>1. PICK x \in Rest : \A y \in Rest : x <= y
  BY LeastNumber
<1>2. x # 0 /\ x \in Nat /\ x \notin T
  OBVIOUS
<1>3. x - 1 \in Nat /\ ~(x <= x - 1)
  BY <1>2
<1>4. x - 1 \in T
  BY <1>1, <1>3
<1>5. (x - 1) + 1 \in T
  BY <1>3, <1>4
<1>6. QED
  BY <1>2, <1>5

-----------------------------------------------------------------------------
(* The walks through a schema.                                             *)

(* The levels of a walk, one from the other: the recursive function of     *)
(* Level exists, because each of its beginnings does.                      *)
LEMMA LevelSteps ==
    ASSUME NEW walk, NEW x
    PROVE  /\ Level(walk, x, 0) = {x}
           /\ \A n \in Nat :
                 \A y : y \in Level(walk, x, n + 1) <=>
                         \E z \in Level(walk, x, n) : y \in Below(walk, z)
<1> DEFINE Under(T) == UNION {Below(walk, y) : y \in T}
           Body(t) == [k \in Nat |-> IF k = 0 THEN {x} ELSE Under(t[k-1])]
           Begins(g, n) == g[0] = {x} /\ \A k \in 0..(n - 1) : g[k + 1] = Under(g[k])
           Upto == {n \in Nat : \E g : Begins(g, n)}
           f == [n \in Nat |-> (CHOOSE g : Begins(g, n))[n]]
           level == CHOOSE t : t = Body(t)
<1> HIDE DEF Under
<1>1. Nat \subseteq Upto
  <2>1. 0 \in Upto
    <3>1. Begins([k \in {0} |-> {x}], 0)
      OBVIOUS
    <3> HIDE DEF Begins
    <3>2. QED
      BY <3>1
  <2>2. ASSUME NEW n \in Nat, n \in Upto PROVE n + 1 \in Upto
    <3>1. PICK g : Begins(g, n)
      BY <2>2
    <3> DEFINE h == [k \in 0..(n + 1) |-> IF k = n + 1 THEN Under(g[n]) ELSE g[k]]
    <3>2. h[0] = {x}
      BY <3>1
    <3>3. ASSUME NEW k \in 0..((n + 1) - 1) PROVE h[k + 1] = Under(h[k])
      <4>1. k \in 0..n /\ k + 1 \in 0..(n + 1) /\ k \in 0..(n + 1) /\ k # n + 1
        OBVIOUS
      <4>2. h[k] = g[k]
        BY <4>1
      <4>3. CASE k = n
        BY <4>1, <4>2, <4>3
      <4>4. CASE k # n
        <5>1. k \in 0..(n - 1) /\ h[k + 1] = g[k + 1]
          BY <4>1, <4>4
        <5>2. QED
          BY <3>1, <4>2, <5>1
      <4>5. QED
        BY <4>3, <4>4
    <3> HIDE DEF h
    <3>4. Begins(h, n + 1)
      BY <3>2, <3>3
    <3>5. n + 1 \in Nat
      OBVIOUS
    <3> HIDE DEF Begins
    <3>6. QED
      BY <3>4, <3>5
  <2> HIDE DEF Upto
  <2>3. QED
    BY <2>1, <2>2, AllNumbers
<1>2. ASSUME NEW n \in Nat, NEW m \in Nat, NEW g, NEW h, Begins(g, n), Begins(h, m)
      PROVE  \A k \in Nat : k <= n /\ k <= m => g[k] = h[k]
  <2> DEFINE A == {k \in Nat : k <= n /\ k <= m => g[k] = h[k]}
  <2>1. 0 \in A
    BY <1>2
  <2>2. ASSUME NEW k \in Nat, k \in A PROVE k + 1 \in A
    <3> SUFFICES ASSUME k + 1 <= n, k + 1 <= m PROVE g[k + 1] = h[k + 1]
      OBVIOUS
    <3>1. k \in 0..(n - 1) /\ k \in 0..(m - 1) /\ g[k] = h[k]
      BY <2>2
    <3>2. g[k + 1] = Under(g[k]) /\ h[k + 1] = Under(h[k])
      BY <1>2, <3>1
    <3>3. QED
      BY <3>1, <3>2
  <2>3. Nat \subseteq A
    <3> HIDE DEF A
    <3>1. QED
      BY <2>1, <2>2, AllNumbers
  <2>4. QED
    BY <2>3
<1>3. \A n \in Nat : Begins(CHOOSE g : Begins(g, n), n)
  <2> HIDE DEF Begins
  <2>1. QED
    BY <1>1
<1>4. ASSUME NEW n \in Nat PROVE f[0] = {x} /\ f[n + 1] = Under(f[n])
  <2> DEFINE g == CHOOSE g : Begins(g, n + 1)
             h == CHOOSE h : Begins(h, n)
             e == CHOOSE e : Begins(e, 0)
  <2>1. n + 1 \in Nat /\ 0 \in Nat /\ n <= n + 1 /\ 0 <= n + 1
    OBVIOUS
  <2>2. f[n + 1] = g[n + 1] /\ f[n] = h[n] /\ f[0] = e[0]
    BY <2>1
  <2> HIDE DEF Begins, f
  <2>3. Begins(g, n + 1) /\ Begins(h, n) /\ Begins(e, 0)
    BY <1>3, <2>1
  <2> HIDE DEF g, h, e
  <2>4. g[n] = h[n]
    BY <1>2, <2>1, <2>3
  <2>5. e[0] = {x} /\ g[n + 1] = Under(g[n])
    BY <2>3 DEF Begins
  <2>6. QED
    BY <2>2, <2>4, <2>5
<1>5. f = Body(f)
  <2>1. \A k \in Nat : f[k] = IF k = 0 THEN {x} ELSE Under(f[k-1])
    <3> TAKE k \in Nat
    <3> HIDE DEF f
    <3>1. CASE k = 0
      BY <1>4, <3>1
    <3>2. CASE k # 0
      <4>1. k - 1 \in Nat /\ (k - 1) + 1 = k
        BY <3>2
      <4>2. QED
        BY <1>4, <3>2, <4>1
    <3>3. QED
      BY <3>1, <3>2
  <2>2. PICK g : g = f
    OBVIOUS
  <2>3. g = [k \in Nat |-> g[k]]
    BY <2>2
  <2> HIDE DEF f
  <2>4. g = Body(g)
    BY <2>1, <2>2, <2>3
  <2> HIDE DEF Body
  <2>5. QED
    BY <2>2, <2>4
<1>6. level = Body(level)
  <2> HIDE DEF f, Body
  <2>1. QED
    BY <1>5
<1>7. \A n : Level(walk, x, n) = level[n]
  BY DEF Level, Under
<1> HIDE DEF level
<1>8. \A n \in Nat : n + 1 \in Nat /\ n + 1 # 0 /\ (n + 1) - 1 = n
  OBVIOUS
<1>9. level[0] = {x} /\ \A n \in Nat : level[n + 1] = Under(level[n])
  BY <1>6, <1>8
<1>10. QED
  BY <1>7, <1>9 DEF Under

(* A walk through schemas, or the nodes a walk through values meets.       *)
LEMMA PartsFollowNodes ==
    ASSUME NEW s, NEW v, NEW n \in Nat, NEW p \in Level("parts", <<s, v>>, n)
    PROVE  p[1] \in Level("nodes", s, n)
<1> DEFINE T == {k \in Nat : \A q \in Level("parts", <<s, v>>, k) : q[1] \in Level("nodes", s, k)}
<1>1. 0 \in T
  BY LevelSteps
<1>2. ASSUME NEW k \in Nat, k \in T PROVE k + 1 \in T
  <2>1. ASSUME NEW q \in Level("parts", <<s, v>>, k + 1)
        PROVE  q[1] \in Level("nodes", s, k + 1)
    <3>1. PICK r \in Level("parts", <<s, v>>, k) : q \in Below("parts", r)
      BY LevelSteps
    <3>2. r[1] \in Level("nodes", s, k)
      BY <1>2
    <3>3. q \in Fields(r[1], r[2]) \/ q \in Elements(r[1], r[2])
      BY <3>1 DEF Below
    <3>4. q[1] \in Properties(r[1]) \cup r[1].items
      BY <3>3 DEF Fields, Elements, Properties
    <3>5. q[1] \in Below("nodes", r[1])
      BY <3>4 DEF Below
    <3>6. QED
      BY <3>2, <3>5, LevelSteps
  <2>2. QED
    BY <2>1
<1>3. Nat \subseteq T
  <2> HIDE DEF T
  <2>1. QED
    BY <1>1, <1>2, AllNumbers
<1>4. QED
  BY <1>3

LEMMA PropertiesAreNodes ==
    ASSUME NEW s, NEW n \in Nat, NEW node \in Level("nodes", s, n), NEW k \in Nat
    PROVE  Level("properties", node, k) \subseteq Level("nodes", s, n + k)
<1> DEFINE T == {i \in Nat : Level("properties", node, i) \subseteq Level("nodes", s, n + i)}
<1>1. 0 \in T
  BY LevelSteps
<1>2. ASSUME NEW i \in Nat, i \in T PROVE i + 1 \in T
  <2>1. n + (i + 1) = (n + i) + 1 /\ n + i \in Nat
    OBVIOUS
  <2>2. ASSUME NEW y \in Level("properties", node, i + 1)
        PROVE  y \in Level("nodes", s, n + (i + 1))
    <3>1. PICK z \in Level("properties", node, i) : y \in Below("properties", z)
      BY LevelSteps
    <3>2. z \in Level("nodes", s, n + i) /\ y \in Below("nodes", z)
      BY <1>2, <3>1 DEF Below
    <3>3. QED
      BY <2>1, <3>2, LevelSteps
  <2>3. QED
    BY <2>2
<1>3. Nat \subseteq T
  <2> HIDE DEF T
  <2>1. QED
    BY <1>1, <1>2, AllNumbers
<1>4. QED
  BY <1>3

(* Below the deepest node there is nothing. *)
LEMMA NothingDeeper ==
    ASSUME NEW s, Depth \in Nat, Level("nodes", s, Depth + 1) = {},
           NEW n \in Nat, NEW node \in Level("nodes", s, n)
    PROVE  n <= Depth
<1> DEFINE T == {k \in Nat : Level("nodes", s, (Depth + 1) + k) = {}}
<1>1. 0 \in T
  OBVIOUS
<1>2. ASSUME NEW k \in Nat, k \in T PROVE k + 1 \in T
  <2>1. (Depth + 1) + k \in Nat /\ (Depth + 1) + (k + 1) = ((Depth + 1) + k) + 1
    OBVIOUS
  <2>2. Level("nodes", s, ((Depth + 1) + k) + 1) = {}
    BY <1>2, <2>1, LevelSteps
  <2>3. QED
    BY <2>1, <2>2
<1>3. Nat \subseteq T
  <2> HIDE DEF T
  <2>1. QED
    BY <1>1, <1>2, AllNumbers
<1>4. ASSUME ~(n <= Depth) PROVE FALSE
  <2>1. n - (Depth + 1) \in Nat /\ (Depth + 1) + (n - (Depth + 1)) = n
    BY <1>4
  <2>2. n - (Depth + 1) \in T
    BY <1>3, <2>1
  <2>3. QED
    BY <2>1, <2>2
<1>5. QED
  BY <1>4

(* In a typed schema validateValue looks at every part of a value.         *)
LEMMA EveryPartJudged ==
    ASSUME Depth \in Nat, NEW s, Typed(s), NEW v
    PROVE  Walk("judged", <<s, v>>) = Walk("parts", <<s, v>>)
<1> DEFINE J(n) == Level("judged", <<s, v>>, n)
           P(n) == Level("parts", <<s, v>>, n)
           T == {n \in Nat : n <= Depth => J(n) = P(n)}
<1>1. 0 \in T
  BY LevelSteps
<1>2. ASSUME NEW n \in Nat, n \in T PROVE n + 1 \in T
  <2> SUFFICES ASSUME n + 1 <= Depth PROVE J(n + 1) = P(n + 1)
    OBVIOUS
  <2>1. n \in 0..Depth /\ J(n) = P(n)
    BY <1>2
  <2>2. ASSUME NEW p \in P(n) PROVE Below("judged", p) = Below("parts", p)
    <3>1. p[1] \in Walk("nodes", s)
      BY <2>1, PartsFollowNodes DEF Walk
    <3>2. /\ DOMAIN p[1].props # {} => p[1].type = "object"
          /\ p[1].items # {} => p[1].type = "array"
      BY <3>1 DEF Typed
    <3>3. Fields(p[1], p[2]) # {} => DOMAIN p[1].props # {}
      BY DEF Fields
    <3>4. Elements(p[1], p[2]) # {} => p[1].items # {}
      BY DEF Elements
    <3>5. Judged(p[1], p[2]) = Fields(p[1], p[2]) \cup Elements(p[1], p[2])
      BY <3>2, <3>3, <3>4 DEF Judged
    <3>6. QED
      BY <3>5 DEF Below
  <2>3. \A q : q \in J(n + 1) <=> \E p \in J(n) : q \in Below("judged", p)
    BY LevelSteps
  <2>4. \A q : q \in P(n + 1) <=> \E p \in P(n) : q \in Below("parts", p)
    BY LevelSteps
  <2> HIDE DEF J, P
  <2>5. ASSUME NEW q PROVE q \in J(n + 1) <=> q \in P(n + 1)
    BY <2>1, <2>2, <2>3, <2>4, Zenon
  <2>6. QED
    BY <2>5
<1>3. Nat \subseteq T
  <2> HIDE DEF T
  <2>1. QED
    BY <1>1, <1>2, AllNumbers
<1>4. \A n \in 0..Depth : J(n) = P(n)
  BY <1>3
<1>5. QED
  BY <1>4 DEF Walk

(* What is accepted conforms.                                              *)
LEMMA AcceptedConforms ==
    ASSUME Depth \in Nat, NEW s, Typed(s), NEW v, Validates(s, v)
    PROVE  Conforms(s, v)
<1> SUFFICES ASSUME NEW p \in Walk("parts", <<s, v>>) PROVE Satisfies(p[1], p[2])
  BY DEF Conforms
<1>1. Fits(p[1], p[2])
  BY EveryPartJudged DEF Validates
<1>2. p[1] \in Walk("nodes", s)
  BY PartsFollowNodes DEF Walk
<1>3. p[1].required # {} \/ p[1].closed => p[1].type = "object"
  BY <1>2 DEF Typed
<1>4. QED
  BY <1>1, <1>3 DEF Fits, Satisfies, FieldsFit

(* What conforms is accepted.                                              *)
LEMMA ConformingAccepted ==
    ASSUME Depth \in Nat, NEW s, Level("nodes", s, Depth + 1) = {}, Plain(s),
           NEW v, Conforms(s, v)
    PROVE  Validates(s, v)
<1> SUFFICES ASSUME NEW p \in Walk("judged", <<s, v>>) PROVE Fits(p[1], p[2])
  BY DEF Validates
<1>1. p \in Walk("parts", <<s, v>>)
  BY EveryPartJudged DEF Plain
<1>2. PICK n \in 0..Depth : p \in Level("parts", <<s, v>>, n)
  BY <1>1 DEF Walk
<1>3. p[1] \in Level("nodes", s, n) /\ n \in Nat
  BY <1>2, PartsFollowNodes
<1>4. WellFormed(p[1])
  <2> SUFFICES ASSUME NEW k \in 0..Depth, NEW node \in Level("properties", p[1], k)
               PROVE  ~node.unknown
    BY DEF WellFormed, Walk
  <2>1. node \in Level("nodes", s, n + k) /\ n + k \in Nat
    BY <1>3, PropertiesAreNodes
  <2>2. n + k \in 0..Depth
    BY <2>1, NothingDeeper
  <2>3. node \in Walk("nodes", s)
    BY <2>1, <2>2 DEF Walk
  <2>4. QED
    BY <2>3 DEF Plain
<1>5. Satisfies(p[1], p[2])
  BY <1>1 DEF Conforms
<1>6. p[1].type = "object" => p[2].kind = "object"
  BY <1>5 DEF Satisfies, TypeMatches, KindsOf
<1>7. QED
  BY <1>4, <1>5, <1>6 DEF Fits, Satisfies

-----------------------------------------------------------------------------
(* The semaphore: the slots taken are counted.                             *)

Grant == [at : Nat, epoch : Nat, charge : Charge]
Used == [requests : Nat, tokens : Nat, cost : Nat]

LEMMA LimitType == Limit \in Nat \ {0}
BY ReliabilityAssumption DEF Limit

(* Any set of callers is finite.                                           *)
LEMMA CallersFinite ==
    ASSUME NEW S, S \subseteq Callers
    PROVE  IsFiniteSet(S) /\ Cardinality(S) \in Nat
BY ReliabilityAssumption, FS_Subset, FS_CardinalityType

(* Only Acquire and Release change the number of holders.                  *)
LEMMA HoldersMove ==
    ASSUME stage \in [Callers -> Stages], NEW c \in Callers, NEW to \in Stages, Goes(c, to)
    PROVE  /\ stage' \in [Callers -> Stages]
           /\ to \in Inside => Holders' = Holders \cup {c}
           /\ to \notin Inside => Holders' = Holders \ {c}
           /\ c \in Holders <=> stage[c] \in Inside
<1>1. stage' = [stage EXCEPT ![c] = to]
  BY DEF Goes
<1>2. \A d \in Callers : stage'[d] = IF d = c THEN to ELSE stage[d]
  BY <1>1
<1>3. QED
  BY <1>1, <1>2 DEF Holders

SlotsOK == taken = Cardinality(Holders) /\ taken <= Limit

LEMMA SlotsKept ==
    ASSUME stage \in [Callers -> Stages], SlotsOK, NEW c \in Callers
    PROVE  /\ Ask(c) \/ GiveUp(c) \/ Acquire(c) \/ Release(c) => SlotsOK'
           /\ \A to \in {"allowed", "denied"} :
                 stage[c] = "holding" /\ Goes(c, to) /\ taken' = taken => SlotsOK'
<1>1. IsFiniteSet(Holders) /\ Cardinality(Holders) \in Nat
  BY CallersFinite DEF Holders
<1>2. /\ Cardinality(Holders \cup {c}) =
            IF c \in Holders THEN Cardinality(Holders) ELSE Cardinality(Holders) + 1
      /\ Cardinality(Holders \ {c}) =
            IF c \in Holders THEN Cardinality(Holders) - 1 ELSE Cardinality(Holders)
  BY <1>1, FS_AddElement, FS_RemoveElement
<1>3. taken \in Nat /\ taken <= Limit /\ Limit \in Nat /\ taken = Cardinality(Holders)
  BY <1>1, LimitType DEF SlotsOK
<1>4. CASE Ask(c)
  <2>1. Goes(c, "waiting") /\ stage[c] = "new" /\ taken' = taken
    BY <1>4 DEF Ask, budget
  <2>2. Holders' = Holders \ {c} /\ c \notin Holders
    BY <2>1, HoldersMove DEF Stages, Inside
  <2>3. QED
    BY <1>2, <1>3, <2>1, <2>2 DEF SlotsOK, Limit
<1>5. CASE GiveUp(c)
  <2>1. Goes(c, "left") /\ stage[c] = "waiting" /\ taken' = taken
    BY <1>5 DEF GiveUp, budget
  <2>2. Holders' = Holders \ {c} /\ c \notin Holders
    BY <2>1, HoldersMove DEF Stages, Inside
  <2>3. QED
    BY <1>2, <1>3, <2>1, <2>2 DEF SlotsOK, Limit
<1>6. CASE Acquire(c)
  <2>1. Goes(c, "holding") /\ stage[c] = "waiting" /\ taken' = taken + 1 /\ taken < Limit
    BY <1>6 DEF Acquire
  <2>2. Holders' = Holders \cup {c} /\ c \notin Holders
    BY <2>1, HoldersMove DEF Stages, Inside
  <2>3. QED
    BY <1>2, <1>3, <2>1, <2>2 DEF SlotsOK, Limit
<1>7. CASE Release(c)
  <2>1. Goes(c, "left") /\ stage[c] \in Inside /\ taken' = IF taken > 0 THEN taken - 1 ELSE 0
    BY <1>7 DEF Release
  <2>2. Holders' = Holders \ {c} /\ c \in Holders
    BY <2>1, HoldersMove DEF Stages, Inside
  <2>3. Cardinality(Holders) # 0
    BY <1>1, <2>2, FS_EmptySet
  <2>4. QED
    BY <1>1, <1>2, <1>3, <2>1, <2>2, <2>3 DEF SlotsOK, Limit
<1>8. ASSUME NEW to \in {"allowed", "denied"},
             stage[c] = "holding", Goes(c, to), taken' = taken
      PROVE  SlotsOK'
  <2>1. Holders' = Holders \cup {c} /\ c \in Holders
    BY <1>8, HoldersMove DEF Stages, Inside
  <2>2. QED
    BY <1>2, <1>3, <1>8, <2>1 DEF SlotsOK, Limit
<1>9. QED
  BY <1>4, <1>5, <1>6, <1>7, <1>8

(* What a call of the budget finds.                                        *)
LEMMA WindowType ==
    ASSUME GovernTypeOK
    PROVE  /\ Window \in 0..clock
           /\ Usage \in [Tenants -> Used]
           /\ Window = window \/ (Window = clock /\ window + Minute <= clock)
           /\ clock < Window + Minute
<1>1. clock \in Nat /\ window \in 0..clock /\ Minute \in Nat \ {0}
  BY ReliabilityAssumption DEF GovernTypeOK
<1>2. Fresh \in [Tenants -> Used]
  BY DEF Fresh, Unused, Used
<1>3. usage \in [Tenants -> Used]
  BY DEF GovernTypeOK, Used
<1>4. QED
  BY <1>1, <1>2, <1>3 DEF Window, Usage, Expired

(* The grant an allowed request is given, and the usage it leaves.         *)
GrantNow(ask) == [at |-> clock, epoch |-> Window, charge |-> ask]
UsageAfter(t, ask) ==
    [Usage EXCEPT ![t] = [requests |-> @.requests + 1, tokens |-> @.tokens + ask.tokens,
                          cost |-> @.cost + ask.cost]]

LEMMA AllowTypes ==
    ASSUME GovernTypeOK, NEW t \in Tenants, NEW ask \in Asks
    PROVE  UsageAfter(t, ask) \in [Tenants -> Used] /\ GrantNow(ask) \in Grant
<1>1. ask \in Charge /\ Usage[t] \in Used /\ Usage \in [Tenants -> Used]
  BY WindowType, ReliabilityAssumption
<1>2. [requests |-> Usage[t].requests + 1, tokens |-> Usage[t].tokens + ask.tokens,
       cost |-> Usage[t].cost + ask.cost] \in Used
  BY <1>1 DEF Used, Charge
<1>3. UsageAfter(t, ask) \in [Tenants -> Used]
  BY <1>1, <1>2 DEF UsageAfter
<1>4. clock \in Nat /\ Window \in Nat
  BY WindowType DEF GovernTypeOK
<1>5. GrantNow(ask) \in Grant
  BY <1>1, <1>4 DEF GrantNow, Grant
<1>6. QED
  BY <1>3, <1>5

LEMMA GovernTyped == GovernTypeOK /\ [GovernNext]_governVars => GovernTypeOK'
<1> SUFFICES ASSUME GovernTypeOK, [GovernNext]_governVars
             PROVE  GovernTypeOK'
  OBVIOUS
<1>1. /\ stage \in [Callers -> Stages] /\ SlotsOK
      /\ clock \in Nat /\ window \in 0..clock
      /\ usage \in [Tenants -> Used] /\ granted \in [Callers -> SUBSET Grant]
  BY DEF GovernTypeOK, SlotsOK, Used, Grant
<1>2. SUFFICES /\ stage' \in [Callers -> Stages] /\ SlotsOK'
               /\ clock' \in Nat /\ window' \in 0..clock'
               /\ usage' \in [Tenants -> Used] /\ granted' \in [Callers -> SUBSET Grant]
  BY DEF GovernTypeOK, SlotsOK, Used, Grant
<1>3. CASE UNCHANGED governVars
  BY <1>1, <1>3 DEF governVars, SlotsOK, Holders
<1>4. CASE Tick
  <2>1. clock' = clock + 1 /\ UNCHANGED <<stage, taken, window, usage, granted>>
    BY <1>4 DEF Tick
  <2>2. QED
    BY <1>1, <2>1 DEF SlotsOK, Holders
<1>5. ASSUME NEW c \in Callers, Ask(c) \/ Acquire(c) \/ GiveUp(c) \/ Release(c)
      PROVE  <1>2!1
  <2>1. SlotsOK'
    BY <1>1, <1>5, SlotsKept
  <2>2. PICK to \in Stages : Goes(c, to)
    BY <1>5 DEF Ask, Acquire, GiveUp, Release, Stages
  <2>3. stage' \in [Callers -> Stages]
    BY <1>1, <2>2, HoldersMove
  <2>4. UNCHANGED <<clock, window, usage, granted>>
    BY <1>5 DEF Ask, Acquire, GiveUp, Release, budget
  <2>5. QED
    BY <1>1, <2>1, <2>3, <2>4
<1>6. ASSUME NEW c \in Callers, AllowUnlimited(c) \/ Deny(c) \/ Allow(c)
      PROVE  <1>2!1
  <2>1. PICK to \in {"allowed", "denied"} : Goes(c, to)
    BY <1>6 DEF AllowUnlimited, Deny, Allow
  <2>2. /\ stage[c] = "holding" /\ taken' = taken
        /\ clock' = clock /\ window' = Window
    BY <1>6 DEF AllowUnlimited, Deny, Allow
  <2>3. stage' \in [Callers -> Stages] /\ SlotsOK'
    <3>1. to \in Stages
      BY DEF Stages
    <3>2. QED
      BY <1>1, <2>1, <2>2, <3>1, HoldersMove, SlotsKept
  <2>4. clock' \in Nat /\ window' \in 0..clock'
    BY <1>1, <2>2, WindowType
  <2>5. usage' \in [Tenants -> Used] /\ granted' \in [Callers -> SUBSET Grant]
    <3>1. CASE Allow(c)
      <4>1. TenantOf[c] \in Tenants
        BY ReliabilityAssumption
      <4>2. PICK ask \in Asks : /\ usage' = UsageAfter(TenantOf[c], ask)
                                /\ granted' = [granted EXCEPT ![c] = {GrantNow(ask)}]
        BY <3>1 DEF Allow, UsageAfter, GrantNow
      <4>3. UsageAfter(TenantOf[c], ask) \in [Tenants -> Used] /\ GrantNow(ask) \in Grant
        BY <4>1, AllowTypes
      <4>4. QED
        BY <1>1, <4>2, <4>3
    <3>2. CASE AllowUnlimited(c) \/ Deny(c)
      BY <1>1, <3>2, WindowType DEF AllowUnlimited, Deny
    <3>3. QED
      BY <1>6, <3>1, <3>2
  <2>6. QED
    BY <2>3, <2>4, <2>5
<1>7. QED
  BY <1>3, <1>4, <1>5, <1>6 DEF GovernNext, GovernStep

LEMMA GovernTypedInit == GovernInit => GovernTypeOK
<1> SUFFICES ASSUME GovernInit PROVE GovernTypeOK
  OBVIOUS
<1>1. Holders = {}
  BY DEF GovernInit, Holders, Inside
<1>2. taken = Cardinality(Holders) /\ taken <= Limit
  BY <1>1, FS_EmptySet, LimitType DEF GovernInit
<1>3. stage \in [Callers -> Stages] /\ clock \in Nat /\ window \in 0..clock
  BY DEF GovernInit, Stages
<1>4. usage \in [Tenants -> Used]
  BY DEF GovernInit, Fresh, Unused, Used
<1>5. granted \in [Callers -> SUBSET Grant]
  BY DEF GovernInit
<1>6. QED
  BY <1>2, <1>3, <1>4, <1>5 DEF GovernTypeOK, Used, Grant

(* Concurrency: a slot is taken for every caller inside and for nobody      *)
(* else, so that Release never finds the channel empty and never more than  *)
(* the limit are inside.                                                    *)
THEOREM SlotsCorrect == GovernSpec => []GovernTypeOK
BY GovernTypedInit, GovernTyped, PTL DEF GovernSpec

-----------------------------------------------------------------------------
(* The budget.  Windows start a minute or more after each other, a grant    *)
(* falls within a minute of the start of its window, and the requests       *)
(* charged are those granted in the current window.                         *)

AllGrants == UNION {granted[c] : c \in Callers}

Unserved == \A c \in Callers : stage[c] \in {"new", "waiting", "holding"} => granted[c] = {}

Placed(g, start) ==
    /\ g.epoch <= g.at /\ g.at < g.epoch + Minute
    /\ g.epoch = start \/ g.epoch + Minute <= start

Spaced(g, h) ==
    g.epoch = h.epoch \/ g.epoch + Minute <= h.epoch \/ h.epoch + Minute <= g.epoch

RequestsCounted == \A t \in Limited : usage[t].requests = Cardinality(InWindow(t, window))

WindowsBounded ==
    \A t \in Limited : Quota[t].requests > 0 =>
        \A start \in Nat : Cardinality(InWindow(t, start)) <= Quota[t].requests

BudgetInv ==
    /\ Unserved
    /\ \A g \in AllGrants : Placed(g, window)
    /\ \A g, h \in AllGrants : Spaced(g, h)
    /\ RequestsCounted
    /\ WindowsBounded

LEMMA GrantTypes ==
    ASSUME GovernTypeOK, NEW g \in AllGrants
    PROVE  g.at \in Nat /\ g.epoch \in Nat
<1>1. g \in Grant
  BY DEF AllGrants, GovernTypeOK, Grant
<1>2. QED
  BY <1>1 DEF Grant

(* All of this holds of the window and the usage a call of the budget finds. *)
LEMMA Restarted ==
    ASSUME GovernTypeOK, BudgetInv
    PROVE  /\ \A g \in AllGrants : Placed(g, Window)
           /\ \A t \in Limited : Usage[t].requests = Cardinality(InWindow(t, Window))
<1>1. /\ Window \in Nat /\ window \in Nat /\ clock \in Nat /\ Minute \in Nat \ {0}
      /\ \/ Window = window /\ Usage = usage
         \/ Window = clock /\ window + Minute <= clock /\ Usage = Fresh
  <2>1. clock \in Nat /\ window \in 0..clock /\ Minute \in Nat \ {0}
    BY ReliabilityAssumption DEF GovernTypeOK
  <2>2. QED
    BY <2>1 DEF Window, Usage, Expired
<1>2. CASE Window = window /\ Usage = usage
  BY <1>2 DEF BudgetInv, RequestsCounted
<1>3. CASE Window = clock /\ window + Minute <= clock /\ Usage = Fresh
  <2>1. ASSUME NEW g \in AllGrants
        PROVE  Placed(g, Window) /\ g.epoch < Window
    <3>1. Placed(g, window) /\ g.epoch \in Nat /\ g.at \in Nat
      BY GrantTypes DEF BudgetInv
    <3>2. QED
      BY <1>1, <1>3, <3>1 DEF Placed
  <2>2. ASSUME NEW t \in Limited PROVE Usage[t].requests = Cardinality(InWindow(t, Window))
    <3>1. \A c \in Callers : \A g \in granted[c] : g.epoch # Window
      <4>1. \A c \in Callers : \A g \in granted[c] : g \in AllGrants
        BY DEF AllGrants
      <4>2. \A g \in AllGrants : g.epoch \in Nat
        BY GrantTypes
      <4>3. QED
        BY <1>1, <2>1, <4>1, <4>2
    <3>2. InWindow(t, Window) = {}
      BY <3>1 DEF InWindow
    <3>3. t \in Tenants
      BY ReliabilityAssumption
    <3>4. QED
      BY <1>3, <3>2, <3>3, FS_EmptySet DEF Fresh, Unused
  <2>3. QED
    BY <2>1, <2>2
<1>4. QED
  BY <1>1, <1>2, <1>3

(* What a grant adds to the windows.                                        *)
LEMMA GrantCounted ==
    ASSUME GovernTypeOK, NEW c \in Callers, granted[c] = {}, NEW g \in Grant,
           granted' = [granted EXCEPT ![c] = {g}]
    PROVE  /\ AllGrants' = AllGrants \cup {g}
           /\ \A t \in Tenants, start \in Nat :
                 IF t = TenantOf[c] /\ start = g.epoch
                    THEN Cardinality(InWindow(t, start)') = Cardinality(InWindow(t, start)) + 1
                    ELSE InWindow(t, start)' = InWindow(t, start)
<1>1. \A d \in Callers : granted'[d] = IF d = c THEN {g} ELSE granted[d]
  BY DEF GovernTypeOK
<1>2. AllGrants' = AllGrants \cup {g}
  BY <1>1 DEF AllGrants
<1>3. ASSUME NEW t \in Tenants, NEW start \in Nat, t = TenantOf[c], start = g.epoch
      PROVE  Cardinality(InWindow(t, start)') = Cardinality(InWindow(t, start)) + 1
  <2>1. InWindow(t, start)' = InWindow(t, start) \cup {c} /\ c \notin InWindow(t, start)
    BY <1>1, <1>3 DEF InWindow
  <2>2. IsFiniteSet(InWindow(t, start))
    BY CallersFinite DEF InWindow
  <2>3. QED
    BY <2>1, <2>2, FS_AddElement
<1>4. ASSUME NEW t \in Tenants, NEW start \in Nat, ~(t = TenantOf[c] /\ start = g.epoch)
      PROVE  InWindow(t, start)' = InWindow(t, start)
  BY <1>1, <1>4 DEF InWindow
<1>5. QED
  BY <1>2, <1>3, <1>4

(* Calls of the budget that grant nothing, and steps that do not call it.   *)
LEMMA NothingGranted ==
    ASSUME GovernTypeOK, BudgetInv, Unserved', granted' = granted,
           \/ window' = window /\ usage' = usage
           \/ window' = Window /\ usage' = Usage
    PROVE  BudgetInv'
<1>1. AllGrants' = AllGrants /\ \A t \in Limited : \A start : InWindow(t, start)' = InWindow(t, start)
  BY DEF AllGrants, InWindow
<1>2. \A g \in AllGrants : Placed(g, window')
  BY Restarted DEF BudgetInv
<1>3. \A t \in Limited : usage'[t].requests = Cardinality(InWindow(t, window'))
  BY Restarted DEF BudgetInv, RequestsCounted
<1>4. RequestsCounted' /\ WindowsBounded'
  <2>1. WindowsBounded'
    BY <1>1 DEF BudgetInv, WindowsBounded
  <2>2. \A t \in Limited : InWindow(t, window)' = InWindow(t, window')
    BY DEF InWindow
  <2>3. QED
    BY <1>3, <2>1, <2>2 DEF RequestsCounted
<1>5. \A g \in AllGrants' : Placed(g, window)'
  BY <1>1, <1>2 DEF Placed
<1>6. \A g, h \in AllGrants' : Spaced(g, h)'
  BY <1>1 DEF BudgetInv, Spaced
<1>7. QED
  BY <1>4, <1>5, <1>6 DEF BudgetInv

LEMMA BudgetStep == GovernTypeOK /\ BudgetInv /\ [GovernNext]_governVars => BudgetInv'
<1> SUFFICES ASSUME GovernTypeOK, BudgetInv, [GovernNext]_governVars
             PROVE  BudgetInv'
  OBVIOUS
<1>1. /\ stage \in [Callers -> Stages] /\ granted \in [Callers -> SUBSET Grant]
      /\ \A c \in Callers : stage[c] \in {"new", "waiting", "holding"} => granted[c] = {}
  BY DEF GovernTypeOK, Grant, BudgetInv, Unserved
<1>2. CASE UNCHANGED governVars
  BY <1>1, <1>2, NothingGranted DEF governVars, Unserved
<1>3. CASE Tick
  BY <1>1, <1>3, NothingGranted DEF Tick, Unserved
<1>4. ASSUME NEW c \in Callers,
             Ask(c) \/ Acquire(c) \/ GiveUp(c) \/ Release(c) \/ AllowUnlimited(c) \/ Deny(c)
      PROVE  BudgetInv'
  <2>1. /\ granted' = granted
        /\ \/ window' = window /\ usage' = usage
           \/ window' = Window /\ usage' = Usage
    BY <1>4 DEF Ask, Acquire, GiveUp, Release, AllowUnlimited, Deny, budget
  <2>2. \E to : /\ stage' = [stage EXCEPT ![c] = to]
                /\ to \in {"new", "waiting", "holding"} =>
                      stage[c] \in {"new", "waiting", "holding"}
    <3>1. CASE Ask(c) \/ Acquire(c)
      BY <3>1 DEF Ask, Acquire, Goes
    <3>2. CASE GiveUp(c) \/ Release(c)
      BY <3>2 DEF GiveUp, Release, Goes
    <3>3. CASE AllowUnlimited(c) \/ Deny(c)
      BY <3>3 DEF AllowUnlimited, Deny, Goes
    <3>4. QED
      BY <1>4, <3>1, <3>2, <3>3
  <2>3. Unserved'
    BY <1>1, <2>1, <2>2 DEF Unserved
  <2>4. QED
    BY <2>1, <2>3, NothingGranted
<1>5. ASSUME NEW c \in Callers, Allow(c) PROVE BudgetInv'
  <2>1. PICK t \in Limited : t = TenantOf[c]
    BY <1>5 DEF Allow
  <2>2. PICK ask \in Asks : /\ WithinQuota(Quota[t], Usage[t], ask)
                            /\ usage' = UsageAfter(t, ask)
                            /\ granted' = [granted EXCEPT ![c] = {GrantNow(ask)}]
    BY <1>5, <2>1 DEF Allow, UsageAfter, GrantNow
  <2>3. PICK g \in Grant : g = GrantNow(ask)
    BY <2>1, AllowTypes, ReliabilityAssumption
  <2>4. g.at = clock /\ g.epoch = Window
    BY <2>3 DEF GrantNow
  <2>5. stage[c] = "holding" /\ stage' = [stage EXCEPT ![c] = "allowed"] /\ window' = Window
    BY <1>5 DEF Allow, Goes
  <2>6. granted[c] = {} /\ granted' = [granted EXCEPT ![c] = {g}]
    BY <1>1, <2>2, <2>3, <2>5
  <2>7. /\ Window \in 0..clock /\ clock \in Nat /\ clock < Window + Minute
        /\ Minute \in Nat \ {0} /\ Window \in Nat
    BY WindowType, ReliabilityAssumption DEF GovernTypeOK
  <2>8. Unserved'
    BY <1>1, <2>5, <2>6 DEF Unserved
  <2>9. AllGrants' = AllGrants \cup {g}
    BY <2>6, GrantCounted
  <2>10. \A h \in AllGrants : Placed(h, Window) /\ h.epoch \in Nat /\ h.at \in Nat
    BY Restarted, GrantTypes
  <2>11. Placed(g, Window)
    BY <2>4, <2>7 DEF Placed
  <2>12. \A h \in AllGrants' : Placed(h, window)'
    BY <2>5, <2>9, <2>10, <2>11 DEF Placed
  <2>13. \A h \in AllGrants : Spaced(g, h) /\ Spaced(h, g)
    BY <2>4, <2>7, <2>10 DEF Spaced, Placed
  <2>14. \A h, i \in AllGrants' : Spaced(h, i)'
    BY <2>9, <2>13 DEF Spaced, BudgetInv
  <2>15. PICK now \in Nat : now = Window
    BY <2>7
  <2>16. ASSUME NEW u \in Limited
         PROVE  /\ usage'[u].requests = Cardinality(InWindow(u, now)')
                /\ Quota[u].requests > 0 => \A start \in Nat :
                      Cardinality(InWindow(u, start)') <= Quota[u].requests
    <3>1. u \in Tenants /\ Quota[u].requests \in Nat /\ Usage \in [Tenants -> Used]
      BY WindowType, ReliabilityAssumption
    <3>2. Usage[u].requests = Cardinality(InWindow(u, now)) /\ Usage[u].requests \in Nat
      BY <2>15, <3>1, Restarted DEF Used
    <3>3. Quota[u].requests > 0 => \A start \in Nat :
             Cardinality(InWindow(u, start)) <= Quota[u].requests
      BY DEF BudgetInv, WindowsBounded
    <3>4. CASE u = t
      <4>1. usage'[u].requests = Usage[u].requests + 1
        BY <2>2, <3>1, <3>4 DEF UsageAfter
      <4>2. Cardinality(InWindow(u, now)') = Cardinality(InWindow(u, now)) + 1
        BY <2>1, <2>4, <2>6, <2>15, <3>1, <3>4, GrantCounted
      <4>3. \A start \in Nat : start # now => InWindow(u, start)' = InWindow(u, start)
        BY <2>1, <2>4, <2>6, <2>15, <3>1, <3>4, GrantCounted, ZenonT(60)
      <4>4. Quota[u].requests > 0 => Usage[u].requests < Quota[u].requests
        BY <2>2, <3>4 DEF WithinQuota
      <4>5. Quota[u].requests > 0 => Cardinality(InWindow(u, now)') <= Quota[u].requests
        BY <3>1, <3>2, <4>2, <4>4
      <4>6. QED
        BY <3>2, <3>3, <4>1, <4>2, <4>3, <4>5
    <3>5. CASE u # t
      <4>1. usage'[u].requests = Usage[u].requests
        BY <2>2, <3>1, <3>5 DEF UsageAfter
      <4>2. \A start \in Nat : InWindow(u, start)' = InWindow(u, start)
        BY <2>1, <2>6, <3>1, <3>5, GrantCounted, ZenonT(60)
      <4>3. QED
        BY <3>2, <3>3, <4>1, <4>2
    <3>6. QED
      BY <3>4, <3>5
  <2>17. \A u \in Limited : InWindow(u, window)' = InWindow(u, now)'
    BY <2>5, <2>15 DEF InWindow
  <2>18. QED
    BY <2>8, <2>12, <2>14, <2>16, <2>17 DEF BudgetInv, RequestsCounted, WindowsBounded
<1>6. QED
  BY <1>2, <1>3, <1>4, <1>5 DEF GovernNext, GovernStep

LEMMA BudgetInit == GovernInit => BudgetInv
<1> SUFFICES ASSUME GovernInit PROVE BudgetInv
  OBVIOUS
<1>1. /\ \A c \in Callers : granted[c] = {}
      /\ AllGrants = {}
      /\ \A t \in Limited : \A start : InWindow(t, start) = {}
  BY DEF GovernInit, AllGrants, InWindow
<1>2. \A t \in Limited : usage[t].requests = 0
  BY ReliabilityAssumption DEF GovernInit, Fresh, Unused
<1>3. \A t \in Limited : Quota[t].requests \in Nat
  BY ReliabilityAssumption
<1>4. RequestsCounted
  BY <1>1, <1>2, FS_EmptySet DEF RequestsCounted
<1>5. WindowsBounded
  BY <1>1, <1>3, FS_EmptySet DEF WindowsBounded
<1>6. QED
  BY <1>1, <1>4, <1>5 DEF BudgetInv, Unserved

(* A minute meets two windows at most.                                      *)
LEMMA TwoWindows ==
    ASSUME GovernTypeOK, BudgetInv, NEW t \in Limited, NEW start \in Nat
    PROVE  \E e, f \in Nat : InMinute(t, start) \subseteq InWindow(t, e) \cup InWindow(t, f)
<1> DEFINE Now(g) == g \in AllGrants /\ start <= g.at /\ g.at < start + Minute
<1>1. /\ Minute \in Nat \ {0}
      /\ \A g \in AllGrants : g.epoch \in Nat /\ g.at \in Nat
  BY GrantTypes, ReliabilityAssumption
<1>2. ASSUME NEW g, NEW h, NEW k, Now(g), Now(h), Now(k),
             g.epoch # h.epoch, g.epoch # k.epoch
      PROVE  h.epoch = k.epoch
  <2>1. Placed(g, window) /\ Placed(h, window) /\ Placed(k, window)
    BY <1>2 DEF BudgetInv
  <2>2. Spaced(g, h) /\ Spaced(g, k) /\ Spaced(h, k)
    BY <1>2 DEF BudgetInv
  <2>3. QED
    BY <1>1, <1>2, <2>1, <2>2 DEF Placed, Spaced
<1> DEFINE AtMostTwo == \E e, f \in Nat : \A g : Now(g) => g.epoch \in {e, f}
<1>3. AtMostTwo
  <2>1. CASE \A g : ~Now(g)
    BY <2>1
  <2>2. ASSUME NEW g, Now(g), \A h : Now(h) => h.epoch = g.epoch
        PROVE  AtMostTwo
    BY <1>1, <2>2
  <2>3. ASSUME NEW g, Now(g), NEW h, Now(h), h.epoch # g.epoch
        PROVE  AtMostTwo
    <3>1. \A k : Now(k) => k.epoch \in {g.epoch, h.epoch}
      BY <1>2, <2>3
    <3>2. g.epoch \in Nat /\ h.epoch \in Nat
      BY <1>1, <2>3
    <3>3. QED
      BY <3>1, <3>2
  <2>4. QED
    BY <2>1, <2>2, <2>3
<1>4. PICK e \in Nat, f \in Nat : \A g : Now(g) => g.epoch \in {e, f}
  BY <1>3
<1>5. ASSUME NEW c \in InMinute(t, start)
      PROVE  c \in InWindow(t, e) \cup InWindow(t, f)
  <2>1. PICK g \in granted[c] : start <= g.at /\ g.at < start + Minute
    BY DEF InMinute
  <2>2. c \in Callers /\ TenantOf[c] = t /\ Now(g)
    BY <2>1 DEF InMinute, AllGrants
  <2>3. g.epoch \in {e, f}
    BY <1>4, <2>2
  <2>4. QED
    BY <2>1, <2>2, <2>3 DEF InWindow
<1>6. QED
  BY <1>5

LEMMA BudgetBounds == GovernTypeOK /\ BudgetInv => RequestsBounded
<1> SUFFICES ASSUME GovernTypeOK, BudgetInv,
                    NEW t \in Limited, Quota[t].requests > 0, NEW start \in 0..clock
             PROVE  /\ Cardinality(InWindow(t, start)) <= Quota[t].requests
                    /\ Cardinality(InMinute(t, start)) <= 2 * Quota[t].requests
  BY DEF RequestsBounded
<1>1. start \in Nat /\ Quota[t].requests \in Nat
  BY ReliabilityAssumption DEF GovernTypeOK
<1>2. \A e \in Nat : Cardinality(InWindow(t, e)) <= Quota[t].requests
  BY DEF BudgetInv, WindowsBounded
<1>3. PICK e \in Nat, f \in Nat : InMinute(t, start) \subseteq InWindow(t, e) \cup InWindow(t, f)
  BY <1>1, TwoWindows
<1>4. PICK V, W : V = InWindow(t, e) /\ W = InWindow(t, f)
  OBVIOUS
<1>5. /\ V \subseteq Callers /\ W \subseteq Callers
      /\ InMinute(t, start) \in SUBSET (V \cup W)
  BY <1>3, <1>4 DEF InWindow
<1>6. /\ IsFiniteSet(V) /\ IsFiniteSet(W) /\ IsFiniteSet(V \cup W)
      /\ Cardinality(V) \in Nat /\ Cardinality(W) \in Nat
      /\ Cardinality(V \cap W) \in Nat /\ Cardinality(V \cup W) \in Nat
  <2>1. V \cap W \subseteq Callers /\ V \cup W \subseteq Callers
    BY <1>5
  <2>2. QED
    BY <1>5, <2>1, CallersFinite
<1>7. Cardinality(V \cup W) = Cardinality(V) + Cardinality(W) - Cardinality(V \cap W)
  BY <1>6, FS_Union
<1>8. Cardinality(InMinute(t, start)) <= Cardinality(V \cup W)
  BY <1>5, <1>6, FS_Subset
<1>9. Cardinality(InMinute(t, start)) \in Nat
  BY CallersFinite DEF InMinute
<1>10. QED
  BY <1>1, <1>2, <1>4, <1>6, <1>7, <1>8, <1>9

(* Budget: no tenant is granted more requests than its quota in a window,   *)
(* nor more than twice the quota in any minute, whatever the callers do and *)
(* whenever they call.                                                      *)
THEOREM RequestsWithinQuota == GovernSpec => []RequestsBounded
<1>1. GovernInit => GovernTypeOK /\ BudgetInv
  BY GovernTypedInit, BudgetInit
<1>2. GovernTypeOK /\ BudgetInv /\ [GovernNext]_governVars => GovernTypeOK' /\ BudgetInv'
  BY GovernTyped, BudgetStep
<1>3. QED
  BY <1>1, <1>2, BudgetBounds, PTL DEF GovernSpec

-----------------------------------------------------------------------------
(* The amounts, unit by unit.                                              *)

Units(S, kind) == UNION {{c} \X (1 .. Charged(c, kind)) : c \in S}

LEMMA ChargedType ==
    ASSUME GovernTypeOK, NEW c \in Callers, granted[c] # {}, NEW kind \in Amounts
    PROVE  Charged(c, kind) \in Nat
<1>1. (CHOOSE g \in granted[c] : TRUE) \in granted[c]
  OBVIOUS
<1>2. (CHOOSE g \in granted[c] : TRUE) \in Grant
  BY <1>1 DEF GovernTypeOK, Grant
<1>3. QED
  BY <1>2 DEF Charged, Grant, Charge, Amounts

LEMMA UnitsFinite ==
    ASSUME GovernTypeOK, NEW S, S \subseteq Callers, \A c \in S : granted[c] # {},
           NEW kind \in Amounts
    PROVE  IsFiniteSet(Units(S, kind)) /\ Cardinality(Units(S, kind)) \in Nat
<1> DEFINE U(c) == {c} \X (1 .. Charged(c, kind))
           all == {U(c) : c \in S}
           f == [c \in S |-> U(c)]
<1>1. \A T \in all : IsFiniteSet(T)
  <2>1. ASSUME NEW c \in S PROVE IsFiniteSet(U(c))
    <3>1. PICK n \in Nat : n = Charged(c, kind)
      BY ChargedType
    <3>2. IsFiniteSet(1 .. n)
      BY FS_Interval
    <3>3. IsFiniteSet({c} \X (1 .. n))
      BY <3>2, FS_Singleton, FS_Product
    <3>4. QED
      BY <3>1, <3>3
  <2>2. QED
    BY <2>1
<1>2. IsFiniteSet(all)
  <2>1. f \in Surjection(S, all) /\ IsFiniteSet(S)
    BY CallersFinite DEF Surjection
  <2> HIDE DEF f, all
  <2>2. QED
    BY <2>1, FS_Surjection
<1>3. IsFiniteSet(UNION all)
  BY <1>1, <1>2, FS_UNION
<1>4. QED
  BY <1>3, FS_CardinalityType DEF Units

(* Callers whose grants stay, and one that is granted something.           *)
LEMMA UnitsKept ==
    ASSUME GovernTypeOK, NEW c \in Callers, granted[c] = {}, NEW g \in Grant,
           granted' = [granted EXCEPT ![c] = {g}],
           NEW S, S \subseteq Callers, \A d \in S : granted[d] # {}, NEW kind \in Amounts
    PROVE  /\ Units(S, kind)' = Units(S, kind)
           /\ Granted(S, kind)' = Granted(S, kind)
<1>1. \A d \in S : d # c /\ granted'[d] = granted[d]
  OBVIOUS
<1>2. \A d \in S : Charged(d, kind)' = Charged(d, kind)
  BY <1>1 DEF Charged
<1>3. Units(S, kind)' = Units(S, kind)
  BY <1>2 DEF Units
<1>4. QED
  BY <1>3 DEF Granted, Units

LEMMA UnitsAdded ==
    ASSUME GovernTypeOK, NEW c \in Callers, NEW n \in Nat, NEW kind \in Amounts,
           NEW S, S \subseteq Callers, \A d \in S : granted[d] # {} /\ d # c,
           Units(S, kind)' = Units(S, kind), Charged(c, kind)' = n
    PROVE  \A T : (\A d : d \in T <=> d \in S \/ d = c)
                     => Granted(T, kind)' = Granted(S, kind) + n
<1> SUFFICES ASSUME NEW T, \A d : d \in T <=> d \in S \/ d = c
             PROVE  Granted(T, kind)' = Granted(S, kind) + n
  OBVIOUS
<1> DEFINE new == {c} \X (1 .. n)
<1>1. Units(T, kind)' = Units(S, kind) \cup new
  <2>1. T = S \cup {c}
    OBVIOUS
  <2>2. Units(T, kind)' = Units(S, kind)' \cup ({c} \X (1 .. Charged(c, kind)'))
    BY <2>1 DEF Units
  <2>3. QED
    BY <2>2
<1>2. Units(S, kind) \cap new = {}
  BY DEF Units
<1>3. IsFiniteSet(new) /\ Cardinality(new) = n
  <2>1. IsFiniteSet(1 .. n) /\ Cardinality(1 .. n) = n
    BY FS_Interval
  <2>2. IsFiniteSet({c}) /\ Cardinality({c}) = 1
    BY FS_Singleton
  <2>3. /\ IsFiniteSet({c} \X (1 .. n))
        /\ Cardinality({c} \X (1 .. n)) = Cardinality({c}) * Cardinality(1 .. n)
    BY <2>1, <2>2, FS_Product, Zenon
  <2>4. QED
    BY <2>1, <2>2, <2>3
<1>4. IsFiniteSet(Units(S, kind)) /\ Cardinality(Units(S, kind)) \in Nat
  BY UnitsFinite
<1>5. Cardinality(Units(S, kind) \cup new) = Cardinality(Units(S, kind)) + n
  <2> HIDE DEF new
  <2>1. Cardinality(Units(S, kind) \cup new)
          = Cardinality(Units(S, kind)) + Cardinality(new) - Cardinality(Units(S, kind) \cap new)
    BY <1>3, <1>4, FS_Union
  <2>2. Cardinality(Units(S, kind) \cap new) = 0
    BY <1>2, FS_EmptySet
  <2>3. QED
    BY <1>3, <1>4, <2>1, <2>2
<1>6. QED
  BY <1>1, <1>5 DEF Granted, Units

(* What is charged to a tenant is what it was granted in the window.       *)
AmountInv ==
    \A t \in Limited, kind \in Amounts :
        /\ usage[t][kind] = Granted(InWindow(t, window), kind)
        /\ Quota[t][kind] > 0 =>
              \A start \in Nat : Granted(InWindow(t, start), kind) <= Quota[t][kind]

LEMMA InWindowGranted ==
    ASSUME NEW t, NEW start
    PROVE  /\ InWindow(t, start) \subseteq Callers
           /\ \A c \in InWindow(t, start) : granted[c] # {}
BY DEF InWindow

LEMMA AmountRestarted ==
    ASSUME GovernTypeOK, BudgetInv, AmountInv, NEW t \in Limited, NEW kind \in Amounts
    PROVE  Usage[t][kind] = Granted(InWindow(t, Window), kind)
<1>1. CASE ~Expired
  BY <1>1 DEF AmountInv, Usage, Window
<1>2. CASE Expired
  <2>1. Usage[t] = Unused
    BY <1>2, ReliabilityAssumption DEF Usage, Fresh
  <2>2. Cardinality(InWindow(t, Window)) = 0
    BY <2>1, Restarted DEF Unused
  <2>3. InWindow(t, Window) = {}
    BY <2>2, InWindowGranted, CallersFinite, FS_EmptySet
  <2>4. Units({}, kind) = {}
    BY DEF Units
  <2>5. Granted({}, kind) = 0
    BY <2>4, FS_EmptySet DEF Granted, Units
  <2>6. QED
    BY <2>1, <2>3, <2>5 DEF Unused, Amounts
<1>3. QED
  BY <1>1, <1>2

LEMMA AmountsKept ==
    ASSUME GovernTypeOK, BudgetInv, AmountInv, granted' = granted,
           \/ window' = window /\ usage' = usage
           \/ window' = Window /\ usage' = Usage
    PROVE  AmountInv'
<1>1. \A t, start, kind : Granted(InWindow(t, start), kind)' = Granted(InWindow(t, start), kind)
  BY DEF InWindow, Granted, Charged
<1>2. \A t, kind : Granted(InWindow(t, window), kind)' = Granted(InWindow(t, window'), kind)
  BY DEF InWindow, Granted, Charged
<1>3. \A t \in Limited, kind \in Amounts :
         usage'[t][kind] = Granted(InWindow(t, window'), kind)
  BY AmountRestarted DEF AmountInv
<1>4. QED
  BY <1>1, <1>2, <1>3 DEF AmountInv

LEMMA AmountsAllowed ==
    ASSUME GovernTypeOK, BudgetInv, AmountInv, NEW c \in Callers, Allow(c)
    PROVE  AmountInv'
<1>1. PICK t \in Limited : t = TenantOf[c]
  BY DEF Allow
<1>2. PICK ask \in Asks : /\ WithinQuota(Quota[t], Usage[t], ask)
                          /\ usage' = UsageAfter(t, ask)
                          /\ granted' = [granted EXCEPT ![c] = {GrantNow(ask)}]
  BY <1>1 DEF Allow, UsageAfter, GrantNow
<1>3. PICK g \in Grant : g = GrantNow(ask)
  BY <1>1, AllowTypes, ReliabilityAssumption
<1>4. g.epoch = Window /\ g.charge = ask /\ Window \in Nat /\ window' = Window
  BY <1>3, WindowType DEF GrantNow, Allow, GovernTypeOK
<1>5. granted[c] = {} /\ granted' = [granted EXCEPT ![c] = {g}]
  BY <1>2, <1>3 DEF Allow, BudgetInv, Unserved
<1>6. ASSUME NEW u \in Limited, NEW kind \in Amounts
      PROVE  /\ \A start \in Nat :
                   start = Window => usage'[u][kind] = Granted(InWindow(u, start), kind)'
             /\ Quota[u][kind] > 0 =>
                   \A start \in Nat : Granted(InWindow(u, start), kind)' <= Quota[u][kind]
  <2>1. u \in Tenants /\ Quota[u][kind] \in Nat /\ Usage \in [Tenants -> Used]
    BY WindowType, ReliabilityAssumption DEF Amounts
  <2>2. Usage[u][kind] = Granted(InWindow(u, Window), kind) /\ Usage[u][kind] \in Nat
    BY <2>1, AmountRestarted DEF Used, Amounts
  <2>3. ask[kind] \in Nat /\ g.charge[kind] = ask[kind]
    BY <1>4, ReliabilityAssumption DEF Charge, Amounts
  <2>4. Quota[u][kind] > 0 =>
          \A start \in Nat : Granted(InWindow(u, start), kind) <= Quota[u][kind]
    BY DEF AmountInv
  <2>5. ASSUME NEW start \in Nat, u = t, start = Window
        PROVE  Granted(InWindow(u, start), kind)'
                 = Granted(InWindow(u, start), kind) + ask[kind]
    <3>1. InWindow(u, start)' = InWindow(u, start) \cup {c}
      BY <1>1, <1>4, <1>5, <2>5 DEF InWindow, GovernTypeOK
    <3>2. PICK S : S = InWindow(u, start)
      OBVIOUS
    <3>3. S \subseteq Callers /\ \A d \in S : granted[d] # {} /\ d # c
      BY <1>5, <3>2, InWindowGranted
    <3>4. Units(S, kind)' = Units(S, kind)
      BY <1>5, <3>3, UnitsKept
    <3>5. Charged(c, kind)' = ask[kind]
      <4>1. granted'[c] = {g}
        BY <1>5 DEF GovernTypeOK
      <4>2. (CHOOSE h \in granted'[c] : TRUE) = g
        BY <4>1
      <4>3. QED
        BY <2>3, <4>2 DEF Charged
    <3> DEFINE T == S \cup {c}
    <3>6. \A d : d \in T <=> d \in S \/ d = c
      OBVIOUS
    <3> HIDE DEF T
    <3>7. Granted(T, kind)' = Granted(S, kind) + ask[kind]
      BY <2>3, <3>3, <3>4, <3>5, <3>6, UnitsAdded
    <3>8. Granted(InWindow(u, start), kind)' = Granted(T, kind)'
      BY <3>1, <3>2 DEF T
    <3>9. QED
      BY <3>2, <3>7, <3>8
  <2>6. ASSUME NEW start \in Nat, ~(u = t /\ start = Window)
        PROVE  Granted(InWindow(u, start), kind)' = Granted(InWindow(u, start), kind)
    <3>1. InWindow(u, start)' = InWindow(u, start)
      BY <1>1, <1>4, <1>5, <2>6 DEF InWindow, GovernTypeOK
    <3>2. PICK S : S = InWindow(u, start)
      OBVIOUS
    <3>3. S \subseteq Callers /\ \A d \in S : granted[d] # {}
      BY <3>2, InWindowGranted
    <3>4. Granted(S, kind)' = Granted(S, kind)
      BY <1>5, <3>3, UnitsKept
    <3>5. QED
      BY <3>1, <3>2, <3>4
  <2>7. usage'[u][kind] = IF u = t THEN Usage[u][kind] + ask[kind] ELSE Usage[u][kind]
    BY <1>2, <2>1 DEF UsageAfter, Amounts
  <2>8. u = t /\ Quota[u][kind] > 0 => Usage[u][kind] + ask[kind] <= Quota[u][kind]
    BY <1>2 DEF WithinQuota
  <2>9. QED
    BY <1>4, <2>2, <2>4, <2>5, <2>6, <2>7, <2>8
<1>7. QED
  BY <1>4, <1>6 DEF AmountInv

LEMMA AmountStep ==
    ASSUME GovernTypeOK, BudgetInv, AmountInv, [GovernNext]_governVars
    PROVE  AmountInv'
<1>1. CASE UNCHANGED governVars
  BY <1>1, AmountsKept DEF governVars
<1>2. CASE Tick
  BY <1>2, AmountsKept DEF Tick
<1>3. ASSUME NEW c \in Callers,
             Ask(c) \/ Acquire(c) \/ GiveUp(c) \/ Release(c) \/ AllowUnlimited(c) \/ Deny(c)
      PROVE  AmountInv'
  <2>1. /\ granted' = granted
        /\ \/ window' = window /\ usage' = usage
           \/ window' = Window /\ usage' = Usage
    BY <1>3 DEF Ask, Acquire, GiveUp, Release, AllowUnlimited, Deny, budget
  <2>2. QED
    BY <2>1, AmountsKept
<1>4. QED
  BY <1>1, <1>2, <1>3, AmountsAllowed DEF GovernNext, GovernStep

LEMMA AmountInit == GovernInit => AmountInv
<1> SUFFICES ASSUME GovernInit, NEW t \in Limited, NEW kind \in Amounts
             PROVE  /\ usage[t][kind] = 0
                    /\ \A start : Granted(InWindow(t, start), kind) = 0
                    /\ Quota[t][kind] \in Nat
  BY DEF AmountInv
<1>1. \A start : InWindow(t, start) = {}
  BY DEF GovernInit, InWindow
<1>2. Units({}, kind) = {}
  BY DEF Units
<1>3. Granted({}, kind) = 0
  BY <1>2, FS_EmptySet DEF Granted, Units
<1>4. usage[t][kind] = 0
  BY ReliabilityAssumption DEF GovernInit, Fresh, Unused, Amounts
<1>5. Quota[t][kind] \in Nat
  BY ReliabilityAssumption DEF Amounts
<1>6. QED
  BY <1>1, <1>3, <1>4, <1>5

LEMMA AmountBounds == GovernTypeOK /\ BudgetInv /\ AmountInv => AmountsBounded
<1> SUFFICES ASSUME GovernTypeOK, BudgetInv, AmountInv,
                    NEW t \in Limited, NEW kind \in Amounts, Quota[t][kind] > 0,
                    NEW start \in 0..clock
             PROVE  /\ Granted(InWindow(t, start), kind) <= Quota[t][kind]
                    /\ Granted(InMinute(t, start), kind) <= 2 * Quota[t][kind]
  BY DEF AmountsBounded
<1>1. start \in Nat /\ Quota[t][kind] \in Nat
  BY ReliabilityAssumption DEF GovernTypeOK, Amounts
<1>2. \A e \in Nat : Granted(InWindow(t, e), kind) <= Quota[t][kind]
  BY DEF AmountInv
<1>3. PICK e \in Nat, f \in Nat : InMinute(t, start) \subseteq InWindow(t, e) \cup InWindow(t, f)
  BY <1>1, TwoWindows
<1>4. PICK V, W, M : /\ V = Units(InWindow(t, e), kind) /\ W = Units(InWindow(t, f), kind)
                     /\ M = Units(InMinute(t, start), kind)
  OBVIOUS
<1>5. M \in SUBSET (V \cup W)
  BY <1>3, <1>4 DEF Units
<1>6. /\ IsFiniteSet(V) /\ Cardinality(V) \in Nat
      /\ IsFiniteSet(W) /\ Cardinality(W) \in Nat
  BY <1>4, InWindowGranted, UnitsFinite
<1>7. /\ IsFiniteSet(V \cup W) /\ Cardinality(V \cup W) \in Nat /\ Cardinality(V \cap W) \in Nat
      /\ Cardinality(V \cup W) = Cardinality(V) + Cardinality(W) - Cardinality(V \cap W)
  <2>1. IsFiniteSet(V \cap W)
    <3>1. V \cap W \in SUBSET V
      OBVIOUS
    <3>2. QED
      BY <1>6, <3>1, FS_Subset
  <2>2. QED
    BY <1>6, <2>1, FS_Union, FS_CardinalityType
<1>8. Cardinality(M) <= Cardinality(V \cup W) /\ Cardinality(M) \in Nat
  BY <1>5, <1>7, FS_Subset, FS_CardinalityType
<1>9. /\ Granted(InWindow(t, e), kind) = Cardinality(V) /\ Granted(InWindow(t, f), kind) = Cardinality(W)
      /\ Granted(InMinute(t, start), kind) = Cardinality(M)
  BY <1>4 DEF Granted, Units
<1>10. Cardinality(V) <= Quota[t][kind] /\ Cardinality(W) <= Quota[t][kind]
  BY <1>2, <1>9
<1>11. QED
  BY <1>1, <1>2, <1>6, <1>7, <1>8, <1>9, <1>10

GovernInv == GovernTypeOK /\ BudgetInv /\ AmountInv

LEMMA Governed ==
    /\ GovernInit => GovernInv
    /\ GovernInv /\ [GovernNext]_governVars => GovernInv'
    /\ GovernInv => RequestsBounded /\ AmountsBounded
BY GovernTypedInit, GovernTyped, BudgetInit, BudgetStep, BudgetBounds,
   AmountInit, AmountStep, AmountBounds DEF GovernInv

(* Budget: no tenant is granted more tokens or cost than its quota in a      *)
(* window, nor more than twice the quota in any minute.                      *)
THEOREM AmountsWithinQuota == GovernSpec => []AmountsBounded
BY Governed, PTL DEF GovernSpec

-----------------------------------------------------------------------------
(* The service takes the steps of its semaphore and budget, or none.       *)

LEMMA StepsGoverned == [Next]_vars => [GovernNext]_governVars
<1> SUFFICES ASSUME [Next]_vars PROVE [GovernNext]_governVars
  OBVIOUS
<1>1. ASSUME NEW c \in Callers, Admit(c) PROVE GovernNext
  BY <1>1 DEF Admit, GovernNext, GovernStep
<1>2. ASSUME NEW c \in Callers, Leave(c) PROVE GovernNext
  BY <1>2 DEF Leave, GovernNext, GovernStep
<1>3. CASE Minutes
  BY <1>3 DEF Minutes, GovernNext
<1>4. ASSUME NEW c \in Callers, RunStep(c) PROVE UNCHANGED governVars
  <2>1. CASE Start(c) \/ List(c) \/ ToolStarts(c) \/ AppendTurn(c)
    BY <2>1 DEF Start, List, ToolStarts, AppendTurn, Sets
  <2>2. CASE ModelFails(c) \/ FinalReply(c)
    BY <2>2 DEF ModelFails, FinalReply, ModelReturns, Sets
  <2>3. CASE CallsTool(c)
    BY <2>3 DEF CallsTool, Sets
  <2>4. CASE Invoke(c)
    BY <2>4 DEF Invoke, ToolCompleted, Sets
  <2>5. CASE SendsToChannel(c) \/ ChannelGivenUp(c) \/ SendsToRemote(c) \/ RemoteRefuses(c)
    BY <2>5 DEF SendsToChannel, ChannelGivenUp, SendsToRemote, RemoteRefuses, Sets
  <2>6. QED
    BY <1>4, <2>1, <2>2, <2>3, <2>4, <2>5 DEF RunStep
<1>5. CASE StopListening \/ Receive \/ \E def \in scenario.catalog : Register(def)
  BY <1>5 DEF StopListening, Receive, Register
<1>6. ASSUME NEW c \in Callers, ContextEnds(c) PROVE UNCHANGED governVars
  BY <1>6 DEF ContextEnds
<1>7. CASE UNCHANGED vars
  BY <1>7 DEF vars
<1>8. QED
  BY <1>1, <1>2, <1>3, <1>4, <1>5, <1>6, <1>7 DEF Next

(* Agent runs, their sinks and their tools do not touch the semaphore or the  *)
(* budget but through Acquire, Release and Allow.                             *)
THEOREM Governs == Spec => GovernSpec
<1>1. Init => GovernInit
  BY DEF Init
<1>2. QED
  BY <1>1, StepsGoverned, PTL DEF Spec, GovernSpec

(* So the quotas hold for the requests of agent runs too.                     *)
THEOREM QuotasHold == Spec => [](RequestsBounded /\ AmountsBounded)
<1>1. GovernSpec => [](RequestsBounded /\ AmountsBounded)
  BY Governed, PTL DEF GovernSpec
<1>2. QED
  BY <1>1, Governs, PTL

-----------------------------------------------------------------------------
(* Type correctness.                                                       *)

(* The points a run goes on to after an event, and the point it is at or   *)
(* will be at when its event is published.                                 *)
Goals == {"list", "model", "tool", "invoke", "append", "done"}
Place(r) == IF r.pc = "publish" THEN r.then ELSE r.pc

Record(r) ==
    /\ DOMAIN r = {"pc", "then", "leaf", "round", "events", "offered", "call", "ran", "stored"}
    /\ r.round \in 0..scenario.rounds
    /\ r.events \in Seq(Event)

(* Only who was allowed runs the agent, and it leaves when the run is done; *)
(* a round is counted only after its tool call.                             *)
Fine(r, c) ==
    /\ Record(r)
    /\ r.pc \in Points /\ r.then \in Goals \cup {"idle"}
    /\ r.pc = "publish" => r.leaf \in 1..Len(scenario.sinks) /\ r.then \in Goals
    /\ Place(r) \in {"tool", "invoke"} => r.round < scenario.rounds
    /\ r.pc # "idle" => stage[c] \in {"allowed", "left"} /\ c \in scenario.agents
    /\ stage[c] = "left" => r.pc \in {"idle", "done"}

TypeInv ==
    /\ GovernTypeOK
    /\ scenario \in Scenarios
    /\ live \subseteq Callers
    /\ channel \in Seq(Callers \X Nat) /\ Len(channel) <= Capacity
    /\ run = [c \in Callers |-> run[c]]
    /\ \A c \in Callers : Fine(run[c], c)
    /\ told \in [Leaves -> [Callers -> Seq(Nat)]]
    /\ failed \subseteq Callers \X Nat

LEMMA SinksType ==
    ASSUME scenario \in Scenarios
    PROVE  /\ scenario.sinks \in Seq(Leaves) /\ Len(scenario.sinks) \in Nat
           /\ DOMAIN scenario.sinks = 1..Len(scenario.sinks)
           /\ scenario.sinks # <<>> => Len(scenario.sinks) >= 1
           /\ \A i, j \in DOMAIN scenario.sinks :
                 scenario.sinks[i] = scenario.sinks[j] => i = j
           /\ scenario.rounds \in Nat /\ Depth \in Nat
<1>1. /\ scenario.sinks \in UNION {[1..n -> Leaves] : n \in 0..2} /\ IsInjective(scenario.sinks)
      /\ scenario.rounds \in Nat /\ Depth \in Nat
  BY ServiceAssumption
<1>2. PICK n \in 0..2 : scenario.sinks \in [1..n -> Leaves]
  BY <1>1
<1>3. /\ scenario.sinks \in Seq(Leaves) /\ Len(scenario.sinks) = n
      /\ DOMAIN scenario.sinks = 1..n
  BY <1>2
<1>4. scenario.sinks # <<>> => n # 0
  <2>1. scenario.sinks # <<>> => Len(scenario.sinks) # 0
    BY <1>3, EmptySeq
  <2>2. QED
    BY <1>3, <2>1
<1>5. QED
  BY <1>1, <1>3, <1>4 DEF IsInjective

(* A run that emits an event.                                              *)
LEMMA EmitsFine ==
    ASSUME scenario \in Scenarios, NEW c \in Callers, NEW q, Record(q),
           c \in scenario.agents, stage[c] = "allowed",
           NEW then \in Goals, then \in {"tool", "invoke"} => q.round < scenario.rounds,
           NEW type \in {"run.started", "model.completed", "tool.started", "tool.completed",
                         "run.completed"},
           NEW error \in BOOLEAN
    PROVE  Fine(Emits(q, type, error, then), c)
<1> DEFINE r == Emits(q, type, error, then)
           events == Append(q.events, [type |-> type, error |-> error])
<1>1. /\ DOMAIN r = DOMAIN q /\ r.round = q.round /\ r.events = events
      /\ r.then = then /\ r.leaf = 1
      /\ r.pc = IF scenario.sinks = <<>> THEN then ELSE "publish"
  BY DEF Emits, Record
<1>2. events \in Seq(Event)
  <2>1. [type |-> type, error |-> error] \in Event /\ q.events \in Seq(Event)
    BY DEF Event, Record
  <2>2. QED
    BY <2>1
<1> HIDE DEF events, r
<1>3. Record(r)
  BY <1>1, <1>2 DEF Record
<1>4. r.pc = "publish" => r.leaf \in 1..Len(scenario.sinks)
  BY <1>1, SinksType DEF Goals
<1>5. r.pc \in Points /\ Place(r) = then
  BY <1>1 DEF Points, Goals, Place
<1>6. Fine(r, c)
  BY <1>1, <1>3, <1>4, <1>5 DEF Fine, Goals
<1>7. QED
  BY <1>6 DEF r

(* A run that has published to one sink, or to none further.               *)
LEMMA PublishedFine ==
    ASSUME TypeInv, NEW c \in Callers, At(c, "publish")
    PROVE  Fine(GoesOn(run[c]), c) /\ Fine(NextLeaf(run[c]), c)
<1> DEFINE r == run[c]
<1>1. /\ Fine(r, c) /\ r.pc = "publish" /\ Record(r)
      /\ r.leaf \in 1..Len(scenario.sinks) /\ r.then \in Goals
      /\ stage[c] = "allowed" /\ c \in scenario.agents
      /\ Len(scenario.sinks) \in Nat
  BY SinksType DEF TypeInv, At, Fine
<1>2. Fine(GoesOn(r), c)
  <2>1. LET q == GoesOn(r)
        IN  /\ DOMAIN q = DOMAIN r /\ q.pc = r.then /\ q.then = r.then /\ q.round = r.round
            /\ q.events = r.events
    BY <1>1 DEF GoesOn, Record
  <2> HIDE DEF r
  <2>2. Record(GoesOn(r))
    BY <1>1, <2>1 DEF Record
  <2>3. QED
    BY <1>1, <2>1, <2>2 DEF Fine, Place, Goals, Points
<1>3. ASSUME r.leaf # Len(scenario.sinks) PROVE Fine([r EXCEPT !.leaf = @ + 1], c)
  <2> DEFINE q == [r EXCEPT !.leaf = @ + 1]
  <2>1. /\ DOMAIN q = DOMAIN r /\ q.pc = r.pc /\ q.then = r.then /\ q.round = r.round
        /\ q.events = r.events /\ q.leaf = r.leaf + 1
    BY <1>1 DEF Record
  <2>2. r.leaf + 1 \in 1..Len(scenario.sinks)
    BY <1>1, <1>3
  <2> HIDE DEF q, r
  <2>3. Record(q)
    BY <1>1, <2>1 DEF Record
  <2>4. Fine(q, c)
    BY <1>1, <2>1, <2>2, <2>3 DEF Fine, Place
  <2>5. QED
    BY <2>4 DEF q
<1>4. QED
  BY <1>2, <1>3 DEF NextLeaf

(* What a step of the run itself does: it goes on in silence, or with one  *)
(* event more, which is to be published if there is a sink.  A tool has    *)
(* been run only if it was callable.                                       *)
Acted(c, r) ==
    /\ run[c].pc # "publish" /\ Fine(r, c)
    /\ run' = [run EXCEPT ![c] = r]
    /\ UNCHANGED <<governVars, scenario, tools, live, listening, channel, told, failed>>
    /\ \/ r.events = run[c].events /\ r.pc # "publish" /\ r.stored = run[c].stored
       \/ /\ \E e \in Event : /\ r.events = Append(run[c].events, e)
                              /\ e.type = "run.completed" => r.stored
          /\ r.leaf = 1
          /\ r.pc # "publish" => scenario.sinks = <<>>
          /\ run[c].stored => r.stored
    /\ r.offered \in {run[c].offered, tools}
    /\ r.ran => r.call = run[c].call /\ (run[c].ran \/ Callable(c))

LEMMA EmitsActs ==
    ASSUME TypeInv, NEW c \in Callers, run[c].pc # "publish",
           c \in scenario.agents, stage[c] = "allowed",
           NEW q, Record(q), q.events = run[c].events, q.offered = run[c].offered,
           run[c].stored => q.stored,
           q.ran => q.call = run[c].call /\ (run[c].ran \/ Callable(c)),
           NEW then \in Goals, then \in {"tool", "invoke"} => q.round < scenario.rounds,
           NEW type \in {"run.started", "model.completed", "tool.started", "tool.completed",
                         "run.completed"}, type = "run.completed" => q.stored,
           NEW error \in BOOLEAN,
           Sets(c, Emits(q, type, error, then))
    PROVE  \E r : Acted(c, r)
<1> DEFINE r == Emits(q, type, error, then)
           e == [type |-> type, error |-> error]
<1>1. /\ r.events = Append(q.events, e) /\ r.leaf = 1 /\ r.stored = q.stored
      /\ r.offered = q.offered /\ r.ran = q.ran /\ r.call = q.call
      /\ r.pc = IF scenario.sinks = <<>> THEN then ELSE "publish"
  BY DEF Emits, Record
<1>2. e \in Event /\ e.type = type
  BY DEF Event
<1>3. Fine(r, c)
  BY EmitsFine DEF TypeInv
<1>4. /\ run' = [run EXCEPT ![c] = r]
      /\ UNCHANGED <<governVars, scenario, tools, live, listening, channel, told, failed>>
  BY DEF Sets
<1> HIDE DEF r, e
<1>5. Acted(c, r)
  BY <1>1, <1>2, <1>3, <1>4 DEF Acted
<1>6. QED
  BY <1>5

LEMMA RunsAct ==
    ASSUME TypeInv, NEW c \in Callers,
           \/ Start(c) \/ List(c) \/ ModelFails(c) \/ FinalReply(c) \/ CallsTool(c)
           \/ ToolStarts(c) \/ Invoke(c) \/ AppendTurn(c)
    PROVE  \E r : Acted(c, r)
<1>1. /\ Fine(run[c], c) /\ Record(run[c])
      /\ run[c].pc \notin {"idle", "done"} => stage[c] = "allowed" /\ c \in scenario.agents
      /\ run[c].pc \in {"tool", "invoke"} => run[c].round < scenario.rounds
      /\ scenario.rounds \in Nat
  BY SinksType DEF TypeInv, Fine, Place
<1>2. CASE Start(c)
  BY <1>1, <1>2, EmitsActs DEF Start, At, Goals
<1>3. CASE ModelFails(c) \/ FinalReply(c)
  BY <1>1, <1>3, EmitsActs DEF ModelFails, FinalReply, ModelReturns, At, Goals
<1>4. CASE ToolStarts(c)
  BY <1>1, <1>4, EmitsActs DEF ToolStarts, At, Goals
<1>5. CASE CallsTool(c)
  <2>1. PICK call : LET q == [run[c] EXCEPT !.call = call, !.ran = FALSE]
                    IN  Sets(c, Emits(q, "model.completed", FALSE, "tool"))
    BY <1>5 DEF CallsTool
  <2> DEFINE q == [run[c] EXCEPT !.call = call, !.ran = FALSE]
  <2>2. /\ DOMAIN q = DOMAIN run[c] /\ q.round = run[c].round /\ q.events = run[c].events
        /\ q.offered = run[c].offered /\ q.stored = run[c].stored /\ q.ran = FALSE
    BY <1>1 DEF Record
  <2>3. Sets(c, Emits(q, "model.completed", FALSE, "tool"))
    BY <2>1
  <2> HIDE DEF q
  <2>4. Record(q)
    BY <1>1, <2>2 DEF Record
  <2>5. run[c].pc = "model" /\ run[c].round < scenario.rounds
    BY <1>5 DEF CallsTool, At
  <2>6. QED
    BY <1>1, <2>2, <2>3, <2>4, <2>5, EmitsActs DEF Goals
<1>6. CASE Invoke(c)
  <2>1. PICK ran \in BOOLEAN, error \in BOOLEAN :
           /\ ran => Callable(c)
           /\ LET q == [run[c] EXCEPT !.ran = ran, !.round = @ + 1]
              IN  Sets(c, Emits(q, "tool.completed", error, "model"))
    BY <1>6 DEF Invoke, ToolCompleted
  <2> DEFINE q == [run[c] EXCEPT !.ran = ran, !.round = @ + 1]
  <2>2. /\ DOMAIN q = DOMAIN run[c] /\ q.round = run[c].round + 1 /\ q.events = run[c].events
        /\ q.offered = run[c].offered /\ q.stored = run[c].stored /\ q.ran = ran
        /\ q.call = run[c].call
    BY <1>1 DEF Record
  <2>3. Sets(c, Emits(q, "tool.completed", error, "model"))
    BY <2>1
  <2> HIDE DEF q
  <2>4. run[c].pc = "invoke"
    BY <1>6 DEF Invoke, At
  <2>5. Record(q)
    BY <1>1, <2>2, <2>4 DEF Record
  <2>6. QED
    BY <1>1, <2>1, <2>2, <2>3, <2>4, <2>5, EmitsActs DEF Goals
<1>7. CASE AppendTurn(c)
  <2>1. run[c].pc = "append"
    BY <1>7 DEF AppendTurn, At
  <2>2. CASE Sets(c, Emits([run[c] EXCEPT !.stored = TRUE], "run.completed", FALSE, "done"))
    <3> DEFINE q == [run[c] EXCEPT !.stored = TRUE]
    <3>1. /\ DOMAIN q = DOMAIN run[c] /\ q.round = run[c].round /\ q.events = run[c].events
          /\ q.offered = run[c].offered /\ q.stored = TRUE /\ q.ran = run[c].ran
          /\ q.call = run[c].call
      BY <1>1 DEF Record
    <3>2. Sets(c, Emits(q, "run.completed", FALSE, "done"))
      BY <2>2
    <3> HIDE DEF q
    <3>3. Record(q)
      BY <1>1, <3>1 DEF Record
    <3>4. QED
      BY <1>1, <2>1, <3>1, <3>2, <3>3, EmitsActs DEF Goals
  <2>3. CASE Sets(c, [run[c] EXCEPT !.pc = "done"])
    <3> DEFINE r == [run[c] EXCEPT !.pc = "done"]
    <3>1. /\ DOMAIN r = DOMAIN run[c] /\ r.round = run[c].round /\ r.events = run[c].events
          /\ r.offered = run[c].offered /\ r.stored = run[c].stored /\ r.ran = run[c].ran
          /\ r.call = run[c].call /\ r.pc = "done" /\ r.then = run[c].then
      BY <1>1 DEF Record
    <3>2. /\ run' = [run EXCEPT ![c] = r]
          /\ UNCHANGED <<governVars, scenario, tools, live, listening, channel, told, failed>>
      BY <2>3 DEF Sets
    <3> HIDE DEF r
    <3>3. Fine(r, c)
      BY <1>1, <2>1, <3>1 DEF Fine, Record, Place, Points
    <3>4. Acted(c, r)
      BY <2>1, <3>1, <3>2, <3>3 DEF Acted
    <3>5. QED
      BY <3>4
  <2>4. QED
    BY <1>7, <2>2, <2>3 DEF AppendTurn
<1>8. CASE List(c)
  <2>1. PICK point \in {"model", "done"}, offered \in {run[c].offered, tools} :
           Sets(c, [run[c] EXCEPT !.pc = point, !.offered = offered])
    <3>1. CASE Sets(c, [run[c] EXCEPT !.pc = "model", !.offered = tools])
      BY <3>1
    <3>2. CASE Sets(c, [run[c] EXCEPT !.pc = "done"])
      <4>1. [run[c] EXCEPT !.pc = "done"] = [run[c] EXCEPT !.pc = "done", !.offered = @]
        BY <1>1 DEF Record
      <4>2. QED
        BY <3>2, <4>1
    <3>3. QED
      BY <1>8, <3>1, <3>2 DEF List
  <2> DEFINE r == [run[c] EXCEPT !.pc = point, !.offered = offered]
  <2>2. /\ DOMAIN r = DOMAIN run[c] /\ r.round = run[c].round /\ r.events = run[c].events
        /\ r.offered = offered /\ r.stored = run[c].stored /\ r.ran = run[c].ran
        /\ r.call = run[c].call /\ r.pc = point /\ r.then = run[c].then
    BY <1>1 DEF Record
  <2>3. /\ run' = [run EXCEPT ![c] = r]
        /\ UNCHANGED <<governVars, scenario, tools, live, listening, channel, told, failed>>
    BY <2>1 DEF Sets
  <2> HIDE DEF r
  <2>4. run[c].pc = "list"
    BY <1>8 DEF List, At
  <2>5. Fine(r, c)
    BY <1>1, <2>2, <2>4 DEF Fine, Record, Place, Points
  <2>6. Acted(c, r)
    BY <2>2, <2>3, <2>4, <2>5 DEF Acted
  <2>7. QED
    BY <2>6
<1>9. QED
  BY <1>2, <1>3, <1>4, <1>5, <1>6, <1>7, <1>8

(* The local states of the runs, when one of them moves and when a caller  *)
(* goes from one stage to the next.                                        *)
LEMMA RunMoved ==
    ASSUME TypeInv, NEW c \in Callers, NEW r, Fine(r, c), run' = [run EXCEPT ![c] = r],
           scenario' = scenario, stage' = stage
    PROVE  /\ run' = [d \in Callers |-> run'[d]]
           /\ \A d \in Callers : Fine(run[d], d)'
<1>1. DOMAIN run = Callers
  BY DEF TypeInv
<1>2. run' = [d \in Callers |-> IF d = c THEN r ELSE run[d]]
  BY <1>1
<1>3. ASSUME NEW d \in Callers PROVE Fine(run[d], d)'
  <2>1. Fine(run'[d], d)
    BY <1>2 DEF TypeInv
  <2>2. QED
    BY <2>1 DEF Fine, Record, Place
<1>4. QED
  BY <1>2, <1>3

LEMMA StageMoved ==
    ASSUME TypeInv, NEW c \in Callers, NEW to, Goes(c, to), UNCHANGED <<scenario, run>>,
           \/ stage[c] \in {"new", "waiting", "holding", "denied"} \/ Works(c)
           \/ At(c, "done") /\ to = "left"
    PROVE  \A d \in Callers : Fine(run[d], d)'
<1> SUFFICES ASSUME NEW d \in Callers PROVE Fine(run[d], d)'
  OBVIOUS
<1>1. Fine(run[d], d) /\ Fine(run[c], c) /\ stage \in [Callers -> Stages]
  BY DEF TypeInv, GovernTypeOK
<1>2. d # c => stage'[d] = stage[d]
  BY <1>1 DEF Goes
<1>3. stage'[c] = to
  BY <1>1 DEF Goes
<1>4. run[c].pc \in {"idle", "done"} /\ (run[c].pc = "done" => to = "left")
  BY <1>1 DEF Fine, Works, At
<1>5. CASE d # c
  BY <1>1, <1>2, <1>5 DEF Fine, Record, Place
<1>6. CASE d = c
  BY <1>1, <1>3, <1>4, <1>6 DEF Fine, Record, Place
<1>7. QED
  BY <1>5, <1>6

LEMMA TypeInit == Init => TypeInv
<1> SUFFICES ASSUME Init PROVE TypeInv
  OBVIOUS
<1>1. GovernTypeOK
  BY GovernTypedInit DEF Init
<1>2. /\ scenario \in Scenarios /\ scenario.rounds \in Nat /\ live \subseteq Callers
      /\ channel = <<>> /\ run = [c \in Callers |-> Idle] /\ failed = {}
      /\ told = [l \in Leaves |-> [c \in Callers |-> <<>>]]
      /\ stage = [c \in Callers |-> "new"]
  BY SinksType DEF Init, GovernInit
<1>3. Capacity \in Nat /\ Len(<<>>) = 0 /\ <<>> \in Seq(Callers \X Nat) /\ <<>> \in Seq(Nat)
      /\ <<>> \in Seq(Event)
  BY ServiceAssumption, EmptySeq DEF Capacity
<1>4. ASSUME NEW c \in Callers PROVE Fine(Idle, c)
  <2>1. /\ DOMAIN Idle = {"pc", "then", "leaf", "round", "events", "offered", "call", "ran",
                          "stored"}
        /\ Idle.pc = "idle" /\ Idle.then = "idle" /\ Idle.round = 0 /\ Idle.events = <<>>
    BY DEF Idle
  <2>2. stage[c] = "new"
    BY <1>2
  <2>3. QED
    BY <1>2, <1>3, <2>1, <2>2 DEF Fine, Record, Place, Points
<1>5. told \in [Leaves -> [Callers -> Seq(Nat)]]
  BY <1>2, <1>3
<1>6. QED
  BY <1>1, <1>2, <1>3, <1>4, <1>5 DEF TypeInv

(* A sink is given an event of a run.                                      *)
LEMMA TellType ==
    ASSUME told \in [Leaves -> [Callers -> Seq(Nat)]],
           NEW leaf \in Leaves, NEW c \in Callers, NEW n \in Nat
    PROVE  /\ Tell(leaf, c, n) \in [Leaves -> [Callers -> Seq(Nat)]]
           /\ Tell(leaf, c, n)[leaf][c] = Append(told[leaf][c], n)
           /\ \A l \in Leaves, d \in Callers :
                 <<l, d>> # <<leaf, c>> => Tell(leaf, c, n)[l][d] = told[l][d]
<1>1. Append(told[leaf][c], n) \in Seq(Nat)
  OBVIOUS
<1> DEFINE s == Append(told[leaf][c], n)
<1>2. s \in Seq(Nat) /\ Tell(leaf, c, n) = [told EXCEPT ![leaf][c] = s]
  BY <1>1 DEF Tell
<1> HIDE DEF s
<1>3. [told EXCEPT ![leaf][c] = s] \in [Leaves -> [Callers -> Seq(Nat)]]
  BY <1>2
<1>4. QED
  BY <1>2, <1>3 DEF s

LEMMA NumberType ==
    ASSUME TypeInv, NEW c \in Callers
    PROVE  Number(c) \in Nat /\ run[c].events \in Seq(Event)
           /\ DOMAIN run[c].events = 1..Number(c)
<1>1. run[c].events \in Seq(Event)
  BY DEF TypeInv, Fine, Record
<1>2. QED
  BY <1>1 DEF Number

LEMMA TypeStep == TypeInv /\ [Next]_vars => TypeInv'
<1> SUFFICES ASSUME TypeInv, [Next]_vars PROVE TypeInv'
  OBVIOUS
<1> USE DEF TypeInv
<1>1. GovernTypeOK'
  BY StepsGoverned, GovernTyped
<1>2. ASSUME NEW c \in Callers, Admit(c) PROVE TypeInv'
  <2>1. UNCHANGED agentVars
    BY <1>2 DEF Admit
  <2>2. PICK to : Goes(c, to) /\ stage[c] \in {"new", "waiting", "holding"}
    BY <1>2 DEF Admit, Ask, Acquire, AllowUnlimited, Allow, Deny, GiveUp
  <2>3. \A d \in Callers : Fine(run[d], d)'
    BY <2>1, <2>2, StageMoved DEF agentVars
  <2>4. QED
    BY <1>1, <2>1, <2>3 DEF agentVars
<1>3. ASSUME NEW c \in Callers, Leave(c) PROVE TypeInv'
  <2>1. UNCHANGED agentVars /\ Goes(c, "left")
    BY <1>3 DEF Leave, Release
  <2>2. stage[c] = "denied" \/ Works(c) \/ At(c, "done")
    BY <1>3 DEF Leave
  <2>3. \A d \in Callers : Fine(run[d], d)'
    BY <2>1, <2>2, StageMoved DEF agentVars
  <2>4. QED
    BY <1>1, <2>1, <2>3 DEF agentVars
<1>4. ASSUME UNCHANGED <<scenario, stage, run>> PROVE \A d \in Callers : Fine(run[d], d)'
  BY <1>4 DEF Fine, Record, Place
<1>5. ASSUME Minutes \/ StopListening \/ UNCHANGED vars PROVE TypeInv'
  BY <1>1, <1>4, <1>5 DEF Minutes, StopListening, Tick, vars, governVars, agentVars
<1>6. ASSUME NEW c \in Callers, ContextEnds(c) PROVE TypeInv'
  BY <1>1, <1>4, <1>6 DEF ContextEnds, governVars
<1>7. ASSUME NEW def, Register(def) PROVE TypeInv'
  BY <1>1, <1>4, <1>7 DEF Register, governVars
<1>8. CASE Receive
  <2>1. Tail(channel) \in Seq(Callers \X Nat) /\ Len(Tail(channel)) <= Capacity
        /\ Head(channel) \in Callers \X Nat
    BY <1>8, ServiceAssumption DEF Receive, Capacity
  <2>2. told' = Tell("channel", Head(channel)[1], Head(channel)[2])
    BY <1>8 DEF Receive
  <2>3. told' \in [Leaves -> [Callers -> Seq(Nat)]]
    BY <2>1, <2>2, TellType DEF Leaves
  <2>4. QED
    BY <1>1, <1>4, <1>8, <2>1, <2>3 DEF Receive, governVars
<1>9. ASSUME NEW c \in Callers, NEW r, Acted(c, r) PROVE TypeInv'
  <2>1. Fine(r, c) /\ run' = [run EXCEPT ![c] = r]
        /\ UNCHANGED <<stage, scenario, live, channel, told, failed>>
    BY <1>9 DEF Acted, governVars
  <2>2. QED
    BY <1>1, <2>1, RunMoved
<1>10. ASSUME NEW c \in Callers,
              SendsToChannel(c) \/ ChannelGivenUp(c) \/ SendsToRemote(c) \/ RemoteRefuses(c)
       PROVE  TypeInv'
  <2>1. At(c, "publish")
    BY <1>10 DEF SendsToChannel, ChannelGivenUp, SendsToRemote, RemoteRefuses, Publishes
  <2>2. Fine(GoesOn(run[c]), c) /\ Fine(NextLeaf(run[c]), c)
    BY <2>1, PublishedFine
  <2>3. PICK r \in {GoesOn(run[c]), NextLeaf(run[c])} : run' = [run EXCEPT ![c] = r]
    BY <1>10 DEF SendsToChannel, ChannelGivenUp, SendsToRemote, RemoteRefuses, Sets, Refused
  <2>4. UNCHANGED <<stage, scenario, live>>
    BY <1>10 DEF SendsToChannel, ChannelGivenUp, SendsToRemote, RemoteRefuses, Sets, governVars
  <2>5. run' = [d \in Callers |-> run'[d]] /\ \A d \in Callers : Fine(run[d], d)'
    BY <2>2, <2>3, <2>4, RunMoved
  <2>6. Number(c) \in Nat
    BY NumberType
  <2>7. channel' \in Seq(Callers \X Nat) /\ Len(channel') <= Capacity
    <3>1. CASE channel' = channel
      BY <3>1
    <3>2. CASE Len(channel) < Capacity /\ channel' = Append(channel, <<c, Number(c)>>)
      BY <2>6, <3>2, ServiceAssumption DEF Capacity
    <3>3. QED
      BY <1>10, <3>1, <3>2
         DEF SendsToChannel, ChannelGivenUp, SendsToRemote, RemoteRefuses, Sets
  <2>8. told' \in [Leaves -> [Callers -> Seq(Nat)]]
    <3>1. told' \in {told, Tell("remote", c, Number(c))}
      BY <1>10 DEF SendsToChannel, ChannelGivenUp, SendsToRemote, RemoteRefuses, Sets
    <3>2. "remote" \in Leaves
      BY DEF Leaves
    <3>3. Tell("remote", c, Number(c)) \in [Leaves -> [Callers -> Seq(Nat)]]
      BY <2>6, <3>2, TellType
    <3>4. QED
      BY <3>1, <3>3
  <2>9. failed' \subseteq Callers \X Nat
    <3>1. failed' \in {failed, failed \cup {<<c, Number(c)>>}}
      BY <1>10 DEF SendsToChannel, ChannelGivenUp, SendsToRemote, RemoteRefuses, Sets
    <3>2. QED
      BY <2>6, <3>1
  <2>10. QED
    BY <1>1, <2>4, <2>5, <2>7, <2>8, <2>9
<1>11. ASSUME NEW c \in Callers, RunStep(c) PROVE TypeInv'
  BY <1>9, <1>10, <1>11, RunsAct DEF RunStep
<1>12. QED
  BY <1>2, <1>3, <1>5, <1>6, <1>7, <1>8, <1>11 DEF Next

(* Service: no state of a run but those listed, and a run only of a caller  *)
(* that was allowed; no event in the channel beyond its capacity.           *)
THEOREM TypeCorrect == Spec => []TypeOK
<1>1. TypeInv => TypeOK
  <2> SUFFICES ASSUME TypeInv PROVE TypeOK
    OBVIOUS
  <2>1. ASSUME NEW c \in Callers
        PROVE  /\ run[c].pc \in Points /\ run[c].then \in Points
               /\ run[c].round \in 0..scenario.rounds
               /\ run[c].events \in Seq(Event)
               /\ run[c].pc # "idle" => stage[c] \in {"allowed", "left"}
               /\ run[c].pc = "publish" => run[c].leaf \in 1..Len(scenario.sinks)
               /\ stage[c] = "left" => run[c].pc \in {"idle", "done"}
    BY DEF TypeInv, Fine, Record, Goals, Points
  <2>2. QED
    BY <2>1 DEF TypeInv, TypeOK
<1>2. QED
  BY <1>1, TypeInit, TypeStep, PTL DEF Spec

-----------------------------------------------------------------------------
(* Tools: a name stays with its schema once it is registered, so that what  *)
(* the model was offered is what Invoke checks.                             *)

ToolsKept(c) ==
    /\ \A name \in DOMAIN run[c].offered :
          name \in DOMAIN tools /\ tools[name] = run[c].offered[name]
    /\ run[c].ran => Callable(c)

SchemaInv ==
    /\ \A name \in DOMAIN tools : Level("nodes", tools[name], Depth + 1) = {}
    /\ \A c \in Callers : ToolsKept(c)

(* What a step does to the runs that it is not about, and to the one that   *)
(* publishes.                                                               *)
Moves(c, r) ==
    /\ run' = [run EXCEPT ![c] = r]
    /\ UNCHANGED <<governVars, scenario, tools, live, listening>>

LEMMA PublishingMoves ==
    ASSUME TypeInv, NEW c \in Callers,
           SendsToChannel(c) \/ ChannelGivenUp(c) \/ SendsToRemote(c) \/ RemoteRefuses(c)
    PROVE  /\ \E r \in {GoesOn(run[c]), NextLeaf(run[c])} : Moves(c, r)
           /\ run[c].pc = "publish"
           /\ \A r \in {GoesOn(run[c]), NextLeaf(run[c])} :
                 /\ r.events = run[c].events /\ r.stored = run[c].stored
                 /\ r.offered = run[c].offered /\ r.call = run[c].call /\ r.ran = run[c].ran
<1>1. Record(run[c])
  BY DEF TypeInv, Fine
<1>2. At(c, "publish")
  BY DEF SendsToChannel, ChannelGivenUp, SendsToRemote, RemoteRefuses, Publishes
<1>3. \E r \in {GoesOn(run[c]), NextLeaf(run[c])} : Moves(c, r)
  BY DEF SendsToChannel, ChannelGivenUp, SendsToRemote, RemoteRefuses, Sets, Refused, Moves
<1>4. ASSUME NEW r \in {GoesOn(run[c]), NextLeaf(run[c])}
      PROVE  /\ r.events = run[c].events /\ r.stored = run[c].stored
             /\ r.offered = run[c].offered /\ r.call = run[c].call /\ r.ran = run[c].ran
  BY <1>1 DEF Record, GoesOn, NextLeaf
<1>5. QED
  BY <1>2, <1>3, <1>4 DEF At

LEMMA SchemaInit == Init => SchemaInv
<1> SUFFICES ASSUME Init PROVE SchemaInv
  OBVIOUS
<1>1. tools = <<>> /\ run = [c \in Callers |-> Idle] /\ Idle.offered = <<>> /\ Idle.ran = FALSE
  BY DEF Init, Idle
<1>2. DOMAIN <<>> = {}
  BY EmptySeq
<1>3. QED
  BY <1>1, <1>2 DEF SchemaInv, ToolsKept

LEMMA SchemaStep == TypeInv /\ SchemaInv /\ [Next]_vars => SchemaInv'
<1> SUFFICES ASSUME TypeInv, SchemaInv, [Next]_vars PROVE SchemaInv'
  OBVIOUS
<1>1. ASSUME UNCHANGED <<tools, run>> PROVE SchemaInv'
  BY <1>1 DEF SchemaInv, ToolsKept, Callable
<1>2. ASSUME NEW c \in Callers, NEW r, run' = [run EXCEPT ![c] = r], UNCHANGED tools,
             r.offered \in {run[c].offered, tools},
             r.ran => r.call = run[c].call /\ (run[c].ran \/ Callable(c))
      PROVE  SchemaInv'
  <2>1. DOMAIN run = Callers
    BY DEF TypeInv
  <2>2. run'[c] = r /\ \A d \in Callers : d # c => run'[d] = run[d]
    BY <1>2, <2>1
  <2>3. ToolsKept(c) /\ (run[c].ran => Callable(c))
    BY DEF SchemaInv, ToolsKept
  <2>4. ToolsKept(c)'
    <3>1. r.ran => Callable(c)'
      BY <1>2, <2>2, <2>3 DEF Callable
    <3>2. \A name \in DOMAIN r.offered : name \in DOMAIN tools /\ tools[name] = r.offered[name]
      BY <1>2, <2>3 DEF ToolsKept
    <3>3. QED
      BY <1>2, <2>2, <3>1, <3>2 DEF ToolsKept
  <2>5. ASSUME NEW d \in Callers, d # c PROVE ToolsKept(d)'
    BY <1>2, <2>2, <2>5 DEF SchemaInv, ToolsKept, Callable
  <2>6. QED
    BY <1>2, <2>4, <2>5 DEF SchemaInv
<1>3. ASSUME NEW def \in scenario.catalog, Register(def) PROVE SchemaInv'
  <2>1. Level("nodes", def.schema, Depth + 1) = {}
    BY ServiceAssumption DEF TypeInv
  <2>2. /\ DOMAIN tools' = DOMAIN tools \cup {def.name} /\ def.name \notin DOMAIN tools
        /\ tools'[def.name] = def.schema /\ run' = run
        /\ \A name \in DOMAIN tools : tools'[name] = tools[name]
    BY <1>3 DEF Register
  <2>3. \A name \in DOMAIN tools' : Level("nodes", tools'[name], Depth + 1) = {}
    BY <2>1, <2>2 DEF SchemaInv
  <2>4. ASSUME NEW c \in Callers PROVE ToolsKept(c)'
    BY <2>2 DEF SchemaInv, ToolsKept, Callable
  <2>5. QED
    BY <2>3, <2>4 DEF SchemaInv
<1>4. ASSUME NEW c \in Callers, RunStep(c) PROVE SchemaInv'
  <2>1. ASSUME NEW r, Acted(c, r) PROVE SchemaInv'
    BY <1>2, <2>1 DEF Acted
  <2>2. ASSUME SendsToChannel(c) \/ ChannelGivenUp(c) \/ SendsToRemote(c) \/ RemoteRefuses(c)
        PROVE  SchemaInv'
    <3>1. PICK r \in {GoesOn(run[c]), NextLeaf(run[c])} : Moves(c, r)
      BY <2>2, PublishingMoves
    <3>2. r.offered = run[c].offered /\ r.call = run[c].call /\ r.ran = run[c].ran
      BY <2>2, PublishingMoves
    <3>3. run' = [run EXCEPT ![c] = r] /\ UNCHANGED tools
      BY <3>1 DEF Moves
    <3>4. r.ran => Callable(c)
      BY <3>2 DEF SchemaInv, ToolsKept
    <3>5. QED
      BY <1>2, <3>2, <3>3, <3>4
  <2>3. QED
    BY <1>4, <2>1, <2>2, RunsAct DEF RunStep
<1>5. ASSUME NEW c \in Callers, Admit(c) \/ Leave(c) \/ ContextEnds(c) PROVE SchemaInv'
  BY <1>1, <1>5 DEF Admit, Leave, ContextEnds, agentVars
<1>6. CASE Minutes \/ StopListening \/ Receive \/ UNCHANGED vars
  BY <1>1, <1>6 DEF Minutes, StopListening, Receive, vars, agentVars
<1>7. QED
  BY <1>3, <1>4, <1>5, <1>6 DEF Next

(* Registry.Invoke: a handler is started on nothing but what conforms to the  *)
(* schema that the model was offered, and what conforms is not refused, for   *)
(* schemas and inputs of any shape that encoding/json reads.                  *)
THEOREM HandlersGetWhatConforms == Spec => []SchemasEnforced
<1>1. TypeInv /\ SchemaInv => SchemasEnforced
  <2> SUFFICES ASSUME TypeInv, SchemaInv, NEW c \in Callers,
                      run[c].call.tool \in DOMAIN run[c].offered
               PROVE  LET input == Normalized(run[c].call.input)
                          schema == run[c].offered[run[c].call.tool]
                      IN  /\ run[c].ran /\ Typed(schema) => Conforms(schema, input)
                          /\ At(c, "invoke") /\ Plain(schema) /\ Conforms(schema, input)
                                => Callable(c)
    BY DEF SchemasEnforced
  <2> DEFINE input == Normalized(run[c].call.input)
             schema == run[c].offered[run[c].call.tool]
  <2>1. /\ run[c].call.tool \in DOMAIN tools /\ tools[run[c].call.tool] = schema
        /\ Level("nodes", schema, Depth + 1) = {}
    BY DEF SchemaInv, ToolsKept
  <2>2. Callable(c) <=> Validates(schema, input)
    BY <2>1 DEF Callable, Accepts
  <2>3. run[c].ran => Callable(c)
    BY DEF SchemaInv, ToolsKept
  <2> HIDE DEF input, schema
  <2>4. Depth \in Nat
    BY SinksType DEF TypeInv
  <2>5. run[c].ran /\ Typed(schema) => Conforms(schema, input)
    BY <2>2, <2>3, <2>4, AcceptedConforms
  <2>6. Plain(schema) /\ Conforms(schema, input) => Callable(c)
    BY <2>1, <2>2, <2>4, ConformingAccepted
  <2>7. QED
    BY <2>5, <2>6 DEF input, schema
<1>2. QED
  BY <1>1, TypeInit, TypeStep, SchemaInit, SchemaStep, PTL DEF Spec

-----------------------------------------------------------------------------
(* Events: what a sink is given, and in what order.                         *)

LEMMA ChannelType ==
    ASSUME TypeInv
    PROVE  /\ Len(channel) \in Nat /\ DOMAIN channel = 1..Len(channel)
           /\ \A i \in DOMAIN channel :
                 channel[i] = <<channel[i][1], channel[i][2]>>
                 /\ channel[i][1] \in Callers /\ channel[i][2] \in Nat
           /\ \A l \in Leaves, d \in Callers :
                 /\ told[l][d] \in Seq(Nat)
                 /\ Len(told[l][d]) \in Nat /\ DOMAIN told[l][d] = 1..Len(told[l][d])
                 /\ \A i \in DOMAIN told[l][d] : told[l][d][i] \in Nat
BY DEF TypeInv

(* The channel takes an event.                                              *)
LEMMA Sent ==
    ASSUME TypeInv, NEW c \in Callers, NEW n \in Nat,
           \A m \in Given("channel", c) : m < n,
           channel' = Append(channel, <<c, n>>), told' = told
    PROVE  \A l \in Leaves, d \in Callers :
              /\ Given(l, d)' = Given(l, d) \cup {m \in {n} : l = "channel" /\ d = c}
              /\ InOrder(l, d) => InOrder(l, d)'
<1> DEFINE k == Len(channel) + 1
<1>1. /\ channel \in Seq(Callers \X Nat) /\ <<c, n>> \in Callers \X Nat
      /\ DOMAIN channel = 1..Len(channel) /\ Len(channel) \in Nat
  BY DEF TypeInv
<1>2. /\ DOMAIN channel' = DOMAIN channel \cup {k} /\ channel'[k] = <<c, n>>
      /\ \A i \in DOMAIN channel : channel'[i] = channel[i] /\ i < k /\ i \in Nat
      /\ k \in Nat /\ ~(k < k)
  BY <1>1
<1> HIDE DEF k
<1>3. ASSUME NEW d \in Callers
      PROVE  OnTheWay(d)' = OnTheWay(d) \cup {m \in {k} : d = c}
  BY <1>2 DEF OnTheWay
<1>4. ASSUME NEW l \in Leaves, NEW d \in Callers
      PROVE  Given(l, d)' = Given(l, d) \cup {m \in {n} : l = "channel" /\ d = c}
  <2>1. {channel'[i][2] : i \in OnTheWay(d)'}
          = {channel[i][2] : i \in OnTheWay(d)} \cup {m \in {n} : d = c}
    <3>1. \A i \in OnTheWay(d) : channel'[i] = channel[i]
      BY <1>2 DEF OnTheWay
    <3>2. channel'[k][2] = n
      BY <1>2
    <3> DEFINE came == {channel[i][2] : i \in OnTheWay(d)}
               comes == {channel'[i][2] : i \in OnTheWay(d)'}
    <3>3. \A i \in OnTheWay(d) : channel'[i][2] \in came /\ channel'[i][2] \in comes
      BY <1>3, <3>1
    <3>4. d = c => n \in comes /\ k \in OnTheWay(d)'
      BY <1>3, <3>2
    <3>5. \A i \in OnTheWay(d)' : i \in OnTheWay(d) \/ (d = c /\ channel'[i][2] = n)
      BY <1>3, <3>2
    <3>6. came \subseteq comes
      <4>1. \A i \in OnTheWay(d) : channel[i][2] \in comes
        BY <3>1, <3>3
      <4>2. QED
        BY <4>1
    <3>7. \A m \in comes : m \in came \/ (d = c /\ m = n)
      BY <3>3, <3>5
    <3> HIDE DEF came, comes
    <3>8. comes = came \cup {m \in {n} : d = c}
      BY <3>4, <3>6, <3>7
    <3>9. QED
      BY <3>8 DEF came, comes
  <2>2. QED
    BY <2>1 DEF Given
<1>5. ASSUME NEW l \in Leaves, NEW d \in Callers, InOrder(l, d) PROVE InOrder(l, d)'
  <2>1. CASE l # "channel" \/ d # c
    <3>1. l = "channel" => OnTheWay(d)' = OnTheWay(d)
      BY <1>3, <2>1
    <3>2. \A i \in OnTheWay(d) : channel'[i] = channel[i]
      BY <1>2 DEF OnTheWay
    <3>3. QED
      BY <1>5, <3>1, <3>2 DEF InOrder
  <2>2. CASE l = "channel" /\ d = c
    <3>1. OnTheWay(c)' = OnTheWay(c) \cup {k}
      BY <1>3
    <3>2. ASSUME NEW i \in OnTheWay(c)'
          PROVE  /\ \A j \in OnTheWay(c)' : i < j => channel'[i][2] < channel'[j][2]
                 /\ \A m \in ToSet(told["channel"][c]) : m < channel'[i][2]
      <4>1. \A j \in OnTheWay(c) : j < k /\ j \in Nat /\ channel'[j] = channel[j]
                                   /\ channel[j][2] < n
        BY <1>2 DEF OnTheWay, Given
      <4>2. \A m \in ToSet(told["channel"][c]) : m < n
        BY DEF Given
      <4>3. CASE i = k
        <5>1. \A j \in OnTheWay(c)' : ~(i < j)
          BY <1>2, <3>1, <4>1, <4>3
        <5>2. QED
          BY <1>2, <4>2, <4>3, <5>1
      <4>4. CASE i \in OnTheWay(c)
        <5>1. channel'[i] = channel[i] /\ channel[i][2] < n
          BY <4>1, <4>4
        <5>2. /\ \A j \in OnTheWay(c) : i < j => channel[i][2] < channel[j][2]
              /\ \A m \in ToSet(told["channel"][c]) : m < channel[i][2]
          BY <1>5, <2>2, <4>4 DEF InOrder
        <5>3. channel'[k][2] = n
          BY <1>2
        <5>4. ASSUME NEW j \in OnTheWay(c)', i < j PROVE channel'[i][2] < channel'[j][2]
          BY <3>1, <4>1, <5>1, <5>2, <5>3, <5>4
        <5>5. QED
          BY <5>1, <5>2, <5>4
      <4>5. QED
        BY <3>1, <4>3, <4>4
    <3>3. QED
      BY <1>5, <2>2, <3>2 DEF InOrder
  <2>3. QED
    BY <2>1, <2>2
<1>6. QED
  BY <1>4, <1>5

(* A sink's list grows by one number, above those it has.                    *)
LEMMA OneMore ==
    ASSUME NEW came \in Seq(Nat), NEW n \in Nat
    PROVE  ToSet(Append(came, n)) = ToSet(came) \cup {n}
<1> DEFINE more == Append(came, n)
           z == Len(came) + 1
<1>1. /\ DOMAIN more = DOMAIN came \cup {z} /\ more[z] = n
      /\ \A i \in DOMAIN came : more[i] = came[i]
  OBVIOUS
<1> HIDE DEF more, z
<1>2. ToSet(more) = ToSet(came) \cup {n}
  BY <1>1 DEF ToSet
<1>3. QED
  BY <1>2 DEF more

LEMMA ListGrows ==
    ASSUME NEW came \in Seq(Nat), NEW n \in Nat, \A m \in ToSet(came) : m < n
    PROVE  (\A j, k \in DOMAIN came : j < k => came[j] < came[k])
              => \A j, k \in DOMAIN Append(came, n) :
                    j < k => Append(came, n)[j] < Append(came, n)[k]
<1> DEFINE more == Append(came, n)
           z == Len(came) + 1
<1>1. /\ DOMAIN more = DOMAIN came \cup {z} /\ more[z] = n
      /\ \A i \in DOMAIN came : more[i] = came[i] /\ i < z /\ i \in Nat
      /\ z \in Nat
  OBVIOUS
<1>2. \A i \in DOMAIN came : came[i] < n
  BY DEF ToSet
<1> HIDE DEF more, z
<1>3. ASSUME \A j, k \in DOMAIN came : j < k => came[j] < came[k],
             NEW j \in DOMAIN more, NEW k \in DOMAIN more, j < k
      PROVE  more[j] < more[k]
  <2>1. j \in DOMAIN came
    BY <1>1, <1>3
  <2>2. CASE k = z
    BY <1>1, <1>2, <2>1, <2>2
  <2>3. CASE k \in DOMAIN came
    BY <1>1, <1>3, <2>1, <2>3
  <2>4. QED
    BY <1>1, <2>2, <2>3
<1>4. QED
  BY <1>3 DEF more

(* The remote sink takes one.                                               *)
LEMMA Answered ==
    ASSUME TypeInv, NEW c \in Callers, NEW n \in Nat,
           \A m \in Given("remote", c) : m < n,
           told' = Tell("remote", c, n), channel' = channel
    PROVE  \A l \in Leaves, d \in Callers :
              /\ Given(l, d)' = Given(l, d) \cup {m \in {n} : l = "remote" /\ d = c}
              /\ InOrder(l, d) => InOrder(l, d)'
<1>1. /\ told'["remote"][c] = Append(told["remote"][c], n)
      /\ \A l \in Leaves, d \in Callers : <<l, d>> # <<"remote", c>> => told'[l][d] = told[l][d]
      /\ told["remote"][c] \in Seq(Nat)
  <2>1. told \in [Leaves -> [Callers -> Seq(Nat)]] /\ "remote" \in Leaves
    BY DEF TypeInv, Leaves
  <2>2. /\ Tell("remote", c, n)["remote"][c] = Append(told["remote"][c], n)
        /\ \A l \in Leaves, d \in Callers :
              <<l, d>> # <<"remote", c>> => Tell("remote", c, n)[l][d] = told[l][d]
    BY <2>1, TellType, ZenonT(60)
  <2>3. told["remote"][c] \in Seq(Nat)
    BY <2>1
  <2>4. QED
    BY <2>2, <2>3
<1>2. \A d : OnTheWay(d)' = OnTheWay(d)
  BY DEF OnTheWay
<1>3. \A m \in ToSet(told["remote"][c]) : m < n
  BY DEF Given
<1> SUFFICES ASSUME NEW l \in Leaves, NEW d \in Callers
             PROVE  /\ Given(l, d)' = Given(l, d) \cup {m \in {n} : l = "remote" /\ d = c}
                    /\ InOrder(l, d) => InOrder(l, d)'
  OBVIOUS
<1>4. CASE l # "remote" \/ d # c
  BY <1>1, <1>2, <1>4 DEF Given, InOrder
<1>5. CASE l = "remote" /\ d = c
  <2>1. /\ ToSet(told'["remote"][c]) = ToSet(told["remote"][c]) \cup {n}
        /\ (\A j, k \in DOMAIN told["remote"][c] :
               j < k => told["remote"][c][j] < told["remote"][c][k])
           => \A j, k \in DOMAIN told'["remote"][c] :
                 j < k => told'["remote"][c][j] < told'["remote"][c][k]
    BY <1>1, <1>3, ListGrows, OneMore
  <2>2. QED
    BY <1>5, <2>1 DEF Given, InOrder
<1>6. QED
  BY <1>4, <1>5

(* The consumer takes an event out of the channel.                          *)
LEMMA Received ==
    ASSUME TypeInv, Receive
    PROVE  \A l \in Leaves, d \in Callers :
              /\ Given(l, d)' = Given(l, d)
              /\ InOrder(l, d) => InOrder(l, d)'
<1> DEFINE c == channel[1][1]
           n == channel[1][2]
           rest == {i \in DOMAIN channel : i # 1}
<1>1. /\ channel \in Seq(Callers \X Nat) /\ channel # <<>> /\ channel' = Tail(channel)
      /\ told' = Tell("channel", c, n)
  BY DEF TypeInv, Receive
<1>2. /\ 1 \in DOMAIN channel /\ c \in Callers /\ n \in Nat
      /\ \A i \in DOMAIN channel : i \in Nat /\ i >= 1
      /\ \A i \in DOMAIN channel' : channel'[i] = channel[i + 1] /\ i + 1 \in rest /\ i \in Nat
      /\ \A i \in rest : i - 1 \in DOMAIN channel' /\ (i - 1) + 1 = i
  <2>1. Len(channel) \in Nat /\ Len(channel) >= 1 /\ DOMAIN channel = 1..Len(channel)
    BY <1>1, EmptySeq
  <2>2. Tail(channel) \in Seq(Callers \X Nat) /\ Len(Tail(channel)) = Len(channel) - 1
        /\ \A i \in 1..Len(channel) - 1 : Tail(channel)[i] = channel[i + 1]
    BY <1>1, <2>1
  <2>3. DOMAIN channel' = 1..Len(channel) - 1
    BY <1>1, <2>1, <2>2
  <2>4. 1 \in DOMAIN channel /\ c \in Callers /\ n \in Nat
    BY <2>1, ChannelType
  <2>5. QED
    BY <1>1, <2>1, <2>2, <2>3, <2>4
<1>0. c = channel[1][1] /\ n = channel[1][2]
  OBVIOUS
<1> HIDE DEF c, n
<1>3. /\ told'["channel"][c] = Append(told["channel"][c], n)
      /\ \A l \in Leaves, d \in Callers : <<l, d>> # <<"channel", c>> => told'[l][d] = told[l][d]
      /\ told["channel"][c] \in Seq(Nat)
  <2>1. told \in [Leaves -> [Callers -> Seq(Nat)]] /\ "channel" \in Leaves
    BY DEF TypeInv, Leaves
  <2>2. c \in Callers /\ n \in Nat /\ told' = Tell("channel", c, n)
    BY <1>1, <1>2
  <2>3. /\ Tell("channel", c, n)["channel"][c] = Append(told["channel"][c], n)
        /\ \A l \in Leaves, d \in Callers :
              <<l, d>> # <<"channel", c>> => Tell("channel", c, n)[l][d] = told[l][d]
    BY <2>1, <2>2, TellType, ZenonT(60)
  <2>4. told["channel"][c] \in Seq(Nat)
    BY <2>1, <2>2
  <2>5. QED
    BY <2>2, <2>3, <2>4
<1>4. ASSUME NEW d
      PROVE  /\ \A i \in OnTheWay(d)' : i + 1 \in OnTheWay(d) /\ i + 1 \in rest
                                        /\ channel'[i] = channel[i + 1] /\ i \in Nat
             /\ \A i \in OnTheWay(d) : i = 1 \/ (i - 1 \in OnTheWay(d)' /\ channel'[i - 1] = channel[i])
             /\ 1 \in OnTheWay(d) <=> d = c
  BY <1>0, <1>2 DEF OnTheWay
<1> HIDE DEF rest
<1>5. ToSet(Append(told["channel"][c], n)) = ToSet(told["channel"][c]) \cup {n}
  BY <1>2, <1>3, OneMore
<1>6. ASSUME NEW l \in Leaves, NEW d \in Callers PROVE Given(l, d)' = Given(l, d)
  <2>1. CASE l # "channel"
    BY <1>3, <2>1 DEF Given
  <2>2. CASE l = "channel"
    <3> DEFINE came == {channel[i][2] : i \in OnTheWay(d)}
    <3>1. CASE d = c
      <4>1. came = {n} \cup {channel'[i][2] : i \in OnTheWay(d)'}
        <5>1. \A m \in came : m = n \/ \E i \in OnTheWay(d)' : m = channel'[i][2]
          BY <1>0, <1>4
        <5>2. n \in came
          BY <1>0, <1>4, <3>1
        <5>3. \A i \in OnTheWay(d)' : channel'[i][2] \in came
          BY <1>4
        <5>4. QED
          BY <5>1, <5>2, <5>3
      <4>2. QED
        BY <1>3, <1>5, <2>2, <3>1, <4>1 DEF Given
    <3>2. CASE d # c
      <4>1. came = {channel'[i][2] : i \in OnTheWay(d)'}
        <5>1. \A m \in came : \E i \in OnTheWay(d)' : m = channel'[i][2]
          BY <1>4, <3>2
        <5>2. \A i \in OnTheWay(d)' : channel'[i][2] \in came
          BY <1>4
        <5>3. QED
          BY <5>1, <5>2
      <4>2. QED
        BY <1>3, <2>2, <3>2, <4>1 DEF Given
    <3>3. QED
      BY <3>1, <3>2
  <2>3. QED
    BY <2>1, <2>2
<1>7. ASSUME NEW l \in Leaves, NEW d \in Callers, InOrder(l, d) PROVE InOrder(l, d)'
  <2>1. CASE l # "channel"
    BY <1>3, <1>7, <2>1 DEF InOrder
  <2>2. CASE l = "channel"
    <3>1. /\ \A j, k \in DOMAIN told["channel"][d] :
                j < k => told["channel"][d][j] < told["channel"][d][k]
          /\ \A i \in OnTheWay(d) :
                /\ \A j \in OnTheWay(d) : i < j => channel[i][2] < channel[j][2]
                /\ \A m \in ToSet(told["channel"][d]) : m < channel[i][2]
      BY <1>7, <2>2 DEF InOrder
    <3>2. \A i, j \in OnTheWay(d)' : i < j => channel'[i][2] < channel'[j][2]
      <4>1. \A i, j \in Nat : i < j => i + 1 < j + 1
        OBVIOUS
      <4>2. QED
        BY <1>4, <3>1, <4>1
    <3>3. /\ \A j, k \in DOMAIN told'["channel"][d] :
                j < k => told'["channel"][d][j] < told'["channel"][d][k]
          /\ \A i \in OnTheWay(d)', m \in ToSet(told'["channel"][d]) : m < channel'[i][2]
      <4>1. CASE d # c
        <5>1. told'["channel"][d] = told["channel"][d]
          BY <1>3, <4>1 DEF Leaves
        <5>2. \A i \in OnTheWay(d)', m \in ToSet(told["channel"][d]) : m < channel'[i][2]
          BY <1>4, <3>1
        <5>3. QED
          BY <3>1, <5>1, <5>2
      <4>2. CASE d = c
        <5>1. 1 \in OnTheWay(d) /\ n = channel[1][2]
          BY <1>0, <1>4, <4>2
        <5>2. \A m \in ToSet(told["channel"][d]) : m < n
          BY <3>1, <5>1
        <5>3. \A i \in OnTheWay(d)' : n < channel'[i][2]
          <6>1. ASSUME NEW i \in OnTheWay(d)' PROVE 1 < i + 1
            <7>1. i + 1 \in DOMAIN channel /\ i + 1 # 1 /\ i \in Nat
              BY <1>4 DEF rest
            <7>2. QED
              BY <7>1
          <6>2. \A j \in OnTheWay(d) : 1 < j => n < channel[j][2]
            BY <3>1, <5>1
          <6>3. QED
            BY <1>4, <6>1, <6>2
        <5>4. \A j, k \in DOMAIN told'["channel"][d] :
                j < k => told'["channel"][d][j] < told'["channel"][d][k]
          BY <1>2, <1>3, <3>1, <4>2, <5>2, ListGrows, ZenonT(60)
        <5>5. ASSUME NEW i \in OnTheWay(d)', NEW m \in ToSet(told'["channel"][d])
              PROVE  m < channel'[i][2]
          <6>1. m \in ToSet(told["channel"][d]) \/ m = n
            BY <1>3, <1>5, <4>2
          <6>2. i + 1 \in OnTheWay(d) /\ channel'[i] = channel[i + 1]
            BY <1>4
          <6>3. QED
            BY <3>1, <5>3, <6>1, <6>2
        <5>6. QED
          BY <5>4, <5>5
      <4>3. QED
        BY <4>1, <4>2
    <3>4. QED
      BY <2>2, <3>2, <3>3 DEF InOrder
  <2>3. QED
    BY <2>1, <2>2
<1>8. QED
  BY <1>6, <1>7

-----------------------------------------------------------------------------
(* Events: what a sink was given is what had its turn there and was not      *)
(* refused, by it or by a sink before it.                                    *)

Before(i) == {scenario.sinks[j] : j \in 1..(i - 1)}
Missed(i) == IF "remote" \in Before(i) THEN failed ELSE {}
Own(i) == IF scenario.sinks[i] = "remote" THEN failed ELSE {}

SinkInv(c, i) ==
    LET leaf == scenario.sinks[i]
    IN  /\ InOrder(leaf, c)
        /\ Given(leaf, c) \subseteq Offered(c, i)
        /\ \A n \in Given(leaf, c) : <<c, n>> \notin Missed(i)
        /\ c \in live =>
              \A n \in Offered(c, i) : n \in Given(leaf, c) \/ <<c, n>> \in Missed(i) \cup Own(i)

(* An event is refused after it was published, once; and the run says that  *)
(* it has completed only when the turn is stored.                           *)
RunInv(c) ==
    /\ At(c, "publish") => Number(c) >= 1 /\ <<c, Number(c)>> \notin failed
    /\ \A n \in Nat : <<c, n>> \in failed => n <= Number(c)
    /\ \A n \in DOMAIN run[c].events : run[c].events[n].type = "run.completed" => run[c].stored

EventInv(c) == RunInv(c) /\ \A i \in DOMAIN scenario.sinks : SinkInv(c, i)

(* A run that a step leaves alone.                                          *)
LEMMA EventKept ==
    ASSUME TypeInv, NEW d \in Callers, EventInv(d),
           run'[d] = run[d], scenario' = scenario, live' \subseteq live,
           \A l \in Leaves : Given(l, d)' = Given(l, d) /\ (InOrder(l, d) => InOrder(l, d)'),
           \A n : <<d, n>> \in failed' <=> <<d, n>> \in failed
    PROVE  EventInv(d)'
<1>1. At(d, "publish")' = At(d, "publish") /\ Number(d)' = Number(d)
  BY DEF At, Number
<1>2. RunInv(d)'
  BY <1>1 DEF EventInv, RunInv
<1>3. ASSUME NEW i \in DOMAIN scenario.sinks PROVE SinkInv(d, i)'
  <2>1. SinkInv(d, i) /\ scenario.sinks[i] \in Leaves
    BY SinksType DEF EventInv, TypeInv
  <2>2. Offered(d, i)' = Offered(d, i)
    BY <1>1 DEF Offered
  <2>3. \A n : /\ <<d, n>> \in Missed(i)' <=> <<d, n>> \in Missed(i)
               /\ <<d, n>> \in Own(i)' <=> <<d, n>> \in Own(i)
    BY DEF Missed, Own, Before
  <2>4. QED
    BY <2>1, <2>2, <2>3 DEF SinkInv
<1>4. QED
  BY <1>2, <1>3 DEF EventInv

(* The turns at the sinks, while an event is on its way through them.       *)
LEMMA Turns ==
    ASSUME TypeInv, NEW c \in Callers
    PROVE  /\ Number(c) \in Nat
           /\ At(c, "publish") =>
                 /\ run[c].leaf \in DOMAIN scenario.sinks
                 /\ \A i \in DOMAIN scenario.sinks :
                       Offered(c, i) = IF run[c].leaf <= i THEN 1..(Number(c) - 1)
                                       ELSE 1..Number(c)
           /\ ~At(c, "publish") =>
                 \A i \in DOMAIN scenario.sinks : Offered(c, i) = 1..Number(c)
           /\ \A i \in DOMAIN scenario.sinks :
                 /\ i \in Nat /\ scenario.sinks[i] \in Leaves
                 /\ \A j \in DOMAIN scenario.sinks :
                       /\ scenario.sinks[i] = scenario.sinks[j] => i = j
                       /\ scenario.sinks[j] = "remote" => ("remote" \in Before(i) <=> j < i)
<1>1. Number(c) \in Nat
  BY NumberType
<1>2. /\ scenario.sinks \in Seq(Leaves) /\ Len(scenario.sinks) \in Nat
      /\ DOMAIN scenario.sinks = 1..Len(scenario.sinks)
      /\ \A i, j \in DOMAIN scenario.sinks : scenario.sinks[i] = scenario.sinks[j] => i = j
  BY SinksType DEF TypeInv
<1>3. At(c, "publish") => run[c].leaf \in DOMAIN scenario.sinks
  BY <1>2 DEF TypeInv, Fine, At
<1>4. ASSUME NEW i \in DOMAIN scenario.sinks
      PROVE  /\ i \in Nat /\ scenario.sinks[i] \in Leaves
             /\ \A j \in DOMAIN scenario.sinks :
                   scenario.sinks[j] = "remote" => ("remote" \in Before(i) <=> j < i)
  <2>1. i \in 1..Len(scenario.sinks)
    BY <1>2
  <2>2. ASSUME NEW j \in DOMAIN scenario.sinks, scenario.sinks[j] = "remote"
        PROVE  "remote" \in Before(i) <=> j < i
    <3>1. ASSUME "remote" \in Before(i) PROVE j < i
      <4>1. PICK h \in 1..(i - 1) : scenario.sinks[h] = "remote"
        BY <3>1 DEF Before
      <4>2. h \in 1..Len(scenario.sinks) /\ h < i
        BY <1>2, <2>1
      <4>3. h = j
        BY <1>2, <2>2, <4>1, <4>2
      <4>4. QED
        BY <4>2, <4>3
    <3>2. ASSUME j < i PROVE "remote" \in Before(i)
      <4>1. j \in 1..(i - 1)
        BY <1>2, <2>1, <3>2
      <4>2. QED
        BY <2>2, <4>1 DEF Before
    <3>3. QED
      BY <3>1, <3>2
  <2>3. QED
    BY <1>2, <2>1, <2>2
<1>5. QED
  BY <1>1, <1>2, <1>3, <1>4 DEF Offered

(* The run's own step: the event it emits has its first turn yet to come.   *)
LEMMA EventActed ==
    ASSUME TypeInv, TypeInv', NEW c \in Callers, EventInv(c), NEW r, Acted(c, r)
    PROVE  EventInv(c)'
<1> DEFINE N == Number(c)
           old == run[c].events
<1>1. run'[c] = r /\ run[c].pc # "publish" /\ N \in Nat /\ old \in Seq(Event) /\ N = Len(old)
      /\ DOMAIN old = 1..N
  BY NumberType DEF Acted, TypeInv, Number
<1>2. UNCHANGED <<scenario, live, channel, told, failed>>
  BY DEF Acted
<1>3. \A l \in Leaves : Given(l, c)' = Given(l, c) /\ (InOrder(l, c) => InOrder(l, c)')
  BY <1>2 DEF Given, InOrder, OnTheWay
<1>4. ASSUME NEW i \in DOMAIN scenario.sinks
      PROVE  Missed(i)' = Missed(i) /\ Own(i)' = Own(i) /\ scenario.sinks[i] \in Leaves
  BY <1>2, Turns DEF Missed, Own, Before
<1>5. ASSUME \A i \in DOMAIN scenario.sinks : Offered(c, i)' = Offered(c, i)
      PROVE  \A i \in DOMAIN scenario.sinks : SinkInv(c, i)'
  BY <1>2, <1>3, <1>4, <1>5 DEF EventInv, SinkInv
<1>6. RunInv(c) /\ ~At(c, "publish") /\ (At(c, "publish")' <=> r.pc = "publish")
      /\ Number(c)' = Len(r.events)
  BY <1>1 DEF EventInv, At, Number
<1>7. CASE r.events = old /\ r.pc # "publish" /\ r.stored = run[c].stored
  <2>1. Number(c)' = N
    BY <1>1, <1>6, <1>7
  <2>2. RunInv(c)'
    BY <1>1, <1>2, <1>6, <1>7, <2>1 DEF RunInv
  <2>3. \A i \in DOMAIN scenario.sinks : Offered(c, i)' = Offered(c, i)
    BY <1>6, <1>7, <2>1 DEF Offered
  <2>4. QED
    BY <1>2, <1>5, <2>2, <2>3 DEF EventInv
<1>8. CASE /\ \E e \in Event : /\ r.events = Append(old, e)
                               /\ e.type = "run.completed" => r.stored
           /\ r.leaf = 1
           /\ r.pc # "publish" => scenario.sinks = <<>>
           /\ run[c].stored => r.stored
  <2>1. PICK e \in Event : /\ r.events = Append(old, e)
                           /\ e.type = "run.completed" => r.stored
    BY <1>8
  <2> HIDE DEF old
  <2>2. /\ Len(r.events) = N + 1 /\ DOMAIN r.events = 1..(N + 1)
        /\ r.events[N + 1] = e /\ \A n \in 1..N : r.events[n] = old[n]
    BY <1>1, <2>1
  <2> HIDE DEF N
  <2>3. Number(c)' = N + 1
    BY <1>6, <2>2
  <2>4. \A n \in 1..N : old[n].type = "run.completed" => run[c].stored
    BY <1>1, <1>6 DEF RunInv, old
  <2>5. \A n \in DOMAIN r.events : r.events[n].type = "run.completed" => r.stored
    BY <1>1, <1>8, <2>1, <2>2, <2>4
  <2>6. \A n \in Nat : <<c, n>> \in failed => n <= N
    BY <1>6 DEF RunInv, N
  <2>7. RunInv(c)'
    <3>1. N + 1 \in Nat /\ ~(N + 1 <= N) /\ N + 1 >= 1 /\ \A n \in Nat : n <= N => n <= N + 1
      BY <1>1
    <3>2. QED
      BY <1>1, <1>2, <2>3, <2>5, <2>6, <3>1 DEF RunInv
  <2>8. ASSUME NEW i \in DOMAIN scenario.sinks PROVE Offered(c, i)' = Offered(c, i)
    <3>1. Offered(c, i) = 1..N
      BY <1>6, Turns DEF N
    <3>2. 1 <= i
      BY SinksType DEF TypeInv
    <3>3. scenario.sinks # <<>>
      BY EmptySeq
    <3>4. At(c, "publish")' /\ run'[c].leaf = 1
      BY <1>1, <1>6, <1>8, <3>3
    <3>5. Offered(c, i)' = 1..((N + 1) - 1)
      BY <2>3, <3>2, <3>4 DEF Offered
    <3>6. QED
      BY <1>1, <3>1, <3>5
  <2>9. QED
    BY <1>2, <1>5, <2>7, <2>8 DEF EventInv
<1>9. QED
  BY <1>7, <1>8 DEF Acted

(* A sink takes the event that is published: its turn at this sink is over, *)
(* and that at the next one is to come.                                     *)
LEMMA EventDelivered ==
    ASSUME TypeInv, NEW c \in Callers, EventInv(c), At(c, "publish"),
           run' = [run EXCEPT ![c] = NextLeaf(@)], UNCHANGED <<scenario, live, failed>>,
           \A l \in Leaves :
              /\ Given(l, c)' = Given(l, c)
                                \cup {m \in {Number(c)} : l = scenario.sinks[run[c].leaf]}
              /\ InOrder(l, c) => InOrder(l, c)'
    PROVE  EventInv(c)'
<1> DEFINE N == Number(c)
           k == run[c].leaf
           r == NextLeaf(run[c])
<1>1. /\ DOMAIN run = Callers /\ Record(run[c]) /\ run[c].pc = "publish"
      /\ run[c].then \in Goals
  BY DEF TypeInv, Fine, At
<1>2. /\ Len(scenario.sinks) \in Nat /\ DOMAIN scenario.sinks = 1..Len(scenario.sinks)
      /\ k \in 1..Len(scenario.sinks)
  BY SinksType, Turns DEF TypeInv
<1>3. /\ r.events = run[c].events /\ r.stored = run[c].stored
      /\ IF k = Len(scenario.sinks) THEN r.pc = run[c].then ELSE r.pc = "publish" /\ r.leaf = k + 1
  BY <1>1 DEF NextLeaf, GoesOn, Record
<1>4. run'[c] = r
  BY <1>1
<1> HIDE DEF r
<1>5. N \in Nat /\ Number(c)' = N
  BY <1>3, <1>4, Turns DEF Number
<1>6. /\ N >= 1 /\ <<c, N>> \notin failed
      /\ RunInv(c) /\ \A i \in DOMAIN scenario.sinks : SinkInv(c, i)
  BY DEF EventInv, RunInv
<1>7. RunInv(c)'
  BY <1>3, <1>4, <1>5, <1>6 DEF RunInv
<1>8. ASSUME NEW i \in DOMAIN scenario.sinks
      PROVE  Offered(c, i)' = IF k < i THEN 1..(N - 1) ELSE 1..N
  <2>1. i \in 1..Len(scenario.sinks)
    BY <1>2
  <2>2. CASE k = Len(scenario.sinks)
    <3>1. ~At(c, "publish")' /\ ~(k < i)
      BY <1>1, <1>3, <1>4, <2>1, <2>2 DEF At, Goals
    <3>2. QED
      BY <1>5, <3>1 DEF Offered
  <2>3. CASE k # Len(scenario.sinks)
    <3>1. At(c, "publish")' /\ run'[c].leaf = k + 1 /\ (k + 1 <= i <=> k < i)
      BY <1>2, <1>3, <1>4, <2>1, <2>3 DEF At
    <3>2. QED
      BY <1>5, <3>1 DEF Offered
  <2>4. QED
    BY <2>2, <2>3
<1>9. ASSUME NEW i \in DOMAIN scenario.sinks PROVE SinkInv(c, i)'
  <2> DEFINE leaf == scenario.sinks[i]
  <2>1. /\ leaf \in Leaves
        /\ leaf = scenario.sinks[k] <=> i = k
        /\ Missed(i)' = Missed(i) /\ Own(i)' = Own(i) /\ SinkInv(c, i)
        /\ i \in Nat /\ k \in Nat
    BY <1>2, <1>6, Turns DEF Missed, Own, Before
  <2>2. Offered(c, i) = IF k <= i THEN 1..(N - 1) ELSE 1..N
    BY Turns DEF N
  <2>3. 1..N = (1..(N - 1)) \cup {N}
    BY <1>5, <1>6
  <2>4. Given(leaf, c)' = Given(leaf, c) \cup {m \in {N} : i = k}
        /\ (InOrder(leaf, c) => InOrder(leaf, c)')
    BY <1>2, <2>1, Turns
  <2>5. Offered(c, i)' = Offered(c, i) \cup {m \in {N} : i = k}
    <3>1. Offered(c, i)' = IF k < i THEN 1..(N - 1) ELSE 1..N
      BY <1>8
    <3> HIDE DEF N, k
    <3>2. CASE i = k
      BY <2>1, <2>2, <2>3, <3>1, <3>2
    <3>3. CASE i # k
      <4>1. k <= i <=> k < i
        BY <2>1, <3>3
      <4>2. {m \in {N} : i = k} = {}
        BY <3>3
      <4>3. QED
        BY <2>2, <3>1, <4>1, <4>2
    <3>4. QED
      BY <3>2, <3>3
  <2>6. <<c, N>> \notin Missed(i)
    BY <1>6 DEF Missed
  <2> HIDE DEF N, k
  <2>7. /\ InOrder(leaf, c)'
        /\ Given(leaf, c)' \subseteq Offered(c, i)'
        /\ \A n \in Given(leaf, c)' : <<c, n>> \notin Missed(i)
        /\ c \in live => \A n \in Offered(c, i)' :
                            n \in Given(leaf, c)' \/ <<c, n>> \in Missed(i) \cup Own(i)
    BY <2>1, <2>4, <2>5, <2>6 DEF SinkInv
  <2>8. QED
    BY <2>1, <2>7 DEF SinkInv
<1>10. QED
  BY <1>7, <1>9 DEF EventInv

(* A sink refuses the event, or the run's context has ended: no sink after  *)
(* it has a turn, and the run goes on.                                      *)
LEMMA EventRefused ==
    ASSUME TypeInv, NEW c \in Callers, EventInv(c), At(c, "publish"),
           run' = [run EXCEPT ![c] = GoesOn(@)], UNCHANGED <<scenario, live>>,
           \/ c \notin live /\ failed' = failed
           \/ /\ scenario.sinks[run[c].leaf] = "remote"
              /\ failed' = failed \cup {<<c, Number(c)>>},
           NEW came \in SUBSET {Number(c)},
           \A l \in Leaves :
              /\ Given(l, c)' = Given(l, c)
                                \cup {m \in came : l = scenario.sinks[run[c].leaf]}
              /\ InOrder(l, c) => InOrder(l, c)'
    PROVE  EventInv(c)'
<1> DEFINE N == Number(c)
           k == run[c].leaf
           r == GoesOn(run[c])
<1>1. /\ DOMAIN run = Callers /\ Record(run[c]) /\ run[c].pc = "publish"
      /\ run[c].then \in Goals
  BY DEF TypeInv, Fine, At
<1>2. r.events = run[c].events /\ r.stored = run[c].stored /\ r.pc = run[c].then
  BY <1>1 DEF GoesOn, Record
<1>3. run'[c] = r
  BY <1>1
<1> HIDE DEF r
<1>4. N \in Nat /\ Number(c)' = N /\ k \in DOMAIN scenario.sinks /\ ~At(c, "publish")'
  BY <1>1, <1>2, <1>3, Turns DEF Number, At, Goals
<1>5. /\ N >= 1 /\ <<c, N>> \notin failed
      /\ RunInv(c) /\ \A i \in DOMAIN scenario.sinks : SinkInv(c, i)
  BY DEF EventInv, RunInv
<1>6. failed \subseteq failed' /\ \A n : <<c, n>> \in failed' => <<c, n>> \in failed \/ n = N
  OBVIOUS
<1>7. RunInv(c)'
  <2>1. \A n \in Nat : <<c, n>> \in failed' => n <= N
    BY <1>4, <1>5, <1>6 DEF RunInv
  <2>2. QED
    BY <1>2, <1>3, <1>4, <1>5, <2>1 DEF RunInv
<1>8. ASSUME NEW i \in DOMAIN scenario.sinks PROVE SinkInv(c, i)'
  <2> DEFINE leaf == scenario.sinks[i]
  <2>1. /\ leaf \in Leaves
        /\ leaf = scenario.sinks[k] <=> i = k
        /\ SinkInv(c, i) /\ i \in Nat /\ k \in Nat
    BY <1>4, <1>5, Turns
  <2>2. /\ Offered(c, i) = IF k <= i THEN 1..(N - 1) ELSE 1..N
        /\ Offered(c, i)' = 1..N
    BY <1>4, Turns DEF Offered
  <2>3. 1..N = (1..(N - 1)) \cup {N} /\ N \notin 1..(N - 1)
    BY <1>4, <1>5
  <2>4. Given(leaf, c)' = Given(leaf, c) \cup {m \in came : i = k}
        /\ (InOrder(leaf, c) => InOrder(leaf, c)') /\ came \subseteq {N}
    BY <2>1
  <2>5. Missed(i) \subseteq Missed(i)' /\ Own(i) \subseteq Own(i)'
    BY <1>6 DEF Missed, Own, Before
  <2>6. \A n : <<c, n>> \in Missed(i)' => <<c, n>> \in Missed(i) \/ (n = N /\ k < i)
    <3>1. CASE failed' = failed
      BY <3>1 DEF Missed, Before
    <3>2. CASE scenario.sinks[k] = "remote"
      <4>1. "remote" \in Before(i) <=> k < i
        BY <1>4, <3>2, Turns
      <4>2. QED
        BY <1>6, <4>1 DEF Missed, Before
    <3>3. QED
      BY <3>1, <3>2
  <2>7. c \in live => <<c, N>> \in Missed(i)' \cup Own(i)' \/ i < k
    <3>1. CASE c \notin live
      BY <3>1
    <3>2. CASE scenario.sinks[k] = "remote" /\ <<c, N>> \in failed'
      <4>1. "remote" \in Before(i) <=> k < i
        BY <1>4, <3>2, Turns
      <4>2. k < i => <<c, N>> \in Missed(i)'
        BY <3>2, <4>1 DEF Missed, Before
      <4>3. k = i => <<c, N>> \in Own(i)'
        BY <3>2 DEF Own
      <4>4. QED
        BY <2>1, <4>2, <4>3
    <3>3. QED
      BY <3>1, <3>2
  <2> HIDE DEF N, k
  <2>8. k < i => N \notin Given(leaf, c)'
    BY <2>1, <2>2, <2>3, <2>4 DEF SinkInv
  <2>9. Given(leaf, c)' \subseteq Offered(c, i)'
    BY <2>1, <2>2, <2>3, <2>4 DEF SinkInv
  <2>10. \A n \in Given(leaf, c)' : <<c, n>> \notin Missed(i)'
    <3>1. <<c, N>> \notin Missed(i)
      BY <1>5 DEF Missed, N
    <3>2. QED
      BY <2>1, <2>4, <2>6, <2>8, <3>1 DEF SinkInv
  <2>11. ASSUME c \in live, NEW n \in Offered(c, i)'
         PROVE  n \in Given(leaf, c)' \/ <<c, n>> \in Missed(i)' \cup Own(i)'
    <3>1. CASE n \in Offered(c, i)
      BY <2>1, <2>4, <2>5, <2>11, <3>1 DEF SinkInv
    <3>2. CASE n = N /\ k <= i
      BY <2>1, <2>7, <2>11, <3>2
    <3>3. QED
      BY <2>1, <2>2, <2>3, <2>11, <3>1, <3>2
  <2>12. QED
    BY <2>1, <2>4, <2>9, <2>10, <2>11 DEF SinkInv
<1>9. QED
  BY <1>7, <1>8 DEF EventInv

LEMMA EventInit == Init => \A c \in Callers : EventInv(c)
<1> SUFFICES ASSUME Init, NEW c \in Callers PROVE EventInv(c)
  OBVIOUS
<1>1. TypeInv
  BY TypeInit
<1>2. /\ run[c].pc = "idle" /\ run[c].events = <<>> /\ channel = <<>> /\ failed = {}
      /\ \A l \in Leaves : told[l][c] = <<>>
  BY DEF Init, Idle
<1>3. Number(c) = 0 /\ DOMAIN <<>> = {}
  BY <1>2, EmptySeq DEF Number
<1>4. RunInv(c)
  BY <1>2, <1>3 DEF RunInv, At
<1>5. ASSUME NEW l \in Leaves PROVE Given(l, c) = {} /\ InOrder(l, c)
  BY <1>2, <1>3 DEF Given, InOrder, OnTheWay, ToSet
<1>6. ASSUME NEW i \in DOMAIN scenario.sinks PROVE SinkInv(c, i)
  <2>1. Offered(c, i) = {} /\ scenario.sinks[i] \in Leaves
    BY <1>1, <1>2, <1>3, Turns DEF At
  <2>2. QED
    BY <1>5, <2>1 DEF SinkInv
<1>7. QED
  BY <1>4, <1>6 DEF EventInv

(* A step that publishes, or fails to.                                      *)
LEMMA EventPublished ==
    ASSUME TypeInv, \A d \in Callers : EventInv(d), NEW c \in Callers,
           SendsToChannel(c) \/ ChannelGivenUp(c) \/ SendsToRemote(c) \/ RemoteRefuses(c)
    PROVE  \A d \in Callers : EventInv(d)'
<1> DEFINE leaf == scenario.sinks[run[c].leaf]
           N == Number(c)
<1>1. /\ At(c, "publish") /\ EventInv(c) /\ N \in Nat
      /\ DOMAIN run = Callers /\ run[c].leaf \in DOMAIN scenario.sinks
      /\ leaf \in Leaves /\ InOrder(leaf, c)
      /\ \A m \in Given(leaf, c) : m < N
  <2>1. At(c, "publish")
    BY DEF SendsToChannel, ChannelGivenUp, SendsToRemote, RemoteRefuses, Publishes
  <2>2. /\ N \in Nat /\ run[c].leaf \in DOMAIN scenario.sinks /\ leaf \in Leaves
        /\ run[c].leaf \in Nat /\ Offered(c, run[c].leaf) = 1..(N - 1)
    BY <2>1, Turns
  <2>3. Given(leaf, c) \subseteq 1..(N - 1) /\ InOrder(leaf, c)
    BY <2>2 DEF EventInv, SinkInv
  <2>4. \A m \in Given(leaf, c) : m < N
    BY <2>2, <2>3
  <2>5. QED
    BY <2>1, <2>2, <2>3, <2>4 DEF TypeInv
<1>2. UNCHANGED <<scenario, live>>
  BY DEF SendsToChannel, ChannelGivenUp, SendsToRemote, RemoteRefuses, Sets
<1>3. ASSUME NEW d \in Callers, d # c,
             run' = [run EXCEPT ![c] = run'[c]],
             failed' \in {failed, failed \cup {<<c, N>>}},
             \A l \in Leaves : Given(l, d)' = Given(l, d) /\ (InOrder(l, d) => InOrder(l, d)')
      PROVE  EventInv(d)'
  <2>1. run'[d] = run[d]
    BY <1>1, <1>3
  <2>2. \A n : <<d, n>> \in failed' <=> <<d, n>> \in failed
    BY <1>3
  <2>3. QED
    BY <1>2, <1>3, <2>1, <2>2, EventKept
<1>4. CASE SendsToChannel(c)
  <2>1. /\ leaf = "channel" /\ channel' = Append(channel, <<c, N>>) /\ UNCHANGED <<told, failed>>
        /\ run' = [run EXCEPT ![c] = NextLeaf(@)]
    BY <1>4 DEF SendsToChannel, Publishes
  <2>2. \A l \in Leaves, d \in Callers :
           /\ Given(l, d)' = Given(l, d) \cup {m \in {N} : l = "channel" /\ d = c}
           /\ InOrder(l, d) => InOrder(l, d)'
    BY <1>1, <2>1, Sent
  <2>3. \A l \in Leaves :
           /\ Given(l, c)' = Given(l, c) \cup {m \in {N} : l = leaf}
           /\ InOrder(l, c) => InOrder(l, c)'
    BY <2>1, <2>2
  <2>4. EventInv(c)'
    BY <1>1, <1>2, <2>1, <2>3, EventDelivered
  <2>5. ASSUME NEW d \in Callers, d # c PROVE EventInv(d)'
    <3>1. \A l \in Leaves : Given(l, d)' = Given(l, d) /\ (InOrder(l, d) => InOrder(l, d)')
      BY <2>2, <2>5
    <3>2. run' = [run EXCEPT ![c] = run'[c]]
      BY <1>1, <2>1
    <3>3. QED
      BY <1>3, <2>1, <2>5, <3>1, <3>2
  <2>6. QED
    BY <2>4, <2>5
<1>5. CASE ChannelGivenUp(c)
  <2>1. /\ c \notin live /\ UNCHANGED <<channel, told, failed>>
        /\ run' = [run EXCEPT ![c] = GoesOn(@)]
    BY <1>1, <1>5 DEF ChannelGivenUp, Sets, Refused
  <2>2. \A l \in Leaves, d \in Callers :
           Given(l, d)' = Given(l, d) /\ (InOrder(l, d) => InOrder(l, d)')
    BY <2>1 DEF Given, InOrder, OnTheWay
  <2>3. \A l \in Leaves :
           /\ Given(l, c)' = Given(l, c) \cup {m \in {} : l = leaf}
           /\ InOrder(l, c) => InOrder(l, c)'
    BY <2>2
  <2>4. EventInv(c)'
    BY <1>1, <1>2, <2>1, <2>3, EventRefused
  <2>5. ASSUME NEW d \in Callers, d # c PROVE EventInv(d)'
    <3>1. run' = [run EXCEPT ![c] = run'[c]]
      BY <1>1, <2>1
    <3>2. QED
      BY <1>3, <2>1, <2>2, <2>5, <3>1
  <2>6. QED
    BY <2>4, <2>5
<1>6. CASE SendsToRemote(c)
  <2>1. /\ leaf = "remote" /\ told' = Tell("remote", c, N) /\ UNCHANGED <<channel, failed>>
        /\ run' = [run EXCEPT ![c] = NextLeaf(@)]
    BY <1>6 DEF SendsToRemote, Publishes
  <2>2. \A l \in Leaves, d \in Callers :
           /\ Given(l, d)' = Given(l, d) \cup {m \in {N} : l = "remote" /\ d = c}
           /\ InOrder(l, d) => InOrder(l, d)'
    BY <1>1, <2>1, Answered
  <2>3. \A l \in Leaves :
           /\ Given(l, c)' = Given(l, c) \cup {m \in {N} : l = leaf}
           /\ InOrder(l, c) => InOrder(l, c)'
    BY <2>1, <2>2
  <2>4. EventInv(c)'
    BY <1>1, <1>2, <2>1, <2>3, EventDelivered
  <2>5. ASSUME NEW d \in Callers, d # c PROVE EventInv(d)'
    <3>1. \A l \in Leaves : Given(l, d)' = Given(l, d) /\ (InOrder(l, d) => InOrder(l, d)')
      BY <2>2, <2>5
    <3>2. run' = [run EXCEPT ![c] = run'[c]]
      BY <1>1, <2>1
    <3>3. QED
      BY <1>3, <2>1, <2>5, <3>1, <3>2
  <2>6. QED
    BY <2>4, <2>5
<1>7. CASE RemoteRefuses(c)
  <2>1. /\ leaf = "remote" /\ UNCHANGED channel /\ failed' = failed \cup {<<c, N>>}
        /\ told' = told \/ told' = Tell("remote", c, N)
        /\ run' = [run EXCEPT ![c] = GoesOn(@)]
    BY <1>7 DEF RemoteRefuses, Publishes, Refused
  <2>2. \E came \in SUBSET {N} : \A l \in Leaves, d \in Callers :
           /\ Given(l, d)' = Given(l, d) \cup {m \in came : l = "remote" /\ d = c}
           /\ InOrder(l, d) => InOrder(l, d)'
    <3>1. CASE told' = told
      <4>1. \A l \in Leaves, d \in Callers :
               /\ Given(l, d)' = Given(l, d) \cup {m \in {} : l = "remote" /\ d = c}
               /\ InOrder(l, d) => InOrder(l, d)'
        BY <2>1, <3>1 DEF Given, InOrder, OnTheWay
      <4>2. {} \in SUBSET {N}
        OBVIOUS
      <4>3. QED
        BY <4>1, <4>2, Zenon
    <3>2. CASE told' = Tell("remote", c, N)
      <4>1. \A l \in Leaves, d \in Callers :
               /\ Given(l, d)' = Given(l, d) \cup {m \in {N} : l = "remote" /\ d = c}
               /\ InOrder(l, d) => InOrder(l, d)'
        BY <1>1, <2>1, <3>2, Answered
      <4>2. {N} \in SUBSET {N}
        OBVIOUS
      <4>3. QED
        BY <4>1, <4>2, Zenon
    <3>3. QED
      BY <2>1, <3>1, <3>2
  <2>3. PICK came \in SUBSET {N} : \A l \in Leaves, d \in Callers :
           /\ Given(l, d)' = Given(l, d) \cup {m \in came : l = "remote" /\ d = c}
           /\ InOrder(l, d) => InOrder(l, d)'
    BY <2>2
  <2>4. \A l \in Leaves :
           /\ Given(l, c)' = Given(l, c) \cup {m \in came : l = leaf}
           /\ InOrder(l, c) => InOrder(l, c)'
    BY <2>1, <2>3
  <2>5. EventInv(c)'
    BY <1>1, <1>2, <2>1, <2>4, EventRefused
  <2>6. ASSUME NEW d \in Callers, d # c PROVE EventInv(d)'
    <3>1. \A l \in Leaves : Given(l, d)' = Given(l, d) /\ (InOrder(l, d) => InOrder(l, d)')
      <4>1. \A l : {m \in came : l = "remote" /\ d = c} = {}
        BY <2>6
      <4>2. ASSUME NEW l \in Leaves
            PROVE  /\ Given(l, d)' = Given(l, d) \cup {m \in came : l = "remote" /\ d = c}
                   /\ InOrder(l, d) => InOrder(l, d)'
        BY <2>3
      <4>3. \A S : S \cup {} = S
        OBVIOUS
      <4>4. QED
        BY <4>1, <4>2, <4>3, Zenon
    <3>2. run' = [run EXCEPT ![c] = run'[c]]
      BY <1>1, <2>1
    <3>3. QED
      BY <1>3, <2>1, <2>6, <3>1, <3>2
  <2>7. QED
    BY <2>5, <2>6
<1>8. QED
  BY <1>4, <1>5, <1>6, <1>7

EventsInv == \A c \in Callers : EventInv(c)

LEMMA EventStep == TypeInv /\ EventsInv /\ [Next]_vars => EventsInv'
<1> SUFFICES ASSUME TypeInv, \A d \in Callers : EventInv(d), [Next]_vars
             PROVE  \A d \in Callers : EventInv(d)'
  BY DEF EventsInv
<1>1. TypeInv'
  BY TypeStep
<1>2. ASSUME UNCHANGED <<scenario, run, channel, told, failed>>, live' \subseteq live
      PROVE  \A d \in Callers : EventInv(d)'
  <2>1. \A l \in Leaves, d \in Callers :
           Given(l, d)' = Given(l, d) /\ (InOrder(l, d) => InOrder(l, d)')
    BY <1>2 DEF Given, InOrder, OnTheWay
  <2>2. QED
    BY <1>2, <2>1, EventKept
<1>3. CASE Receive
  <2>1. \A l \in Leaves, d \in Callers :
           Given(l, d)' = Given(l, d) /\ (InOrder(l, d) => InOrder(l, d)')
    BY <1>3, Received
  <2>2. UNCHANGED <<scenario, run, live, failed>>
    BY <1>3 DEF Receive
  <2>3. QED
    BY <2>1, <2>2, EventKept
<1>4. ASSUME NEW c \in Callers, NEW r, Acted(c, r) PROVE \A d \in Callers : EventInv(d)'
  <2>1. EventInv(c)'
    BY <1>1, <1>4, EventActed
  <2>2. /\ UNCHANGED <<scenario, live, channel, told, failed>> /\ run' = [run EXCEPT ![c] = r]
        /\ DOMAIN run = Callers
    BY <1>4 DEF Acted, TypeInv
  <2>3. \A l \in Leaves, d \in Callers :
           Given(l, d)' = Given(l, d) /\ (InOrder(l, d) => InOrder(l, d)')
    BY <2>2 DEF Given, InOrder, OnTheWay
  <2>4. ASSUME NEW d \in Callers, d # c PROVE EventInv(d)'
    <3>1. run'[d] = run[d]
      BY <2>2, <2>4
    <3>2. QED
      BY <2>2, <2>3, <3>1, EventKept
  <2>5. QED
    BY <2>1, <2>4
<1>5. ASSUME NEW c \in Callers, RunStep(c) PROVE \A d \in Callers : EventInv(d)'
  BY <1>4, <1>5, RunsAct, EventPublished DEF RunStep
<1>6. ASSUME NEW c \in Callers, Admit(c) \/ Leave(c) \/ ContextEnds(c)
      PROVE  \A d \in Callers : EventInv(d)'
  BY <1>2, <1>6 DEF Admit, Leave, ContextEnds, agentVars
<1>7. ASSUME NEW def, Register(def) PROVE \A d \in Callers : EventInv(d)'
  BY <1>2, <1>7 DEF Register
<1>8. CASE Minutes \/ StopListening \/ UNCHANGED vars
  BY <1>2, <1>8 DEF Minutes, StopListening, vars, agentVars
<1>9. QED
  BY <1>3, <1>5, <1>6, <1>7, <1>8 DEF Next

(* MultiSink, ChannelEventSink, Langfuse.Publish: the promise of EventsTold   *)
(* for any number of runs, events and refusals, any size of the channel and   *)
(* any order of the sinks.                                                    *)
THEOREM SinksAreTold == Spec => []EventsTold
<1>1. TypeInv /\ EventsInv => EventsTold
  <2> SUFFICES ASSUME TypeInv, NEW c \in Callers, EventInv(c), NEW i \in DOMAIN scenario.sinks
               PROVE  LET leaf == scenario.sinks[i]
                      IN  /\ InOrder(leaf, c)
                          /\ \A n \in Given(leaf, c) :
                                /\ <<c, n>> \notin Missed(i)
                                /\ run[c].events[n].type = "run.completed" => run[c].stored
                          /\ c \in live =>
                                \A n \in Offered(c, i) :
                                   n \in Given(leaf, c) \/ <<c, n>> \in Missed(i) \cup Own(i)
    BY DEF EventsTold, EventsInv, Missed, Own, Before
  <2>1. SinkInv(c, i) /\ RunInv(c)
    BY DEF EventInv
  <2>2. Offered(c, i) \subseteq DOMAIN run[c].events
    BY Turns, NumberType
  <2>3. QED
    BY <2>1, <2>2 DEF SinkInv, RunInv
<1>2. Init => EventsInv
  BY EventInit DEF EventsInv
<1>3. QED
  BY <1>1, <1>2, TypeInit, TypeStep, EventStep, PTL DEF Spec

===============================================================================
