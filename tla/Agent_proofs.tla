---------------------------- MODULE Agent_proofs ----------------------------
(***************************************************************************)
(* What the compactions return, type correctness of Agent, five of its      *)
(* safety properties and the refinement of TurnLog.                         *)
(*                                                                         *)
(*   IndInv       at most one summary, in front, and no tool message with    *)
(*                another call's answer: a tool message is built from the    *)
(*                calls of the round's assistant message, so the invariant   *)
(*                says where that message is (InRound), and an appended turn *)
(*                keeps a session clean because nothing behind historyStart  *)
(*                is a summary (NewPart);                                   *)
(*   TurnInv      what a run has added behind its history grows, message by  *)
(*                message, towards a whole turn: from it that success means  *)
(*                a stored turn, and, where no session is replaced, TurnLog; *)
(*   HistoryInv   sessions and histories begin with a summary or pair every  *)
(*                call with its result: from it that compaction is sound;    *)
(*   PromptInv    estimates add up (TokensAppend), so that a history within   *)
(*                InputBudget and the input make a prompt within the budget. *)
(***************************************************************************)
EXTENDS Agent, WellFoundedInduction, TLAPS

-----------------------------------------------------------------------------
(* What the compactions of Compaction return, for every history and limit.  *)

(* A set of numbers has a least one. *)
LEMMA LeastNumber ==
    ASSUME NEW T, T \subseteq Nat, T # {}
    PROVE  \E x \in T : \A y \in T : x <= y
<1> DEFINE R == OpToRel(<, Nat)
<1>1. \E x \in T : \A y \in T : <<y, x>> \notin R
  BY NatLessThanWellFounded, WFMin, Zenon
<1>2. \A x, y \in Nat : y < x => <<y, x>> \in R
  BY DEF OpToRel
<1> HIDE DEF R
<1>3. PICK x \in T : \A y \in T : <<y, x>> \notin R
  BY <1>1
<1>4. ASSUME NEW y \in T PROVE x <= y
  <2>1. x \in Nat /\ y \in Nat
    OBVIOUS
  <2>2. ~(y < x)
    BY <1>2, <1>3, <2>1, Zenon
  <2>3. QED
    BY <2>1, <2>2
<1>5. QED
  BY <1>4

(* Induction: a set of numbers that has 0, and n + 1 with n, has them all. *)
LEMMA AllNumbers ==
    ASSUME NEW T, 0 \in T, \A n \in Nat : n \in T => n + 1 \in T
    PROVE  Nat \subseteq T
<1> DEFINE Rest == {n \in Nat : n \notin T}
<1> SUFFICES ASSUME Rest # {} PROVE FALSE
  OBVIOUS
<1>1. PICK x \in Rest : \A y \in Rest : x <= y
  BY LeastNumber
<1>2. x # 0 /\ x \in Nat /\ x \notin T
  OBVIOUS
<1>3. x - 1 \in Nat /\ ~(x <= x - 1)
  BY <1>2
<1>4. x - 1 \in T
  BY <1>1, <1>3
<1>5. (x - 1) + 1 \in T
  BY <1>3, <1>4
<1>6. QED
  BY <1>2, <1>5

(* Primitive recursion: the values of a recursive function exist. *)
Recursive(f, base, step) == f[0] = base /\ \A n \in Nat : f[n + 1] = step[<<n, f[n]>>]

LEMMA Recursion ==
    ASSUME NEW S, NEW base \in S, NEW step \in [Nat \X S -> S]
    PROVE  \E f \in [Nat -> S] : Recursive(f, base, step)
<1> DEFINE Upto(n) == {g \in [0..n -> S] :
                          g[0] = base /\ \A k \in 0..(n - 1) : g[k + 1] = step[<<k, g[k]>>]}
           T == {n \in Nat : Upto(n) # {}}
<1>1. 0 \in T
  <2>1. [k \in 0..0 |-> base] \in Upto(0)
    OBVIOUS
  <2>2. QED
    BY <2>1
<1>2. ASSUME NEW n \in Nat, n \in T PROVE n + 1 \in T
  <2>1. PICK g \in Upto(n) : TRUE
    BY <1>2
  <2> DEFINE h == [k \in 0..(n + 1) |-> IF k = n + 1 THEN step[<<n, g[n]>>] ELSE g[k]]
  <2>2. g[n] \in S /\ step[<<n, g[n]>>] \in S
    BY <2>1
  <2>3. h \in [0..(n + 1) -> S]
    BY <2>1, <2>2
  <2>4. h[0] = base
    BY <2>1
  <2>5. ASSUME NEW k \in 0..((n + 1) - 1) PROVE h[k + 1] = step[<<k, h[k]>>]
    <3>1. k \in 0..n /\ k + 1 \in 0..(n + 1) /\ k \in 0..(n + 1)
      OBVIOUS
    <3>2. h[k] = g[k]
      BY <3>1
    <3>3. CASE k = n
      BY <3>1, <3>2, <3>3
    <3>4. CASE k # n
      <4>1. k \in 0..(n - 1) /\ h[k + 1] = g[k + 1]
        BY <3>1, <3>4
      <4>2. QED
        BY <2>1, <3>2, <4>1
    <3>5. QED
      BY <3>3, <3>4
  <2> HIDE DEF h
  <2>6. h \in Upto(n + 1)
    BY <2>3, <2>4, <2>5
  <2>7. n + 1 \in Nat
    OBVIOUS
  <2> HIDE DEF Upto
  <2>8. QED
    BY <2>6, <2>7
<1>3. Nat \subseteq T
  <2> HIDE DEF T
  <2>1. QED
    BY <1>1, <1>2, AllNumbers
<1>4. ASSUME NEW n \in Nat, NEW m \in Nat, NEW g \in Upto(n), NEW h \in Upto(m)
      PROVE  \A k \in Nat : k <= n /\ k <= m => g[k] = h[k]
  <2> DEFINE A == {k \in Nat : k <= n /\ k <= m => g[k] = h[k]}
  <2>1. 0 \in A
    OBVIOUS
  <2>2. ASSUME NEW k \in Nat, k \in A PROVE k + 1 \in A
    <3> SUFFICES ASSUME k + 1 <= n, k + 1 <= m PROVE g[k + 1] = h[k + 1]
      OBVIOUS
    <3>1. k \in 0..(n - 1) /\ k \in 0..(m - 1) /\ g[k] = h[k]
      BY <2>2
    <3>2. g[k + 1] = step[<<k, g[k]>>] /\ h[k + 1] = step[<<k, h[k]>>]
      BY <3>1
    <3>3. QED
      BY <3>1, <3>2
  <2>3. Nat \subseteq A
    <3> HIDE DEF A
    <3>1. QED
      BY <2>1, <2>2, AllNumbers
  <2>4. QED
    BY <2>3
<1> DEFINE f == [n \in Nat |-> (CHOOSE g : g \in Upto(n))[n]]
<1>5. \A n \in Nat : (CHOOSE g : g \in Upto(n)) \in Upto(n)
  BY <1>3
<1>6. ASSUME NEW n \in Nat, NEW g \in Upto(n), NEW k \in 0..n PROVE g[k] = f[k]
  <2> DEFINE h == CHOOSE h : h \in Upto(k)
  <2>1. k \in Nat /\ f[k] = h[k]
    OBVIOUS
  <2> HIDE DEF f, Upto
  <2>3. h \in Upto(k)
    BY <1>5, <2>1
  <2> HIDE DEF h
  <2>2. QED
    BY <1>4, <2>1, <2>3
<1>7. ASSUME NEW n \in Nat
      PROVE  f[n] \in S /\ f[0] = base /\ f[n + 1] = step[<<n, f[n]>>]
  <2>1. PICK g \in Upto(n + 1) : TRUE
    <3>1. n + 1 \in Nat
      OBVIOUS
    <3> HIDE DEF Upto
    <3>2. QED
      BY <1>5, <3>1
  <2>2. g[0] = f[0] /\ g[n] = f[n] /\ g[n + 1] = f[n + 1]
    <3>1. n + 1 \in Nat /\ 0 \in 0..(n + 1) /\ n \in 0..(n + 1) /\ n + 1 \in 0..(n + 1)
      OBVIOUS
    <3> HIDE DEF f, Upto
    <3>2. QED
      BY <1>6, <3>1
  <2>3. g[0] = base /\ g[n] \in S /\ g[n + 1] = step[<<n, g[n]>>]
    BY <2>1
  <2>4. QED
    BY <2>2, <2>3
<1>8. f \in [Nat -> S]
  <2>1. \A n \in Nat : f[n] \in S
    BY <1>7
  <2> HIDE DEF Upto
  <2>2. QED
    BY <2>1
<1>9. QED
  <2> HIDE DEF f
  <2>1. QED
    BY <1>7, <1>8 DEF Recursive

(* The cut stops somewhere in the part to be summarized, and not in front of  *)
(* a tool result.                                                             *)
LEMMA CutStops ==
    ASSUME NEW ms \in Seq(Message), NEW limit \in 1..Len(ms)
    PROVE  /\ Cut(ms, limit) \in 0..(Len(ms) - limit + 1)
           /\ \/ Cut(ms, limit) = 0
              \/ Cut(ms, limit) = Len(ms)
              \/ ms[Cut(ms, limit) + 1].role # "tool"
<1> DEFINE first == Len(ms) - limit + 1
           Stops(k) == k = 0 \/ k = Len(ms) \/ ms[k + 1].role # "tool"
           T == {n \in 0..first : Stops(first - n)}
           Q(k) == Stops(k) /\ \A j \in (k + 1)..first : ~Stops(j)
<1>1. first \in Nat
  OBVIOUS
<1> HIDE DEF first
<1>2. T \subseteq Nat /\ first \in T
  BY <1>1
<1>3. PICK n \in T : \A m \in T : n <= m
  BY <1>2, LeastNumber
<1>4. first - n \in 0..first /\ Stops(first - n)
  BY <1>1, <1>3
<1>5. ASSUME NEW j \in (first - n + 1)..first PROVE ~Stops(j)
  <2>1. first - j \in 0..first /\ first - j < n /\ first - (first - j) = j
    BY <1>1, <1>3, <1>5
  <2>2. first - j \notin T
    BY <1>3, <2>1
  <2>3. QED
    BY <2>1, <2>2
<1>6. \E k \in 0..first : Q(k)
  BY <1>4, <1>5
<1>7. Cut(ms, limit) = CHOOSE k \in 0..first : Q(k)
  BY DEF Cut, first
<1>8. Cut(ms, limit) \in 0..first /\ Q(Cut(ms, limit))
  <2> HIDE DEF Q
  <2>1. QED
    BY <1>6, <1>7
<1>9. QED
  BY <1>8 DEF first

-----------------------------------------------------------------------------
(* A history derived from another: its own messages in a proper place, and    *)
(* apart from them only a summary in front.                                   *)
Derived(c, ms) ==
    /\ c \in Seq(Message)
    /\ \A i \in DOMAIN c :
           \/ i = 1 /\ c[i].role = "system"
           \/ \E j \in DOMAIN ms : c[i] = ms[j] /\ (i > 1 => j > 1 \/ ~HasSummary(ms))

(* A summary of messages is itself a message.                                 *)
LEMMA SummaryTyped ==
    ASSUME NEW ms \in Seq(Message)
    PROVE  Summary(ms) \in Message /\ Summary(ms).role = "system"
<1>1. ASSUME NEW m \in Message PROVE Covered(m) \subseteq Entry
  <2>1. CASE m \in Entry
    BY <2>1 DEF Covered, Entry
  <2>2. CASE m \in SummaryEntry
    BY <2>2 DEF Covered, SummaryEntry
  <2>3. QED
    BY <2>1, <2>2 DEF Message
<1>2. \A i \in DOMAIN ms : ms[i] \in Message
  OBVIOUS
<1>3. Remembered(ms) \subseteq Entry
  BY <1>1, <1>2 DEF Remembered
<1>4. QED
  BY <1>3 DEF Summary, Message, SummaryEntry

(* A summary in front of the newest messages is derived.                      *)
LEMMA SummaryAndRest ==
    ASSUME NEW ms \in Seq(Message), NEW s \in Message, s.role = "system",
           NEW k \in 1..(Len(ms) + 1), k > 1 \/ ~HasSummary(ms)
    PROVE  Derived(<<s>> \o SubSeq(ms, k, Len(ms)), ms)
<1> DEFINE rest == SubSeq(ms, k, Len(ms))
           c == <<s>> \o rest
<1>1. rest \in Seq(Message) /\ Len(rest) = Len(ms) - k + 1
  OBVIOUS
<1>2. \A i \in 1..Len(rest) : rest[i] = ms[k + i - 1]
  OBVIOUS
<1> HIDE DEF rest
<1>3. c \in Seq(Message) /\ Len(c) = 1 + Len(rest) /\ c[1] = s
  BY <1>1
<1>4. \A i \in 2..Len(c) : c[i] = rest[i - 1]
  BY <1>1
<1>5. ASSUME NEW i \in 2..Len(c)
      PROVE  k + i - 2 \in DOMAIN ms /\ c[i] = ms[k + i - 2]
  <2>1. i - 1 \in 1..Len(rest) /\ c[i] = rest[i - 1]
    <3> HIDE DEF c
    <3>1. QED
      BY <1>1, <1>3, <1>4
  <2>2. rest[i - 1] = ms[k + (i - 1) - 1]
    BY <1>2, <2>1
  <2>3. k + (i - 1) - 1 = k + i - 2 /\ k + i - 2 \in 1..Len(ms)
    BY <1>1, <2>1
  <2>4. QED
    BY <2>1, <2>2, <2>3
<1> HIDE DEF c
<1>6. ASSUME NEW i \in DOMAIN c
      PROVE  \/ i = 1 /\ c[i].role = "system"
             \/ \E j \in DOMAIN ms : c[i] = ms[j] /\ (i > 1 => j > 1 \/ ~HasSummary(ms))
  <2>1. CASE i = 1
    BY <2>1, <1>3
  <2>2. CASE i # 1
    <3>1. i \in 2..Len(c)
      BY <2>2, <1>3
    <3>2. k + i - 2 \in DOMAIN ms /\ c[i] = ms[k + i - 2]
      BY <1>5, <3>1
    <3>3. k + i - 2 > 1 \/ ~HasSummary(ms)
      BY <3>1
    <3>4. QED
      BY <3>2, <3>3
  <2>3. QED
    BY <2>1, <2>2
<1>7. Derived(c, ms)
  BY <1>3, <1>6 DEF Derived
<1>8. QED
  BY <1>7 DEF c, rest

(* Leaving a history alone derives it.                                        *)
LEMMA Unchanged ==
    ASSUME NEW ms \in Seq(Message)
    PROVE  Derived(ms, ms)
BY DEF Derived

(* compactHistory returns messages of the history behind at most one summary. *)
LEMMA CompactHistoryDerives ==
    ASSUME NEW ms \in Seq(Message), NEW limit \in Nat \ {0}
    PROVE  Derived(CompactHistory(ms, limit), ms)
<1>1. CASE Len(ms) <= limit
  BY <1>1, Unchanged DEF CompactHistory, Compact
<1>2. CASE Len(ms) > limit /\ HasSummary(ms)
  <2>1. ms[1] \in Message /\ ms[1].role = "system"
    BY <1>2 DEF HasSummary
  <2> DEFINE k == Len(ms) - limit + 2
             s == ms[1]
  <2>2. k \in 1..(Len(ms) + 1) /\ k > 1
    BY <1>2
  <2>3. CompactHistory(ms, limit) = <<s>> \o SubSeq(ms, k, Len(ms))
    BY <1>2 DEF CompactHistory
  <2> HIDE DEF k, s
  <2>4. s \in Message /\ s.role = "system"
    BY <2>1 DEF s
  <2>5. QED
    BY <2>2, <2>3, <2>4, SummaryAndRest
<1>3. CASE Len(ms) > limit /\ ~HasSummary(ms)
  <2> DEFINE cut == Cut(ms, limit)
             s == Summary(SubSeq(ms, 1, cut))
             k == cut + 1
  <2>0. limit \in 1..Len(ms)
    BY <1>3
  <2>1. cut \in 0..(Len(ms) - limit + 1)
    BY <2>0, CutStops
  <2>2. SubSeq(ms, 1, cut) \in Seq(Message)
    <3> HIDE DEF cut
    <3>1. QED
      BY <2>1
  <2>3. CompactHistory(ms, limit) = <<s>> \o SubSeq(ms, k, Len(ms))
    <3>1. ~(limit <= 0 \/ Len(ms) <= limit)
      BY <1>3
    <3>2. CompactHistory(ms, limit) = Compact(ms, limit)
      BY <1>3 DEF CompactHistory
    <3>3. QED
      BY <3>1, <3>2, Zenon DEF Compact
  <2>4. s \in Message /\ s.role = "system"
    BY <2>2, SummaryTyped
  <2>5. k \in 1..(Len(ms) + 1)
    <3> HIDE DEF cut
    <3>1. QED
      BY <2>0, <2>1
  <2> HIDE DEF k, s
  <2>6. QED
    BY <1>3, <2>3, <2>4, <2>5, SummaryAndRest
<1>4. QED
  BY <1>1, <1>2, <1>3

(* The same of whatever compactTokenHistory returns.                          *)
LEMMA CompactTokenHistoryDerives ==
    ASSUME NEW ms \in Seq(Message), NEW budget, NEW c \in CompactTokenHistory(ms, budget)
    PROVE  Derived(c, ms)
<1>1. CASE HasSummary(ms)
  <2>1. PICK n \in 0..(Len(ms) - 1) : c = WithoutOldest(ms, n)
    BY <1>1 DEF CompactTokenHistory
  <2>2. ms[1] \in Message /\ ms[1].role = "system" /\ Len(ms) > 0
    BY <1>1 DEF HasSummary
  <2> DEFINE k == n + 2
             s == ms[1]
  <2>3. k \in 1..(Len(ms) + 1) /\ k > 1
    BY <2>2
  <2>4. c = <<s>> \o SubSeq(ms, k, Len(ms))
    BY <2>1 DEF WithoutOldest
  <2> HIDE DEF k, s
  <2>5. s \in Message /\ s.role = "system"
    BY <2>2 DEF s
  <2>6. QED
    BY <2>3, <2>4, <2>5, SummaryAndRest
<1>2. CASE ~HasSummary(ms)
  <2>1. c \in CompactToTokenBudget(ms, budget)
    BY <1>2 DEF CompactTokenHistory
  <2>2. CASE c = ms
    BY <2>2, Unchanged
  <2>3. CASE c # ms
    <3>1. Len(ms) > 1 /\ c = <<Summary(SubSeq(ms, 1, Len(ms) - 1)), ms[Len(ms)]>>
      BY <2>1, <2>3 DEF CompactToTokenBudget
    <3> DEFINE s == Summary(SubSeq(ms, 1, Len(ms) - 1))
               k == Len(ms)
               t == ms[k]
    <3>2. SubSeq(ms, 1, Len(ms) - 1) \in Seq(Message)
      OBVIOUS
    <3>3. s \in Message /\ s.role = "system"
      BY <3>2, SummaryTyped
    <3>4. t \in Message
      BY <3>1
    <3>5. k \in 1..(Len(ms) + 1) /\ k \in DOMAIN ms /\ k > 1
      BY <3>1
    <3>6. c = <<s, t>> /\ t = ms[k]
      BY <3>1
    <3> HIDE DEF s, k, t
    <3>7. c \in Seq(Message) /\ Len(c) = 2 /\ c[1] = s /\ c[2] = t
      BY <3>3, <3>4, <3>6
    <3>8. \A i \in DOMAIN c : i = 1 \/ i = 2
      BY <3>7
    <3>9. QED
      BY <3>3, <3>5, <3>6, <3>7, <3>8 DEF Derived
  <2>4. QED
    BY <2>2, <2>3
<1>3. QED
  BY <1>1, <1>2

-----------------------------------------------------------------------------
(* The runs and their sessions. *)

Clean(ms) == SummaryOnlyInFront(ms) /\ AnswersBelong(ms)

(* What a run has added so far starts behind its history, without a summary. *)
NewPart(x) ==
    /\ x.start <= Len(x.transcript)
    /\ \A i \in DOMAIN x.transcript : i > x.start => x.transcript[i].role # "system"

(* In the tool loop the round's calls are those of an assistant message      *)
(* next - 1 places before the end of the transcript.                         *)
AtCalls(x, k) ==
    /\ x.round < MaxToolRounds
    /\ x.next >= 1
    /\ k \in DOMAIN x.transcript
    /\ x.transcript[k] \in Entry
    /\ x.next \in DOMAIN x.transcript[k].calls

InRound(x) ==
    x.pc \in {"tool", "await"} => AtCalls(x, Len(x.transcript) - (x.next - 1))

Local(x) == Clean(x.transcript) /\ NewPart(x) /\ InRound(x)

IndInv ==
    /\ TypeOK
    /\ \A s \in Sessions : Clean(store[s])
    /\ \A r \in Runs : Local(run[r])

-----------------------------------------------------------------------------
(* Sequences of messages that stay clean. *)
LEMMA DerivedClean ==
    ASSUME NEW ms \in Seq(Message), NEW c, Derived(c, ms), Clean(ms)
    PROVE  Clean(c)
<1>1. ASSUME NEW i \in DOMAIN c, c[i].role = "system" PROVE i = 1
  BY <1>1 DEF Derived, Clean, SummaryOnlyInFront, HasSummary
<1>2. ASSUME NEW i \in DOMAIN c, c[i].role = "tool", c[i].output # {}
      PROVE  c[i].output = {[run |-> c[i].run, round |-> c[i].round, call |-> x] :
                                x \in c[i].call}
  <2>1. PICK j \in DOMAIN ms : c[i] = ms[j]
    BY <1>2 DEF Derived
  <2>2. QED
    BY <1>2, <2>1 DEF Clean, AnswersBelong
<1>3. QED
  BY <1>1, <1>2 DEF Clean, SummaryOnlyInFront, AnswersBelong

LEMMA AppendClean ==
    ASSUME NEW ms \in Seq(Message), Clean(ms), NEW m \in Message, m.role # "system",
           m.role = "tool" => \/ m.output = {}
                              \/ m.output = {[run |-> m.run, round |-> m.round, call |-> x] :
                                                 x \in m.call}
    PROVE  Clean(Append(ms, m))
<1> DEFINE c == Append(ms, m)
<1>1. DOMAIN c = 1..(Len(ms) + 1) /\ c[Len(ms) + 1] = m
      /\ DOMAIN ms = 1..Len(ms) /\ \A i \in 1..Len(ms) : c[i] = ms[i]
  OBVIOUS
<1> HIDE DEF c
<1>2. \A i \in DOMAIN c : i = Len(ms) + 1 \/ i \in DOMAIN ms
  BY <1>1
<1>3. SummaryOnlyInFront(c)
  BY <1>1, <1>2 DEF Clean, SummaryOnlyInFront
<1>4. ASSUME NEW i \in DOMAIN c, c[i].role = "tool", c[i].output # {}
      PROVE  c[i].output = {[run |-> c[i].run, round |-> c[i].round, call |-> x] :
                                x \in c[i].call}
  <2>1. CASE i = Len(ms) + 1
    BY <1>1, <1>4, <2>1
  <2>2. CASE i \in DOMAIN ms
    BY <1>1, <1>4, <2>2 DEF Clean, AnswersBelong
  <2>3. QED
    BY <1>2, <2>1, <2>2
<1>5. AnswersBelong(c)
  BY <1>4 DEF AnswersBelong
<1>6. QED
  BY <1>3, <1>5 DEF Clean, c

LEMMA PrefixClean ==
    ASSUME NEW ms \in Seq(Message), Clean(ms), NEW n \in 0..Len(ms)
    PROVE  SubSeq(ms, 1, n) \in Seq(Message) /\ Clean(SubSeq(ms, 1, n))
<1> DEFINE c == SubSeq(ms, 1, n)
<1>1. c \in Seq(Message) /\ DOMAIN c = 1..n /\ \A i \in 1..n : c[i] = ms[i] /\ i \in DOMAIN ms
  OBVIOUS
<1> HIDE DEF c
<1>2. Derived(c, ms)
  BY <1>1 DEF Derived
<1>3. Clean(c)
  BY <1>2, DerivedClean
<1>4. QED
  BY <1>1, <1>3 DEF c

LEMMA ConcatClean ==
    ASSUME NEW ms \in Seq(Message), Clean(ms),
           NEW more \in Seq(Message), Clean(more),
           NEW n \in 0..Len(more),
           \A i \in DOMAIN more : i > n => more[i].role # "system"
    PROVE  LET c == ms \o SubSeq(more, n + 1, Len(more))
           IN  c \in Seq(Message) /\ Clean(c)
<1> DEFINE turn == SubSeq(more, n + 1, Len(more))
           c == ms \o turn
<1>1. turn \in Seq(Message) /\ Len(turn) = Len(more) - n
  OBVIOUS
<1>2. \A i \in 1..Len(turn) : turn[i] = more[n + i]
  OBVIOUS
<1>3. \A i \in 1..Len(turn) : n + i \in DOMAIN more /\ n + i > n
  BY <1>1
<1> HIDE DEF turn
<1>4. c \in Seq(Message) /\ Len(c) = Len(ms) + Len(turn)
  BY <1>1
<1>5. \A i \in 1..Len(ms) : c[i] = ms[i]
  BY <1>1
<1>6. \A i \in (Len(ms) + 1)..(Len(ms) + Len(turn)) : c[i] = turn[i - Len(ms)]
  BY <1>1
<1> HIDE DEF c
<1>a. /\ Len(ms) \in Nat
      /\ Len(turn) \in Nat
      /\ DOMAIN c = 1..(Len(ms) + Len(turn))
  BY <1>1, <1>4
<1>7. ASSUME NEW i \in DOMAIN c
      PROVE  \/ i \in DOMAIN ms /\ c[i] = ms[i]
             \/ \E j \in DOMAIN more : c[i] = more[j] /\ j > n
  <2>1. CASE i \in 1..Len(ms)
    BY <1>5, <2>1
  <2>2. CASE i \notin 1..Len(ms)
    <3>1. i \in (Len(ms) + 1)..(Len(ms) + Len(turn)) /\ i - Len(ms) \in 1..Len(turn)
      <4> HIDE DEF turn
      <4>1. i \in 1..(Len(ms) + Len(turn))
        BY <1>a
      <4>2. \A a, b \in Nat : \A k \in 1..(a + b) :
               k \notin 1..a => k \in (a + 1)..(a + b) /\ k - a \in 1..b
        OBVIOUS
      <4>3. QED
        BY <1>a, <2>2, <4>1, <4>2, Zenon
    <3>2. c[i] = more[n + (i - Len(ms))]
      BY <1>2, <1>6, <3>1
    <3>3. QED
      BY <1>3, <3>1, <3>2
  <2>3. QED
    BY <2>1, <2>2
<1>8. SummaryOnlyInFront(c)
  BY <1>7 DEF Clean, SummaryOnlyInFront
<1>9. ASSUME NEW i \in DOMAIN c, c[i].role = "tool", c[i].output # {}
      PROVE  c[i].output = {[run |-> c[i].run, round |-> c[i].round, call |-> x] :
                                x \in c[i].call}
  <2>1. CASE i \in DOMAIN ms /\ c[i] = ms[i]
    BY <1>9, <2>1 DEF Clean, AnswersBelong
  <2>2. CASE \E j \in DOMAIN more : c[i] = more[j] /\ j > n
    BY <1>9, <2>2 DEF Clean, AnswersBelong
  <2>3. QED
    BY <1>7, <2>1, <2>2
<1>10. AnswersBelong(c)
  BY <1>9 DEF AnswersBelong
<1>11. QED
  BY <1>4, <1>8, <1>10 DEF Clean, c, turn

(* The messages a run adds. *)
LEMMA MessagesTyped ==
    ASSUME NEW r \in Runs, NEW n \in Rounds
    PROVE  /\ UserMessage(r) \in Entry /\ UserMessage(r).role = "user"
           /\ \A l \in CallLists : /\ Reply(r, n, l) \in Entry
                                   /\ Reply(r, n, l).role = "assistant"
                                   /\ Reply(r, n, l).calls = l
           /\ \A c \in CallIds, out \in SUBSET Invocations :
                  /\ ToolMessage(r, n, c, out) \in Entry
                  /\ ToolMessage(r, n, c, out).role = "tool"
                  /\ ToolMessage(r, n, c, out).run = r
                  /\ ToolMessage(r, n, c, out).round = n
                  /\ ToolMessage(r, n, c, out).call = {c}
                  /\ ToolMessage(r, n, c, out).output = out
           /\ <<>> \in CallLists
<1>1. <<>> \in CallLists
  <2>1. <<>> \in [1..0 -> CallIds] /\ 0 \in 0..MaxCalls
    BY TranscriptAssumption
  <2>2. QED
    BY <2>1 DEF CallLists
<1>2. 0 \in Rounds
  BY TranscriptAssumption DEF Rounds
<1>3. QED
  BY <1>1, <1>2 DEF UserMessage, Reply, ToolMessage, Entry

-----------------------------------------------------------------------------
LEMMA InitHolds == Init => IndInv
<1> SUFFICES ASSUME Init PROVE IndInv
  OBVIOUS
<1>1. <<>> \in Seq(Message) /\ Len(<<>>) = 0 /\ DOMAIN <<>> = {}
  OBVIOUS
<1>2. 0 \in Rounds
  BY TranscriptAssumption DEF Rounds
<1>3. Clean(<<>>)
  BY <1>1 DEF Clean, SummaryOnlyInFront, AnswersBelong
<1>4. ASSUME NEW r \in Runs PROVE run[r] \in RunState /\ Local(run[r])
  <2>1. PICK s \in Sessions :
            run[r] = [pc |-> "idle", session |-> s, transcript |-> <<>>,
                      start |-> 0, round |-> 0, next |-> 0]
    BY DEF Init
  <2>2. run[r].pc = "idle" /\ run[r].transcript = <<>> /\ run[r].start = 0
    BY <2>1
  <2>3. run[r] \in RunState
    BY <2>1, <1>1, <1>2 DEF RunState, Points
  <2>4. NewPart(run[r]) /\ InRound(run[r])
    BY <2>2, <1>1 DEF NewPart, InRound
  <2>5. QED
    BY <1>3, <2>2, <2>3, <2>4 DEF Local
<1>5. TypeOK
  <2>1. run \in [Runs -> RunState]
    BY <1>4 DEF Init
  <2>2. QED
    BY <1>1, <2>1 DEF Init, TypeOK
<1>6. \A s \in Sessions : Clean(store[s])
  BY <1>3 DEF Init
<1>7. QED
  BY <1>4, <1>5, <1>6 DEF IndInv

(* A step that changes one run, and at most the session of that run.          *)
LEMMA OneRun ==
    ASSUME IndInv, NEW r \in Runs, NEW x \in RunState, Local(x),
           run' = [run EXCEPT ![r] = x],
           NEW s \in Sessions, NEW ms \in Seq(Message), Clean(ms),
           store' = store \/ store' = [store EXCEPT ![s] = ms],
           conf' = conf, inFlight' \subseteq Invocations, answered' \subseteq Invocations
    PROVE  IndInv'
<1>1. run' \in [Runs -> RunState]
  BY DEF IndInv, TypeOK
<1>2. store' \in [Sessions -> Seq(Message)]
  BY DEF IndInv, TypeOK
<1>3. ASSUME NEW t \in Sessions PROVE Clean(store'[t])
  <2>1. store'[t] = store[t] \/ store'[t] = ms
    BY DEF IndInv, TypeOK
  <2>2. QED
    BY <2>1 DEF IndInv
<1>4. ASSUME NEW q \in Runs PROVE Local(run'[q])
  <2>1. run'[q] = run[q] \/ run'[q] = x
    BY DEF IndInv, TypeOK
  <2>2. QED
    BY <2>1 DEF IndInv
<1>5. TypeOK'
  BY <1>1, <1>2 DEF IndInv, TypeOK
<1>6. QED
  BY <1>3, <1>4, <1>5 DEF IndInv

(* A step that only moves a run to another point.                             *)
LEMMA GoStep ==
    ASSUME IndInv, NEW r \in Runs, NEW p \in Points,
           p \notin {"tool", "await"} \/ run[r].pc = "tool",
           Go(r, p),
           NEW s \in Sessions, NEW ms \in Seq(Message), Clean(ms),
           store' = store \/ store' = [store EXCEPT ![s] = ms],
           conf' = conf, inFlight' \subseteq Invocations, answered' \subseteq Invocations
    PROVE  IndInv'
<1> DEFINE x == [run[r] EXCEPT !.pc = p]
<1>1. run[r] \in RunState /\ Local(run[r])
  BY DEF IndInv, TypeOK
<1>2. run' = [run EXCEPT ![r] = x]
  BY DEF Go
<1>3. x \in RunState /\ x.pc = p /\ x.transcript = run[r].transcript
      /\ x.start = run[r].start /\ x.round = run[r].round /\ x.next = run[r].next
  BY <1>1 DEF RunState
<1> HIDE DEF x
<1>4. Local(x)
  BY <1>1, <1>3 DEF Local, NewPart, InRound, AtCalls
<1>5. QED
  BY <1>2, <1>3, <1>4, OneRun

(* A message that is no summary, behind a run's transcript.                   *)
LEMMA AppendNewPart ==
    ASSUME NEW x, NEW y, x.transcript \in Seq(Message), x.start \in Nat,
           NewPart(x), NEW m \in Message, m.role # "system",
           y.transcript = Append(x.transcript, m), y.start = x.start
    PROVE  NewPart(y)
<1> DEFINE ms == x.transcript
           c == Append(ms, m)
<1>1. DOMAIN c = 1..(Len(ms) + 1) /\ Len(c) = Len(ms) + 1 /\ c[Len(ms) + 1] = m
      /\ DOMAIN ms = 1..Len(ms) /\ \A i \in 1..Len(ms) : c[i] = ms[i]
  OBVIOUS
<1>2. y.transcript = c
  OBVIOUS
<1> HIDE DEF c
<1>3. \A i \in DOMAIN c : i > x.start => c[i].role # "system"
  <2>1. \A i \in 1..Len(ms) : i > x.start => ms[i].role # "system"
    BY <1>1 DEF NewPart
  <2>2. QED
    BY <1>1, <2>1
<1>4. y.start <= Len(c)
  BY <1>1 DEF NewPart
<1>5. QED
  BY <1>2, <1>3, <1>4 DEF NewPart

(* A step that adds one message to a run's transcript, outside the tool loop. *)
LEMMA AddStep ==
    ASSUME IndInv, NEW r \in Runs, NEW x \in RunState, run' = [run EXCEPT ![r] = x],
           NEW m \in Entry, m.role # "system",
           m.role = "tool" => \/ m.output = {}
                              \/ m.output = {[run |-> m.run, round |-> m.round, call |-> c] :
                                                 c \in m.call},
           x.transcript = Append(run[r].transcript, m), x.start = run[r].start,
           InRound(x),
           store' = store, conf' = conf, inFlight' = inFlight, answered' = answered
    PROVE  IndInv'
<1>1. /\ run[r].transcript \in Seq(Message) /\ run[r].start \in Nat
      /\ run[r].session \in Sessions
  BY DEF IndInv, TypeOK, RunState
<1>2. Clean(run[r].transcript) /\ NewPart(run[r])
  BY DEF IndInv, Local
<1>3. m \in Message
  BY DEF Message
<1>4. Clean(x.transcript)
  BY <1>1, <1>2, <1>3, AppendClean
<1>5. NewPart(x)
  BY <1>1, <1>2, <1>3, AppendNewPart
<1>6. Local(x)
  BY <1>4, <1>5 DEF Local
<1>7. inFlight' \subseteq Invocations /\ answered' \subseteq Invocations
  BY DEF IndInv, TypeOK
<1>8. QED
  BY <1>1, <1>2, <1>6, <1>7, OneRun

-----------------------------------------------------------------------------
(* What the invariant says of one run and its session. *)
LEMMA RunFacts ==
    ASSUME IndInv, NEW r \in Runs
    PROVE  /\ run[r] \in RunState /\ Local(run[r])
           /\ run[r].transcript \in Seq(Message) /\ Clean(run[r].transcript)
           /\ run[r].start \in 0..Len(run[r].transcript)
           /\ run[r].session \in Sessions
           /\ run[r].round \in Rounds /\ run[r].next \in Nat
           /\ store[run[r].session] \in Seq(Message) /\ Clean(store[run[r].session])
           /\ inFlight \subseteq Invocations /\ answered \subseteq Invocations
           /\ conf \in Config
<1>1. run[r] \in RunState /\ Local(run[r])
  BY DEF IndInv, TypeOK
<1>2. /\ run[r].transcript \in Seq(Message) /\ run[r].session \in Sessions
      /\ run[r].round \in Rounds /\ run[r].next \in Nat /\ run[r].start \in Nat
  BY <1>1 DEF RunState
<1>3. run[r].start \in 0..Len(run[r].transcript)
  BY <1>1, <1>2 DEF Local, NewPart
<1>4. store[run[r].session] \in Seq(Message) /\ Clean(store[run[r].session])
  BY <1>2 DEF IndInv, TypeOK
<1>5. conf \in Config
  BY AgentAssumption DEF IndInv, TypeOK
<1>6. QED
  BY <1>1, <1>2, <1>3, <1>4, <1>5 DEF IndInv, TypeOK, Local

(* Giving a run another transcript.                                           *)
WithTranscript(y, p, ms, n) == [y EXCEPT !.pc = p, !.transcript = ms, !.start = n]

LEMMA NewTranscript ==
    ASSUME NEW y \in RunState, NEW p \in Points, NEW ms \in Seq(Message), NEW n \in Nat
    PROVE  /\ WithTranscript(y, p, ms, n) \in RunState
           /\ WithTranscript(y, p, ms, n).pc = p
           /\ WithTranscript(y, p, ms, n).transcript = ms
           /\ WithTranscript(y, p, ms, n).start = n
<1> DEFINE x == WithTranscript(y, p, ms, n)
<1>1. x.pc = p /\ x.start = n /\ x.transcript = ms
  BY DEF WithTranscript, RunState
<1>2. x.round = y.round /\ x.next = y.next /\ x.session = y.session
  BY DEF WithTranscript, RunState
<1>3. DOMAIN x = {"pc", "session", "transcript", "start", "round", "next"}
  BY DEF WithTranscript, RunState
<1>4. x = [i \in {"pc", "session", "transcript", "start", "round", "next"} |-> x[i]]
  BY <1>3 DEF WithTranscript
<1>5. QED
  BY <1>1, <1>2, <1>4 DEF RunState

(* A run whose transcript has just become history: nothing added yet.         *)
LEMMA HistoryLocal ==
    ASSUME NEW x, x.transcript \in Seq(Message), Clean(x.transcript),
           x.start = Len(x.transcript), x.pc \notin {"tool", "await"}
    PROVE  Local(x)
BY DEF Local, NewPart, InRound

LEMMA BeginHolds == ASSUME IndInv, NEW r \in Runs, Begin(r) PROVE IndInv'
<1> DEFINE h == store[run[r].session]
           x == WithTranscript(run[r], "tokens", h, Len(h))
<1>1. h \in Seq(Message) /\ Clean(h) /\ run[r] \in RunState /\ run[r].session \in Sessions
      /\ inFlight \subseteq Invocations /\ answered \subseteq Invocations
  BY RunFacts
<1>2. run' = [run EXCEPT ![r] = x] /\ UNCHANGED <<conf, store, inFlight, answered>>
  BY DEF Begin, WithTranscript
<1>3. x \in RunState /\ x.pc = "tokens" /\ x.transcript = h /\ x.start = Len(h)
  <2>1. Len(h) \in Nat /\ "tokens" \in Points
    BY <1>1 DEF Points
  <2> HIDE DEF h
  <2>2. QED
    BY <1>1, <2>1, NewTranscript
<1> HIDE DEF x, h
<1>4. Local(x)
  BY <1>1, <1>3, HistoryLocal
<1>5. QED
  BY <1>1, <1>2, <1>3, <1>4, OneRun

(* Leaving a run's session alone, or going on without the store.              *)
LEMMA MoveHolds ==
    ASSUME IndInv, NEW r \in Runs,
           NEW p \in {"tokens", "limit", "model", "failed", "done"},
           Go(r, p), UNCHANGED <<conf, store, inFlight, answered>>
    PROVE  IndInv'
<1>1. p \in Points /\ p \notin {"tool", "await"}
  BY DEF Points
<1>2. QED
  BY <1>1, RunFacts, GoStep

LEMMA CompactTokensHolds == ASSUME IndInv, NEW r \in Runs, CompactTokens(r) PROVE IndInv'
<1>1. PICK c \in CompactTokenHistory(run[r].transcript, InputBudget) :
          run' = [run EXCEPT ![r].pc = IF conf.replaces THEN "saveTokens" ELSE "limit",
                             ![r].transcript = c,
                             ![r].start = Len(c)]
  BY DEF CompactTokens
<1> DEFINE p == IF conf.replaces THEN "saveTokens" ELSE "limit"
           x == WithTranscript(run[r], p, c, Len(c))
<1>2. Derived(c, run[r].transcript)
  BY RunFacts, CompactTokenHistoryDerives
<1>3. c \in Seq(Message) /\ Clean(c)
  BY <1>2, RunFacts, DerivedClean DEF Derived
<1>4. run' = [run EXCEPT ![r] = x] /\ UNCHANGED <<conf, store, inFlight, answered>>
  <2>1. run' = [run EXCEPT ![r] = x]
    BY <1>1, ZenonT(60) DEF WithTranscript
  <2>2. UNCHANGED <<conf, store, inFlight, answered>>
    BY DEF CompactTokens
  <2>3. QED
    BY <2>1, <2>2
<1>5. x \in RunState /\ x.pc \in {"saveTokens", "limit"} /\ x.transcript = c
      /\ x.start = Len(c)
  <2>1. Len(c) \in Nat /\ p \in Points /\ p \in {"saveTokens", "limit"}
    BY <1>3 DEF Points
  <2> HIDE DEF p
  <2>2. QED
    BY <1>3, <2>1, RunFacts, NewTranscript
<1> HIDE DEF x
<1>6. Local(x)
  BY <1>3, <1>5, HistoryLocal
<1>7. QED
  BY <1>4, <1>5, <1>6, RunFacts, OneRun

LEMMA CompactLimitHolds == ASSUME IndInv, NEW r \in Runs, CompactLimit(r) PROVE IndInv'
<1> DEFINE c == CompactHistory(run[r].transcript, conf.limit - 1)
           m == UserMessage(r)
           p == IF conf.replaces THEN "saveLimit" ELSE "model"
           h == [pc |-> p, transcript |-> c, start |-> Len(c)]
           t == Append(c, m)
           x == WithTranscript(run[r], p, t, Len(c))
<1>1. run' = [run EXCEPT ![r] = x] /\ UNCHANGED <<conf, store, inFlight, answered>>
  BY DEF CompactLimit, WithTranscript
<1>2. conf.limit - 1 \in Nat \ {0}
  BY RunFacts DEF CompactLimit, Config
<1>3. Derived(c, run[r].transcript)
  BY <1>2, RunFacts, CompactHistoryDerives
<1>4. c \in Seq(Message) /\ Clean(c)
  BY <1>3, RunFacts, DerivedClean DEF Derived
<1>5. m \in Message /\ m.role = "user"
  <2>1. 0 \in Rounds
    BY TranscriptAssumption DEF Rounds
  <2>2. QED
    BY <2>1, MessagesTyped DEF Message
<1>6. p \in {"saveLimit", "model"}
  OBVIOUS
<1> HIDE DEF c, m, p
<1>7. h.transcript = c /\ h.start = Len(c) /\ h.pc \notin {"tool", "await"}
  BY <1>6
<1>8. t \in Seq(Message) /\ Clean(t) /\ t = Append(c, m)
  BY <1>4, <1>5, AppendClean
<1>9. x \in RunState /\ x.pc = p /\ x.transcript = t /\ x.start = Len(c)
  <2>1. Len(c) \in Nat /\ p \in Points
    BY <1>4, <1>6 DEF Points
  <2>2. run[r] \in RunState /\ t \in Seq(Message)
    BY <1>8, RunFacts
  <2> HIDE DEF t
  <2>3. QED
    BY <2>1, <2>2, NewTranscript
<1> HIDE DEF x, h
<1>10. NewPart(x)
  <2>1. Local(h) /\ Len(c) \in Nat
    BY <1>4, <1>7, HistoryLocal
  <2>2. QED
    BY <1>4, <1>5, <1>7, <1>9, <2>1, AppendNewPart DEF Local
<1>11. Local(x)
  <2> HIDE DEF t
  <2>1. QED
    BY <1>6, <1>8, <1>9, <1>10 DEF Local, InRound
<1>12. QED
  BY <1>1, <1>9, <1>11, RunFacts, OneRun

(* Writing the compacted history back, completely or not at all.              *)
LEMMA ReplacedClean ==
    ASSUME IndInv, NEW r \in Runs
    PROVE  \E ms \in Seq(Message) :
               Clean(ms) /\ Replaced(r) = [store EXCEPT ![run[r].session] = ms]
<1>1. /\ SubSeq(run[r].transcript, 1, run[r].start) \in Seq(Message)
      /\ Clean(SubSeq(run[r].transcript, 1, run[r].start))
  BY RunFacts, PrefixClean
<1>2. QED
  BY <1>1 DEF Replaced

(* Appending the turn, completely or not at all.                              *)
LEMMA AppendedClean ==
    ASSUME IndInv, NEW r \in Runs
    PROVE  \E ms \in Seq(Message) :
               Clean(ms) /\ Appended(r) = [store EXCEPT ![run[r].session] = ms]
<1> DEFINE ms == store[run[r].session] \o Turn(r)
<1>1. \A i \in DOMAIN run[r].transcript :
          i > run[r].start => run[r].transcript[i].role # "system"
  BY RunFacts DEF Local, NewPart
<1>2. ms \in Seq(Message) /\ Clean(ms)
  BY <1>1, RunFacts, ConcatClean DEF Turn
<1>3. Appended(r) = [store EXCEPT ![run[r].session] = ms]
  BY RunFacts DEF Appended
<1>4. QED
  BY <1>2, <1>3

LEMMA StoreStepHolds ==
    ASSUME IndInv, NEW r \in Runs,
           NEW p \in {"limit", "model", "done", "failed"}, Go(r, p),
           store' \in {store, Replaced(r), Appended(r)},
           UNCHANGED <<conf, inFlight, answered>>
    PROVE  IndInv'
<1>1. p \in Points /\ p \notin {"tool", "await"}
  BY DEF Points
<1>2. \E ms \in Seq(Message) :
          Clean(ms) /\ (store' = store \/ store' = [store EXCEPT ![run[r].session] = ms])
  <2>1. CASE store' = store
    BY <2>1, RunFacts
  <2>2. CASE store' = Replaced(r)
    BY <2>2, ReplacedClean
  <2>3. CASE store' = Appended(r)
    BY <2>3, AppendedClean
  <2>4. QED
    BY <2>1, <2>2, <2>3
<1>3. QED
  BY <1>1, <1>2, RunFacts, GoStep

-----------------------------------------------------------------------------
(* The model's replies and the tool loop. *)
LEMMA WithinLimitHolds == ASSUME IndInv, NEW r \in Runs, WithinLimit(r) PROVE IndInv'
<1> DEFINE m == UserMessage(r)
           t == WithInput(r)
           x == WithTranscript(run[r], "model", t, run[r].start)
<1>1. m \in Entry /\ m.role = "user"
  <2>1. 0 \in Rounds
    BY TranscriptAssumption DEF Rounds
  <2>2. QED
    BY <2>1, MessagesTyped
<1>2. m \in Message
  BY <1>1 DEF Message
<1>3. run' = [run EXCEPT ![r] = x] /\ UNCHANGED <<conf, store, inFlight, answered>>
  BY RunFacts DEF WithinLimit, WithTranscript, RunState, IndInv, TypeOK
<1>4. t = Append(run[r].transcript, m)
  BY DEF WithInput
<1> HIDE DEF m, t
<1>5. t \in Seq(Message) /\ run[r].start \in Nat /\ "model" \in Points
  BY <1>2, <1>4, RunFacts DEF Points
<1>6. x \in RunState /\ x.pc = "model" /\ x.transcript = t /\ x.start = run[r].start
  BY <1>5, RunFacts, NewTranscript
<1> HIDE DEF x
<1>7. InRound(x)
  BY <1>6 DEF InRound
<1>8. QED
  BY <1>1, <1>3, <1>4, <1>6, <1>7, AddStep

LEMMA FinalReplyHolds == ASSUME IndInv, NEW r \in Runs, FinalReply(r) PROVE IndInv'
<1> DEFINE m == Reply(r, run[r].round, <<>>)
           t == Append(run[r].transcript, m)
           x == WithTranscript(run[r], "append", t, run[r].start)
<1>1. m \in Entry /\ m.role = "assistant"
  BY RunFacts, MessagesTyped
<1>2. m \in Message
  BY <1>1 DEF Message
<1>3. run' = [run EXCEPT ![r] = x] /\ UNCHANGED <<conf, store, inFlight, answered>>
  BY RunFacts DEF FinalReply, WithTranscript, RunState, IndInv, TypeOK
<1>4. t = Append(run[r].transcript, m)
  OBVIOUS
<1> HIDE DEF m, t
<1>5. t \in Seq(Message) /\ run[r].start \in Nat /\ "append" \in Points
  BY <1>2, <1>4, RunFacts DEF Points
<1>6. x \in RunState /\ x.pc = "append" /\ x.transcript = t /\ x.start = run[r].start
  BY <1>5, RunFacts, NewTranscript
<1> HIDE DEF x
<1>7. InRound(x)
  BY <1>6 DEF InRound
<1>8. QED
  BY <1>1, <1>3, <1>4, <1>6, <1>7, AddStep

(* Giving a run another transcript and place in the tool loop.                *)
InLoop(y, p, ms, k, n) ==
    [y EXCEPT !.pc = p, !.transcript = ms, !.next = k, !.round = n]

LEMMA NewPlace ==
    ASSUME NEW y \in RunState, NEW p \in Points, NEW ms \in Seq(Message), NEW k \in Nat,
           NEW n \in Rounds
    PROVE  /\ InLoop(y, p, ms, k, n) \in RunState
           /\ InLoop(y, p, ms, k, n).pc = p
           /\ InLoop(y, p, ms, k, n).transcript = ms
           /\ InLoop(y, p, ms, k, n).next = k
           /\ InLoop(y, p, ms, k, n).round = n
           /\ InLoop(y, p, ms, k, n).start = y.start
<1> DEFINE x == InLoop(y, p, ms, k, n)
<1>1. x.pc = p /\ x.next = k /\ x.transcript = ms /\ x.round = n
  BY DEF InLoop, RunState
<1>2. x.start = y.start /\ x.session = y.session
  BY DEF InLoop, RunState
<1>3. DOMAIN x = {"pc", "session", "transcript", "start", "round", "next"}
  BY DEF InLoop, RunState
<1>4. x = [i \in {"pc", "session", "transcript", "start", "round", "next"} |-> x[i]]
  BY <1>3 DEF InLoop
<1>5. QED
  BY <1>1, <1>2, <1>4 DEF RunState

LEMMA ToolReplyHolds ==
    ASSUME IndInv, NEW r \in Runs, NEW l \in CallLists, ToolReply(r, l)
    PROVE  IndInv'
<1> DEFINE m == Reply(r, run[r].round, l)
           t == Append(run[r].transcript, m)
           x == InLoop(run[r], "tool", t, 1, run[r].round)
<1>1. m \in Entry /\ m.role = "assistant" /\ m.calls = l
  BY RunFacts, MessagesTyped
<1>2. m \in Message
  BY <1>1 DEF Message
<1>3. run' = [run EXCEPT ![r] = x] /\ UNCHANGED <<conf, store, inFlight, answered>>
  BY RunFacts DEF ToolReply, InLoop, RunState, IndInv, TypeOK
<1>4. 1 \in DOMAIN l
  <2>1. PICK n \in 0..MaxCalls : l \in [1..n -> CallIds]
    BY DEF CallLists
  <2>2. n # 0
    BY <2>1 DEF ToolReply
  <2>3. QED
    BY <2>1, <2>2, TranscriptAssumption
<1>5. t = Append(run[r].transcript, m)
  OBVIOUS
<1> HIDE DEF m, t
<1>6. t \in Seq(Message) /\ Len(t) \in DOMAIN t /\ t[Len(t)] = m /\ Len(t) \in Nat
  BY <1>2, <1>5, RunFacts
<1>7. /\ x \in RunState /\ x.pc = "tool" /\ x.transcript = t /\ x.next = 1
      /\ x.round = run[r].round /\ x.start = run[r].start
  <2>1. "tool" \in Points
    BY DEF Points
  <2>2. QED
    BY <1>6, <2>1, RunFacts, NewPlace
<1> HIDE DEF x
<1>8. AtCalls(x, Len(t))
  BY <1>1, <1>4, <1>6, <1>7 DEF AtCalls, ToolReply
<1>9. InRound(x)
  <2>1. Len(x.transcript) - (x.next - 1) = Len(t)
    BY <1>6, <1>7
  <2>2. QED
    BY <1>8, <2>1 DEF InRound
<1>10. QED
  BY <1>1, <1>3, <1>5, <1>7, <1>9, AddStep

(* The call whose turn it is, for a run in the tool loop.                     *)
LEMMA InvocationTyped ==
    ASSUME IndInv, NEW r \in Runs, run[r].pc \in {"tool", "await"}
    PROVE  /\ Invocation(r) \in Invocations
           /\ Invocation(r).call \in CallIds
           /\ Invocation(r) = [run |-> r, round |-> run[r].round, call |-> Invocation(r).call]
           /\ run[r].round + 1 \in Rounds
           /\ run[r].next \in 1..Len(RoundCalls(r))
           /\ RoundCalls(r) \in CallLists
<1> DEFINE k == Len(run[r].transcript) - (run[r].next - 1)
           l == RoundCalls(r)
<1>1. AtCalls(run[r], k)
  BY RunFacts DEF Local, InRound
<1>2. l \in CallLists /\ run[r].next \in DOMAIN l
  BY <1>1 DEF AtCalls, RoundCalls, Entry
<1>3. PICK n \in 0..MaxCalls : l \in [1..n -> CallIds]
  BY <1>2 DEF CallLists
<1>4. Len(l) = n /\ DOMAIN l = 1..n
  BY <1>3, TranscriptAssumption
<1>5. l[run[r].next] \in CallIds
  BY <1>2, <1>3
<1>6. run[r].round + 1 \in Rounds
  BY <1>1, RunFacts, TranscriptAssumption DEF AtCalls, Rounds
<1> HIDE DEF l
<1>7. Invocation(r) = [run |-> r, round |-> run[r].round, call |-> l[run[r].next]]
  BY DEF Invocation, l
<1>8. Invocation(r) \in Invocations /\ Invocation(r).call = l[run[r].next]
  BY <1>5, <1>7, RunFacts DEF Invocations
<1>9. QED
  BY <1>2, <1>4, <1>5, <1>6, <1>7, <1>8 DEF l

LEMMA ObservedHolds ==
    ASSUME IndInv, NEW r \in Runs, run[r].pc \in {"tool", "await"},
           NEW out \in {{}, {Invocation(r)}}, run' = Observed(r, out),
           UNCHANGED <<conf, store, inFlight, answered>>
    PROVE  IndInv'
<1> DEFINE m == ToolMessage(r, run[r].round, Invocation(r).call, out)
           t == Append(run[r].transcript, m)
           more == run[r].next < Len(RoundCalls(r))
           p == IF more THEN "tool" ELSE "model"
           k == IF more THEN run[r].next + 1 ELSE 0
           n == IF more THEN run[r].round ELSE run[r].round + 1
           x == InLoop(run[r], p, t, k, n)
<1>1. out \in SUBSET Invocations /\ Invocation(r).call \in CallIds
  BY InvocationTyped
<1>2. /\ m \in Entry /\ m.role = "tool" /\ m.output = out /\ m.call = {Invocation(r).call}
      /\ m.run = r /\ m.round = run[r].round
  BY <1>1, RunFacts, MessagesTyped
<1>3. \/ m.output = {}
      \/ m.output = {[run |-> m.run, round |-> m.round, call |-> c] : c \in m.call}
  BY <1>2, InvocationTyped
<1>4. m \in Message
  BY <1>2 DEF Message
<1>5. run' = [run EXCEPT ![r] = x]
  BY RunFacts DEF Observed, InLoop, RunState, IndInv, TypeOK
<1>6. t = Append(run[r].transcript, m)
  OBVIOUS
<1>7. p \in Points /\ k \in Nat /\ n \in Rounds /\ (p \in {"tool", "await"} <=> more)
  BY RunFacts, InvocationTyped DEF Points
<1> HIDE DEF m, t
<1>8. /\ t \in Seq(Message) /\ Len(t) = Len(run[r].transcript) + 1
      /\ \A i \in DOMAIN run[r].transcript : i \in DOMAIN t /\ t[i] = run[r].transcript[i]
  BY <1>4, <1>6, RunFacts
<1>9. /\ x \in RunState /\ x.pc = p /\ x.transcript = t /\ x.next = k
      /\ x.round = n /\ x.start = run[r].start
  <2> HIDE DEF p, k, n
  <2>1. QED
    BY <1>7, <1>8, RunFacts, NewPlace
<1> HIDE DEF x
<1>10. InRound(x)
  <2>1. CASE more
    <3> DEFINE j == Len(run[r].transcript) - (run[r].next - 1)
    <3>1. AtCalls(run[r], j) /\ j \in DOMAIN run[r].transcript
      BY RunFacts DEF Local, InRound, AtCalls
    <3>2. Len(x.transcript) - (x.next - 1) = j
      <4>1. x.next = run[r].next + 1 /\ run[r].next \in Nat
        BY <2>1, <1>9, RunFacts
      <4>2. Len(x.transcript) = Len(run[r].transcript) + 1
        BY <1>8, <1>9
      <4>3. Len(run[r].transcript) \in Nat
        BY RunFacts
      <4>4. \A a, b \in Nat : (a + 1) - ((b + 1) - 1) = a - (b - 1)
        OBVIOUS
      <4>5. QED
        BY <4>1, <4>2, <4>3, <4>4, Zenon
    <3>3. x.transcript[j] = run[r].transcript[j] /\ j \in DOMAIN x.transcript
      BY <3>1, <1>8, <1>9
    <3>4. x.next \in DOMAIN x.transcript[j].calls /\ x.next >= 1
      <4>1. RoundCalls(r) = x.transcript[j].calls
        BY <3>3 DEF RoundCalls
      <4>2. x.next \in 1..Len(RoundCalls(r))
        BY <2>1, <1>9, InvocationTyped
      <4>3. DOMAIN RoundCalls(r) = 1..Len(RoundCalls(r))
        <5>1. PICK q \in 0..MaxCalls : RoundCalls(r) \in [1..q -> CallIds]
          BY InvocationTyped DEF CallLists
        <5>2. QED
          BY <5>1, TranscriptAssumption
      <4>4. QED
        BY <4>1, <4>2, <4>3
    <3>5. x.round < MaxToolRounds
      BY <2>1, <1>9, <3>1 DEF AtCalls
    <3>6. AtCalls(x, j)
      BY <3>1, <3>3, <3>4, <3>5 DEF AtCalls
    <3>7. QED
      BY <3>2, <3>6 DEF InRound
  <2>2. CASE ~more
    BY <2>2, <1>7, <1>9 DEF InRound
  <2>3. QED
    BY <2>1, <2>2
<1>11. QED
  BY <1>2, <1>3, <1>5, <1>6, <1>9, <1>10, AddStep

-----------------------------------------------------------------------------
(* Every step of a run keeps the invariant. *)
LEMMA RunStepHolds == ASSUME IndInv, NEW r \in Runs, RunStep(r) PROVE IndInv'
<1>1. CASE Begin(r)
  BY <1>1, BeginHolds
<1>2. CASE ListFails(r)
  BY <1>2, MoveHolds DEF ListFails, Fail
<1>3. CASE CompactTokens(r)
  BY <1>3, CompactTokensHolds
<1>4. CASE WithinBudget(r)
  BY <1>4, MoveHolds DEF WithinBudget
<1>5. CASE CompactLimit(r)
  BY <1>5, CompactLimitHolds
<1>6. CASE WithinLimit(r)
  BY <1>6, WithinLimitHolds
<1>7. CASE CompactionFails(r)
  BY <1>7, MoveHolds DEF CompactionFails, Fail
<1>8. CASE Save(r)
  BY <1>8, StoreStepHolds DEF Save
<1>9. CASE SaveFails(r)
  BY <1>9, StoreStepHolds DEF SaveFails, Fail
<1>10. CASE ModelFails(r)
  BY <1>10, MoveHolds DEF ModelFails, Fail
<1>11. CASE FinalReply(r)
  BY <1>11, FinalReplyHolds
<1>12. CASE TooManyRounds(r)
  BY <1>12, MoveHolds DEF TooManyRounds, Fail
<1>13. CASE \E l \in CallLists : ToolReply(r, l)
  BY <1>13, ToolReplyHolds
<1>14. CASE ToolRefused(r)
  BY <1>14, ObservedHolds DEF ToolRefused, At
<1>15. CASE ToolStarts(r)
  <2>1. inFlight' \subseteq Invocations /\ answered' \subseteq Invocations
    BY <1>15, RunFacts, InvocationTyped DEF ToolStarts, At
  <2>2. Go(r, "await") /\ run[r].pc = "tool" /\ store' = store /\ conf' = conf
    BY <1>15 DEF ToolStarts, At
  <2>3. "await" \in Points
    BY DEF Points
  <2>4. QED
    BY <2>1, <2>2, <2>3, RunFacts, GoStep
<1>16. CASE ToolAnswers(r)
  BY <1>16, ObservedHolds DEF ToolAnswers, At
<1>17. CASE ToolTimesOut(r)
  BY <1>17, ObservedHolds DEF ToolTimesOut, At
<1>18. CASE AppendTurn(r)
  BY <1>18, StoreStepHolds DEF AppendTurn
<1>19. CASE AppendFails(r)
  BY <1>19, StoreStepHolds DEF AppendFails, Fail
<1>20. QED
  BY <1>1, <1>2, <1>3, <1>4, <1>5, <1>6, <1>7, <1>8, <1>9, <1>10, <1>11, <1>12, <1>13,
     <1>14, <1>15, <1>16, <1>17, <1>18, <1>19 DEF RunStep

LEMMA NextHolds == IndInv /\ [Next]_vars => IndInv'
<1> SUFFICES ASSUME IndInv, [Next]_vars PROVE IndInv'
  OBVIOUS
<1>1. ASSUME NEW r \in Runs, RunStep(r) PROVE IndInv'
  BY <1>1, RunStepHolds
<1>2. ASSUME NEW i \in inFlight, ToolFinishes(i) PROVE IndInv'
  <2>1. inFlight' \subseteq Invocations /\ answered' \subseteq Invocations
    BY <1>2 DEF ToolFinishes, IndInv, TypeOK
  <2>2. UNCHANGED <<conf, store, run>>
    BY <1>2 DEF ToolFinishes
  <2>3. QED
    BY <2>1, <2>2 DEF IndInv, TypeOK
<1>3. CASE UNCHANGED vars
  BY <1>3 DEF vars, IndInv, TypeOK
<1>4. QED
  BY <1>1, <1>2, <1>3 DEF Next

LEMMA Inductive == Spec => []IndInv
<1>1. QED
  BY InitHolds, NextHolds, PTL DEF Spec

(* Every variable keeps its type: in particular the tool loop never runs past *)
(* its rounds or past the calls of a round.                                   *)
THEOREM TypeCorrect == Spec => []TypeOK
<1>1. IndInv => TypeOK
  BY DEF IndInv
<1>2. QED
  BY <1>1, Inductive, PTL

(* However many runs share a session and replace it with compacted copies, it *)
(* holds at most one summary, and that one is in front.                       *)
THEOREM NeverTwoSummaries == Spec => []OneSummaryInFront
<1>1. IndInv => OneSummaryInFront
  BY DEF IndInv, Local, Clean, OneSummaryInFront
<1>2. QED
  BY <1>1, Inductive, PTL

(* No late answer of a tool call is ever recorded as another call's.          *)
THEOREM AnswersStayWithTheirCalls == Spec => []ResultsBelongToCalls
<1>1. IndInv => ResultsBelongToCalls
  BY DEF IndInv, Local, Clean, ResultsBelongToCalls
<1>2. QED
  BY <1>1, Inductive, PTL

-----------------------------------------------------------------------------
(* Whole turns.  What a run has added to its history grows towards a whole   *)
(* turn: at the model it is one but for the final reply (Between), in a tool *)
(* round so many calls of its last assistant message have been answered      *)
(* (Answering).                                                              *)
Added(x) == SubSeq(x.transcript, x.start + 1, Len(x.transcript))

OfTurn(t, r) ==
    /\ Len(t) >= 1
    /\ t[1] = UserMessage(r)
    /\ \A i \in DOMAIN t : t[i].role # "system" /\ t[i].run = r
    /\ \A i \in 2..Len(t) : t[i].role \in {"assistant", "tool"}
    /\ \A i \in 2..Len(t) : t[i].role = "assistant" => t[i].calls # <<>>

Between(t, r) == OfTurn(t, r) /\ Paired(t)

Answering(t, r, k) ==
    LET a == Len(t) - k
    IN  /\ OfTurn(t, r)
        /\ k \in Nat /\ a \in 2..Len(t)
        /\ t[a].role = "assistant" /\ k < Len(t[a].calls)
        /\ \A i \in DOMAIN t : t[i].role = "tool" => AnswersACall(t, i)
        /\ \A i \in DOMAIN t \ {a} : t[i].role = "assistant" => CallsAnswered(t, i)
        /\ \A j \in 1..k : t[a + j].role = "tool" /\ t[a + j].call = {t[a].calls[j]}

LEMMA AddedBehind ==
    ASSUME NEW ms \in Seq(Message), NEW n \in 0..Len(ms)
    PROVE  /\ SubSeq(ms, n + 1, Len(ms)) \in Seq(Message)
           /\ Len(SubSeq(ms, n + 1, Len(ms))) = Len(ms) - n
           /\ \A i \in 1..(Len(ms) - n) : SubSeq(ms, n + 1, Len(ms))[i] = ms[n + i]
OBVIOUS

LEMMA SameMessages ==
    ASSUME NEW s \in Seq(Message), NEW t \in Seq(Message), Len(s) = Len(t),
           \A i \in 1..Len(s) : s[i] = t[i]
    PROVE  s = t
<1>1. s = [i \in 1..Len(s) |-> s[i]] /\ t = [i \in 1..Len(t) |-> t[i]]
  OBVIOUS
<1>2. QED
  BY <1>1

LEMMA AddedGrows ==
    ASSUME NEW ms \in Seq(Message), NEW n \in 0..Len(ms), NEW m \in Message
    PROVE  SubSeq(Append(ms, m), n + 1, Len(Append(ms, m)))
               = Append(SubSeq(ms, n + 1, Len(ms)), m)
<1> DEFINE c == Append(ms, m)
           old == SubSeq(ms, n + 1, Len(ms))
           new == SubSeq(c, n + 1, Len(c))
<1>1. /\ c \in Seq(Message) /\ Len(c) = Len(ms) + 1 /\ c[Len(ms) + 1] = m
      /\ \A i \in 1..Len(ms) : c[i] = ms[i]
  OBVIOUS
<1>2. /\ old \in Seq(Message) /\ Len(old) = Len(ms) - n
      /\ \A i \in 1..(Len(ms) - n) : old[i] = ms[n + i]
  BY AddedBehind
<1>3. n \in 0..Len(c)
  BY <1>1
<1> HIDE DEF c
<1>4. /\ new \in Seq(Message) /\ Len(new) = Len(ms) + 1 - n
      /\ \A i \in 1..(Len(ms) + 1 - n) : new[i] = c[n + i]
  BY <1>1, <1>3, AddedBehind
<1> HIDE DEF old, new
<1>5. /\ Append(old, m) \in Seq(Message) /\ Len(Append(old, m)) = Len(ms) + 1 - n
      /\ \A i \in 1..(Len(ms) - n) : Append(old, m)[i] = ms[n + i]
      /\ Append(old, m)[Len(ms) + 1 - n] = m
  BY <1>2
<1>6. \A i \in 1..(Len(ms) + 1 - n) : new[i] = Append(old, m)[i]
  <2>1. \A i \in 1..(Len(ms) - n) : new[i] = ms[n + i]
    BY <1>1, <1>4
  <2>2. new[Len(ms) + 1 - n] = m
    BY <1>1, <1>4
  <2>3. QED
    BY <1>5, <2>1, <2>2
<1>7. new = Append(old, m)
  BY <1>4, <1>5, <1>6, SameMessages
<1>8. QED
  BY <1>7 DEF new, old, c

(* A message behind a turn disturbs nothing that has been paired.            *)
LEMMA BehindTurn ==
    ASSUME NEW t \in Seq(Message), NEW m \in Message
    PROVE  /\ Append(t, m) \in Seq(Message) /\ Len(Append(t, m)) = Len(t) + 1
           /\ DOMAIN Append(t, m) = 1..(Len(t) + 1) /\ DOMAIN t = 1..Len(t)
           /\ Len(t) \in Nat
           /\ Append(t, m)[Len(t) + 1] = m
           /\ \A i \in 1..Len(t) : Append(t, m)[i] = t[i]
           /\ \A i \in 1..Len(t) : /\ AnswersACall(t, i) => AnswersACall(Append(t, m), i)
                                   /\ CallsAnswered(t, i) => CallsAnswered(Append(t, m), i)
<1> DEFINE c == Append(t, m)
<1>1. /\ c \in Seq(Message) /\ Len(c) = Len(t) + 1
      /\ DOMAIN c = 1..(Len(t) + 1) /\ DOMAIN t = 1..Len(t) /\ Len(t) \in Nat
      /\ c[Len(t) + 1] = m /\ \A i \in 1..Len(t) : c[i] = t[i]
  OBVIOUS
<1> HIDE DEF c
<1>2. ASSUME NEW i \in 1..Len(t), AnswersACall(t, i) PROVE AnswersACall(c, i)
  <2>1. PICK k \in 1..(i - 1) :
            /\ t[i - k].role = "assistant"
            /\ k \in DOMAIN t[i - k].calls
            /\ t[i].call = {t[i - k].calls[k]}
    BY <1>2 DEF AnswersACall
  <2>2. c[i - k] = t[i - k] /\ c[i] = t[i]
    BY <1>1, <2>1
  <2>3. QED
    BY <2>1, <2>2 DEF AnswersACall
<1>3. ASSUME NEW i \in 1..Len(t), CallsAnswered(t, i) PROVE CallsAnswered(c, i)
  <2>1. ASSUME NEW k \in DOMAIN c[i].calls
        PROVE  i + k \in DOMAIN c /\ c[i + k].role = "tool" /\ c[i + k].call = {c[i].calls[k]}
    <3>1. c[i] = t[i]
      BY <1>1
    <3>2. /\ i + k \in DOMAIN t /\ t[i + k].role = "tool"
          /\ t[i + k].call = {t[i].calls[k]}
      BY <1>3, <2>1, <3>1 DEF CallsAnswered
    <3>3. c[i + k] = t[i + k] /\ i + k \in DOMAIN c
      BY <1>1, <3>2
    <3>4. QED
      BY <3>1, <3>2, <3>3
  <2>2. QED
    BY <2>1 DEF CallsAnswered
<1>4. QED
  BY <1>1, <1>2, <1>3 DEF c

LEMMA OfTurnGrows ==
    ASSUME NEW t \in Seq(Message), NEW r, OfTurn(t, r), NEW m \in Message, m.run = r,
           m.role \in {"assistant", "tool"}, m.role = "assistant" => m.calls # <<>>
    PROVE  OfTurn(Append(t, m), r)
<1> DEFINE c == Append(t, m)
<1>1. /\ Len(c) = Len(t) + 1 /\ DOMAIN c = 1..(Len(t) + 1) /\ DOMAIN t = 1..Len(t)
      /\ Len(t) \in Nat /\ c[Len(t) + 1] = m /\ \A i \in 1..Len(t) : c[i] = t[i]
  BY BehindTurn
<1> HIDE DEF c
<1>2. QED
  <2>1. OfTurn(c, r)
    <3>1. Len(c) >= 1 /\ c[1] = UserMessage(r)
      BY <1>1 DEF OfTurn
    <3>2. \A i \in DOMAIN c : c[i].role # "system" /\ c[i].run = r
      BY <1>1 DEF OfTurn
    <3>3. \A i \in 2..Len(c) : c[i].role \in {"assistant", "tool"}
      BY <1>1 DEF OfTurn
    <3>4. \A i \in 2..Len(c) : c[i].role = "assistant" => c[i].calls # <<>>
      BY <1>1 DEF OfTurn
    <3>5. QED
      BY <3>1, <3>2, <3>3, <3>4 DEF OfTurn
  <2>2. QED
    BY <2>1 DEF c

(* The input alone.                                                          *)
LEMMA InputBegins ==
    ASSUME NEW r \in Runs
    PROVE  Between(Append(<<>>, UserMessage(r)), r)
<1> DEFINE c == Append(<<>>, UserMessage(r))
<1>1. Len(c) = 1 /\ DOMAIN c = {1} /\ c[1] = UserMessage(r)
  OBVIOUS
<1> HIDE DEF c
<1>2. UserMessage(r).role = "user" /\ UserMessage(r).run = r
  BY DEF UserMessage
<1>3. 2..Len(c) = {}
  BY <1>1
<1>4. OfTurn(c, r)
  BY <1>1, <1>2, <1>3 DEF OfTurn
<1>5. Paired(c)
  BY <1>1, <1>2 DEF Paired
<1>6. QED
  BY <1>4, <1>5 DEF Between, c

(* The final reply makes the turn whole.                                     *)
LEMMA ReplyCompletes ==
    ASSUME NEW t \in Seq(Message), NEW r \in Runs, NEW n \in Rounds, Between(t, r)
    PROVE  WholeTurn(Append(t, Reply(r, n, <<>>)), r)
<1> DEFINE m == Reply(r, n, <<>>)
           c == Append(t, m)
<1>1. m.role = "assistant" /\ m.run = r /\ m.calls = <<>> /\ m \in Message
  <2>1. m \in Entry
    BY MessagesTyped
  <2>2. QED
    BY <2>1 DEF Message, Reply
<1> HIDE DEF m
<1>2. /\ c \in Seq(Message) /\ Len(c) = Len(t) + 1
      /\ DOMAIN c = 1..(Len(t) + 1) /\ DOMAIN t = 1..Len(t)
      /\ Len(t) \in Nat
      /\ c[Len(t) + 1] = m
      /\ \A i \in 1..Len(t) : c[i] = t[i]
      /\ \A i \in 1..Len(t) : /\ AnswersACall(t, i) => AnswersACall(c, i)
                              /\ CallsAnswered(t, i) => CallsAnswered(c, i)
  BY <1>1, BehindTurn
<1> HIDE DEF c
<1>3. OfTurn(t, r) /\ Paired(t)
  BY DEF Between
<1>4. Len(c) >= 2 /\ c[1] = UserMessage(r)
  BY <1>2, <1>3 DEF OfTurn
<1>5. \A i \in DOMAIN c : c[i].role # "system" /\ c[i].run = r
  BY <1>1, <1>2, <1>3 DEF OfTurn
<1>6. \A i \in 2..Len(c) : c[i].role \in {"assistant", "tool"}
  BY <1>1, <1>2, <1>3 DEF OfTurn
<1>7. \A i \in 2..Len(c) : (c[i].role = "assistant" /\ c[i].calls = <<>>) <=> i = Len(c)
  BY <1>1, <1>2, <1>3 DEF OfTurn
<1>8. Paired(c)
  <2>1. CallsAnswered(c, Len(t) + 1)
    <3>1. DOMAIN m.calls = {}
      BY <1>1
    <3>2. QED
      BY <1>2, <3>1 DEF CallsAnswered
  <2>2. ASSUME NEW i \in DOMAIN c
        PROVE  /\ c[i].role = "tool" => AnswersACall(c, i)
               /\ c[i].role = "assistant" => CallsAnswered(c, i)
    BY <1>1, <1>2, <1>3, <2>1 DEF Paired
  <2>3. QED
    BY <2>2 DEF Paired
<1>9. WholeTurn(c, r)
  BY <1>4, <1>5, <1>6, <1>7, <1>8 DEF WholeTurn
<1>10. QED
  BY <1>9 DEF c, m

(* A reply with calls opens a round in which none of them is answered.       *)
LEMMA ReplyOpens ==
    ASSUME NEW t \in Seq(Message), NEW r \in Runs, NEW n \in Rounds, Between(t, r),
           NEW l \in CallLists, l # <<>>
    PROVE  Answering(Append(t, Reply(r, n, l)), r, 0)
<1> DEFINE m == Reply(r, n, l)
           c == Append(t, m)
<1>1. m.role = "assistant" /\ m.run = r /\ m.calls = l /\ m \in Message
  <2>1. m \in Entry
    BY MessagesTyped
  <2>2. QED
    BY <2>1 DEF Message, Reply
<1> HIDE DEF m
<1>2. /\ Len(c) = Len(t) + 1
      /\ DOMAIN c = 1..(Len(t) + 1) /\ DOMAIN t = 1..Len(t)
      /\ Len(t) \in Nat
      /\ c[Len(t) + 1] = m
      /\ \A i \in 1..Len(t) : c[i] = t[i]
      /\ \A i \in 1..Len(t) : /\ AnswersACall(t, i) => AnswersACall(c, i)
                              /\ CallsAnswered(t, i) => CallsAnswered(c, i)
  BY <1>1, BehindTurn
<1>3. OfTurn(c, r)
  BY <1>1, OfTurnGrows DEF Between
<1> HIDE DEF c
<1>4. OfTurn(t, r) /\ Paired(t) /\ Len(t) >= 1
  BY DEF Between, OfTurn
<1>5. 0 < Len(m.calls)
  <2>1. PICK k \in 0..MaxCalls : l \in [1..k -> CallIds]
    BY DEF CallLists
  <2>2. k # 0 /\ Len(l) = k
    BY <2>1, TranscriptAssumption
  <2>3. QED
    BY <1>1, <2>2, TranscriptAssumption
<1>6. \A i \in DOMAIN c : c[i].role = "tool" => AnswersACall(c, i)
  BY <1>1, <1>2, <1>4 DEF Paired
<1>7. \A i \in DOMAIN c \ {Len(c)} : c[i].role = "assistant" => CallsAnswered(c, i)
  BY <1>2, <1>4 DEF Paired
<1>8. Len(c) - 0 = Len(c) /\ Len(c) \in 2..Len(c) /\ 0 \in Nat /\ 1..0 = {}
      /\ c[Len(c)] = m
  BY <1>2, <1>4
<1>9. Answering(c, r, 0)
  BY <1>1, <1>3, <1>5, <1>6, <1>7, <1>8 DEF Answering
<1>10. QED
  BY <1>9 DEF c, m

(* The calls of an assistant message. *)
LEMMA CallsTyped ==
    ASSUME NEW m \in Message, m.role = "assistant"
    PROVE  /\ m.calls \in CallLists /\ Len(m.calls) \in Nat
           /\ DOMAIN m.calls = 1..Len(m.calls)
<1>1. m \in Entry
  BY DEF Message, SummaryEntry
<1>2. m.calls \in CallLists
  BY <1>1 DEF Entry
<1>3. PICK k \in 0..MaxCalls : m.calls \in [1..k -> CallIds]
  BY <1>2 DEF CallLists
<1>4. QED
  BY <1>2, <1>3, TranscriptAssumption

(* The answer of the next call brings the round forward, or ends it.         *)
LEMMA AnswerAdvances ==
    ASSUME NEW t \in Seq(Message), NEW r \in Runs, NEW k \in Nat, Answering(t, r, k),
           NEW m \in Message, m.role = "tool", m.run = r,
           m.call = {t[Len(t) - k].calls[k + 1]}
    PROVE  /\ k + 1 < Len(t[Len(t) - k].calls) => Answering(Append(t, m), r, k + 1)
           /\ k + 1 >= Len(t[Len(t) - k].calls) => Between(Append(t, m), r)
<1> DEFINE c == Append(t, m)
           a == Len(t) - k
           l == t[a].calls
<1>1. /\ Len(c) = Len(t) + 1
      /\ DOMAIN c = 1..(Len(t) + 1) /\ DOMAIN t = 1..Len(t)
      /\ Len(t) \in Nat
      /\ c[Len(t) + 1] = m
      /\ \A i \in 1..Len(t) : c[i] = t[i]
      /\ \A i \in 1..Len(t) : /\ AnswersACall(t, i) => AnswersACall(c, i)
                              /\ CallsAnswered(t, i) => CallsAnswered(c, i)
  BY BehindTurn
<1>2. OfTurn(c, r)
  BY OfTurnGrows DEF Answering
<1>3. /\ a \in 2..Len(t) /\ t[a].role = "assistant" /\ k < Len(l)
      /\ \A i \in DOMAIN t : t[i].role = "tool" => AnswersACall(t, i)
      /\ \A i \in DOMAIN t \ {a} : t[i].role = "assistant" => CallsAnswered(t, i)
      /\ \A j \in 1..k : t[a + j].role = "tool" /\ t[a + j].call = {l[j]}
  BY DEF Answering
<1>4. t[a] \in Message
  BY <1>3
<1>5. Len(l) \in Nat /\ DOMAIN l = 1..Len(l)
  BY <1>3, <1>4, CallsTyped
<1> HIDE DEF c
<1>6. /\ a \in Nat /\ a + k = Len(t) /\ c[a] = t[a]
      /\ a + (k + 1) = Len(c) /\ Len(c) - (k + 1) = a /\ a \in 2..Len(c)
  BY <1>1, <1>3
<1> HIDE DEF a
<1>7. k + 1 \in DOMAIN l /\ m.call = {l[k + 1]}
  BY <1>3, <1>5 DEF a
<1>8. \A j \in 1..(k + 1) : c[a + j].role = "tool" /\ c[a + j].call = {l[j]}
  <2>1. c[a + (k + 1)] = m
    BY <1>1, <1>6
  <2>2. ASSUME NEW j \in 1..k PROVE c[a + j] = t[a + j]
    BY <1>1, <1>6
  <2>3. ASSUME NEW j \in 1..(k + 1) PROVE j = k + 1 \/ j \in 1..k
    OBVIOUS
  <2>4. c[a + (k + 1)].role = "tool" /\ c[a + (k + 1)].call = {l[k + 1]}
    BY <1>7, <2>1
  <2> HIDE DEF l
  <2>5. \A j \in 1..k : c[a + j].role = "tool" /\ c[a + j].call = {l[j]}
    BY <1>3, <2>2
  <2>6. QED
    BY <2>3, <2>4, <2>5
<1>9. AnswersACall(c, Len(c))
  <2>1. Len(c) - (k + 1) = a /\ k + 1 \in 1..(Len(c) - 1) /\ c[Len(c)] = m
    BY <1>1, <1>6
  <2>2. c[Len(c) - (k + 1)] = t[a]
    BY <1>6, <2>1
  <2>3. QED
    BY <1>3, <1>7, <2>1, <2>2 DEF AnswersACall
<1>10. \A i \in DOMAIN c : c[i].role = "tool" => AnswersACall(c, i)
  BY <1>1, <1>3, <1>9
<1>11. \A i \in DOMAIN c \ {a} : c[i].role = "assistant" => CallsAnswered(c, i)
  BY <1>1, <1>3
<1>12. ASSUME k + 1 < Len(l) PROVE Answering(c, r, k + 1)
  <2>1. k + 1 < Len(c[a].calls) /\ c[a].role = "assistant" /\ k + 1 \in Nat
    BY <1>3, <1>6, <1>12
  <2>2. \A j \in 1..(k + 1) : c[a + j].role = "tool" /\ c[a + j].call = {c[a].calls[j]}
    BY <1>6, <1>8
  <2>3. QED
    BY <1>2, <1>6, <1>10, <1>11, <2>1, <2>2 DEF Answering
<1>13. ASSUME k + 1 >= Len(l) PROVE Between(c, r)
  <2>1. DOMAIN c[a].calls = 1..(k + 1)
    BY <1>3, <1>5, <1>6, <1>13
  <2>2. \A j \in 1..(k + 1) : a + j \in DOMAIN c
    BY <1>1, <1>6
  <2>3. CallsAnswered(c, a)
    <3>1. \A j \in DOMAIN c[a].calls :
              /\ a + j \in DOMAIN c /\ c[a + j].role = "tool"
              /\ c[a + j].call = {c[a].calls[j]}
      BY <1>6, <1>8, <2>1, <2>2
    <3>2. QED
      BY <3>1 DEF CallsAnswered
  <2>4. Paired(c)
    BY <1>10, <1>11, <2>3 DEF Paired
  <2>5. QED
    BY <1>2, <2>4 DEF Between
<1>14. QED
  BY <1>12, <1>13 DEF c, a

-----------------------------------------------------------------------------
(* How far the turn of a run has grown at each point of Agent.run.           *)
TurnAt(x, r) ==
    /\ x.pc \in {"tokens", "saveTokens", "limit"} => x.start = Len(x.transcript)
    /\ x.pc \in {"saveLimit", "model"} => Between(Added(x), r)
    /\ x.pc \in {"tool", "await"} => x.next >= 1 /\ Answering(Added(x), r, x.next - 1)
    /\ x.pc = "append" => WholeTurn(Added(x), r)

TurnInv == \A r \in Runs : TurnAt(run[r], r)

LEMMA TurnStep ==
    ASSUME TurnInv, NEW r \in Runs, \A q \in Runs \ {r} : run'[q] = run[q],
           TurnAt(run'[r], r)
    PROVE  TurnInv'
BY DEF TurnInv

(* A step that only moves a run.                                             *)
LEMMA Moved ==
    ASSUME IndInv, NEW r \in Runs, NEW p, Go(r, p)
    PROVE  /\ run'[r].pc = p /\ run'[r].transcript = run[r].transcript
           /\ run'[r].start = run[r].start /\ run'[r].next = run[r].next
           /\ \A q \in Runs \ {r} : run'[q] = run[q]
BY RunFacts DEF Go, IndInv, TypeOK, RunState

LEMMA MovedTurn ==
    ASSUME IndInv, TurnInv, NEW r \in Runs, NEW p, Go(r, p),
           \/ p \in {"failed", "done"}
           \/ p = "limit" /\ run[r].pc \in {"tokens", "saveTokens"}
           \/ p = "model" /\ run[r].pc = "saveLimit"
           \/ p = "await" /\ run[r].pc = "tool"
    PROVE  TurnInv'
<1> DEFINE x == run'[r]
<1>1. /\ x.pc = p /\ x.transcript = run[r].transcript /\ x.start = run[r].start
      /\ x.next = run[r].next /\ \A q \in Runs \ {r} : run'[q] = run[q]
  BY Moved
<1>2. Added(x) = Added(run[r]) /\ TurnAt(run[r], r)
  BY <1>1 DEF Added, TurnInv
<1> HIDE DEF x
<1>3. TurnAt(x, r)
  BY <1>1, <1>2 DEF TurnAt
<1>4. QED
  BY <1>1, <1>3, TurnStep DEF x

(* The input behind a history.                                               *)
LEMMA InputAdded ==
    ASSUME NEW h \in Seq(Message), NEW r \in Runs, NEW x,
           x.transcript = Append(h, UserMessage(r)), x.start = Len(h)
    PROVE  Between(Added(x), r)
<1> DEFINE m == UserMessage(r)
<1>1. m \in Message
  <2>1. 0 \in Rounds
    BY TranscriptAssumption DEF Rounds
  <2>2. QED
    BY <2>1, MessagesTyped DEF Message
<1> HIDE DEF m
<1>2. Len(h) \in 0..Len(h) /\ SubSeq(h, Len(h) + 1, Len(h)) = <<>>
  OBVIOUS
<1>3. Added(x) = Append(<<>>, m)
  BY <1>1, <1>2, AddedGrows DEF Added, m
<1>4. QED
  BY <1>3, InputBegins DEF m

LEMMA BeginTurn == ASSUME IndInv, TurnInv, NEW r \in Runs, Begin(r) PROVE TurnInv'
<1>1. /\ run'[r].pc = "tokens" /\ run'[r].start = Len(run'[r].transcript)
      /\ \A q \in Runs \ {r} : run'[q] = run[q]
  BY RunFacts DEF Begin, IndInv, TypeOK, RunState
<1>2. QED
  BY <1>1, TurnStep DEF TurnAt

LEMMA CompactTokensTurn ==
    ASSUME IndInv, TurnInv, NEW r \in Runs, CompactTokens(r) PROVE TurnInv'
<1>1. PICK c \in CompactTokenHistory(run[r].transcript, InputBudget) :
          run' = [run EXCEPT ![r].pc = IF conf.replaces THEN "saveTokens" ELSE "limit",
                             ![r].transcript = c,
                             ![r].start = Len(c)]
  BY DEF CompactTokens
<1>2. /\ run'[r].pc \in {"saveTokens", "limit"} /\ run'[r].start = Len(run'[r].transcript)
      /\ \A q \in Runs \ {r} : run'[q] = run[q]
  BY <1>1, RunFacts DEF IndInv, TypeOK, RunState
<1>3. QED
  BY <1>2, TurnStep DEF TurnAt

LEMMA CompactLimitTurn ==
    ASSUME IndInv, TurnInv, NEW r \in Runs, CompactLimit(r) PROVE TurnInv'
<1> DEFINE c == CompactHistory(run[r].transcript, conf.limit - 1)
<1>1. c \in Seq(Message)
  <2>1. conf.limit - 1 \in Nat \ {0}
    BY RunFacts DEF CompactLimit, Config
  <2>2. Derived(c, run[r].transcript)
    BY <2>1, RunFacts, CompactHistoryDerives
  <2>3. QED
    BY <2>2 DEF Derived
<1>2. /\ run'[r].pc \in {"saveLimit", "model"}
      /\ run'[r].transcript = Append(c, UserMessage(r)) /\ run'[r].start = Len(c)
      /\ \A q \in Runs \ {r} : run'[q] = run[q]
  BY RunFacts DEF CompactLimit, IndInv, TypeOK, RunState
<1> HIDE DEF c
<1>3. Between(Added(run'[r]), r)
  BY <1>1, <1>2, InputAdded
<1>4. QED
  BY <1>2, <1>3, TurnStep DEF TurnAt

LEMMA WithinLimitTurn ==
    ASSUME IndInv, TurnInv, NEW r \in Runs, WithinLimit(r) PROVE TurnInv'
<1>1. /\ run'[r].pc = "model"
      /\ run'[r].transcript = Append(run[r].transcript, UserMessage(r))
      /\ run'[r].start = run[r].start
      /\ \A q \in Runs \ {r} : run'[q] = run[q]
  BY RunFacts DEF WithinLimit, WithInput, IndInv, TypeOK, RunState
<1>2. run[r].start = Len(run[r].transcript)
  BY DEF WithinLimit, At, TurnInv, TurnAt
<1>3. Between(Added(run'[r]), r)
  BY <1>1, <1>2, RunFacts, InputAdded
<1>4. QED
  BY <1>1, <1>3, TurnStep DEF TurnAt

(* What a run has added, and how one more message changes it.                *)
LEMMA AddedFacts ==
    ASSUME IndInv, NEW r \in Runs, NEW m \in Message, NEW x,
           x.transcript = Append(run[r].transcript, m), x.start = run[r].start
    PROVE  /\ Added(run[r]) \in Seq(Message)
           /\ Added(x) = Append(Added(run[r]), m)
BY RunFacts, AddedBehind, AddedGrows DEF Added

LEMMA FinalReplyTurn ==
    ASSUME IndInv, TurnInv, NEW r \in Runs, FinalReply(r) PROVE TurnInv'
<1> DEFINE m == Reply(r, run[r].round, <<>>)
           x == run'[r]
<1>1. /\ x.pc = "append" /\ x.transcript = Append(run[r].transcript, m)
      /\ x.start = run[r].start /\ \A q \in Runs \ {r} : run'[q] = run[q]
  BY RunFacts DEF FinalReply, IndInv, TypeOK, RunState
<1>2. m \in Message /\ run[r].round \in Rounds
  BY RunFacts, MessagesTyped DEF Message
<1>3. Between(Added(run[r]), r)
  BY DEF FinalReply, At, TurnInv, TurnAt
<1> HIDE DEF x
<1>4. Added(run[r]) \in Seq(Message) /\ Added(x) = Append(Added(run[r]), m)
  <2> HIDE DEF m
  <2>1. QED
    BY <1>1, <1>2, AddedFacts
<1>5. WholeTurn(Added(x), r)
  BY <1>2, <1>3, <1>4, ReplyCompletes
<1>6. TurnAt(x, r)
  BY <1>1, <1>5 DEF TurnAt
<1>7. QED
  BY <1>1, <1>6, TurnStep DEF x

LEMMA ToolReplyTurn ==
    ASSUME IndInv, TurnInv, NEW r \in Runs, NEW l \in CallLists, ToolReply(r, l)
    PROVE  TurnInv'
<1> DEFINE m == Reply(r, run[r].round, l)
           x == run'[r]
<1>1. /\ x.pc = "tool" /\ x.transcript = Append(run[r].transcript, m) /\ x.next = 1
      /\ x.start = run[r].start /\ \A q \in Runs \ {r} : run'[q] = run[q]
  BY RunFacts DEF ToolReply, IndInv, TypeOK, RunState
<1>2. m \in Message /\ run[r].round \in Rounds /\ l # <<>>
  BY RunFacts, MessagesTyped DEF Message, ToolReply
<1>3. Between(Added(run[r]), r)
  BY DEF ToolReply, At, TurnInv, TurnAt
<1> HIDE DEF x
<1>4. Added(run[r]) \in Seq(Message) /\ Added(x) = Append(Added(run[r]), m)
  <2> HIDE DEF m
  <2>1. QED
    BY <1>1, <1>2, AddedFacts
<1>5. Answering(Added(x), r, 0)
  BY <1>2, <1>3, <1>4, ReplyOpens
<1>6. TurnAt(x, r)
  <2>1. x.next >= 1 /\ x.next - 1 = 0
    BY <1>1
  <2>2. QED
    BY <1>1, <1>5, <2>1 DEF TurnAt
<1>7. QED
  BY <1>1, <1>6, TurnStep DEF x

(* The calls of the round stand in what the run has added.                   *)
LEMMA RoundAdded ==
    ASSUME IndInv, TurnInv, NEW r \in Runs, run[r].pc \in {"tool", "await"}
    PROVE  LET t == Added(run[r])
               k == run[r].next - 1
           IN  /\ t \in Seq(Message) /\ k \in Nat /\ Answering(t, r, k)
               /\ RoundCalls(r) = t[Len(t) - k].calls
               /\ Invocation(r).call = t[Len(t) - k].calls[k + 1]
<1> DEFINE ms == run[r].transcript
           n == run[r].start
           t == Added(run[r])
           k == run[r].next - 1
<1>1. ms \in Seq(Message) /\ n \in 0..Len(ms) /\ Len(ms) \in Nat /\ run[r].next \in Nat
  BY RunFacts
<1>2. run[r].next >= 1 /\ Answering(t, r, k)
  BY DEF TurnInv, TurnAt
<1>3. k \in Nat /\ k + 1 = run[r].next
  BY <1>1, <1>2
<1>4. /\ t \in Seq(Message) /\ Len(t) = Len(ms) - n
      /\ \A i \in 1..(Len(ms) - n) : t[i] = ms[n + i]
  BY <1>1, AddedBehind DEF Added
<1> HIDE DEF t, k, ms, n
<1>5. Len(t) - k \in 2..Len(t)
  BY <1>2 DEF Answering
<1>6. n + (Len(t) - k) = Len(ms) - k /\ Len(t) - k \in 1..(Len(ms) - n)
  BY <1>1, <1>3, <1>4, <1>5
<1>7. t[Len(t) - k] = ms[Len(ms) - k]
  BY <1>4, <1>6
<1>8. RoundCalls(r) = t[Len(t) - k].calls
  BY <1>7 DEF RoundCalls, ms, k
<1>9. Invocation(r).call = t[Len(t) - k].calls[k + 1]
  BY <1>3, <1>8 DEF Invocation
<1>10. QED
  BY <1>2, <1>3, <1>4, <1>8, <1>9 DEF t, k

LEMMA ObservedTurn ==
    ASSUME IndInv, TurnInv, NEW r \in Runs, run[r].pc \in {"tool", "await"},
           NEW out \in {{}, {Invocation(r)}}, run' = Observed(r, out)
    PROVE  TurnInv'
<1> DEFINE m == ToolMessage(r, run[r].round, Invocation(r).call, out)
           more == run[r].next < Len(RoundCalls(r))
           t == Added(run[r])
           k == run[r].next - 1
           x == run'[r]
<1>1. /\ x.pc = IF more THEN "tool" ELSE "model"
      /\ x.transcript = Append(run[r].transcript, m) /\ x.start = run[r].start
      /\ more => x.next = run[r].next + 1
      /\ \A q \in Runs \ {r} : run'[q] = run[q]
  BY RunFacts DEF Observed, IndInv, TypeOK, RunState
<1>2. out \in SUBSET Invocations /\ Invocation(r).call \in CallIds
  BY InvocationTyped
<1>3. m \in Message /\ m.role = "tool" /\ m.run = r /\ m.call = {Invocation(r).call}
  BY <1>2, RunFacts, MessagesTyped DEF Message
<1>4. /\ t \in Seq(Message) /\ k \in Nat /\ Answering(t, r, k)
      /\ RoundCalls(r) = t[Len(t) - k].calls
      /\ Invocation(r).call = t[Len(t) - k].calls[k + 1]
  BY RoundAdded
<1>5. run[r].next = k + 1 /\ Len(RoundCalls(r)) \in Nat /\ run[r].next \in Nat
  <2>1. RoundCalls(r) \in CallLists
    BY InvocationTyped
  <2>2. PICK n \in 0..MaxCalls : RoundCalls(r) \in [1..n -> CallIds]
    BY <2>1 DEF CallLists
  <2>3. Len(RoundCalls(r)) \in Nat
    BY <2>2, TranscriptAssumption
  <2>4. run[r].next \in Nat
    BY RunFacts
  <2>5. QED
    BY <2>3, <2>4
<1> HIDE DEF x, m, t, k
<1>6. Added(x) = Append(t, m)
  BY <1>1, <1>3, AddedFacts DEF t
<1>7. /\ k + 1 < Len(RoundCalls(r)) => Answering(Added(x), r, k + 1)
      /\ k + 1 >= Len(RoundCalls(r)) => Between(Added(x), r)
  <2>1. m.call = {t[Len(t) - k].calls[k + 1]}
    BY <1>3, <1>4
  <2>2. QED
    BY <1>3, <1>4, <1>6, <2>1, AnswerAdvances
<1>8. CASE more
  <2>1. x.next >= 1 /\ x.next - 1 = k + 1
    BY <1>1, <1>4, <1>5, <1>8
  <2>2. QED
    BY <1>1, <1>5, <1>7, <1>8, <2>1, TurnStep DEF TurnAt, x
<1>9. CASE ~more
  <2>1. Between(Added(x), r)
    BY <1>5, <1>7, <1>9
  <2>2. QED
    BY <1>1, <1>9, <2>1, TurnStep DEF TurnAt, x
<1>10. QED
  BY <1>8, <1>9

LEMMA RunStepTurn == ASSUME IndInv, TurnInv, NEW r \in Runs, RunStep(r) PROVE TurnInv'
<1>1. CASE Begin(r)
  BY <1>1, BeginTurn
<1>2. CASE ListFails(r) \/ CompactionFails(r) \/ SaveFails(r) \/ ModelFails(r)
           \/ TooManyRounds(r) \/ AppendFails(r)
  BY <1>2, MovedTurn
     DEF ListFails, CompactionFails, SaveFails, ModelFails, TooManyRounds, AppendFails, Fail
<1>3. CASE CompactTokens(r)
  BY <1>3, CompactTokensTurn
<1>4. CASE WithinBudget(r)
  BY <1>4, MovedTurn DEF WithinBudget, At
<1>5. CASE CompactLimit(r)
  BY <1>5, CompactLimitTurn
<1>6. CASE WithinLimit(r)
  BY <1>6, WithinLimitTurn
<1>7. CASE Save(r)
  BY <1>7, MovedTurn DEF Save, SavePoint, At
<1>8. CASE FinalReply(r)
  BY <1>8, FinalReplyTurn
<1>9. CASE \E l \in CallLists : ToolReply(r, l)
  BY <1>9, ToolReplyTurn
<1>10. CASE ToolRefused(r)
  BY <1>10, ObservedTurn DEF ToolRefused, At
<1>11. CASE ToolStarts(r)
  BY <1>11, MovedTurn DEF ToolStarts, At
<1>12. CASE ToolAnswers(r)
  BY <1>12, ObservedTurn DEF ToolAnswers, At
<1>13. CASE ToolTimesOut(r)
  BY <1>13, ObservedTurn DEF ToolTimesOut, At
<1>14. CASE AppendTurn(r)
  BY <1>14, MovedTurn DEF AppendTurn
<1>15. QED
  BY <1>1, <1>2, <1>3, <1>4, <1>5, <1>6, <1>7, <1>8, <1>9, <1>10, <1>11, <1>12, <1>13,
     <1>14 DEF RunStep

LEMMA TurnInductive == Spec => [](IndInv /\ TurnInv)
<1>1. Init => TurnInv
  <2> SUFFICES ASSUME Init, NEW r \in Runs PROVE TurnAt(run[r], r)
    BY DEF TurnInv
  <2>1. run[r].pc = "idle"
    BY DEF Init
  <2>2. QED
    BY <2>1 DEF TurnAt
<1>2. IndInv /\ TurnInv /\ [Next]_vars => TurnInv'
  <2> SUFFICES ASSUME IndInv, TurnInv, [Next]_vars PROVE TurnInv'
    OBVIOUS
  <2>1. ASSUME NEW r \in Runs, RunStep(r) PROVE TurnInv'
    BY <2>1, RunStepTurn
  <2>2. CASE run' = run
    BY <2>2 DEF TurnInv
  <2>3. QED
    BY <2>1, <2>2 DEF Next, ToolFinishes, vars
<1>3. QED
  BY <1>1, <1>2, InitHolds, NextHolds, PTL DEF Spec

(* A step of a run leaves the others alone, and only the append reports       *)
(* success.                                                                   *)
LEMMA OneRunMoves ==
    ASSUME IndInv, NEW r \in Runs, RunStep(r)
    PROVE  /\ \A q \in Runs \ {r} : run'[q] = run[q]
           /\ run[r].pc \notin Ended
           /\ run'[r].pc = "done" => AppendTurn(r)
           /\ run'[r].session = run[r].session
<1> USE RunFacts DEF IndInv, TypeOK, RunState, At, Ended
<1>1. CASE Begin(r)
  BY <1>1 DEF Begin
<1>2. CASE ListFails(r) \/ CompactionFails(r) \/ SaveFails(r) \/ ModelFails(r)
           \/ TooManyRounds(r) \/ AppendFails(r)
  BY <1>2 DEF ListFails, CompactionFails, SaveFails, ModelFails, TooManyRounds, AppendFails,
              SavePoint, Fail, Go
<1>3. CASE CompactTokens(r)
  BY <1>3 DEF CompactTokens
<1>4. CASE WithinBudget(r)
  BY <1>4 DEF WithinBudget, Go
<1>5. CASE CompactLimit(r)
  BY <1>5 DEF CompactLimit
<1>6. CASE WithinLimit(r)
  BY <1>6 DEF WithinLimit
<1>7. CASE Save(r)
  BY <1>7 DEF Save, SavePoint, Go
<1>8. CASE FinalReply(r)
  BY <1>8 DEF FinalReply
<1>9. CASE \E l \in CallLists : ToolReply(r, l)
  BY <1>9 DEF ToolReply
<1>10. CASE ToolRefused(r)
  BY <1>10 DEF ToolRefused, Observed
<1>11. CASE ToolStarts(r)
  BY <1>11 DEF ToolStarts, Go
<1>12. CASE ToolAnswers(r)
  BY <1>12 DEF ToolAnswers, Observed
<1>13. CASE ToolTimesOut(r)
  BY <1>13 DEF ToolTimesOut, Observed
<1>14. CASE AppendTurn(r)
  BY <1>14 DEF AppendTurn, Go
<1>15. QED
  BY <1>1, <1>2, <1>3, <1>4, <1>5, <1>6, <1>7, <1>8, <1>9, <1>10, <1>11, <1>12, <1>13,
     <1>14 DEF RunStep

(* What an append leaves at the end of the run's session.                    *)
LEMMA AppendedTurn ==
    ASSUME IndInv, TurnInv, NEW r \in Runs, At(r, "append")
    PROVE  LET s == run[r].session
           IN  /\ Turn(r) \in Seq(Message) /\ WholeTurn(Turn(r), r)
               /\ Appended(r) = [store EXCEPT ![s] = @ \o Turn(r)]
               /\ Appended(r)[s] = store[s] \o Turn(r)
               /\ s \in Sessions /\ store[s] \in Seq(Message)
<1>1. Turn(r) = Added(run[r])
  BY DEF Turn, Added
<1>2. Turn(r) \in Seq(Message)
  BY <1>1, RunFacts, AddedBehind DEF Added
<1>3. WholeTurn(Turn(r), r)
  BY <1>1 DEF At, TurnInv, TurnAt
<1>4. QED
  BY <1>2, <1>3, RunFacts DEF Appended, IndInv, TypeOK

LEMMA BehindSession ==
    ASSUME NEW h \in Seq(Message), NEW t \in Seq(Message)
    PROVE  /\ Len(h \o t) = Len(h) + Len(t)
           /\ SubSeq(h \o t, Len(h) + 1, Len(h \o t)) = t
<1> DEFINE c == h \o t
           b == SubSeq(c, Len(h) + 1, Len(c))
<1>1. /\ c \in Seq(Message) /\ Len(c) = Len(h) + Len(t)
      /\ \A i \in 1..Len(t) : c[Len(h) + i] = t[i]
  OBVIOUS
<1> HIDE DEF c
<1>2. Len(h) \in 0..Len(c)
  BY <1>1
<1>3. /\ b \in Seq(Message) /\ Len(b) = Len(t)
      /\ \A i \in 1..Len(t) : b[i] = c[Len(h) + i]
  BY <1>1, <1>2, AddedBehind
<1> HIDE DEF b
<1>4. b = t
  BY <1>1, <1>3, SameMessages
<1>5. QED
  BY <1>1, <1>4 DEF b, c

(* A run that reports success has left its whole turn, from its input to a    *)
(* final reply with every tool call answered, at the end of its session,      *)
(* whatever was compacted before and whoever else uses the session.           *)
THEOREM SuccessIsStored == Spec => SuccessMeansStored
<1>1. ASSUME IndInv, TurnInv, [Next]_vars, NEW r \in Runs, ~At(r, "done"), At(r, "done")'
      PROVE  EndsWithTurn(store'[run[r].session], r)
  <2>1. AppendTurn(r)
    <3>1. PICK q \in Runs : RunStep(q)
      BY <1>1 DEF Next, ToolFinishes, vars, At
    <3>2. r = q
      BY <1>1, <3>1, OneRunMoves DEF At
    <3>3. QED
      BY <1>1, <3>1, <3>2, OneRunMoves DEF At
  <2> DEFINE h == store[run[r].session]
             t == Turn(r)
  <2>2. store'[run[r].session] = h \o t /\ h \in Seq(Message) /\ t \in Seq(Message)
        /\ WholeTurn(t, r)
    BY <1>1, <2>1, AppendedTurn DEF AppendTurn
  <2> HIDE DEF h, t
  <2>3. Len(h \o t) = Len(h) + Len(t) /\ SubSeq(h \o t, Len(h) + 1, Len(h \o t)) = t
    BY <2>2, BehindSession
  <2>4. Len(h) + 1 \in 1..Len(h \o t)
    BY <2>2, <2>3 DEF WholeTurn
  <2>5. QED
    BY <2>2, <2>3, <2>4 DEF EndsWithTurn
<1>2. IndInv /\ TurnInv /\ [Next]_vars =>
          \A r \in Runs : (~At(r, "done") /\ At(r, "done")') =>
              EndsWithTurn(store'[run[r].session], r)
  BY <1>1
<1>3. QED
  BY <1>2, TurnInductive, PTL DEF Spec, SuccessMeansStored

-----------------------------------------------------------------------------
(* Where no session is replaced, for want of a compaction or of a store that  *)
(* can, the store is the log of TurnLog.                                      *)
NothingReplaced == \A c \in Configs : c.replaces => c.limit = 0 /\ c.budget = 0

Phase == [r \in Runs |-> IF Active(r) THEN "active" ELSE run[r].pc]

NoSaves == conf \in Configs /\ \A r \in Runs : ~SavePoint(r)

(* Only the two saves and the append write a session.                         *)
LEMMA StoreMoves ==
    ASSUME IndInv, NoSaves, NEW r \in Runs, RunStep(r)
    PROVE  \/ Begin(r)
           \/ AppendTurn(r)
           \/ /\ run'[r].pc = "failed"
              /\ store' = store \/ (AppendFails(r) /\ store' = Appended(r))
           \/ /\ store' = store
              /\ run[r].pc \notin Ended \cup {"idle"} /\ run'[r].pc \notin Ended \cup {"idle"}
<1> USE RunFacts DEF IndInv, TypeOK, RunState, At, Ended
<1>1. CASE Begin(r) \/ AppendTurn(r)
  BY <1>1
<1>2. CASE ListFails(r) \/ CompactionFails(r) \/ ModelFails(r) \/ TooManyRounds(r)
           \/ AppendFails(r)
  BY <1>2 DEF ListFails, CompactionFails, ModelFails, TooManyRounds, AppendFails, Fail, Go
<1>3. CASE CompactTokens(r)
  BY <1>3 DEF CompactTokens
<1>4. CASE WithinBudget(r)
  BY <1>4 DEF WithinBudget, Go
<1>5. CASE CompactLimit(r)
  BY <1>5 DEF CompactLimit
<1>6. CASE WithinLimit(r)
  BY <1>6 DEF WithinLimit
<1>7. CASE Save(r) \/ SaveFails(r)
  BY <1>7 DEF Save, SaveFails, NoSaves
<1>8. CASE FinalReply(r)
  BY <1>8 DEF FinalReply
<1>9. CASE \E l \in CallLists : ToolReply(r, l)
  BY <1>9 DEF ToolReply
<1>10. CASE ToolRefused(r)
  BY <1>10 DEF ToolRefused, Observed
<1>11. CASE ToolStarts(r)
  BY <1>11 DEF ToolStarts, Go
<1>12. CASE ToolAnswers(r)
  BY <1>12 DEF ToolAnswers, Observed
<1>13. CASE ToolTimesOut(r)
  BY <1>13 DEF ToolTimesOut, Observed
<1>14. QED
  BY <1>1, <1>2, <1>3, <1>4, <1>5, <1>6, <1>7, <1>8, <1>9, <1>10, <1>11, <1>12, <1>13
     DEF RunStep

(* A step reaches a save only where the store replaces what was compacted.    *)
LEMMA NoSaveStep ==
    ASSUME IndInv, NothingReplaced, NoSaves, NEW r \in Runs, RunStep(r)
    PROVE  run'[r].pc \notin {"saveTokens", "saveLimit"}
<1>1. run'[r].pc \in {"saveTokens", "saveLimit"} => CompactTokens(r) \/ CompactLimit(r)
  <2> SUFFICES ASSUME ~CompactTokens(r), ~CompactLimit(r)
               PROVE  run'[r].pc \notin {"saveTokens", "saveLimit"}
    OBVIOUS
  <2> USE RunFacts DEF IndInv, TypeOK, RunState, At
  <2>1. CASE Begin(r)
    BY <2>1 DEF Begin
  <2>2. CASE ListFails(r) \/ CompactionFails(r) \/ ModelFails(r) \/ TooManyRounds(r)
             \/ AppendFails(r) \/ AppendTurn(r) \/ WithinBudget(r) \/ ToolStarts(r)
    BY <2>2 DEF ListFails, CompactionFails, ModelFails, TooManyRounds, AppendFails,
                AppendTurn, WithinBudget, ToolStarts, Fail, Go
  <2>3. CASE WithinLimit(r)
    BY <2>3 DEF WithinLimit
  <2>4. CASE Save(r) \/ SaveFails(r)
    BY <2>4 DEF Save, SaveFails, NoSaves
  <2>5. CASE FinalReply(r)
    BY <2>5 DEF FinalReply
  <2>6. CASE \E l \in CallLists : ToolReply(r, l)
    BY <2>6 DEF ToolReply
  <2>7. CASE ToolRefused(r) \/ ToolAnswers(r) \/ ToolTimesOut(r)
    BY <2>7 DEF ToolRefused, ToolAnswers, ToolTimesOut, Observed
  <2>8. QED
    BY <2>1, <2>2, <2>3, <2>4, <2>5, <2>6, <2>7 DEF RunStep
<1>2. conf \in Configs /\ conf \in Config
  BY RunFacts DEF NoSaves
<1>3. CASE CompactTokens(r)
  <2>1. ~conf.replaces
    BY <1>2, <1>3 DEF NothingReplaced, CompactTokens, OverBudget
  <2>2. QED
    BY <1>3, <2>1, RunFacts DEF CompactTokens, IndInv, TypeOK, RunState
<1>4. CASE CompactLimit(r)
  <2>1. ~conf.replaces
    BY <1>2, <1>4 DEF NothingReplaced, CompactLimit
  <2>2. QED
    BY <1>4, <2>1, RunFacts DEF CompactLimit, IndInv, TypeOK, RunState
<1>5. QED
  BY <1>1, <1>3, <1>4

LEMMA NeverSaves == ASSUME NothingReplaced PROVE Spec => []NoSaves
<1>1. Init => NoSaves
  BY DEF Init, NoSaves, SavePoint, At
<1>2. ASSUME IndInv, NoSaves, [Next]_vars PROVE NoSaves'
  <2>1. conf' = conf
    BY <1>2 DEF Next, vars, ToolFinishes, RunStep, Begin, ListFails, CompactTokens,
       WithinBudget, CompactLimit, WithinLimit, CompactionFails, Save, SaveFails, ModelFails,
       FinalReply, TooManyRounds, ToolReply, ToolRefused, ToolStarts, ToolAnswers,
       ToolTimesOut, AppendTurn, AppendFails, Fail
  <2>2. ASSUME NEW r \in Runs, RunStep(r) PROVE NoSaves'
    <3>1. \A q \in Runs \ {r} : run'[q] = run[q]
      BY <1>2, <2>2, OneRunMoves
    <3>2. run'[r].pc \notin {"saveTokens", "saveLimit"}
      BY <1>2, <2>2, NoSaveStep
    <3>3. QED
      BY <1>2, <2>1, <3>1, <3>2 DEF NoSaves, SavePoint, At
  <2>3. CASE run' = run
    BY <1>2, <2>1, <2>3 DEF NoSaves, SavePoint, At
  <2>4. QED
    BY <1>2, <2>2, <2>3 DEF Next, ToolFinishes, vars
<1>3. QED
  BY <1>1, <1>2, Inductive, PTL DEF Spec

LEMMA SameTurns == \A ms, r : WholeTurn(ms, r) => Turns!WholeTurn(ms, r)
BY DEF WholeTurn, Paired, AnswersACall, CallsAnswered, UserMessage,
       Turns!WholeTurn, Turns!Paired, Turns!AnswersACall, Turns!CallsAnswered,
       Turns!UserMessage

(* An append extends the log by a whole turn.                                 *)
LEMMA AppendExtends ==
    ASSUME IndInv, TurnInv, NEW r \in Runs, At(r, "append"), store' = Appended(r)
    PROVE  \E s \in Sessions : Turns!Extends(s, r)
<1> DEFINE s == run[r].session
           h == store[s]
           t == Turn(r)
<1>1. /\ t \in Seq(Message) /\ WholeTurn(t, r) /\ store' = [store EXCEPT ![s] = @ \o t]
      /\ store'[s] = h \o t /\ s \in Sessions /\ h \in Seq(Message)
  BY AppendedTurn
<1> HIDE DEF t
<1>2. SubSeq(store'[s], Len(store[s]) + 1, Len(store'[s])) = t
  BY <1>1, BehindSession
<1>3. Turns!WholeTurn(t, r)
  BY <1>1, SameTurns
<1>4. Turns!Extends(s, r)
  BY <1>1, <1>2, <1>3 DEF Turns!Extends
<1>5. QED
  BY <1>1, <1>4

(* How the phase of a run follows from where it goes.                         *)
LEMMA PhaseMoves ==
    ASSUME IndInv, NEW r \in Runs, \A q \in Runs \ {r} : run'[q] = run[q]
    PROVE  Phase' = [Phase EXCEPT ![r] = IF Active(r)' THEN "active" ELSE run'[r].pc]
BY DEF Phase, Active

LEMMA StepsOfTheLog ==
    ASSUME IndInv, TurnInv, NoSaves, [Next]_vars
    PROVE  [Turns!LogNext]_(Turns!logVars)
<1>0. /\ Turns!LogNext <=> \E r \in Runs : Turns!Open(r) \/ Turns!Commit(r) \/ Turns!Abandon(r)
      /\ \A r \in Runs :
            /\ Turns!Open(r) <=> /\ Phase[r] = "idle"
                                 /\ Phase' = [Phase EXCEPT ![r] = "active"]
                                 /\ store' = store
            /\ Turns!Commit(r) <=> /\ Phase[r] = "active"
                                   /\ Phase' = [Phase EXCEPT ![r] = "done"]
                                   /\ \E s \in Sessions : Turns!Extends(s, r)
            /\ Turns!Abandon(r) <=> /\ Phase[r] \in {"idle", "active"}
                                    /\ Phase' = [Phase EXCEPT ![r] = "failed"]
                                    /\ \/ store' = store
                                       \/ \E s \in Sessions : Turns!Extends(s, r)
      /\ store' = store /\ Phase' = Phase => UNCHANGED Turns!logVars
  BY DEF Turns!LogNext, Turns!Open, Turns!Commit, Turns!Abandon, Turns!logVars, Phase
<1>1. ASSUME NEW r \in Runs, RunStep(r) PROVE [Turns!LogNext]_(Turns!logVars)
  <2>1. /\ \A q \in Runs \ {r} : run'[q] = run[q]
        /\ run[r].pc \notin Ended /\ run[r].pc \in Points /\ run'[r].pc \in Points
    BY <1>1, OneRunMoves, NextHolds, RunFacts DEF IndInv, TypeOK, RunState, Next
  <2>2. Phase' = [Phase EXCEPT ![r] = IF Active(r)' THEN "active" ELSE run'[r].pc]
    BY <2>1, PhaseMoves
  <2>3. Phase[r] = IF run[r].pc = "idle" THEN "idle" ELSE "active"
    BY <2>1 DEF Phase, Active, Ended
  <2>4. CASE Begin(r)
    <3>1. run'[r].pc = "tokens" /\ store' = store /\ run[r].pc = "idle"
      BY <2>4, RunFacts DEF Begin, At, IndInv, TypeOK, RunState
    <3>2. Turns!Open(r)
      BY <1>0, <2>2, <2>3, <3>1 DEF Active, Ended
    <3>3. QED
      BY <1>0, <3>2
  <2>5. CASE AppendTurn(r)
    <3>1. run'[r].pc = "done" /\ run[r].pc = "append"
      BY <2>5, Moved DEF AppendTurn, At
    <3>2. \E s \in Sessions : Turns!Extends(s, r)
      BY <2>5, AppendExtends DEF AppendTurn
    <3>3. Turns!Commit(r)
      BY <1>0, <2>2, <2>3, <3>1, <3>2 DEF Active, Ended
    <3>4. QED
      BY <1>0, <3>3
  <2>6. CASE run'[r].pc = "failed"
    <3>1. store' = store \/ \E s \in Sessions : Turns!Extends(s, r)
      <4>1. Begin(r) => run'[r].pc = "tokens"
        BY RunFacts DEF Begin, IndInv, TypeOK, RunState
      <4>2. AppendTurn(r) => run'[r].pc = "done"
        BY Moved DEF AppendTurn
      <4>3. store' = store \/ (AppendFails(r) /\ store' = Appended(r))
        BY <1>1, <2>6, <4>1, <4>2, StoreMoves
      <4>4. QED
        BY <4>3, AppendExtends DEF AppendFails
    <3>2. Turns!Abandon(r)
      BY <1>0, <2>2, <2>3, <2>6, <3>1 DEF Active, Ended
    <3>3. QED
      BY <1>0, <3>2
  <2>7. CASE /\ store' = store
             /\ run[r].pc \notin Ended \cup {"idle"} /\ run'[r].pc \notin Ended \cup {"idle"}
    <3>1. Phase' = Phase
      <4>1. [Phase EXCEPT ![r] = "active"] = Phase
        BY <2>3, <2>7 DEF Phase
      <4>2. QED
        BY <2>2, <2>7, <4>1 DEF Active
    <3>2. QED
      BY <1>0, <2>7, <3>1
  <2>8. QED
    BY <1>1, <2>4, <2>5, <2>6, <2>7, StoreMoves
<1>2. CASE store' = store /\ run' = run
  <2>1. Phase' = Phase
    BY <1>2 DEF Phase, Active
  <2>2. QED
    BY <1>0, <1>2, <2>1
<1>3. QED
  BY <1>1, <1>2 DEF Next, ToolFinishes, vars

(* While no session is replaced by a compacted copy, a session grows by whole *)
(* turns only, one for each run that succeeds, for any number of runs,        *)
(* sessions, rounds and calls, wherever runs fail and tools answer late.      *)
THEOREM AgentKeepsTurnLog == ASSUME NothingReplaced PROVE Spec => ImplementsTurnLog
<1>1. Init => Turns!LogInit
  <2> SUFFICES ASSUME Init PROVE Turns!LogInit
    OBVIOUS
  <2>1. \A r \in Runs : run[r].pc = "idle"
    BY DEF Init
  <2>2. QED
    BY <2>1 DEF Init, Turns!LogInit, Active
<1>2. QED
  BY <1>1, TurnInductive, NeverSaves, StepsOfTheLog, PTL
     DEF Spec, ImplementsTurnLog, Turns!TurnLogSpec

-----------------------------------------------------------------------------
(* Compact forgets nothing and keeps a retained tool result with its call.    *)

(* Where the messages of a concatenation stand.                               *)
LEMMA Concatenated ==
    ASSUME NEW h \in Seq(Message), NEW t \in Seq(Message)
    PROVE  /\ h \o t \in Seq(Message) /\ Len(h \o t) = Len(h) + Len(t)
           /\ Len(h) \in Nat /\ Len(t) \in Nat
           /\ \A i \in 1..Len(h) : (h \o t)[i] = h[i]
           /\ \A i \in 1..Len(t) : (h \o t)[Len(h) + i] = t[i]
OBVIOUS

LEMMA UpTo ==
    ASSUME NEW n \in Nat, NEW cut \in 0..n
    PROVE  cut \in Nat /\ cut <= n /\ 1 \in 1..(n - cut + 1)
OBVIOUS

(* Behind the cut: a message's old and new position.                          *)
LEMMA BehindCut ==
    ASSUME NEW n \in Nat, NEW cut \in Nat, cut <= n
    PROVE  /\ \A j \in 1..n : j > cut =>
                 /\ j - cut \in 1..(n - cut) /\ 1 + (j - cut) = j + (1 - cut)
                 /\ cut + (j - cut) = j /\ 1 + (j - cut) \in 1..(n - cut + 1)
           /\ \A j \in 1..(n - cut + 1) : j # 1 =>
                 /\ j - 1 \in 1..(n - cut) /\ 1 + (j - 1) = j
                 /\ cut + (j - 1) = j + (cut - 1)
                 /\ j + (cut - 1) \in 1..n /\ j + (cut - 1) > cut
OBVIOUS

LEMMA AcrossCut ==
    ASSUME NEW n \in Nat, NEW cut \in Nat, NEW i \in 1..n, i > cut,
           NEW k \in 1..(i - 1), ~(i - k > cut)
    PROVE  /\ i - k \in 1..n /\ cut + 1 - (i - k) \in 1..k
           /\ (i - k) + (cut + 1 - (i - k)) = cut + 1 /\ cut # 0 /\ cut # n
OBVIOUS

(* What Compact returns, where it cuts.                                       *)
LEMMA WhereCompactCuts ==
    ASSUME NEW ms \in Seq(Message), NEW limit \in 1..Len(ms), limit # Len(ms)
    PROVE  LET c == Compact(ms, limit)
               cut == Cut(ms, limit)
           IN  /\ cut \in 0..Len(ms)
               /\ cut = 0 \/ cut = Len(ms) \/ ms[cut + 1].role # "tool"
               /\ c \in Seq(Message) /\ 1 \in DOMAIN c
               /\ c[1] = Summary(SubSeq(ms, 1, cut))
               /\ \A j \in DOMAIN ms : j > cut => /\ j + (1 - cut) \in DOMAIN c
                                                 /\ c[j + (1 - cut)] = ms[j]
               /\ \A j \in DOMAIN c : j # 1 => /\ j + (cut - 1) \in DOMAIN ms
                                               /\ j + (cut - 1) > cut
                                               /\ c[j] = ms[j + (cut - 1)]
<1> DEFINE cut == Cut(ms, limit)
           h == <<Summary(SubSeq(ms, 1, cut))>>
           t == SubSeq(ms, cut + 1, Len(ms))
<1>1. /\ cut \in 0..Len(ms)
      /\ cut = 0 \/ cut = Len(ms) \/ ms[cut + 1].role # "tool"
  BY CutStops
<1>2. Compact(ms, limit) = h \o t
  <2>1. ~(limit <= 0 \/ Len(ms) <= limit)
    OBVIOUS
  <2>2. QED
    BY <2>1, Zenon DEF Compact
<1> HIDE DEF cut
<1>3. SubSeq(ms, 1, cut) \in Seq(Message)
  BY <1>1
<1>4. h \in Seq(Message) /\ Len(h) = 1 /\ h[1] = Summary(SubSeq(ms, 1, cut))
  <2>1. Summary(SubSeq(ms, 1, cut)) \in Message
    BY <1>3, SummaryTyped
  <2> DEFINE m == Summary(SubSeq(ms, 1, cut))
  <2> HIDE DEF m
  <2>2. m \in Message => <<m>> \in Seq(Message) /\ Len(<<m>>) = 1 /\ <<m>>[1] = m
    OBVIOUS
  <2>3. QED
    BY <2>1, <2>2, Zenon DEF m
<1>5. /\ t \in Seq(Message) /\ Len(t) = Len(ms) - cut
      /\ \A i \in 1..(Len(ms) - cut) : t[i] = ms[cut + i]
  BY <1>1, AddedBehind
<1> HIDE DEF h, t
<1>6. /\ h \o t \in Seq(Message) /\ Len(h \o t) = Len(ms) - cut + 1
      /\ DOMAIN (h \o t) = 1..(Len(ms) - cut + 1)
      /\ (h \o t)[1] = h[1] /\ \A i \in 1..(Len(ms) - cut) : (h \o t)[1 + i] = t[i]
  <2> DEFINE c == h \o t
  <2>1. /\ c \in Seq(Message) /\ Len(c) = Len(h) + Len(t)
        /\ \A i \in 1..Len(h) : c[i] = h[i]
        /\ \A i \in 1..Len(t) : c[Len(h) + i] = t[i]
    BY <1>4, <1>5, Concatenated
  <2> HIDE DEF c
  <2>2. Len(ms) \in Nat /\ cut \in Nat /\ cut <= Len(ms)
    BY <1>1
  <2>3. Len(c) = Len(ms) - cut + 1
    BY <1>4, <1>5, <2>1, <2>2
  <2>4. DOMAIN c = 1..(Len(ms) - cut + 1)
    BY <2>1, <2>3
  <2>5. 1 \in 1..Len(h) /\ Len(h) = 1
    BY <1>4
  <2>6. c[1] = h[1] /\ \A i \in 1..(Len(ms) - cut) : c[1 + i] = t[i]
    BY <1>5, <2>1, <2>5, Zenon
  <2>7. QED
    BY <2>1, <2>3, <2>4, <2>6, Zenon DEF c
<1>7. cut \in Nat /\ cut <= Len(ms) /\ Len(ms) \in Nat /\ DOMAIN ms = 1..Len(ms)
  BY <1>1
<1>8. ASSUME NEW j \in DOMAIN ms, j > cut
      PROVE  j + (1 - cut) \in DOMAIN (h \o t) /\ (h \o t)[j + (1 - cut)] = ms[j]
  <2>1. /\ j - cut \in 1..(Len(ms) - cut) /\ 1 + (j - cut) = j + (1 - cut)
        /\ cut + (j - cut) = j /\ 1 + (j - cut) \in 1..(Len(ms) - cut + 1)
    <3>1. j \in 1..Len(ms)
      BY <1>7, Zenon
    <3>2. QED
      BY <1>7, <1>8, <3>1, BehindCut, Zenon
  <2>2. (h \o t)[1 + (j - cut)] = t[j - cut] /\ t[j - cut] = ms[cut + (j - cut)]
    BY <1>5, <1>6, <2>1, Zenon
  <2>3. QED
    BY <1>6, <2>1, <2>2, Zenon
<1>9. ASSUME NEW j \in DOMAIN (h \o t), j # 1
      PROVE  /\ j + (cut - 1) \in DOMAIN ms /\ j + (cut - 1) > cut
             /\ (h \o t)[j] = ms[j + (cut - 1)]
  <2>1. j \in 1..(Len(ms) - cut + 1)
    BY <1>6, Zenon
  <2>2. /\ j - 1 \in 1..(Len(ms) - cut) /\ 1 + (j - 1) = j
        /\ cut + (j - 1) = j + (cut - 1)
        /\ j + (cut - 1) \in DOMAIN ms /\ j + (cut - 1) > cut
    <3>1. /\ j - 1 \in 1..(Len(ms) - cut) /\ 1 + (j - 1) = j
          /\ cut + (j - 1) = j + (cut - 1)
          /\ j + (cut - 1) \in 1..Len(ms) /\ j + (cut - 1) > cut
      BY <1>7, <1>9, <2>1, BehindCut
    <3>2. QED
      BY <1>7, <3>1, Zenon
  <2>3. (h \o t)[1 + (j - 1)] = t[j - 1] /\ t[j - 1] = ms[cut + (j - 1)]
    BY <1>5, <1>6, <2>2, Zenon
  <2>4. QED
    BY <2>2, <2>3, Zenon
<1>10. 1 \in DOMAIN (h \o t)
  <2>1. 1 \in 1..(Len(ms) - cut + 1)
    BY <1>1, <1>7, UpTo, Zenon
  <2>2. QED
    BY <1>6, <2>1, Zenon
<1>11. QED
  BY <1>1, <1>2, <1>4, <1>6, <1>8, <1>9, <1>10, Zenon DEF cut

LEMMA CompactRemembers ==
    ASSUME NEW ms \in Seq(Message), NEW limit \in 1..Len(ms), limit # Len(ms)
    PROVE  Remembered(Compact(ms, limit)) = Remembered(ms)
<1> DEFINE c == Compact(ms, limit)
           cut == Cut(ms, limit)
           old == SubSeq(ms, 1, cut)
<1>1. /\ cut \in 0..Len(ms) /\ 1 \in DOMAIN c /\ c[1] = Summary(old)
      /\ \A j \in DOMAIN ms : j > cut => j + (1 - cut) \in DOMAIN c /\ c[j + (1 - cut)] = ms[j]
      /\ \A j \in DOMAIN c : j # 1 => j + (cut - 1) \in DOMAIN ms /\ c[j] = ms[j + (cut - 1)]
  BY WhereCompactCuts
<1>2. /\ \A j \in DOMAIN old : j \in DOMAIN ms /\ old[j] = ms[j]
      /\ \A j \in DOMAIN ms : j > cut \/ (j \in DOMAIN old /\ old[j] = ms[j])
  <2> HIDE DEF cut
  <2>1. cut \in 0..Len(ms)
    BY <1>1
  <2>2. QED
    BY <2>1
<1> HIDE DEF c, cut, old
<1>3. Covered(c[1]) = Remembered(old)
  BY <1>1 DEF Covered, Summary
<1>4. ASSUME NEW x \in Remembered(ms) PROVE x \in Remembered(c)
  <2>1. PICK i \in DOMAIN ms : x \in Covered(ms[i])
    BY <1>4 DEF Remembered
  <2>2. CASE i > cut
    BY <1>1, <2>1, <2>2, Zenon DEF Remembered
  <2>3. CASE i \in DOMAIN old /\ old[i] = ms[i]
    <3>1. x \in Remembered(old)
      BY <2>1, <2>3, Zenon DEF Remembered
    <3>2. QED
      BY <1>1, <1>3, <3>1, Zenon DEF Remembered
  <2>4. QED
    BY <1>2, <2>2, <2>3
<1>5. ASSUME NEW x \in Remembered(c) PROVE x \in Remembered(ms)
  <2>1. PICK i \in DOMAIN c : x \in Covered(c[i])
    BY <1>5 DEF Remembered
  <2>2. CASE i = 1
    <3>1. PICK j \in DOMAIN old : x \in Covered(old[j])
      BY <1>3, <2>1, <2>2 DEF Remembered
    <3>2. QED
      BY <1>2, <3>1, Zenon DEF Remembered
  <2>3. CASE i # 1
    BY <1>1, <2>1, <2>3, Zenon DEF Remembered
  <2>4. QED
    BY <2>2, <2>3
<1>6. QED
  BY <1>4, <1>5 DEF c

(* Part of a sequence of messages standing elsewhere in another: calls and    *)
(* results that stood in that part go together as before.                     *)
LEMMA ShiftedPairs ==
    ASSUME NEW ms \in Seq(Message), NEW c, NEW d \in Int, NEW lo \in Nat,
           \A j \in DOMAIN ms : j > lo => j + d \in DOMAIN c /\ c[j + d] = ms[j],
           NEW i \in DOMAIN ms, i > lo
    PROVE  /\ CallsAnswered(ms, i) /\ ms[i].role = "assistant" => CallsAnswered(c, i + d)
           /\ \A k \in 1..(i - 1) :
                 (/\ i - k > lo /\ ms[i - k].role = "assistant"
                  /\ k \in DOMAIN ms[i - k].calls /\ ms[i].call = {ms[i - k].calls[k]}
                  /\ i + d - k >= 1)
                     => AnswersACall(c, i + d)
<1>1. DOMAIN ms \subseteq Nat /\ (\A j \in Int : j \in DOMAIN ms <=> 1 <= j /\ j <= Len(ms))
  OBVIOUS
<1>2. i \in Nat /\ c[i + d] = ms[i]
  BY <1>1, Zenon
<1>3. ASSUME CallsAnswered(ms, i), ms[i].role = "assistant" PROVE CallsAnswered(c, i + d)
  <2>1. ms[i] \in Message
    OBVIOUS
  <2>2. DOMAIN ms[i].calls = 1..Len(ms[i].calls) /\ Len(ms[i].calls) \in Nat
    BY <1>3, <2>1, CallsTyped
  <2>3. ASSUME NEW k \in DOMAIN ms[i].calls
        PROVE  /\ i + d + k \in DOMAIN c /\ c[i + d + k].role = "tool"
               /\ c[i + d + k].call = {ms[i].calls[k]}
    <3>1. /\ i + k \in DOMAIN ms /\ ms[i + k].role = "tool"
          /\ ms[i + k].call = {ms[i].calls[k]}
      BY <1>3, Zenon DEF CallsAnswered
    <3>2. k \in Nat /\ k >= 1
      BY <2>2
    <3>3. i + k > lo /\ (i + k) + d = i + d + k
      BY <1>2, <3>2
    <3>4. QED
      BY <3>1, <3>3, Zenon
  <2>4. QED
    BY <1>2, <2>3, Zenon DEF CallsAnswered
<1>4. ASSUME NEW k \in 1..(i - 1), i - k > lo, ms[i - k].role = "assistant",
             k \in DOMAIN ms[i - k].calls, ms[i].call = {ms[i - k].calls[k]}, i + d - k >= 1
      PROVE  AnswersACall(c, i + d)
  <2>1. i - k \in DOMAIN ms
    BY <1>1, <1>2
  <2>2. (i - k) + d = (i + d) - k /\ k \in 1..((i + d) - 1)
    BY <1>2, <1>4
  <2>3. c[(i + d) - k] = ms[i - k]
    BY <1>4, <2>1, <2>2, Zenon
  <2>4. QED
    BY <1>2, <1>4, <2>2, <2>3, Zenon DEF AnswersACall
<1>5. QED
  BY <1>3, <1>4

LEMMA CompactPairs ==
    ASSUME NEW ms \in Seq(Message), NEW limit \in 1..Len(ms), limit # Len(ms), Paired(ms)
    PROVE  Paired(Compact(ms, limit))
<1> DEFINE c == Compact(ms, limit)
           cut == Cut(ms, limit)
           d == 1 - cut
<1>1. /\ cut \in 0..Len(ms) /\ c[1] = Summary(SubSeq(ms, 1, cut))
      /\ \A j \in DOMAIN ms : j > cut => j + d \in DOMAIN c /\ c[j + d] = ms[j]
      /\ \A j \in DOMAIN c : j # 1 => /\ j + (cut - 1) \in DOMAIN ms /\ j + (cut - 1) > cut
                                      /\ c[j] = ms[j + (cut - 1)]
      /\ cut = 0 \/ cut = Len(ms) \/ ms[cut + 1].role # "tool"
  BY WhereCompactCuts
<1>2. DOMAIN ms = 1..Len(ms) /\ Len(ms) \in Nat
  OBVIOUS
<1>3. DOMAIN c \subseteq Nat
  <2>1. c \in Seq(Message)
    BY WhereCompactCuts
  <2> HIDE DEF c
  <2>2. QED
    BY <2>1
<1> HIDE DEF c, cut
<1>4. cut \in Nat /\ cut <= Len(ms)
  <2>1. cut \in 0..Len(ms)
    BY <1>1, Zenon
  <2>2. QED
    BY <1>2, <2>1, UpTo, Zenon
<1>5. c[1].role = "system"
  BY <1>1 DEF Summary
(* The call of a retained result has been retained: between a call and its    *)
(* result there are results only, and the first message retained is none.     *)
<1>6. ASSUME NEW i \in DOMAIN ms, i > cut, NEW k \in 1..(i - 1),
             ms[i - k].role = "assistant", k \in DOMAIN ms[i - k].calls
      PROVE  i - k > cut
  <2> SUFFICES ASSUME ~(i - k > cut) PROVE FALSE
    OBVIOUS
  <2> DEFINE a == i - k
             j == cut + 1 - a
  <2>1. /\ a \in DOMAIN ms /\ j \in 1..k /\ a + j = cut + 1
        /\ cut # 0 /\ cut # Len(ms)
    <3>1. i \in 1..Len(ms)
      BY <1>2, Zenon
    <3>2. /\ i - k \in 1..Len(ms) /\ cut + 1 - (i - k) \in 1..k
          /\ (i - k) + (cut + 1 - (i - k)) = cut + 1 /\ cut # 0 /\ cut # Len(ms)
      BY <1>2, <1>4, <1>6, <3>1, AcrossCut
    <3>3. QED
      BY <1>2, <3>2, Zenon
  <2> HIDE DEF a, j
  <2>2. ms[a].role = "assistant" /\ k \in DOMAIN ms[a].calls /\ ms[a] \in Message
    BY <1>6, <2>1 DEF a
  <2>3. DOMAIN ms[a].calls = 1..Len(ms[a].calls) /\ Len(ms[a].calls) \in Nat
    BY <2>2, CallsTyped
  <2>4. j \in DOMAIN ms[a].calls
    BY <2>1, <2>2, <2>3
  <2>5. ms[a + j].role = "tool"
    BY <2>1, <2>2, <2>4, Zenon DEF Paired, CallsAnswered
  <2>6. QED
    BY <1>1, <2>1, <2>5, Zenon
<1>7. ASSUME NEW j \in DOMAIN c
      PROVE  /\ c[j].role = "tool" => AnswersACall(c, j)
             /\ c[j].role = "assistant" => CallsAnswered(c, j)
  <2>1. CASE j = 1
    BY <1>5, <2>1
  <2>2. CASE j # 1
    <3> DEFINE i == j + (cut - 1)
    <3>1. i \in DOMAIN ms /\ i > cut /\ c[j] = ms[i]
      BY <1>1, <2>2, Zenon
    <3>2. j \in Nat /\ i + d = j /\ d \in Int /\ i \in Nat
      BY <1>3, <1>4, <1>7
    <3> HIDE DEF i, d
    <3>3. c[j].role = "assistant" => CallsAnswered(c, j)
      <4>1. ms[i].role = "assistant" => CallsAnswered(ms, i)
        BY <3>1, Zenon DEF Paired
      <4>2. QED
        BY <1>1, <1>4, <3>1, <3>2, <4>1, ShiftedPairs
    <3>4. ASSUME c[j].role = "tool" PROVE AnswersACall(c, j)
      <4>1. AnswersACall(ms, i)
        BY <3>1, <3>4, Zenon DEF Paired
      <4>2. PICK k \in 1..(i - 1) :
                /\ ms[i - k].role = "assistant" /\ k \in DOMAIN ms[i - k].calls
                /\ ms[i].call = {ms[i - k].calls[k]}
        BY <4>1 DEF AnswersACall
      <4>3. i - k > cut
        BY <1>6, <3>1, <4>2
      <4>4. i + d - k >= 1
        BY <1>4, <3>2, <4>3 DEF d
      <4>5. QED
        BY <1>1, <1>4, <3>1, <3>2, <4>2, <4>3, <4>4, ShiftedPairs
    <3>5. QED
      BY <3>3, <3>4
  <2>3. QED
    BY <2>1, <2>2
<1>8. QED
  BY <1>7 DEF Paired, c

(* The same for a whole sequence, wherever it stands.                         *)
LEMMA PlacedPairs ==
    ASSUME NEW ms \in Seq(Message), Paired(ms), NEW c, NEW d \in Nat,
           \A j \in DOMAIN ms : j + d \in DOMAIN c /\ c[j + d] = ms[j],
           NEW i \in DOMAIN ms
    PROVE  /\ c[i + d].role = "tool" => AnswersACall(c, i + d)
           /\ c[i + d].role = "assistant" => CallsAnswered(c, i + d)
<1>1. i \in Nat /\ i > 0 /\ 0 \in Nat /\ d \in Int /\ c[i + d] = ms[i]
  OBVIOUS
<1>2. \A j \in DOMAIN ms : j > 0 => j + d \in DOMAIN c /\ c[j + d] = ms[j]
  OBVIOUS
<1>3. c[i + d].role = "assistant" => CallsAnswered(c, i + d)
  <2>1. ms[i].role = "assistant" => CallsAnswered(ms, i)
    BY Zenon DEF Paired
  <2>2. QED
    BY <1>1, <1>2, <2>1, ShiftedPairs
<1>4. ASSUME c[i + d].role = "tool" PROVE AnswersACall(c, i + d)
  <2>1. AnswersACall(ms, i)
    BY <1>1, <1>4, Zenon DEF Paired
  <2>2. PICK k \in 1..(i - 1) :
            /\ ms[i - k].role = "assistant" /\ k \in DOMAIN ms[i - k].calls
            /\ ms[i].call = {ms[i - k].calls[k]}
    BY <2>1 DEF AnswersACall
  <2>3. i - k > 0 /\ i + d - k >= 1
    BY <1>1, <2>2
  <2>4. QED
    BY <1>1, <1>2, <2>2, <2>3, ShiftedPairs
<1>5. QED
  BY <1>3, <1>4

LEMMA ConcatPaired ==
    ASSUME NEW h \in Seq(Message), NEW t \in Seq(Message), Paired(h), Paired(t)
    PROVE  Paired(h \o t)
<1> DEFINE c == h \o t
           n == Len(h)
<1>1. /\ n \in Nat /\ 0 \in Nat
      /\ \A j \in DOMAIN h : j + 0 \in DOMAIN c /\ c[j + 0] = h[j]
      /\ \A j \in DOMAIN t : j + n \in DOMAIN c /\ c[j + n] = t[j]
      /\ \A j \in DOMAIN c : (j \in DOMAIN h /\ j + 0 = j)
                              \/ (j - n \in DOMAIN t /\ (j - n) + n = j)
  <2>1. /\ c \in Seq(Message) /\ Len(c) = n + Len(t)
        /\ n \in Nat /\ Len(t) \in Nat
        /\ \A i \in 1..n : c[i] = h[i]
        /\ \A i \in 1..Len(t) : c[n + i] = t[i]
    BY Concatenated
  <2>2. DOMAIN h = 1..n /\ DOMAIN t = 1..Len(t)
    OBVIOUS
  <2> HIDE DEF c, n
  <2>3. DOMAIN c = 1..(n + Len(t))
    BY <2>1
  <2>4. \A j \in DOMAIN h : j + 0 = j /\ j \in DOMAIN c
    BY <2>1, <2>2, <2>3
  <2>5. \A j \in DOMAIN t : j + n = n + j /\ j + n \in DOMAIN c
    BY <2>1, <2>2, <2>3
  <2>6. \A j \in DOMAIN c : (j \in DOMAIN h /\ j + 0 = j)
                              \/ (j - n \in DOMAIN t /\ (j - n) + n = j)
    BY <2>1, <2>2, <2>3
  <2>7. \A j \in DOMAIN h : c[j + 0] = h[j]
    BY <2>1, <2>2, <2>4, Zenon
  <2>8. \A j \in DOMAIN t : c[j + n] = t[j]
    BY <2>1, <2>2, <2>5, Zenon
  <2>9. QED
    BY <2>1, <2>4, <2>5, <2>6, <2>7, <2>8, Zenon
<1> HIDE DEF c, n
<1>2. ASSUME NEW j \in DOMAIN c
      PROVE  /\ c[j].role = "tool" => AnswersACall(c, j)
             /\ c[j].role = "assistant" => CallsAnswered(c, j)
  <2>1. CASE j \in DOMAIN h /\ j + 0 = j
    <3>1. /\ c[j + 0].role = "tool" => AnswersACall(c, j + 0)
          /\ c[j + 0].role = "assistant" => CallsAnswered(c, j + 0)
      BY <1>1, <2>1, PlacedPairs
    <3>2. QED
      BY <2>1, <3>1, Zenon
  <2>2. CASE j - n \in DOMAIN t /\ (j - n) + n = j
    <3>1. PICK i \in DOMAIN t : i + n = j
      BY <2>2, Zenon
    <3>2. /\ c[i + n].role = "tool" => AnswersACall(c, i + n)
          /\ c[i + n].role = "assistant" => CallsAnswered(c, i + n)
      BY <1>1, PlacedPairs
    <3>3. QED
      BY <3>1, <3>2, Zenon
  <2>3. QED
    BY <1>1, <1>2, <2>1, <2>2, Zenon
<1>3. QED
  BY <1>2 DEF Paired, c


-----------------------------------------------------------------------------
(* A session, and the history a run took from it, begins with a summary or    *)
(* pairs every call with its result.                                          *)
Sound(ms) == HasSummary(ms) \/ Paired(ms)

History(x) == SubSeq(x.transcript, 1, x.start)

HistoryInv ==
    /\ \A s \in Sessions : Sound(store[s])
    /\ \A r \in Runs : run[r].pc \in {"tokens", "saveTokens", "limit", "saveLimit"} =>
           Sound(History(run[r]))

LEMMA SummaryFirst ==
    ASSUME NEW s \in Message, s.role = "system", NEW t \in Seq(Message)
    PROVE  HasSummary(<<s>> \o t)
<1> DEFINE h == <<s>>
           c == h \o t
<1>1. h \in Seq(Message) /\ Len(h) = 1 /\ h[1] = s
  OBVIOUS
<1> HIDE DEF h
<1>2. c \in Seq(Message) /\ Len(c) = 1 + Len(t) /\ Len(t) \in Nat
  BY <1>1, Concatenated
<1>3. 1 \in 1..Len(h) /\ \A i \in 1..Len(h) : c[i] = h[i]
  BY <1>1, Concatenated
<1> HIDE DEF c
<1>4. c # <<>> /\ c[1] = s
  BY <1>1, <1>2, <1>3
<1>5. QED
  BY <1>4 DEF HasSummary, c, h

LEMMA SoundBehind ==
    ASSUME NEW h \in Seq(Message), Sound(h), NEW t \in Seq(Message), Paired(t)
    PROVE  Sound(h \o t)
<1>1. CASE Paired(h)
  BY <1>1, ConcatPaired DEF Sound
<1>2. CASE HasSummary(h)
  <2> DEFINE c == h \o t
  <2>1. /\ Len(c) = Len(h) + Len(t) /\ Len(h) \in Nat /\ Len(t) \in Nat /\ c \in Seq(Message)
        /\ \A i \in 1..Len(h) : c[i] = h[i]
    BY Concatenated
  <2> HIDE DEF c
  <2>2. Len(h) >= 1 /\ h[1].role = "system"
    BY <1>2 DEF HasSummary
  <2>3. c # <<>> /\ c[1] = h[1]
    BY <2>1, <2>2
  <2>4. QED
    BY <2>2, <2>3 DEF Sound, HasSummary, c
<1>3. QED
  BY <1>1, <1>2 DEF Sound

LEMMA WholeHistory ==
    ASSUME NEW ms \in Seq(Message)
    PROVE  SubSeq(ms, 1, Len(ms)) = ms
<1> DEFINE c == SubSeq(ms, 1, Len(ms))
<1>1. c \in Seq(Message) /\ Len(c) = Len(ms) /\ \A i \in 1..Len(ms) : c[i] = ms[i]
  OBVIOUS
<1> HIDE DEF c
<1>2. c = ms
  BY <1>1, SameMessages
<1>3. QED
  BY <1>2 DEF c

(* A compaction puts a summary in front or changes nothing.                   *)
LEMMA CompactedHistory ==
    ASSUME NEW ms \in Seq(Message), NEW limit \in Nat \ {0}, Sound(ms)
    PROVE  Sound(CompactHistory(ms, limit))
<1>1. CASE Len(ms) <= limit
  BY <1>1 DEF CompactHistory, Compact
<1>2. CASE Len(ms) > limit /\ HasSummary(ms)
  <2> DEFINE t == SubSeq(ms, Len(ms) - limit + 2, Len(ms))
  <2>1. ms[1] \in Message /\ ms[1].role = "system"
    BY <1>2 DEF HasSummary
  <2>2. t \in Seq(Message)
    BY <1>2
  <2>3. CompactHistory(ms, limit) = <<ms[1]>> \o t
    BY <1>2 DEF CompactHistory
  <2> HIDE DEF t
  <2>4. QED
    BY <2>1, <2>2, <2>3, SummaryFirst DEF Sound
<1>3. CASE Len(ms) > limit /\ ~HasSummary(ms)
  <2>1. limit \in 1..Len(ms) /\ limit # Len(ms)
    BY <1>3
  <2> DEFINE c == Compact(ms, limit)
  <2>2. CompactHistory(ms, limit) = c
    BY <1>3 DEF CompactHistory
  <2>3. c \in Seq(Message) /\ 1 \in DOMAIN c
        /\ c[1] = Summary(SubSeq(ms, 1, Cut(ms, limit)))
    BY <2>1, WhereCompactCuts
  <2> HIDE DEF c
  <2>4. c[1].role = "system"
    BY <2>3 DEF Summary
  <2>5. c # <<>>
    BY <2>3
  <2>6. QED
    BY <2>2, <2>4, <2>5 DEF Sound, HasSummary
<1>4. QED
  BY <1>1, <1>2, <1>3

LEMMA CompactedTokens ==
    ASSUME NEW ms \in Seq(Message), NEW budget, NEW c \in CompactTokenHistory(ms, budget),
           Sound(ms)
    PROVE  Sound(c)
<1>1. CASE HasSummary(ms)
  <2>1. PICK n \in 0..(Len(ms) - 1) : c = WithoutOldest(ms, n)
    BY <1>1 DEF CompactTokenHistory
  <2>2. ms[1] \in Message /\ ms[1].role = "system"
    BY <1>1 DEF HasSummary
  <2> DEFINE t == SubSeq(ms, n + 2, Len(ms))
  <2>3. t \in Seq(Message)
    OBVIOUS
  <2>4. c = <<ms[1]>> \o t
    BY <2>1 DEF WithoutOldest
  <2> HIDE DEF t
  <2>5. QED
    BY <2>2, <2>3, <2>4, SummaryFirst DEF Sound
<1>2. CASE ~HasSummary(ms)
  <2>1. c \in CompactToTokenBudget(ms, budget)
    BY <1>2 DEF CompactTokenHistory
  <2>2. CASE c # ms
    <3> DEFINE s == Summary(SubSeq(ms, 1, Len(ms) - 1))
               t == ms[Len(ms)]
    <3>1. c = <<s, t>>
      BY <2>1, <2>2 DEF CompactToTokenBudget
    <3>2. s.role = "system"
      BY DEF Summary
    <3> HIDE DEF s, t
    <3>3. c # <<>> /\ c[1] = s
      BY <3>1
    <3>4. QED
      BY <3>2, <3>3 DEF Sound, HasSummary
  <2>3. QED
    BY <2>2
<1>3. QED
  BY <1>1, <1>2

(* What a run writes to its session, and where.                               *)
LEMMA StoreWrites ==
    ASSUME NEW r \in Runs, RunStep(r)
    PROVE  \/ store' = store
           \/ SavePoint(r) /\ store' = Replaced(r)
           \/ At(r, "append") /\ store' = Appended(r)
<1>1. CASE Save(r) \/ SaveFails(r)
  BY <1>1 DEF Save, SaveFails
<1>2. CASE AppendTurn(r) \/ AppendFails(r)
  BY <1>2 DEF AppendTurn, AppendFails
<1>3. CASE ~Save(r) /\ ~SaveFails(r) /\ ~AppendTurn(r) /\ ~AppendFails(r)
  BY <1>3 DEF RunStep, Begin, ListFails, CompactTokens, WithinBudget, CompactLimit,
     WithinLimit, CompactionFails, ModelFails, FinalReply, TooManyRounds, ToolReply,
     ToolRefused, ToolStarts, ToolAnswers, ToolTimesOut
<1>4. QED
  BY <1>1, <1>2, <1>3

LEMMA StoreStaysSound ==
    ASSUME IndInv, TurnInv, HistoryInv, NEW r \in Runs, RunStep(r), NEW s \in Sessions
    PROVE  Sound(store'[s])
<1>1. CASE store' = store
  BY <1>1 DEF HistoryInv
<1>2. CASE SavePoint(r) /\ store' = Replaced(r)
  <2>1. Sound(History(run[r]))
    BY <1>2 DEF SavePoint, At, HistoryInv
  <2>2. store' = [store EXCEPT ![run[r].session] = History(run[r])]
    BY <1>2 DEF Replaced, History
  <2> HIDE DEF History
  <2>3. QED
    BY <2>1, <2>2 DEF HistoryInv, IndInv, TypeOK
<1>3. CASE At(r, "append") /\ store' = Appended(r)
  <2> DEFINE q == run[r].session
  <2>1. /\ Turn(r) \in Seq(Message) /\ WholeTurn(Turn(r), r)
        /\ store' = [store EXCEPT ![q] = @ \o Turn(r)]
        /\ q \in Sessions /\ store[q] \in Seq(Message)
    BY <1>3, AppendedTurn
  <2>2. Sound(store[q] \o Turn(r))
    BY <2>1, SoundBehind DEF HistoryInv, WholeTurn
  <2>3. QED
    BY <2>1, <2>2 DEF HistoryInv, IndInv, TypeOK
<1>4. QED
  BY <1>1, <1>2, <1>3, StoreWrites

(* The steps after which a run still works on its history.                    *)
LEMMA HistorySteps ==
    ASSUME IndInv, NEW r \in Runs, RunStep(r),
           run'[r].pc \in {"tokens", "saveTokens", "limit", "saveLimit"}
    PROVE  \/ Begin(r) \/ CompactTokens(r) \/ CompactLimit(r)
           \/ (At(r, "tokens") \/ At(r, "saveTokens")) /\ Go(r, "limit")
<1> USE RunFacts DEF IndInv, TypeOK, RunState, At
<1>1. CASE Begin(r) \/ CompactTokens(r) \/ CompactLimit(r)
  BY <1>1
<1>2. CASE ListFails(r) \/ CompactionFails(r) \/ SaveFails(r) \/ ModelFails(r)
           \/ TooManyRounds(r) \/ AppendFails(r) \/ AppendTurn(r) \/ ToolStarts(r)
  BY <1>2 DEF ListFails, CompactionFails, SaveFails, ModelFails, TooManyRounds,
              AppendFails, AppendTurn, ToolStarts, SavePoint, Fail, Go
<1>3. CASE WithinBudget(r)
  BY <1>3 DEF WithinBudget
<1>4. CASE Save(r)
  BY <1>4 DEF Save, SavePoint, Go
<1>5. CASE WithinLimit(r)
  BY <1>5 DEF WithinLimit
<1>6. CASE FinalReply(r)
  BY <1>6 DEF FinalReply
<1>7. CASE \E l \in CallLists : ToolReply(r, l)
  BY <1>7 DEF ToolReply
<1>8. CASE ToolRefused(r) \/ ToolAnswers(r) \/ ToolTimesOut(r)
  BY <1>8 DEF ToolRefused, ToolAnswers, ToolTimesOut, Observed
<1>9. QED
  BY <1>1, <1>2, <1>3, <1>4, <1>5, <1>6, <1>7, <1>8 DEF RunStep

LEMMA HistoryStaysSound ==
    ASSUME IndInv, TurnInv, HistoryInv, NEW r \in Runs, RunStep(r),
           run'[r].pc \in {"tokens", "saveTokens", "limit", "saveLimit"}
    PROVE  Sound(History(run'[r]))
<1>1. CASE Begin(r)
  <2>1. /\ run'[r].transcript = store[run[r].session]
        /\ run'[r].start = Len(store[run[r].session])
    BY <1>1, RunFacts DEF Begin, IndInv, TypeOK, RunState
  <2>2. store[run[r].session] \in Seq(Message) /\ Sound(store[run[r].session])
    BY RunFacts DEF HistoryInv
  <2>3. QED
    BY <2>1, <2>2, WholeHistory DEF History
<1>2. CASE (At(r, "tokens") \/ At(r, "saveTokens")) /\ Go(r, "limit")
  <2>1. Sound(History(run[r]))
    BY <1>2 DEF At, HistoryInv
  <2>2. History(run'[r]) = History(run[r])
    BY <1>2, Moved DEF History
  <2>3. QED
    BY <2>1, <2>2
<1>3. CASE CompactTokens(r)
  <2>1. PICK c \in CompactTokenHistory(run[r].transcript, InputBudget) :
            run' = [run EXCEPT ![r].pc = IF conf.replaces THEN "saveTokens" ELSE "limit",
                               ![r].transcript = c,
                               ![r].start = Len(c)]
    BY <1>3 DEF CompactTokens
  <2>2. run'[r].transcript = c /\ run'[r].start = Len(c)
    BY <2>1, RunFacts DEF IndInv, TypeOK, RunState
  <2>3. /\ run[r].transcript \in Seq(Message) /\ History(run[r]) = run[r].transcript
        /\ Sound(History(run[r]))
    <3>1. At(r, "tokens")
      BY <1>3 DEF CompactTokens
    <3>2. run[r].start = Len(run[r].transcript)
      BY <3>1 DEF At, TurnInv, TurnAt
    <3>3. Sound(History(run[r]))
      BY <3>1 DEF At, HistoryInv
    <3>4. QED
      BY <3>2, <3>3, RunFacts, WholeHistory DEF History
  <2>4. c \in Seq(Message)
    BY <2>3, CompactTokenHistoryDerives DEF Derived
  <2>5. Sound(c)
    BY <2>3, CompactedTokens
  <2>6. QED
    BY <2>2, <2>4, <2>5, WholeHistory DEF History
<1>4. CASE CompactLimit(r)
  <2> DEFINE c == CompactHistory(run[r].transcript, conf.limit - 1)
             m == UserMessage(r)
  <2>1. conf.limit - 1 \in Nat \ {0}
    BY <1>4, RunFacts DEF CompactLimit, Config
  <2>2. /\ run[r].transcript \in Seq(Message) /\ Sound(run[r].transcript)
    <3>1. At(r, "limit")
      BY <1>4 DEF CompactLimit
    <3>2. run[r].start = Len(run[r].transcript)
      BY <3>1 DEF At, TurnInv, TurnAt
    <3>3. Sound(History(run[r]))
      BY <3>1 DEF At, HistoryInv
    <3>4. QED
      BY <3>2, <3>3, RunFacts, WholeHistory DEF History
  <2>3. c \in Seq(Message) /\ Sound(c)
    BY <2>1, <2>2, CompactHistoryDerives, CompactedHistory DEF Derived
  <2>4. run'[r].transcript = Append(c, m) /\ run'[r].start = Len(c)
    BY <1>4, RunFacts DEF CompactLimit, IndInv, TypeOK, RunState
  <2>5. m \in Message
    <3>1. 0 \in Rounds
      BY TranscriptAssumption DEF Rounds
    <3>2. QED
      BY <3>1, MessagesTyped DEF Message
  <2> HIDE DEF c, m
  <2>6. SubSeq(Append(c, m), 1, Len(c)) = c
    <3> DEFINE p == SubSeq(Append(c, m), 1, Len(c))
    <3>1. p \in Seq(Message) /\ Len(p) = Len(c) /\ \A i \in 1..Len(c) : p[i] = c[i]
      BY <2>3, <2>5
    <3> HIDE DEF p
    <3>2. p = c
      BY <2>3, <3>1, SameMessages
    <3>3. QED
      BY <3>2 DEF p
  <2>7. QED
    BY <2>3, <2>4, <2>6 DEF History
<1>5. QED
  BY <1>1, <1>2, <1>3, <1>4, HistorySteps

LEMMA HistoryInductive == Spec => [](IndInv /\ HistoryInv)
<1>1. Init => HistoryInv
  <2> SUFFICES ASSUME Init PROVE HistoryInv
    OBVIOUS
  <2>1. \A r \in Runs : run[r].pc = "idle"
    BY DEF Init
  <2>2. \A s \in Sessions : store[s] = <<>>
    BY DEF Init
  <2>3. Sound(<<>>)
    BY DEF Sound, Paired
  <2>4. QED
    BY <2>1, <2>2, <2>3 DEF HistoryInv
<1>2. IndInv /\ TurnInv /\ HistoryInv /\ [Next]_vars => HistoryInv'
  <2> SUFFICES ASSUME IndInv, TurnInv, HistoryInv, [Next]_vars PROVE HistoryInv'
    OBVIOUS
  <2>1. ASSUME NEW r \in Runs, RunStep(r) PROVE HistoryInv'
    <3>1. \A s \in Sessions : Sound(store'[s])
      BY <2>1, StoreStaysSound
    <3>2. \A q \in Runs \ {r} : run'[q] = run[q]
      BY <2>1, OneRunMoves
    <3>3. run'[r].pc \in {"tokens", "saveTokens", "limit", "saveLimit"} =>
              Sound(History(run'[r]))
      BY <2>1, HistoryStaysSound
    <3>4. QED
      BY <3>1, <3>2, <3>3 DEF HistoryInv
  <2>2. CASE run' = run /\ store' = store
    BY <2>2 DEF HistoryInv
  <2>3. QED
    BY <2>1, <2>2 DEF Next, ToolFinishes, vars
<1>3. QED
  BY <1>1, <1>2, TurnInductive, PTL DEF Spec

(* Compacting a session that begins with no summary forgets nothing and       *)
(* leaves no retained tool result without its call, at every limit            *)
(* (memory.Compact).                                                          *)
THEOREM CompactionIsSound == Spec => []CompactSound
<1>1. IndInv /\ HistoryInv => CompactSound
  <2> SUFFICES ASSUME IndInv, HistoryInv, NEW s \in Sessions,
                      NEW limit \in 1..Len(store[s]), ~HasSummary(store[s])
               PROVE  /\ Remembered(Compact(store[s], limit)) = Remembered(store[s])
                      /\ Paired(Compact(store[s], limit))
    BY DEF CompactSound
  <2>1. store[s] \in Seq(Message) /\ Paired(store[s])
    BY DEF IndInv, TypeOK, HistoryInv, Sound
  <2>2. CASE limit = Len(store[s])
    BY <2>1, <2>2 DEF Compact
  <2>3. CASE limit # Len(store[s])
    BY <2>1, <2>3, CompactRemembers, CompactPairs
  <2>4. QED
    BY <2>2, <2>3
<1>2. QED
  BY <1>1, HistoryInductive, PTL

-----------------------------------------------------------------------------
(* Token estimates add up message by message.                                *)
LEMMA RolePriced == \A m \in Message : Cost[m.role] \in Nat \ {0}
BY CostAssumption DEF Message, Entry, SummaryEntry

(* The sums of a sequence of numbers exist.                                  *)
LEMMA Sums ==
    ASSUME NEW price \in [Nat -> Nat]
    PROVE  \E f \in [Nat -> Nat] : f[0] = 0 /\ \A n \in Nat : f[n + 1] = f[n] + price[n]
<1> DEFINE step == [p \in Nat \X Nat |-> p[2] + price[p[1]]]
           S == Nat
<1>1. step \in [Nat \X S -> S] /\ 0 \in S
  OBVIOUS
<1>2. \A n, t \in Nat : step[<<n, t>>] = t + price[n]
  OBVIOUS
<1> HIDE DEF step, S
<1>3. PICK f \in [Nat -> S] : Recursive(f, 0, step)
  BY <1>1, Recursion, Zenon
<1>4. QED
  BY <1>2, <1>3 DEF S, Recursive

LEMMA TokensCounted ==
    ASSUME NEW ms \in Seq(Message)
    PROVE  \E g : /\ g[0] = 0
                  /\ \A n \in 0..(Len(ms) - 1) :
                        g[n] \in Nat /\ g[n + 1] = g[n] + Cost[ms[n + 1].role]
                  /\ EstimateTokens(ms) = g[Len(ms)] /\ g[Len(ms)] \in Nat
<1> DEFINE price == [n \in Nat |-> IF n + 1 \in 1..Len(ms) THEN Cost[ms[n + 1].role] ELSE 0]
           Body(t) == [n \in 0..Len(ms) |->
                          IF n = 0 THEN 0 ELSE t[n - 1] + Cost[ms[n].role]]
           total == CHOOSE t : t = Body(t)
<1>1. price \in [Nat -> Nat]
  BY RolePriced
<1>2. \A n \in 1..Len(ms) : price[n - 1] = Cost[ms[n].role]
  <2> TAKE n \in 1..Len(ms)
  <2>1. n - 1 \in Nat /\ (n - 1) + 1 = n
    OBVIOUS
  <2>2. QED
    BY <2>1
<1> HIDE DEF price
<1>3. PICK f \in [Nat -> Nat] : f[0] = 0 /\ \A n \in Nat : f[n + 1] = f[n] + price[n]
  BY <1>1, Sums
<1>4. \A n \in Nat : f[n + 1] = f[n] + price[n]
  BY <1>3
<1> DEFINE r == [n \in 0..Len(ms) |-> f[n]]
<1>5. ASSUME NEW n \in 0..Len(ms)
      PROVE  r[n] = IF n = 0 THEN 0 ELSE r[n - 1] + Cost[ms[n].role]
  <2>1. CASE n = 0
    BY <1>3, <2>1
  <2>2. CASE n # 0
    <3>1. n - 1 \in Nat /\ n - 1 \in 0..Len(ms) /\ (n - 1) + 1 = n /\ n \in 1..Len(ms)
      BY <2>2
    <3>2. f[n] = f[n - 1] + price[n - 1]
      BY <1>4, <3>1
    <3>3. price[n - 1] = Cost[ms[n].role]
      BY <1>2, <3>1
    <3>4. QED
      BY <2>2, <3>1, <3>2, <3>3
  <2>3. QED
    BY <2>1, <2>2
<1>6. r = Body(r)
  <2> HIDE DEF r
  <2>1. DOMAIN r = 0..Len(ms) /\ r = [n \in 0..Len(ms) |-> r[n]]
    BY DEF r
  <2>2. QED
    BY <1>5, <2>1
<1>7. total = Body(total)
  <2> HIDE DEF Body
  <2>1. QED
    BY <1>6
<1>8. EstimateTokens(ms) = total[Len(ms)]
  BY DEF EstimateTokens
<1> HIDE DEF total
<1>9. /\ total[0] = 0
      /\ \A n \in 1..Len(ms) : total[n] = total[n - 1] + Cost[ms[n].role]
  <2>1. \A n \in 0..Len(ms) :
           total[n] = IF n = 0 THEN 0 ELSE total[n - 1] + Cost[ms[n].role]
    BY <1>7
  <2>2. QED
    BY <2>1
<1> DEFINE T == {n \in Nat : n <= Len(ms) => total[n] \in Nat}
<1>10. Nat \subseteq T
  <2>1. 0 \in T
    BY <1>9
  <2>2. ASSUME NEW n \in Nat, n \in T PROVE n + 1 \in T
    <3> SUFFICES ASSUME n + 1 <= Len(ms) PROVE total[n + 1] \in Nat
      OBVIOUS
    <3>1. n + 1 \in 1..Len(ms) /\ (n + 1) - 1 = n /\ ms[n + 1] \in Message
      OBVIOUS
    <3>2. total[n + 1] = total[n] + Cost[ms[n + 1].role] /\ total[n] \in Nat
      BY <1>9, <2>2, <3>1
    <3>3. Cost[ms[n + 1].role] \in Nat
      BY <3>1, RolePriced
    <3>4. \A a, b, c : a \in Nat /\ b \in Nat /\ c = a + b => c \in Nat
      OBVIOUS
    <3>5. QED
      BY <3>2, <3>3, <3>4, Zenon
  <2> HIDE DEF T
  <2>3. QED
    BY <2>1, <2>2, AllNumbers
<1>11. \A n \in 0..(Len(ms) - 1) :
          total[n] \in Nat /\ total[n + 1] = total[n] + Cost[ms[n + 1].role]
  <2> TAKE n \in 0..(Len(ms) - 1)
  <2>1. n + 1 \in 1..Len(ms) /\ (n + 1) - 1 = n /\ n \in Nat /\ n <= Len(ms)
    OBVIOUS
  <2>2. QED
    BY <1>9, <1>10, <2>1
<1>12. total[Len(ms)] \in Nat
  BY <1>10
<1>13. QED
  BY <1>8, <1>9, <1>11, <1>12

LEMMA TokensAppend ==
    ASSUME NEW ms \in Seq(Message), NEW m \in Message
    PROVE  /\ EstimateTokens(ms) \in Nat
           /\ EstimateTokens(Append(ms, m)) = EstimateTokens(ms) + Cost[m.role]
<1> DEFINE c == Append(ms, m)
<1>1. /\ c \in Seq(Message) /\ Len(c) = Len(ms) + 1 /\ c[Len(ms) + 1] = m
      /\ \A i \in 1..Len(ms) : c[i] = ms[i]
      /\ Len(ms) \in Nat
  OBVIOUS
<1> HIDE DEF c
<1>2. PICK g : /\ g[0] = 0
               /\ \A n \in 0..(Len(ms) - 1) :
                     g[n] \in Nat /\ g[n + 1] = g[n] + Cost[ms[n + 1].role]
               /\ EstimateTokens(ms) = g[Len(ms)] /\ g[Len(ms)] \in Nat
  BY TokensCounted
<1>3. PICK h : /\ h[0] = 0
               /\ \A n \in 0..(Len(c) - 1) :
                     h[n] \in Nat /\ h[n + 1] = h[n] + Cost[c[n + 1].role]
               /\ EstimateTokens(c) = h[Len(c)] /\ h[Len(c)] \in Nat
  BY <1>1, TokensCounted
<1> DEFINE T == {n \in Nat : n <= Len(ms) => g[n] = h[n]}
<1>4. Nat \subseteq T
  <2>1. 0 \in T
    BY <1>2, <1>3
  <2>2. ASSUME NEW n \in Nat, n \in T PROVE n + 1 \in T
    <3> SUFFICES ASSUME n + 1 <= Len(ms) PROVE g[n + 1] = h[n + 1]
      OBVIOUS
    <3>1. n \in 0..(Len(ms) - 1) /\ n \in 0..(Len(c) - 1) /\ n + 1 \in 1..Len(ms) /\ n <= Len(ms)
      BY <1>1
    <3>2. g[n] = h[n] /\ c[n + 1] = ms[n + 1]
      BY <1>1, <2>2, <3>1
    <3>3. g[n + 1] = g[n] + Cost[ms[n + 1].role]
      BY <1>2, <3>1
    <3>4. h[n + 1] = h[n] + Cost[c[n + 1].role]
      BY <1>3, <3>1
    <3>5. QED
      BY <3>2, <3>3, <3>4
  <2> HIDE DEF T
  <2>3. QED
    BY <2>1, <2>2, AllNumbers
<1>5. g[Len(ms)] = h[Len(ms)]
  BY <1>1, <1>4
<1>6. h[Len(ms) + 1] = h[Len(ms)] + Cost[m.role]
  <2>1. Len(ms) \in 0..(Len(c) - 1)
    BY <1>1
  <2>2. h[Len(ms) + 1] = h[Len(ms)] + Cost[c[Len(ms) + 1].role]
    BY <1>3, <2>1
  <2>3. QED
    BY <1>1, <2>2
<1>7. QED
  BY <1>1, <1>2, <1>3, <1>5, <1>6 DEF c

(* A history that passes the token stage leaves room for the input, and the   *)
(* prompt made of the two fits.                                              *)
PromptAt(x) ==
    conf.budget > 0 =>
        /\ x.pc \in {"saveTokens", "limit"} =>
              EstimateTokens(x.transcript) + Cost["user"] <= conf.budget
        /\ x.pc = "saveLimit" => conf.limit # 0
        /\ x.pc = "model" /\ x.round = 0 /\ conf.limit = 0 =>
              EstimateTokens(x.transcript) <= conf.budget

PromptInv == \A r \in Runs : PromptAt(run[r])

LEMMA PromptStep ==
    ASSUME PromptInv, conf' = conf, NEW r \in Runs,
           \A q \in Runs \ {r} : run'[q] = run[q], PromptAt(run'[r])
    PROVE  PromptInv'
BY DEF PromptInv, PromptAt

(* The input costs what the budget for the history leaves for it.             *)
LEMMA InputTokens ==
    ASSUME IndInv, NEW r \in Runs
    PROVE  /\ conf.budget \in Nat /\ Cost["user"] \in Nat \ {0}
           /\ EstimateTokens(run[r].transcript) \in Nat
           /\ EstimateTokens(WithInput(r)) =
                 EstimateTokens(run[r].transcript) + Cost["user"]
<1>1. UserMessage(r) \in Message /\ UserMessage(r).role = "user"
  <2>1. 0 \in Rounds
    BY TranscriptAssumption DEF Rounds
  <2>2. QED
    BY <2>1, MessagesTyped DEF Message
<1>2. conf.budget \in Nat /\ run[r].transcript \in Seq(Message)
  BY RunFacts DEF Config
<1>3. QED
  BY <1>1, <1>2, TokensAppend, RolePriced DEF WithInput

LEMMA CompactTokensPrompt ==
    ASSUME IndInv, PromptInv, NEW r \in Runs, CompactTokens(r) PROVE PromptInv'
<1>1. PICK c \in CompactTokenHistory(run[r].transcript, InputBudget) :
          run' = [run EXCEPT ![r].pc = IF conf.replaces THEN "saveTokens" ELSE "limit",
                             ![r].transcript = c,
                             ![r].start = Len(c)]
  BY DEF CompactTokens
<1>2. EstimateTokens(c) <= InputBudget
  BY DEF CompactTokenHistory, CompactToTokenBudget
<1>3. /\ run'[r].pc \in {"saveTokens", "limit"} /\ run'[r].transcript = c
      /\ conf' = conf /\ \A q \in Runs \ {r} : run'[q] = run[q]
  BY <1>1, RunFacts DEF CompactTokens, IndInv, TypeOK, RunState
<1>4. c \in Seq(Message)
  <2>1. Derived(c, run[r].transcript)
    BY RunFacts, CompactTokenHistoryDerives
  <2>2. QED
    BY <2>1 DEF Derived
<1>5. EstimateTokens(c) \in Nat
  BY <1>4, TokensAppend, MessagesTyped, TranscriptAssumption DEF Message, Rounds
<1>6. EstimateTokens(c) + Cost["user"] <= conf.budget
  BY <1>2, <1>5, InputTokens DEF InputBudget
<1>7. QED
  BY <1>3, <1>6, PromptStep DEF PromptAt

LEMMA MovedPrompt ==
    ASSUME IndInv, PromptInv, NEW r \in Runs, NEW p, Go(r, p), conf' = conf,
           \/ p \in {"failed", "done", "await"}
           \/ p = "limit" /\ run[r].pc = "saveTokens"
           \/ p = "limit" /\ run[r].pc = "tokens" /\ ~OverBudget(r)
           \/ p = "model" /\ run[r].pc = "saveLimit"
    PROVE  PromptInv'
<1>1. /\ run'[r].pc = p /\ run'[r].transcript = run[r].transcript
      /\ \A q \in Runs \ {r} : run'[q] = run[q]
  BY Moved
<1>2. PromptAt(run[r])
  BY DEF PromptInv
<1>3. CASE p \in {"failed", "done", "await"}
  BY <1>1, <1>3, PromptStep DEF PromptAt
<1>4. CASE p = "limit" /\ run[r].pc = "saveTokens"
  BY <1>1, <1>2, <1>4, PromptStep DEF PromptAt
<1>5. CASE p = "limit" /\ run[r].pc = "tokens" /\ ~OverBudget(r)
  BY <1>1, <1>5, InputTokens, PromptStep DEF PromptAt, OverBudget
<1>6. CASE p = "model" /\ run[r].pc = "saveLimit"
  BY <1>1, <1>2, <1>6, PromptStep DEF PromptAt
<1>7. QED
  BY <1>3, <1>4, <1>5, <1>6

LEMMA WithinLimitPrompt ==
    ASSUME IndInv, PromptInv, NEW r \in Runs, WithinLimit(r) PROVE PromptInv'
<1>1. /\ run'[r].pc = "model" /\ run'[r].transcript = WithInput(r) /\ conf' = conf
      /\ \A q \in Runs \ {r} : run'[q] = run[q]
  BY RunFacts DEF WithinLimit, IndInv, TypeOK, RunState
<1>2. PromptAt(run[r]) /\ run[r].pc = "limit"
  BY DEF PromptInv, WithinLimit, At
<1>3. QED
  BY <1>1, <1>2, InputTokens, PromptStep DEF PromptAt

LEMMA ObservedPrompt ==
    ASSUME IndInv, PromptInv, NEW r \in Runs, NEW out, run' = Observed(r, out), conf' = conf
    PROVE  PromptInv'
<1>1. /\ run'[r].pc \in {"tool", "model"}
      /\ run'[r].pc = "model" => run'[r].round = run[r].round + 1
      /\ \A q \in Runs \ {r} : run'[q] = run[q]
  BY RunFacts DEF Observed, IndInv, TypeOK, RunState
<1>2. run[r].round \in Nat
  BY RunFacts DEF Rounds
<1>3. QED
  BY <1>1, <1>2, PromptStep DEF PromptAt

LEMMA RunStepPrompt == ASSUME IndInv, PromptInv, NEW r \in Runs, RunStep(r) PROVE PromptInv'
<1>1. CASE Begin(r)
  <2>1. run'[r].pc = "tokens" /\ conf' = conf /\ \A q \in Runs \ {r} : run'[q] = run[q]
    BY <1>1, RunFacts DEF Begin, IndInv, TypeOK, RunState
  <2>2. QED
    BY <2>1, PromptStep DEF PromptAt
<1>2. CASE ListFails(r) \/ CompactionFails(r) \/ SaveFails(r) \/ ModelFails(r)
           \/ TooManyRounds(r) \/ AppendFails(r)
  BY <1>2, MovedPrompt
     DEF ListFails, CompactionFails, SaveFails, ModelFails, TooManyRounds, AppendFails, Fail
<1>3. CASE CompactTokens(r)
  BY <1>3, CompactTokensPrompt
<1>4. CASE WithinBudget(r)
  BY <1>4, MovedPrompt DEF WithinBudget, At
<1>5. CASE CompactLimit(r)
  <2>1. /\ run'[r].pc \in {"saveLimit", "model"} /\ conf' = conf /\ conf.limit > 1
        /\ \A q \in Runs \ {r} : run'[q] = run[q]
    BY <1>5, RunFacts DEF CompactLimit, IndInv, TypeOK, RunState
  <2>2. conf.limit # 0
    BY <2>1
  <2>3. QED
    BY <2>1, <2>2, PromptStep DEF PromptAt
<1>6. CASE WithinLimit(r)
  BY <1>6, WithinLimitPrompt
<1>7. CASE Save(r)
  BY <1>7, MovedPrompt DEF Save, SavePoint, At
<1>8. CASE FinalReply(r) \/ \E l \in CallLists : ToolReply(r, l)
  <2>1. run \in [Runs -> RunState]
    BY DEF IndInv, TypeOK
  <2>2. CASE FinalReply(r)
    <3>1. /\ run'[r].pc = "append" /\ conf' = conf
          /\ \A q \in Runs \ {r} : run'[q] = run[q]
      BY <2>1, <2>2 DEF FinalReply, RunState
    <3>2. QED
      BY <3>1, PromptStep DEF PromptAt
  <2>3. CASE \E l \in CallLists : ToolReply(r, l)
    <3>1. PICK l \in CallLists : ToolReply(r, l)
      BY <2>3
    <3>2. /\ run'[r].pc = "tool" /\ conf' = conf
          /\ \A q \in Runs \ {r} : run'[q] = run[q]
      BY <2>1, <3>1 DEF ToolReply, RunState
    <3>3. QED
      BY <3>2, PromptStep DEF PromptAt
  <2>4. QED
    BY <1>8, <2>2, <2>3
<1>9. CASE ToolRefused(r) \/ ToolAnswers(r) \/ ToolTimesOut(r)
  BY <1>9, ObservedPrompt DEF ToolRefused, ToolAnswers, ToolTimesOut
<1>10. CASE ToolStarts(r)
  BY <1>10, MovedPrompt DEF ToolStarts
<1>11. CASE AppendTurn(r)
  BY <1>11, MovedPrompt DEF AppendTurn
<1>12. QED
  BY <1>1, <1>2, <1>3, <1>4, <1>5, <1>6, <1>7, <1>8, <1>9, <1>10, <1>11 DEF RunStep

(* With a token budget and no message limit the first prompt of a run, its    *)
(* input included, never exceeds the budget (agent.go:155-169).               *)
THEOREM PromptKeepsToBudget == Spec => []FirstPromptFits
<1>1. Init => PromptInv
  <2> SUFFICES ASSUME Init, NEW r \in Runs PROVE PromptAt(run[r])
    BY DEF PromptInv
  <2>1. run[r].pc = "idle"
    BY DEF Init
  <2>2. QED
    BY <2>1 DEF PromptAt
<1>2. IndInv /\ PromptInv /\ [Next]_vars => PromptInv'
  <2> SUFFICES ASSUME IndInv, PromptInv, [Next]_vars PROVE PromptInv'
    OBVIOUS
  <2>1. ASSUME NEW r \in Runs, RunStep(r) PROVE PromptInv'
    BY <2>1, RunStepPrompt
  <2>2. CASE run' = run /\ conf' = conf
    BY <2>2 DEF PromptInv, PromptAt
  <2>3. QED
    BY <2>1, <2>2 DEF Next, ToolFinishes, vars
<1>3. PromptInv => FirstPromptFits
  BY DEF PromptInv, PromptAt, FirstPromptFits, At
<1>4. QED
  BY <1>1, <1>2, <1>3, Inductive, PTL DEF Spec

=============================================================================
