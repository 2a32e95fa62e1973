----------------------------- MODULE Reliability -----------------------------
(***************************************************************************)
(* What internal/reliability offers to whoever admits work: Concurrency, a *)
(* semaphore whose Acquire waits for a slot or for the end of the caller's *)
(* context, and Budget, which charges a tenant's requests, tokens and cost *)
(* to a window that starts anew when it is found to be a minute old.       *)
(*                                                                         *)
(* A caller takes a slot, asks the budget once and gives the slot back.    *)
(* The clock is the wall clock, taken to go forward; a unit of cost is a   *)
(* number.  What was granted, and when, is kept to state what the budget   *)
(* promises.                                                               *)
(***************************************************************************)
EXTENDS Integers, FiniteSets

CONSTANTS
    Callers,
    Tenants,
    TenantOf,   \* whose budget a caller draws on
    Limited,    \* the tenants the budget has a quota for
    Quota,      \* of those; 0 stands for no limit of that kind
    Asks,       \* what a caller may ask for, a number of each of Amounts
    LimitArg,   \* NewConcurrency's limit
    Minute,     \* in ticks
    LastTime    \* the clock stops here (a bound of the model)

Amounts == {"tokens", "cost"}
Charge == [tokens : Nat, cost : Nat]

ASSUME ReliabilityAssumption ==
    /\ IsFiniteSet(Callers)
    /\ TenantOf \in [Callers -> Tenants]
    /\ Limited \subseteq Tenants
    /\ Quota \in [Limited -> [requests : Nat, tokens : Nat, cost : Nat]]
    /\ Asks \subseteq Charge
    /\ LimitArg \in Int /\ Minute \in Nat \ {0} /\ LastTime \in Nat

Limit == IF LimitArg < 1 THEN 1 ELSE LimitArg

VARIABLES
    stage,    \* where each caller stands
    taken,    \* how many slots of the channel are taken
    clock,
    window,   \* Budget.window
    usage,    \* Budget.usage
    granted   \* history: what each caller was granted, a set of at most one

governVars == <<stage, taken, clock, window, usage, granted>>

Unused == [requests |-> 0, tokens |-> 0, cost |-> 0]
Fresh == [t \in Tenants |-> Unused]

Stages == {"new", "waiting", "holding", "allowed", "denied", "left"}

(* The stages of a caller that has a slot. *)
Inside == {"holding", "allowed", "denied"}
Holders == {c \in Callers : stage[c] \in Inside}

(* A slot is taken for every caller inside, and for nobody else: there are   *)
(* never more of them than the limit (a Release pairs with its Acquire).     *)
GovernTypeOK ==
    /\ stage \in [Callers -> Stages]
    /\ taken = Cardinality(Holders) /\ taken <= Limit
    /\ clock \in Nat
    /\ window \in 0..clock
    /\ usage \in [Tenants -> [requests : Nat, tokens : Nat, cost : Nat]]
    /\ granted \in [Callers -> SUBSET [at : Nat, epoch : Nat, charge : Charge]]

GovernInit ==
    /\ stage = [c \in Callers |-> "new"]
    /\ taken = 0
    /\ clock = 0
    /\ window = 0
    /\ usage = Fresh
    /\ granted = [c \in Callers |-> {}]

budget == <<clock, window, usage, granted>>

-----------------------------------------------------------------------------
(* Concurrency *)
Goes(c, to) == stage' = [stage EXCEPT ![c] = to]

Ask(c) ==
    /\ stage[c] = "new"
    /\ Goes(c, "waiting")
    /\ UNCHANGED <<taken, budget>>

(* Variant of Acquire whose channel has room for one more. *)
AcquireOneMore(c) ==
    /\ stage[c] = "waiting"
    /\ taken <= Limit
    /\ taken' = taken + 1
    /\ Goes(c, "holding")
    /\ UNCHANGED budget

Acquire(c) ==
    /\ stage[c] = "waiting"
    /\ taken < Limit
    /\ taken' = taken + 1
    /\ Goes(c, "holding")
    /\ UNCHANGED budget

(* The caller's context ends first, or the select prefers it. *)
GiveUp(c) ==
    /\ stage[c] = "waiting"
    /\ Goes(c, "left")
    /\ UNCHANGED <<taken, budget>>

Release(c) ==
    /\ stage[c] \in Inside
    /\ taken' = IF taken > 0 THEN taken - 1 ELSE 0
    /\ Goes(c, "left")
    /\ UNCHANGED budget

-----------------------------------------------------------------------------
(* Budget.Allow, in one piece under its mutex, which it holds when it reads  *)
(* the clock.  The first call a minute or more after the window has started  *)
(* starts the next one, for all tenants.                                     *)

Expired == clock - window >= Minute

Window == IF Expired THEN clock ELSE window
Usage == IF Expired THEN Fresh ELSE usage

(* Variant of WithinQuota that looks at what was used before the request. *)
WithinQuotaBefore(quota, used, ask) ==
    /\ quota.requests > 0 => used.requests < quota.requests
    /\ \A kind \in Amounts : quota[kind] > 0 => used[kind] <= quota[kind]

(* Variant of WithinQuota that lets one request too many pass. *)
WithinQuotaOrOver(quota, used, ask) ==
    /\ quota.requests > 0 => used.requests <= quota.requests
    /\ \A kind \in Amounts : quota[kind] > 0 => used[kind] + ask[kind] <= quota[kind]

WithinQuota(quota, used, ask) ==
    /\ quota.requests > 0 => used.requests < quota.requests
    /\ \A kind \in Amounts : quota[kind] > 0 => used[kind] + ask[kind] <= quota[kind]

(* A tenant without a quota is not charged. *)
AllowUnlimited(c) ==
    /\ stage[c] = "holding"
    /\ TenantOf[c] \notin Limited
    /\ Goes(c, "allowed")
    /\ window' = Window /\ usage' = Usage
    /\ UNCHANGED <<taken, clock, granted>>

Allow(c) ==
    /\ stage[c] = "holding"
    /\ LET t == TenantOf[c]
       IN  /\ t \in Limited
           /\ \E ask \in Asks :
                 /\ WithinQuota(Quota[t], Usage[t], ask)
                 /\ usage' = [Usage EXCEPT ![t] =
                                 [requests |-> @.requests + 1,
                                  tokens |-> @.tokens + ask.tokens,
                                  cost |-> @.cost + ask.cost]]
                 /\ granted' = [granted EXCEPT ![c] =
                                   {[at |-> clock, epoch |-> Window, charge |-> ask]}]
    /\ window' = Window
    /\ Goes(c, "allowed")
    /\ UNCHANGED <<taken, clock>>

Deny(c) ==
    /\ stage[c] = "holding"
    /\ TenantOf[c] \in Limited
    /\ \E ask \in Asks : ~WithinQuota(Quota[TenantOf[c]], Usage[TenantOf[c]], ask)
    /\ Goes(c, "denied")
    /\ window' = Window /\ usage' = Usage
    /\ UNCHANGED <<taken, clock, granted>>

Tick ==
    /\ clock < LastTime
    /\ clock' = clock + 1
    /\ UNCHANGED <<stage, taken, window, usage, granted>>

GovernStep(c) ==
    \/ Ask(c) \/ Acquire(c) \/ GiveUp(c)
    \/ AllowUnlimited(c) \/ Allow(c) \/ Deny(c)
    \/ Release(c)

GovernNext == Tick \/ \E c \in Callers : GovernStep(c)

GovernSpec == GovernInit /\ [][GovernNext]_governVars

-----------------------------------------------------------------------------
(* The callers of t that were granted something which satisfies P.          *)
InWindow(t, start) ==
    {c \in Callers : TenantOf[c] = t /\ \E g \in granted[c] : g.epoch = start}

InMinute(t, start) ==
    {c \in Callers : TenantOf[c] = t
                     /\ \E g \in granted[c] : start <= g.at /\ g.at < start + Minute}

(* A tenant has no more requests granted than its quota in any window, and   *)
(* no more than twice the quota in any minute: windows start where the first *)
(* call after their predecessor falls, never within a minute of each other,  *)
(* so a minute meets at most two.                                            *)
RequestsBounded ==
    \A t \in Limited : Quota[t].requests > 0 =>
        \A start \in 0..clock :
            /\ Cardinality(InWindow(t, start)) <= Quota[t].requests
            /\ Cardinality(InMinute(t, start)) <= 2 * Quota[t].requests

(* The same of the tokens and of the cost a tenant was granted, counted one  *)
(* by one.                                                                   *)
Charged(c, kind) == (CHOOSE g \in granted[c] : TRUE).charge[kind]

Granted(callers, kind) ==
    Cardinality(UNION {{c} \X (1 .. Charged(c, kind)) : c \in callers})

AmountsBounded ==
    \A t \in Limited, kind \in Amounts : Quota[t][kind] > 0 =>
        \A start \in 0..clock :
            /\ Granted(InWindow(t, start), kind) <= Quota[t][kind]
            /\ Granted(InMinute(t, start), kind) <= 2 * Quota[t][kind]

=============================================================================
