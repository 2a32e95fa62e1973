------------------------------ MODULE FactStore ------------------------------
(***************************************************************************)
(* The long-term facts about users: InMemoryFactStore and FileFactStore    *)
(* (internal/memory/facts.go), with expiry, privacy policy, the write of   *)
(* the file after each change, its failures, and the death and restart of  *)
(* the process.                                                            *)
(*                                                                         *)
(* A call that changes or lists facts holds the mutex to its end, the      *)
(* write of the file included.  The file is replaced by a rename, so it    *)
(* changes as a whole or not at all.  A call whose context is already done *)
(* returns at once and is left out.  A value stands for all that a fact    *)
(* says, its Sensitive flag included; creation and update times are left   *)
(* out.                                                                    *)
(***************************************************************************)
EXTENDS Integers, FiniteSets

CONSTANTS Users, Keys, Values,
          Sensitive,  \* the values whose flag is set
          Expiries,   \* what a caller gives as ExpiresAt: 0 (none) or a time
          Policies,   \* [allowSensitive, ttl], the default TTL in ticks or 0
          Clients, Nobody, Absent,
          LastTime, MaxFaults  \* bounds, the second on failed writes and crashes together

ASSUME FactStoreAssumption ==
  /\ Values # {} /\ Sensitive \subseteq Values /\ Expiries \subseteq Nat
  /\ Policies \subseteq [allowSensitive : BOOLEAN, ttl : Nat]
  /\ Nobody \notin Clients
  /\ Absent \notin [value : Values, expires : Nat]
  /\ LastTime \in Nat /\ MaxFaults \in Nat

Ids  == Users \X Keys
Fact == [value : Values, expires : Nat]

OfUser(u) == {u} \X Keys

(* A call: an Upsert of one fact, a Forget of one or of all of a user, or a *)
(* List of a user's.                                                       *)
Call == [op : {"none", "upsert", "forget", "list"}, ids : SUBSET Ids,
         value : Values, expires : Nat, now : Nat]

NoCall == [op |-> "none", ids |-> {}, value |-> CHOOSE v \in Values : TRUE,
           expires |-> 0, now |-> 0]

VARIABLES persistent, \* whether it is a FileFactStore
          policy, up, clock,
          mem,        \* s.facts
          file,       \* the facts in the file
          holder,     \* who holds the mutex
          dirty,      \* the holder has the file to write
          call,       \* what each client has called and waits for
          acked,      \* what the last acknowledged change left of each fact
          loose,      \* what changes since then made of it that were not acknowledged
          faults

vars == <<persistent, policy, up, clock, mem, file, holder, dirty, call,
          acked, loose, faults>>

Empty == [id \in Ids |-> Absent]

Init ==
  /\ persistent \in BOOLEAN /\ policy \in Policies /\ up = TRUE /\ clock = 1
  /\ mem = Empty /\ file = Empty
  /\ holder = Nobody /\ dirty = FALSE
  /\ call = [c \in Clients |-> NoCall]
  /\ acked = Empty /\ loose = [id \in Ids |-> {}]
  /\ faults = 0

-----------------------------------------------------------------------------
(* Variant of Expired by which a fact outlives its ExpiresAt. *)
ExpiredAfter(f) == f # Absent /\ f.expires # 0 /\ clock > f.expires

Expired(f) == f # Absent /\ f.expires # 0 /\ clock >= f.expires

(* ExpiresAt of an upserted fact: the caller's, else that of the fact it   *)
(* replaces, expired or not, else the policy's.                            *)
Expiry(k, existing) ==
  CASE k.expires # 0 -> k.expires
    [] k.expires = 0 /\ existing # Absent /\ existing.expires # 0 -> existing.expires
    [] OTHER -> IF policy.ttl > 0 THEN k.now + policy.ttl ELSE 0

Allowed(v) == v \in Sensitive => policy.allowSensitive

(* A client calls: Upsert reads the clock before it takes the mutex.       *)
Begin(c) ==
  /\ up /\ call[c] = NoCall
  /\ \/ \E id \in Ids, v \in Values, e \in Expiries :
          call' = [call EXCEPT ![c] = [op |-> "upsert", ids |-> {id}, value |-> v,
                                       expires |-> e, now |-> clock]]
     \/ \E ids \in {{id} : id \in Ids} \union {OfUser(u) : u \in Users} :
          call' = [call EXCEPT ![c].op = "forget", ![c].ids = ids]
     \/ \E u \in Users :
          call' = [call EXCEPT ![c].op = "list", ![c].ids = OfUser(u)]
  /\ UNCHANGED <<persistent, policy, up, clock, mem, file, holder, dirty, acked, loose, faults>>

Enter(c, op) ==
  /\ call[c].op = op /\ holder = Nobody
  /\ holder' = c
  /\ UNCHANGED <<persistent, policy, up, clock, file, acked, faults>>

(* The facts become new(id) for the ids of c's call.                       *)
Change(c, new) ==
  /\ mem' = [id \in Ids |-> IF id \in call[c].ids THEN new[id] ELSE mem[id]]
  /\ loose' = [id \in Ids |-> loose[id] \union IF id \in call[c].ids THEN {new[id]} ELSE {}]
  /\ dirty' = TRUE /\ UNCHANGED call

Upsert(c) ==
  /\ Enter(c, "upsert")
  /\ Allowed(call[c].value)
  /\ Change(c, [id \in Ids |-> [value |-> call[c].value, expires |-> Expiry(call[c], mem[id])]])

(* The policy forbids the fact, or it lacks its user or key.               *)
UpsertRefused(c) ==
  /\ call[c].op = "upsert" /\ holder = Nobody
  /\ call' = [call EXCEPT ![c] = NoCall]
  /\ UNCHANGED <<persistent, policy, up, clock, mem, file, holder, dirty,
                 acked, loose, faults>>

Forget(c) ==
  /\ Enter(c, "forget")
  /\ Change(c, Empty)

(* List drops every expired fact, of any user, and writes the file if it   *)
(* dropped one.                                                            *)
List(c) ==
  /\ Enter(c, "list")
  /\ mem' = [id \in Ids |-> IF Expired(mem[id]) THEN Absent ELSE mem[id]]
  /\ dirty' = (mem' # mem)
  /\ call' = [call EXCEPT ![c].now = clock]
  /\ UNCHANGED loose

(* What the List of c, which holds the mutex, is about to return.          *)
Listed(c) == {id \in call[c].ids : mem[id] # Absent /\ Allowed(mem[id].value)}

Return(c) ==
  /\ holder = c
  /\ call' = [call EXCEPT ![c] = NoCall]
  /\ holder' = Nobody /\ dirty' = FALSE
  /\ UNCHANGED <<persistent, policy, up, clock, mem>>

(* The change is written, if there is a file, and acknowledged.            *)
Commit(c) ==
  /\ Return(c) /\ UNCHANGED faults
  /\ file' = IF persistent /\ dirty THEN mem ELSE file
  /\ IF call[c].op = "list" THEN UNCHANGED <<acked, loose>>
     ELSE /\ acked' = [id \in Ids |-> IF id \in call[c].ids THEN mem[id] ELSE acked[id]]
          /\ loose' = [id \in Ids |-> IF id \in call[c].ids THEN {} ELSE loose[id]]

(* Variant of CommitFails that drops the error. *)
CommitFailsUnseen(c) ==
  /\ Return(c)
  /\ persistent /\ dirty /\ call[c].op # "list"
  /\ acked' = [id \in Ids |-> IF id \in call[c].ids THEN mem[id] ELSE acked[id]]
  /\ loose' = [id \in Ids |-> IF id \in call[c].ids THEN {} ELSE loose[id]]
  /\ UNCHANGED <<file, faults>>

(* Some step before or at the rename fails: the caller gets an error, and  *)
(* memory keeps the change.                                                *)
CommitFails(c) ==
  /\ Return(c)
  /\ persistent /\ dirty
  /\ faults < MaxFaults /\ faults' = faults + 1
  /\ UNCHANGED <<file, acked, loose>>

Crash ==
  /\ persistent /\ up /\ faults < MaxFaults
  /\ up' = FALSE /\ faults' = faults + 1
  /\ mem' = Empty /\ holder' = Nobody /\ dirty' = FALSE
  /\ call' = [c \in Clients |-> NoCall]
  /\ UNCHANGED <<persistent, policy, clock, file, acked, loose>>

(* OpenFileFactStoreWithPolicy, perhaps with another policy.               *)
Reopen ==
  /\ ~up
  /\ up' = TRUE /\ mem' = file /\ policy' \in Policies
  /\ UNCHANGED <<persistent, clock, file, holder, dirty, call, acked, loose, faults>>

Tick ==
  /\ clock < LastTime
  /\ clock' = clock + 1
  /\ UNCHANGED <<persistent, policy, up, mem, file, holder, dirty, call,
                 acked, loose, faults>>

Next ==
  \/ \E c \in Clients :
       \/ Begin(c) \/ Upsert(c) \/ UpsertRefused(c) \/ Forget(c) \/ List(c)
       \/ Commit(c) \/ CommitFails(c)
  \/ Crash \/ Reopen \/ Tick

Spec == Init /\ [][Next]_vars

-----------------------------------------------------------------------------
TypeOK ==
  /\ persistent \in BOOLEAN /\ policy \in Policies /\ up \in BOOLEAN
  /\ clock \in Nat /\ faults \in 0 .. MaxFaults
  /\ mem \in [Ids -> Fact \union {Absent}]
  /\ file \in [Ids -> Fact \union {Absent}]
  /\ holder \in Clients \union {Nobody} /\ dirty \in BOOLEAN
  /\ call \in [Clients -> Call]
  /\ holder # Nobody => up /\ call[holder].op # "none"
  /\ acked \in [Ids -> Fact \union {Absent}]
  /\ loose \in [Ids -> SUBSET (Fact \union {Absent})]

(* What a reader may be shown of a fact at time t.                         *)
Live(f, t) == IF f # Absent /\ (f.expires = 0 \/ t < f.expires) THEN f ELSE Absent

Explained(f, id) ==
  Live(f, clock) \in {Live(g, clock) : g \in {acked[id]} \union loose[id]}

(* An acknowledged Upsert, Forget or ForgetUser stands, in memory, in the  *)
(* file and over restarts, whatever calls fail on other facts: a fact      *)
(* differs from what was last acknowledged of it only by a later change of *)
(* the same fact that failed, or by having expired.                        *)
ChangesStand ==
  \A id \in Ids : /\ up => Explained(mem[id], id)
                  /\ persistent => Explained(file[id], id)

(* A List returns the facts of its user that have not expired when it      *)
(* holds the mutex and that the policy shows: exactly the acknowledged     *)
(* ones, where no later change failed.                                     *)
ListsAcknowledged ==
  \A c \in Clients : (holder = c /\ call[c].op = "list") =>
    \A id \in call[c].ids : loose[id] = {} =>
      (id \in Listed(c) <=> /\ Live(acked[id], call[c].now) # Absent
                            /\ acked[id].value \in Sensitive => policy.allowSensitive)
=============================================================================
