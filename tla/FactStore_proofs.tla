--------------------------- MODULE FactStore_proofs ---------------------------
(***************************************************************************)
(* Proofs about module FactStore: its variables keep their types, what was *)
(* acknowledged stands in memory and in the file, and a List returns it,   *)
(* for any users, keys, clients, policies and bounds.                      *)
(***************************************************************************)
EXTENDS FactStore, TLAPS

Entry == Fact \union {Absent}

USE FactStoreAssumption

-----------------------------------------------------------------------------
(* Types *)

LEMMA NoCallIsACall == NoCall \in Call
BY DEF NoCall, Call

LEMMA ExpiryIsATime ==
  ASSUME policy \in Policies, NEW k \in Call, NEW existing \in Entry
  PROVE  Expiry(k, existing) \in Nat
<1>1. k.expires \in Nat /\ k.now \in Nat
  BY DEF Call
<1>2. policy.ttl \in Nat
  OBVIOUS
<1>3. existing # Absent => existing.expires \in Nat
  BY DEF Entry, Fact
<1>4. CASE k.expires # 0
  BY <1>1, <1>4 DEF Expiry
<1>5. CASE k.expires = 0 /\ existing # Absent /\ existing.expires # 0
  BY <1>3, <1>5 DEF Expiry
<1>6. CASE k.expires = 0 /\ ~(existing # Absent /\ existing.expires # 0)
  BY <1>1, <1>2, <1>6 DEF Expiry
<1>7. QED
  BY <1>4, <1>5, <1>6

LEMMA CallParts ==
  ASSUME NEW k \in Call
  PROVE  /\ k.op \in {"none", "upsert", "forget", "list"}
         /\ k.ids \subseteq Ids /\ k.value \in Values
         /\ k.expires \in Nat /\ k.now \in Nat
BY DEF Call

(* What Upsert makes of a fact is a fact. *)
LEMMA UpsertedIsAFact ==
  ASSUME TypeOK, NEW c \in Clients
  PROVE  [id \in Ids |-> [value |-> call[c].value, expires |-> Expiry(call[c], mem[id])]]
           \in [Ids -> Entry]
<1>1. call[c] \in Call /\ call[c].value \in Values
  BY CallParts DEF TypeOK
<1>2. \A id \in Ids : Expiry(call[c], mem[id]) \in Nat
  BY <1>1, ExpiryIsATime DEF TypeOK, Entry
<1>3. \A id \in Ids :
        [value |-> call[c].value, expires |-> Expiry(call[c], mem[id])] \in Entry
  BY <1>1, <1>2 DEF Fact, Entry
<1>4. QED
  BY <1>3

LEMMA EmptyIsTyped == Empty \in [Ids -> Entry]
BY DEF Empty, Entry

LEMMA ChangeTyped ==
  ASSUME TypeOK, NEW c \in Clients, NEW new \in [Ids -> Entry], Change(c, new)
  PROVE  /\ mem' \in [Ids -> Entry] /\ loose' \in [Ids -> SUBSET Entry]
         /\ dirty' \in BOOLEAN
<1>1. mem \in [Ids -> Entry] /\ loose \in [Ids -> SUBSET Entry]
  BY DEF TypeOK, Entry
<1>2. QED
  BY <1>1 DEF Change

LEMMA InitTyped == Init => TypeOK
<1>1. Empty \in [Ids -> Entry] /\ NoCall \in Call
  BY EmptyIsTyped, NoCallIsACall
<1> SUFFICES ASSUME Init PROVE TypeOK
  OBVIOUS
<1>2. /\ policy \in Policies /\ clock \in Nat /\ faults \in 0 .. MaxFaults
      /\ mem \in [Ids -> Entry] /\ file \in [Ids -> Entry] /\ acked \in [Ids -> Entry]
  BY <1>1 DEF Init
<1>3. call \in [Clients -> Call] /\ loose \in [Ids -> SUBSET Entry]
  BY <1>1 DEF Init
<1>4. persistent \in BOOLEAN /\ up \in BOOLEAN /\ dirty \in BOOLEAN /\ holder = Nobody
  BY DEF Init
<1>5. QED
  BY <1>2, <1>3, <1>4 DEF TypeOK, Entry

LEMMA BeginTyped ==
  ASSUME TypeOK, NEW c \in Clients, Begin(c)
  PROVE  TypeOK'
<1>1. NoCall \in Call /\ NoCall.op = "none"
  BY NoCallIsACall DEF NoCall
<1>2. call[c] \in Call /\ call[c].op = "none"
  BY <1>1 DEF Begin, TypeOK
<1>3. \A ids \in SUBSET Ids, v \in Values, e \in Nat :
        [op |-> "upsert", ids |-> ids, value |-> v, expires |-> e, now |-> clock] \in Call
  BY DEF Call, TypeOK
<1>4. call' \in [Clients -> Call]
  <2>1. CASE \E id \in Ids, v \in Values, e \in Expiries :
               call' = [call EXCEPT ![c] = [op |-> "upsert", ids |-> {id}, value |-> v,
                                            expires |-> e, now |-> clock]]
    BY <1>3, <2>1 DEF TypeOK
  <2>2. ASSUME NEW ids \in SUBSET Ids, NEW op \in {"forget", "list"},
               call' = [call EXCEPT ![c].op = op, ![c].ids = ids]
        PROVE  call' \in [Clients -> Call]
    <3>1. [call[c] EXCEPT !.op = op, !.ids = ids] \in Call
      BY <1>2 DEF Call
    <3>2. call' = [call EXCEPT ![c] = [call[c] EXCEPT !.op = op, !.ids = ids]]
      BY <2>2 DEF TypeOK
    <3>3. QED
      BY <3>1, <3>2 DEF TypeOK
  <2>3. \A u \in Users : OfUser(u) \in SUBSET Ids
    BY DEF OfUser, Ids
  <2>4. {{id} : id \in Ids} \union {OfUser(u) : u \in Users} \subseteq SUBSET Ids
    BY <2>3
  <2>5. CASE \E ids \in {{id} : id \in Ids} \union {OfUser(u) : u \in Users} :
               call' = [call EXCEPT ![c].op = "forget", ![c].ids = ids]
    BY <2>2, <2>4, <2>5
  <2>6. CASE \E u \in Users :
               call' = [call EXCEPT ![c].op = "list", ![c].ids = OfUser(u)]
    BY <2>2, <2>3, <2>6
  <2>7. QED
    BY <2>1, <2>5, <2>6 DEF Begin
<1>5. \A d \in Clients : d # c => call'[d] = call[d]
  BY DEF Begin, TypeOK
<1>6. holder # Nobody => holder # c /\ holder \in Clients
  BY <1>2 DEF TypeOK
<1>7. QED
  BY <1>4, <1>5, <1>6 DEF Begin, TypeOK

(* Upsert, Forget and List, given what they do to memory and to the call. *)
LEMMA EnterTyped ==
  ASSUME TypeOK, NEW c \in Clients, NEW op \in {"upsert", "forget", "list"},
         up, Enter(c, op),
         mem' \in [Ids -> Entry], loose' \in [Ids -> SUBSET Entry], dirty' \in BOOLEAN,
         call' \in [Clients -> Call], call'[c].op = op
  PROVE  TypeOK'
BY DEF Enter, TypeOK, Entry

LEMMA ReturnTyped ==
  ASSUME TypeOK, NEW c \in Clients, Return(c), faults' \in 0 .. MaxFaults,
         file' \in [Ids -> Entry], acked' \in [Ids -> Entry],
         loose' \in [Ids -> SUBSET Entry]
  PROVE  TypeOK'
BY NoCallIsACall DEF Return, TypeOK, Entry

-----------------------------------------------------------------------------
(* The inductive invariant *)

(* A dead process serves nobody, and only a store with a file outlives it. *)
Dead == ~up => /\ persistent
               /\ \A c \in Clients : call[c] = NoCall

(* A change that is to be acknowledged has the file to write. *)
ChangePending == holder # Nobody /\ call[holder].op # "list" => dirty

(* While a List holds the mutex, memory is what the clock it has read      *)
(* leaves of the acknowledged facts.                                       *)
ListPending ==
  holder # Nobody /\ call[holder].op = "list" =>
    \A id \in Ids : loose[id] = {} => mem[id] = Live(acked[id], call[holder].now)

IndInv == TypeOK /\ Dead /\ ChangePending /\ ListPending /\ ChangesStand

LEMMA TypeSteps ==
  ASSUME TypeOK, Dead, [Next]_vars
  PROVE  TypeOK'
<1>1. ASSUME NEW c \in Clients, call[c].op # "none" PROVE up
  <2>1. NoCall.op = "none"
    BY DEF NoCall
  <2>2. QED
    BY <1>1, <2>1 DEF Dead
<1>2. ASSUME NEW c \in Clients, Upsert(c) PROVE TypeOK'
  <2>1. call[c].op = "upsert" /\ up
    BY <1>1, <1>2 DEF Upsert, Enter
  <2>2. call' = call
    BY <1>2 DEF Upsert, Change
  <2>3. /\ mem' \in [Ids -> Entry] /\ loose' \in [Ids -> SUBSET Entry]
        /\ dirty' \in BOOLEAN
    BY <1>2, UpsertedIsAFact, ChangeTyped DEF Upsert
  <2>4. Enter(c, "upsert") /\ call' \in [Clients -> Call]
    BY <1>2, <2>2 DEF Upsert, TypeOK
  <2>5. QED
    BY <2>1, <2>2, <2>3, <2>4, EnterTyped
<1>3. ASSUME NEW c \in Clients, Forget(c) PROVE TypeOK'
  <2>1. call[c].op = "forget" /\ up
    BY <1>1, <1>3 DEF Forget, Enter
  <2>2. call' = call
    BY <1>3 DEF Forget, Change
  <2>3. /\ mem' \in [Ids -> Entry] /\ loose' \in [Ids -> SUBSET Entry]
        /\ dirty' \in BOOLEAN
    BY <1>3, EmptyIsTyped, ChangeTyped DEF Forget
  <2>4. Enter(c, "forget") /\ call' \in [Clients -> Call]
    BY <1>3, <2>2 DEF Forget, TypeOK
  <2>5. QED
    BY <2>1, <2>2, <2>3, <2>4, EnterTyped
<1>4. ASSUME NEW c \in Clients, List(c) PROVE TypeOK'
  <2>1. Enter(c, "list") /\ call[c].op = "list" /\ up
    BY <1>1, <1>4 DEF List, Enter
  <2>2. mem' \in [Ids -> Entry]
    BY <1>4 DEF List, TypeOK, Entry
  <2>3. loose' \in [Ids -> SUBSET Entry] /\ dirty' \in BOOLEAN
    BY <1>4 DEF List, TypeOK, Entry
  <2>4. [call[c] EXCEPT !.now = clock] \in Call
    BY DEF TypeOK, Call
  <2>5. call' = [call EXCEPT ![c] = [call[c] EXCEPT !.now = clock]]
    BY <1>4 DEF List, TypeOK
  <2>6. call' \in [Clients -> Call] /\ call'[c].op = "list"
    BY <2>1, <2>4, <2>5 DEF TypeOK, Call
  <2>7. QED
    BY <2>1, <2>2, <2>3, <2>6, EnterTyped
<1>5. ASSUME NEW c \in Clients, Commit(c) PROVE TypeOK'
  <2>1. file' \in [Ids -> Entry]
    BY <1>5 DEF Commit, TypeOK, Entry
  <2>2. acked' \in [Ids -> Entry] /\ loose' \in [Ids -> SUBSET Entry]
    BY <1>5 DEF Commit, TypeOK, Entry
  <2>3. Return(c) /\ faults' \in 0 .. MaxFaults
    BY <1>5 DEF Commit, TypeOK
  <2>4. QED
    BY <2>1, <2>2, <2>3, ReturnTyped
<1>6. ASSUME NEW c \in Clients, CommitFails(c) PROVE TypeOK'
  <2>1. file' \in [Ids -> Entry] /\ acked' \in [Ids -> Entry] /\ loose' \in [Ids -> SUBSET Entry]
    BY <1>6 DEF CommitFails, TypeOK, Entry
  <2>2. Return(c) /\ faults' \in 0 .. MaxFaults
    BY <1>6 DEF CommitFails, TypeOK
  <2>3. QED
    BY <2>1, <2>2, ReturnTyped
<1>7. ASSUME NEW c \in Clients, UpsertRefused(c) PROVE TypeOK'
  BY <1>7, NoCallIsACall DEF UpsertRefused, TypeOK
<1>8. CASE Crash
  <2>1. mem' \in [Ids -> Entry] /\ call' \in [Clients -> Call]
    BY <1>8, EmptyIsTyped, NoCallIsACall DEF Crash
  <2>2. faults' \in 0 .. MaxFaults
    BY <1>8 DEF Crash, TypeOK
  <2>3. QED
    BY <1>8, <2>1, <2>2 DEF Crash, TypeOK, Entry
<1>9. CASE Reopen
  BY <1>9 DEF Reopen, TypeOK
<1>10. CASE Tick
  BY <1>10 DEF Tick, TypeOK
<1>11. CASE UNCHANGED vars
  BY <1>11 DEF vars, TypeOK
<1>12. QED
  BY <1>2, <1>3, <1>4, <1>5, <1>6, <1>7, <1>8, <1>9, <1>10, <1>11, BeginTyped DEF Next

LEMMA DeadSteps ==
  ASSUME TypeOK, Dead, [Next]_vars
  PROVE  Dead'
<1>1. \A c \in Clients : call[c].op # "none" => up
  <2>1. NoCall.op = "none"
    BY DEF NoCall
  <2>2. QED
    BY <2>1 DEF Dead
<1>2. ASSUME NEW c \in Clients, Upsert(c) \/ Forget(c) \/ List(c) \/ UpsertRefused(c)
      PROVE  up /\ up' = up
  BY <1>1, <1>2 DEF Upsert, Forget, List, UpsertRefused, Enter
<1>3. ASSUME NEW c \in Clients, Begin(c) PROVE up /\ up' = up
  BY <1>3 DEF Begin
<1>4. ASSUME NEW c \in Clients, Commit(c) \/ CommitFails(c) PROVE up /\ up' = up
  <2>1. holder = c /\ up' = up
    BY <1>4 DEF Commit, CommitFails, Return
  <2>2. QED
    BY <2>1 DEF TypeOK
<1>5. CASE Crash
  BY <1>5 DEF Crash, Dead
<1>6. CASE Reopen
  BY <1>6 DEF Reopen, Dead
<1>7. CASE Tick
  BY <1>7 DEF Tick, Dead
<1>8. CASE UNCHANGED vars
  BY <1>8 DEF vars, Dead
<1>9. ASSUME up, up' = up PROVE Dead'
  BY <1>9 DEF Dead
<1>10. QED
  BY <1>2, <1>3, <1>4, <1>5, <1>6, <1>7, <1>8, <1>9 DEF Next

LEMMA PendingSteps ==
  ASSUME TypeOK, Dead, ChangePending, [Next]_vars
  PROVE  ChangePending'
<1>1. NoCall.op = "none"
  BY DEF NoCall
<1>2. ASSUME NEW c \in Clients, Begin(c) PROVE ChangePending'
  <2>1. holder' = holder /\ dirty' = dirty /\ call[c].op = "none"
    BY <1>1, <1>2 DEF Begin
  <2>2. holder # Nobody => call'[holder] = call[holder]
    BY <1>2, <2>1 DEF Begin, TypeOK
  <2>3. QED
    BY <2>1, <2>2 DEF ChangePending
<1>3. ASSUME NEW c \in Clients, Upsert(c) \/ Forget(c) PROVE ChangePending'
  BY <1>3 DEF Upsert, Forget, Change, ChangePending
<1>4. ASSUME NEW c \in Clients, List(c) PROVE ChangePending'
  BY <1>4 DEF List, Enter, ChangePending, TypeOK
<1>5. ASSUME NEW c \in Clients, Commit(c) \/ CommitFails(c) PROVE ChangePending'
  BY <1>5 DEF Commit, CommitFails, Return, ChangePending
<1>6. ASSUME NEW c \in Clients, UpsertRefused(c) PROVE ChangePending'
  BY <1>6 DEF UpsertRefused, ChangePending
<1>7. CASE Crash
  BY <1>7 DEF Crash, ChangePending
<1>8. CASE Reopen \/ Tick \/ UNCHANGED vars
  BY <1>8 DEF Reopen, Tick, vars, ChangePending
<1>9. QED
  BY <1>2, <1>3, <1>4, <1>5, <1>6, <1>7, <1>8 DEF Next

-----------------------------------------------------------------------------
(* What was acknowledged stands *)

(* Two facts that read the same now read the same later. *)
LEMMA LiveLater ==
  ASSUME NEW f \in Entry, NEW g \in Entry, NEW t \in Nat, Live(f, t) = Live(g, t)
  PROVE  Live(f, t + 1) = Live(g, t + 1)
<1>1. \A h \in Entry : h # Absent => h.expires \in Nat
  BY DEF Entry, Fact
<1>2. ASSUME NEW h \in Entry
      PROVE  Live(h, t + 1) = IF Live(h, t) # Absent /\ (h.expires = 0 \/ t + 1 < h.expires)
                              THEN h ELSE Absent
  BY <1>1 DEF Live
<1>3. \A h \in Entry : Live(h, t) \in {h, Absent}
  BY DEF Live
<1>4. CASE Live(f, t) = Absent
  BY <1>2, <1>4
<1>5. CASE Live(f, t) # Absent
  BY <1>3, <1>5
<1>6. QED
  BY <1>4, <1>5

(* What a fact of memory or of the file is made of stays with it as long   *)
(* as the acknowledged fact stays and no change is taken from the others.  *)
LEMMA StaysExplained ==
  ASSUME NEW id \in Ids, NEW f,
         Explained(f, id), clock' = clock,
         acked'[id] = acked[id], loose[id] \subseteq loose'[id]
  PROVE  Live(f, clock') \in {Live(g, clock') : g \in {acked'[id]} \union loose'[id]}
BY DEF Explained

LEMMA StandsAtTick ==
  ASSUME TypeOK, ChangesStand, Tick
  PROVE  ChangesStand'
<1>1. clock \in Nat /\ clock' = clock + 1
  BY DEF TypeOK, Tick
<1>2. ASSUME NEW id \in Ids, NEW f \in Entry, Explained(f, id)
      PROVE  Live(f, clock + 1) \in {Live(g, clock + 1) : g \in {acked[id]} \union loose[id]}
  <2>1. PICK g \in {acked[id]} \union loose[id] : Live(f, clock) = Live(g, clock)
    BY <1>2 DEF Explained
  <2>2. g \in Entry
    BY <2>1 DEF TypeOK, Entry
  <2>3. Live(f, clock + 1) = Live(g, clock + 1)
    BY <1>1, <2>1, <2>2, LiveLater
  <2>4. QED
    BY <2>1, <2>3
<1>3. \A id \in Ids : mem[id] \in Entry /\ file[id] \in Entry
  BY DEF TypeOK, Entry
<1>4. QED
  BY <1>1, <1>2, <1>3 DEF ChangesStand, Explained, Tick

LEMMA StandsAtChange ==
  ASSUME TypeOK, ChangesStand, NEW c \in Clients, NEW new, Change(c, new),
         UNCHANGED <<persistent, up, clock, file, acked>>
  PROVE  ChangesStand'
<1>1. ASSUME NEW id \in Ids
      PROVE  acked'[id] = acked[id] /\ loose[id] \subseteq loose'[id]
  BY DEF Change
<1>2. ASSUME NEW id \in Ids, up' PROVE Explained(mem[id], id)'
  <2>1. CASE id \in call[c].ids
    <3>1. mem'[id] = new[id] /\ new[id] \in loose'[id]
      BY <2>1 DEF Change
    <3>2. QED
      BY <3>1 DEF Explained
  <2>2. CASE id \notin call[c].ids
    <3>1. mem'[id] = mem[id]
      BY <2>2 DEF Change
    <3>2. Explained(mem[id], id)
      BY <1>2 DEF ChangesStand
    <3>3. QED
      BY <1>1, <3>1, <3>2, StaysExplained DEF Explained
  <2>3. QED
    BY <2>1, <2>2
<1>3. ASSUME NEW id \in Ids, persistent' PROVE Explained(file[id], id)'
  <2>1. Explained(file[id], id) /\ file'[id] = file[id]
    BY <1>3 DEF ChangesStand
  <2>2. QED
    BY <1>1, <2>1, StaysExplained DEF Explained
<1>4. QED
  BY <1>2, <1>3 DEF ChangesStand

LEMMA StandsAtList ==
  ASSUME TypeOK, ChangesStand, NEW c \in Clients, List(c)
  PROVE  ChangesStand'
<1>1. UNCHANGED <<persistent, up, clock, file, acked, loose>>
  BY DEF List, Enter
<1>2. ASSUME NEW id \in Ids PROVE Live(mem'[id], clock) = Live(mem[id], clock)
  <2>1. mem[id] \in Entry /\ clock \in Nat
    BY DEF TypeOK, Entry
  <2>2. mem[id] # Absent => mem[id].expires \in Nat
    BY <2>1 DEF Entry, Fact
  <2>3. mem'[id] = IF Expired(mem[id]) THEN Absent ELSE mem[id]
    BY DEF List
  <2>4. QED
    BY <2>1, <2>2, <2>3 DEF Live, Expired
<1>3. QED
  BY <1>1, <1>2 DEF ChangesStand, Explained

(* A successful write: the facts of the call are acknowledged as they are  *)
(* in memory; the file, if there is one and something was changed, becomes *)
(* what memory is.                                                         *)
LEMMA StandsAtCommit ==
  ASSUME TypeOK, ChangePending, ChangesStand, NEW c \in Clients, Commit(c)
  PROVE  ChangesStand'
<1>1. /\ holder = c /\ holder # Nobody /\ up
      /\ UNCHANGED <<persistent, up, clock, mem>>
  BY DEF Commit, Return, TypeOK
<1>2. \A id \in Ids : Explained(mem[id], id)
  BY <1>1 DEF ChangesStand
<1>3. \A id \in Ids : file'[id] = mem[id] \/ file'[id] = file[id]
  BY DEF Commit
<1>4. CASE call[c].op = "list"
  <2>1. UNCHANGED <<acked, loose>>
    BY <1>4 DEF Commit
  <2>2. QED
    BY <1>1, <1>2, <1>3, <2>1 DEF ChangesStand, Explained
<1>5. CASE call[c].op # "list"
  <2>1. dirty
    BY <1>1, <1>5 DEF ChangePending
  <2>2. persistent => \A id \in Ids : file'[id] = mem[id]
    BY <2>1 DEF Commit
  <2>3. ASSUME NEW id \in Ids PROVE Explained(mem[id], id)'
    <3>1. CASE id \in call[c].ids
      <4>1. acked'[id] = mem[id]
        BY <1>5, <3>1 DEF Commit
      <4>2. QED
        BY <1>1, <4>1 DEF Explained
    <3>2. CASE id \notin call[c].ids
      <4>1. acked'[id] = acked[id] /\ loose'[id] = loose[id]
        BY <1>5, <3>2 DEF Commit
      <4>2. QED
        BY <1>1, <1>2, <4>1 DEF Explained
    <3>3. QED
      BY <3>1, <3>2
  <2>4. QED
    BY <1>1, <2>2, <2>3 DEF ChangesStand, Explained
<1>6. QED
  BY <1>4, <1>5

LEMMA StandsSteps ==
  ASSUME TypeOK, Dead, ChangePending, ChangesStand, [Next]_vars
  PROVE  ChangesStand'
<1>1. ASSUME UNCHANGED <<persistent, up, clock, mem, file, acked, loose>>
      PROVE  ChangesStand'
  BY <1>1 DEF ChangesStand, Explained
<1>2. ASSUME NEW c \in Clients, Begin(c) \/ UpsertRefused(c) \/ CommitFails(c)
      PROVE  ChangesStand'
  BY <1>1, <1>2 DEF Begin, UpsertRefused, CommitFails, Return
<1>3. ASSUME NEW c \in Clients, Upsert(c) PROVE ChangesStand'
  BY <1>3, StandsAtChange DEF Upsert, Enter
<1>4. ASSUME NEW c \in Clients, Forget(c) PROVE ChangesStand'
  BY <1>4, StandsAtChange DEF Forget, Enter
<1>5. CASE Crash
  BY <1>5 DEF Crash, ChangesStand, Explained
<1>6. CASE Reopen
  BY <1>6 DEF Reopen, Dead, ChangesStand, Explained
<1>7. CASE UNCHANGED vars
  BY <1>1, <1>7 DEF vars
<1>8. QED
  BY <1>2, <1>3, <1>4, <1>5, <1>6, <1>7, StandsAtList, StandsAtCommit, StandsAtTick DEF Next

-----------------------------------------------------------------------------
(* What a List is about to return *)

LEMMA ListSteps ==
  ASSUME TypeOK, Dead, ListPending, ChangesStand, [Next]_vars
  PROVE  ListPending'
<1>1. NoCall.op = "none"
  BY DEF NoCall
<1>2. ASSUME UNCHANGED <<mem, acked, loose, holder>>,
             holder # Nobody => call'[holder] = call[holder]
      PROVE  ListPending'
  BY <1>2 DEF ListPending
<1>3. ASSUME NEW c \in Clients, Begin(c) PROVE ListPending'
  <2>1. UNCHANGED <<mem, acked, loose, holder>> /\ call[c].op = "none"
    BY <1>1, <1>3 DEF Begin
  <2>2. holder # Nobody => call'[holder] = call[holder]
    BY <1>3, <2>1 DEF Begin, TypeOK
  <2>3. QED
    BY <1>2, <2>1, <2>2
<1>4. ASSUME NEW c \in Clients, Upsert(c) \/ Forget(c) PROVE ListPending'
  BY <1>4 DEF Upsert, Forget, Enter, Change, ListPending
<1>5. ASSUME NEW c \in Clients, List(c) PROVE ListPending'
  <2>1. call[c].op = "list" /\ up /\ holder' = c /\ UNCHANGED <<acked, loose>>
    <3>1. call[c].op = "list" /\ holder' = c /\ UNCHANGED <<acked, loose>>
      BY <1>5 DEF List, Enter
    <3>2. QED
      BY <1>1, <3>1 DEF Dead
  <2>2. call'[c].now = clock
    <3>1. call[c] \in Call /\ call' = [call EXCEPT ![c] = [call[c] EXCEPT !.now = clock]]
      BY <1>5 DEF List, TypeOK
    <3>2. QED
      BY <3>1 DEF Call, TypeOK
  <2>3. ASSUME NEW id \in Ids, loose[id] = {} PROVE mem'[id] = Live(acked[id], clock)
    <3>1. Live(mem[id], clock) = Live(acked[id], clock)
      BY <2>1, <2>3 DEF ChangesStand, Explained
    <3>2. mem'[id] = IF Expired(mem[id]) THEN Absent ELSE mem[id]
      BY <1>5 DEF List
    <3>3. mem[id] \in Entry /\ clock \in Nat
      BY DEF TypeOK, Entry
    <3>4. mem[id] # Absent => mem[id].expires \in Nat
      BY <3>3 DEF Entry, Fact
    <3>5. QED
      BY <3>1, <3>2, <3>3, <3>4 DEF Live, Expired
  <2>4. QED
    BY <2>1, <2>2, <2>3 DEF ListPending
<1>6. ASSUME NEW c \in Clients, Commit(c) \/ CommitFails(c) PROVE ListPending'
  BY <1>6 DEF Commit, CommitFails, Return, ListPending
<1>7. ASSUME NEW c \in Clients, UpsertRefused(c) PROVE ListPending'
  BY <1>7 DEF UpsertRefused, ListPending
<1>8. CASE Crash
  BY <1>8 DEF Crash, ListPending
<1>9. CASE Reopen
  BY <1>9 DEF Reopen, TypeOK, ListPending
<1>10. CASE Tick \/ UNCHANGED vars
  BY <1>2, <1>10 DEF Tick, vars
<1>11. QED
  BY <1>3, <1>4, <1>5, <1>6, <1>7, <1>8, <1>9, <1>10 DEF Next

LEMMA ListPendingLists ==
  ASSUME TypeOK, ListPending
  PROVE  ListsAcknowledged
<1> SUFFICES ASSUME NEW c \in Clients, holder = c, call[c].op = "list",
                    NEW id \in call[c].ids, loose[id] = {}
             PROVE  id \in Listed(c) <=>
                      /\ Live(acked[id], call[c].now) # Absent
                      /\ acked[id].value \in Sensitive => policy.allowSensitive
  BY DEF ListsAcknowledged
<1>1. id \in Ids
  BY DEF TypeOK, Call
<1>2. mem[id] = Live(acked[id], call[c].now)
  BY <1>1 DEF ListPending
<1>3. Live(acked[id], call[c].now) # Absent => mem[id] = acked[id]
  BY <1>2 DEF Live
<1>4. QED
  BY <1>2, <1>3 DEF Listed, Allowed

-----------------------------------------------------------------------------
LEMMA Inductive == Spec => []IndInv
<1>1. Init => IndInv
  <2> SUFFICES ASSUME Init PROVE IndInv
    OBVIOUS
  <2>1. TypeOK
    BY InitTyped
  <2>2. Dead /\ ChangePending /\ ListPending
    BY DEF Init, Dead, ChangePending, ListPending
  <2>3. \A id \in Ids : mem[id] = acked[id] /\ file[id] = acked[id]
    BY DEF Init
  <2>4. ChangesStand
    BY <2>3 DEF ChangesStand, Explained
  <2>5. QED
    BY <2>1, <2>2, <2>4 DEF IndInv
<1>2. IndInv /\ [Next]_vars => IndInv'
  BY TypeSteps, DeadSteps, PendingSteps, ListSteps, StandsSteps DEF IndInv
<1>3. QED
  BY <1>1, <1>2, PTL DEF Spec

(* The variables keep their types, and whoever holds the mutex is in a     *)
(* call of a living process.                                               *)
THEOREM TypeCorrect == Spec => []TypeOK
<1>1. IndInv => TypeOK
  BY DEF IndInv
<1>2. QED
  BY <1>1, Inductive, PTL

(* What Upsert, Forget and ForgetUser acknowledge stands, in memory and in *)
(* the file, through failed writes of other changes and over restarts.     *)
THEOREM AcknowledgedStands == Spec => []ChangesStand
<1>1. IndInv => ChangesStand
  BY DEF IndInv
<1>2. QED
  BY <1>1, Inductive, PTL

(* A List returns exactly the acknowledged facts that have not expired and *)
(* that the policy shows, where no later change of the fact failed.        *)
THEOREM ListsAreTrue == Spec => []ListsAcknowledged
<1>1. IndInv => ListsAcknowledged
  BY ListPendingLists DEF IndInv
<1>2. QED
  BY <1>1, Inductive, PTL
===============================================================================
